------------------------- MODULE LaterPassesProofs -------------------------
(***************************************************************************)
(* The passes behind Mem2Reg, on every function it may leave (Derived).    *)
(*                                                                         *)
(* LoopInvHoist: HoistInv says where each instruction of the given         *)
(* function is while loops are scanned: in one block, or in need_to_out.   *)
(*                                                                         *)
(* ConstPropagation: PropagationInv says what may be in a block of a       *)
(* function whose lists shrink under the loops over them (Shape): a        *)
(* conditional branch in a block goes to blocks behind it in the list of   *)
(* the given function, so what is removed or merged is still ahead of the  *)
(* loop.  OnceInv adds that an instruction in two blocks of the list has   *)
(* come there by a merge that kept the block merged.  ListsInv says how    *)
(* each block ends: as it did in the given function, or as a block behind  *)
(* it did, so that a branch deleted is never the end a block has.          *)
(***************************************************************************)
EXTENDS ConstPropagation, LoopInvHoist, Mem2RegProofs

\* The folds of the passes.
ScanAt(g, r, i) == Scan(g, r, i)
BeginAt(b, g, i) == AddInstrBegin(g, b, i)

Scanning  == INSTANCE Folding WITH Op <- ScanAt
Beginning == INSTANCE Folding WITH Op <- BeginAt

BeginAll(g, b, s) == FoldLeft(LAMBDA x, i : AddInstrBegin(x, b, i), g, s)

Scans(g, base0, s, n) ==
    \E h : /\ h[0] = base0
           /\ \A k \in 1..n : h[k] = Scan(g, h[k - 1], s[k])
           /\ h[n] = FoldLeft(LAMBDA r, i : Scan(g, r, i), base0, s)

\* The scan of a block by LoopInvHoist.
LEMMA ScanSteps ==
    ASSUME NEW g, NEW base0, NEW s, NEW n \in Nat, DOMAIN s = 1..n
    PROVE  Scans(g, base0, s, n)
<1> DEFINE I == CHOOSE iter : Scanning!IsIter(g, base0, s, n, iter)
           top(t) == CHOOSE x \in t : \A y \in t : x >= y
           J(T) == CHOOSE iter : iter = [t \in SUBSET T |->
                     IF t = {} THEN base0
                     ELSE Scan(g, iter[t \ {top(t)}], s[top(t)])]
<1>1. FoldLeft(LAMBDA r, i : Scan(g, r, i), base0, s) = J(DOMAIN s)[DOMAIN s]
    BY DEF FoldLeft, MapThenFoldSet, Max
<1>2. J(1..n) = I
    BY DEF Scanning!IsIter, Scanning!Top, ScanAt
<1>3. Scanning!IsIter(g, base0, s, n, I)
    BY Scanning!FoldExists, LeastNumber DEF Scanning!HasLeast
<1> HIDE DEF I, J
<1>4. PICK h : Scanning!IsSteps(g, base0, s, n, h) /\ h[n] = I[1..n]
    BY <1>3, Scanning!FoldSteps, LeastNumber DEF Scanning!HasLeast
<1>5. \A k \in 0..n : h[k] = IF k = 0 THEN base0 ELSE Scan(g, h[k - 1], s[k])
    BY <1>4 DEF Scanning!IsSteps, ScanAt
<1>6. 0 \in 0..n /\ \A k \in 1..n : k \in 0..n /\ k # 0
    OBVIOUS
<1>7. h[n] = FoldLeft(LAMBDA r, i : Scan(g, r, i), base0, s)
    BY <1>1, <1>2, <1>4, Zenon
<1>8. h[0] = base0 /\ \A k \in 1..n : h[k] = Scan(g, h[k - 1], s[k])
    BY <1>5, <1>6
<1> QED
    BY <1>7, <1>8 DEF Scans

Begins(b, base0, s, n) ==
    \E h : /\ h[0] = base0
           /\ \A k \in 1..n : h[k] = AddInstrBegin(h[k - 1], b, s[k])
           /\ h[n] = BeginAll(base0, b, s)

\* What LoopInvHoist puts out, one by one.
LEMMA BeginSteps ==
    ASSUME NEW b, NEW base0, NEW s, NEW n \in Nat, DOMAIN s = 1..n
    PROVE  Begins(b, base0, s, n)
<1> DEFINE I == CHOOSE iter : Beginning!IsIter(b, base0, s, n, iter)
           top(t) == CHOOSE x \in t : \A y \in t : x >= y
           J(T) == CHOOSE iter : iter = [t \in SUBSET T |->
                     IF t = {} THEN base0
                     ELSE AddInstrBegin(iter[t \ {top(t)}], b, s[top(t)])]
<1>1. BeginAll(base0, b, s) = J(DOMAIN s)[DOMAIN s]
    BY DEF BeginAll, FoldLeft, MapThenFoldSet, Max
<1>2. J(1..n) = I
    BY DEF Beginning!IsIter, Beginning!Top, BeginAt
<1>3. Beginning!IsIter(b, base0, s, n, I)
    BY Beginning!FoldExists, LeastNumber DEF Beginning!HasLeast
<1> HIDE DEF I, J
<1>4. PICK h : Beginning!IsSteps(b, base0, s, n, h) /\ h[n] = I[1..n]
    BY <1>3, Beginning!FoldSteps, LeastNumber DEF Beginning!HasLeast
<1>5. \A k \in 0..n : h[k] = IF k = 0 THEN base0 ELSE AddInstrBegin(h[k - 1], b, s[k])
    BY <1>4 DEF Beginning!IsSteps, BeginAt
<1>6. 0 \in 0..n /\ \A k \in 1..n : k \in 0..n /\ k # 0
    OBVIOUS
<1>7. h[n] = BeginAll(base0, b, s)
    BY <1>1, <1>2, <1>4, Zenon
<1>8. h[0] = base0 /\ \A k \in 1..n : h[k] = AddInstrBegin(h[k - 1], b, s[k])
    BY <1>5, <1>6
<1> QED
    BY <1>7, <1>8 DEF Begins
-----------------------------------------------------------------------------
(***************************************************************************)
(* Lists.                                                                  *)
(***************************************************************************)
\* A list behind another.
LEMMA Concatenation ==
    ASSUME NEW S, NEW s \in Seq(S), NEW t \in Seq(S)
    PROVE  /\ s \o t \in Seq(S)
           /\ ToSet(s \o t) = ToSet(s) \cup ToSet(t)
           /\ IsInjective(s) /\ IsInjective(t) /\ ToSet(s) \cap ToSet(t) = {}
                => IsInjective(s \o t)
<1> DEFINE u == s \o t
           n == Len(s)
           m == Len(t)
<1>1. n \in Nat /\ m \in Nat /\ DOMAIN s = 1..n /\ DOMAIN t = 1..m
    OBVIOUS
<1>2. /\ u \in Seq(S) /\ DOMAIN u = 1..(n + m)
      /\ \A k \in 1..n : u[k] = s[k]
      /\ \A k \in (n + 1)..(n + m) : u[k] = t[k - n]
    BY <1>1
<1> HIDE DEF u, n, m
<1>3. \A k \in 1..(n + m) : k \in 1..n \/ (k \in (n + 1)..(n + m) /\ k - n \in 1..m)
    BY <1>1
<1>4. /\ \A k \in 1..n : k \in 1..(n + m)
      /\ \A k \in 1..m : k + n \in 1..(n + m) /\ k + n \in (n + 1)..(n + m) /\ k + n - n = k
    BY <1>1
<1>5. ToSet(u) = {u[k] : k \in 1..(n + m)} /\ ToSet(s) = {s[k] : k \in 1..n}
      /\ ToSet(t) = {t[k] : k \in 1..m}
    BY <1>1, <1>2 DEF ToSet
<1>6. \A x \in ToSet(u) : x \in ToSet(s) \cup ToSet(t)
    BY <1>2, <1>3, <1>5
<1>7. \A x \in ToSet(s) : x \in ToSet(u)
    BY <1>2, <1>4, <1>5
<1>8. \A x \in ToSet(t) : x \in ToSet(u)
  <2>1. ASSUME NEW k \in 1..m PROVE u[k + n] = t[k]
    <3>1. k + n \in (n + 1)..(n + m) /\ (k + n) - n = k
        BY <1>1
    <3> QED
        BY <3>1, <1>2
  <2> QED
      BY <2>1, <1>4, <1>5
<1>9. ToSet(u) = ToSet(s) \cup ToSet(t)
    BY <1>6, <1>7, <1>8
<1>10. ASSUME IsInjective(s), IsInjective(t), ToSet(s) \cap ToSet(t) = {}
       PROVE  IsInjective(u)
  <2>0. \A a \in 1..n : \A b \in 1..m : s[a] # t[b]
      BY <1>5, <1>10
  <2>1. /\ \A a, b \in 1..n : s[a] = s[b] => a = b
        /\ \A a, b \in 1..m : t[a] = t[b] => a = b
        /\ \A a \in 1..n : \A b \in 1..m : s[a] # t[b]
      BY <1>1, <1>10, <2>0 DEF IsInjective
  <2>2. \A a, b \in 1..(n + m) : u[a] = u[b] => a = b
    <3> SUFFICES ASSUME NEW a \in 1..(n + m), NEW b \in 1..(n + m), u[a] = u[b]
                 PROVE  a = b
        OBVIOUS
    <3>1. CASE a \in 1..n /\ b \in 1..n
        BY <3>1, <1>2, <2>1
    <3>2. CASE a \in 1..n /\ b \notin 1..n
        BY <3>2, <1>2, <1>3, <2>1
    <3>3. CASE a \notin 1..n /\ b \in 1..n
        BY <3>3, <1>2, <1>3, <2>1
    <3>4. CASE a \notin 1..n /\ b \notin 1..n
      <4>1. a - n = b - n
          BY <3>4, <1>2, <1>3, <2>1
      <4> QED
          BY <4>1, <1>1
    <3> QED
        BY <3>1, <3>2, <3>3, <3>4
  <2> QED
      BY <2>2, <1>2 DEF IsInjective
<1> QED
    BY <1>2, <1>9, <1>10 DEF u

\* A list turned round.
LEMMA Turning ==
    ASSUME NEW S, NEW s \in Seq(S), IsInjective(s)
    PROVE  /\ Reverse(s) \in Seq(S)
           /\ ToSet(Reverse(s)) = ToSet(s)
           /\ IsInjective(Reverse(s))
<1> DEFINE n == Len(s)
           u == Reverse(s)
<1>1. n \in Nat /\ DOMAIN s = 1..n /\ \A k \in 1..n : s[k] \in S
    OBVIOUS
<1>2. u = [k \in 1..n |-> s[(n - k) + 1]]
    BY DEF Reverse
<1> HIDE DEF u, n
<1>3. \A k \in 1..n : (n - k) + 1 \in 1..n /\ (n - ((n - k) + 1)) + 1 = k
    BY <1>1
<1>4. DOMAIN u = 1..n /\ \A k \in 1..n : u[k] = s[(n - k) + 1] /\ s[k] = u[(n - k) + 1]
    BY <1>2, <1>3
<1>5. u \in Seq(S)
  <2>1. u \in [1..n -> S]
      BY <1>1, <1>2, <1>3
  <2> QED
      BY <2>1, <1>1
<1>6. ToSet(u) = {u[k] : k \in 1..n} /\ ToSet(s) = {s[k] : k \in 1..n}
    BY <1>1, <1>4 DEF ToSet
<1>7. (\A x \in ToSet(u) : x \in ToSet(s)) /\ (\A x \in ToSet(s) : x \in ToSet(u))
    BY <1>3, <1>4, <1>6
<1>8. IsInjective(u)
  <2>1. \A a, b \in 1..n : s[a] = s[b] => a = b
      BY <1>1 DEF IsInjective
  <2>2. ASSUME NEW a \in 1..n, NEW b \in 1..n, u[a] = u[b]
        PROVE  a = b
    <3>1. (n - a) + 1 = (n - b) + 1
        BY <2>1, <2>2, <1>3, <1>4
    <3> QED
        BY <3>1, <1>1
  <2> QED
      BY <2>2, <1>4 DEF IsInjective
<1> QED
    BY <1>5, <1>7, <1>8 DEF u
-----------------------------------------------------------------------------
(***************************************************************************)
(* What a pass does to the blocks of a function g whose instructions are   *)
(* in I.                                                                   *)
(***************************************************************************)
HasLists(I, g) == IsFunction(g) /\ g.code \in [Blocks -> Seq(I)]

\* All that is in a block of g, of the function or not.
AllIn(g) == UNION {ToSet(g.code[b]) : b \in Blocks}

SameBlocks(g, r) == r.blocks = g.blocks /\ r.succ = g.succ /\ r.pre = g.pre

\* r is g without the instructions D in block b.
Deleted(I, g, b, D, r) ==
    /\ HasLists(I, r)
    /\ r.op = g.op /\ r.args = g.args /\ r.uses \subseteq g.uses /\ SameBlocks(g, r)
    /\ \A c \in Blocks : c # b => r.code[c] = g.code[c]
    /\ ToSet(r.code[b]) = ToSet(g.code[b]) \ D
    /\ IsInjective(g.code[b]) => IsInjective(r.code[b])

\* DeleteInstr takes an instruction out of its block, and nothing else.
LEMMA DeleteEffect ==
    ASSUME NEW I, NEW g, HasLists(I, g), NEW b \in Blocks, NEW i
    PROVE  Deleted(I, g, b, {i}, DeleteInstr(g, b, i))
<1> DEFINE left == {u \in g.uses : ~(u[2] = i /\ u[1] \in OperandsOf(g, i))}
           code == [g.code EXCEPT ![b] = Without(@, i)]
           r == DeleteInstr(g, b, i)
<1>1. r = [g EXCEPT !.code = code, !.uses = left]
    BY SMTT(30) DEF DeleteInstr, HasLists, IsFunction
<1>2. /\ IsFunction(r) /\ r.code = code /\ r.op = g.op /\ r.args = g.args
      /\ r.blocks = g.blocks /\ r.succ = g.succ /\ r.pre = g.pre /\ r.uses = left
  <2> HIDE DEF left, code, r
  <2> QED
      BY <1>1, SMTT(30) DEF HasLists, IsFunction
<1>3. g.code[b] \in Seq(I) /\ g.code \in [Blocks -> Seq(I)]
    BY DEF HasLists
<1>4. /\ Without(g.code[b], i) \in Seq(I)
      /\ IsInjective(g.code[b]) => IsInjective(Without(g.code[b], i))
      /\ ToSet(Without(g.code[b], i)) = ToSet(g.code[b]) \ {i}
    BY <1>3, WithoutEffect
<1>5. \A c \in Blocks : code[c] = IF c = b THEN Without(g.code[b], i) ELSE g.code[c]
    BY <1>3
<1>6. code \in [Blocks -> Seq(I)] /\ left \subseteq g.uses
    BY <1>3, <1>4
<1> HIDE DEF left, code, r
<1>7. Deleted(I, g, b, {i}, r)
    BY <1>2, <1>4, <1>5, <1>6 DEF Deleted, HasLists, SameBlocks
<1> QED
    BY <1>7 DEF r

\* Deleting a list of instructions takes them all out.
LEMMA DeleteAllEffect ==
    ASSUME NEW I, NEW g, HasLists(I, g), NEW b \in Blocks, NEW s, NEW n \in Nat, DOMAIN s = 1..n
    PROVE  Deleted(I, g, b, ToSet(s), DeleteAll(g, b, s))
<1>1. n \in Nat
    OBVIOUS
<1>2. PICK h : /\ h[0] = g
               /\ \A k \in 1..n : h[k] = DeleteInstr(h[k - 1], b, s[k])
               /\ h[n] = DeleteAll(g, b, s)
  <2>1. Deletes(b, g, s, n)
      BY DeleteSteps
  <2> QED
      BY <2>1 DEF Deletes
<1> DEFINE D(k) == {s[m] : m \in 1..k}
           Good(k) == Deleted(I, g, b, D(k), h[k])
           Z == {k \in 0..n : Good(k)}
<1>3. 0 \in Z
  <2>1. D(0) = {}
      BY <1>1
  <2> HIDE DEF D
  <2>2. Good(0)
      BY <1>2, <2>1 DEF Deleted, SameBlocks
  <2> QED
      BY <1>1, <2>2
<1>4. ASSUME NEW k \in 1..n, k - 1 \in Z PROVE k \in Z
  <2> DEFINE x == h[k - 1]
             i == s[k]
  <2>1. Deleted(I, g, b, D(k - 1), x)
      BY <1>4
  <2>2. D(k) = D(k - 1) \cup {i} /\ k \in 0..n
    <3>1. 1..k = 1..(k - 1) \cup {k} /\ k \in 0..n
        BY <1>1
    <3> QED
        BY <3>1
  <2>3. h[k] = DeleteInstr(x, b, i)
      BY <1>2
  <2> HIDE DEF x, i, D
  <2>4. Deleted(I, x, b, {i}, DeleteInstr(x, b, i))
    <3>1. HasLists(I, x)
        BY <2>1 DEF Deleted
    <3> QED
        BY <3>1, DeleteEffect
  <2>5. Deleted(I, g, b, D(k - 1) \cup {i}, DeleteInstr(x, b, i))
      BY <2>1, <2>4 DEF Deleted, SameBlocks
  <2>6. Good(k)
      BY <2>2, <2>3, <2>5
  <2> QED
      BY <2>2, <2>6
<1>5. Good(n)
  <2> HIDE DEF Good
  <2>1. 0..n \subseteq Z
    <3> HIDE DEF Z
    <3> QED
        BY <1>1, <1>3, <1>4, UpTo
  <2> QED
      BY <1>1, <2>1
<1>6. ToSet(s) = D(n)
    BY DEF ToSet
<1> QED
    BY <1>2, <1>5, <1>6

\* r is g with the instructions D put at the front of block b.
Begun(I, g, b, D, r) ==
    /\ HasLists(I, r)
    /\ r.op = g.op /\ r.args = g.args /\ SameBlocks(g, r)
    /\ \A c \in Blocks : c # b => r.code[c] = g.code[c]
    /\ ToSet(r.code[b]) = ToSet(g.code[b]) \cup D
    /\ IsInjective(r.code[b])

\* AddInstrBegin puts an instruction that was not there into a block.
LEMMA BeginEffect ==
    ASSUME NEW I, NEW g, HasLists(I, g), NEW b \in Blocks, NEW i \in I,
           IsInjective(g.code[b]), i \notin ToSet(g.code[b])
    PROVE  Begun(I, g, b, {i}, AddInstrBegin(g, b, i))
<1> DEFINE code == [g.code EXCEPT ![b] = <<i>> \o @]
           r == AddInstrBegin(g, b, i)
<1>1. r = [g EXCEPT !.code = code]
    BY SMTT(30) DEF AddInstrBegin, HasLists, IsFunction
<1>2. /\ IsFunction(r) /\ r.code = code /\ r.op = g.op /\ r.args = g.args
      /\ r.blocks = g.blocks /\ r.succ = g.succ /\ r.pre = g.pre
  <2> HIDE DEF code, r
  <2> QED
      BY <1>1, SMTT(30) DEF HasLists, IsFunction
<1>3. g.code[b] \in Seq(I) /\ g.code \in [Blocks -> Seq(I)]
    BY DEF HasLists
<1>4. /\ <<i>> \o g.code[b] \in Seq(I)
      /\ IsInjective(<<i>> \o g.code[b])
      /\ ToSet(<<i>> \o g.code[b]) = {i} \cup ToSet(g.code[b])
    BY <1>3, Prepending
<1>5. \A c \in Blocks : code[c] = IF c = b THEN <<i>> \o g.code[b] ELSE g.code[c]
    BY <1>3
<1>6. code \in [Blocks -> Seq(I)]
    BY <1>3, <1>4
<1> HIDE DEF code, r
<1>7. ToSet(r.code[b]) = ToSet(g.code[b]) \cup {i} /\ IsInjective(r.code[b])
    BY <1>2, <1>4, <1>5
<1>8. Begun(I, g, b, {i}, r)
    BY <1>2, <1>5, <1>6, <1>7 DEF Begun, HasLists, SameBlocks
<1> QED
    BY <1>8 DEF r

\* Putting a list in front of a block puts each of its instructions in once.
LEMMA BeginAllEffect ==
    ASSUME NEW I, NEW g, HasLists(I, g), NEW b \in Blocks, NEW s \in Seq(I),
           IsInjective(g.code[b]), IsInjective(s), ToSet(s) \cap ToSet(g.code[b]) = {}
    PROVE  Begun(I, g, b, ToSet(s), BeginAll(g, b, s))
<1> DEFINE n == Len(s)
<1>1. n \in Nat /\ DOMAIN s = 1..n /\ \A k \in 1..n : s[k] \in I
    OBVIOUS
<1> HIDE DEF n
<1>2. PICK h : /\ h[0] = g
               /\ \A k \in 1..n : h[k] = AddInstrBegin(h[k - 1], b, s[k])
               /\ h[n] = BeginAll(g, b, s)
  <2>1. Begins(b, g, s, n)
      BY <1>1, BeginSteps
  <2> QED
      BY <2>1 DEF Begins
<1> DEFINE D(k) == {s[m] : m \in 1..k}
           Good(k) == Begun(I, g, b, D(k), h[k])
           Z == {k \in 0..n : Good(k)}
<1>3. 0 \in Z
  <2>1. D(0) = {}
      BY <1>1
  <2> HIDE DEF D
  <2>2. Good(0)
      BY <1>2, <2>1 DEF Begun, SameBlocks
  <2> QED
      BY <1>1, <2>2
<1>4. ASSUME NEW k \in 1..n, k - 1 \in Z PROVE k \in Z
  <2> DEFINE x == h[k - 1]
             i == s[k]
  <2>1. Begun(I, g, b, D(k - 1), x) /\ i \in I
      BY <1>1, <1>4
  <2>2. D(k) = D(k - 1) \cup {i} /\ k \in 0..n
    <3>1. 1..k = 1..(k - 1) \cup {k} /\ k \in 0..n
        BY <1>1
    <3> QED
        BY <3>1
  <2>3. h[k] = AddInstrBegin(x, b, i)
      BY <1>2
  <2>4. i \notin D(k - 1) /\ i \notin ToSet(g.code[b])
    <3>1. \A m \in 1..(k - 1) : m \in 1..n /\ m # k
        BY <1>1
    <3>2. \A m \in 1..n : s[m] = s[k] => m = k
        BY <1>1 DEF IsInjective
    <3>3. s[k] \in ToSet(s)
        BY <1>1 DEF ToSet
    <3> QED
        BY <3>1, <3>2, <3>3
  <2> HIDE DEF x, i, D
  <2>5. Begun(I, x, b, {i}, AddInstrBegin(x, b, i))
    <3>1. HasLists(I, x) /\ IsInjective(x.code[b]) /\ i \notin ToSet(x.code[b])
        BY <2>1, <2>4 DEF Begun
    <3> QED
        BY <2>1, <3>1, BeginEffect
  <2>6. Begun(I, g, b, D(k - 1) \cup {i}, AddInstrBegin(x, b, i))
      BY <2>1, <2>5 DEF Begun, SameBlocks
  <2>7. Good(k)
      BY <2>2, <2>3, <2>6
  <2> QED
      BY <2>2, <2>7
<1>5. Good(n)
  <2> HIDE DEF Good
  <2>1. 0..n \subseteq Z
    <3> HIDE DEF Z
    <3> QED
        BY <1>1, <1>3, <1>4, UpTo
  <2> QED
      BY <1>1, <2>1
<1>6. ToSet(s) = D(n)
    BY <1>1 DEF ToSet
<1> QED
    BY <1>2, <1>5, <1>6

\* A scan takes instructions of the list it is given, each once.
LEMMA ScanAllEffect ==
    ASSUME NEW I, NEW s \in Seq(I), IsInjective(s), NEW g, NEW nocon
    PROVE  /\ ScanAll(g, nocon, s).out \in Seq(I)
           /\ IsInjective(ScanAll(g, nocon, s).out)
           /\ ToSet(ScanAll(g, nocon, s).out) \subseteq ToSet(s)
<1> DEFINE n == Len(s)
           r0 == [nocon |-> nocon, out |-> <<>>]
<1>1. n \in Nat /\ DOMAIN s = 1..n /\ \A k \in 1..n : s[k] \in I
    OBVIOUS
<1>2. DOMAIN r0 = {"nocon", "out"} /\ r0.out = <<>>
    OBVIOUS
<1> HIDE DEF n, r0
<1>3. PICK h : /\ h[0] = r0
               /\ \A k \in 1..n : h[k] = Scan(g, h[k - 1], s[k])
               /\ h[n] = ScanAll(g, nocon, s)
  <2>1. Scans(g, r0, s, n)
      BY <1>1, ScanSteps
  <2> QED
      BY <2>1 DEF Scans, ScanAll, r0
<1> DEFINE D(k) == {s[m] : m \in 1..k}
           Good(k) == /\ DOMAIN h[k] = {"nocon", "out"}
                      /\ h[k].out \in Seq(I) /\ IsInjective(h[k].out)
                      /\ ToSet(h[k].out) \subseteq D(k)
           Z == {k \in 0..n : Good(k)}
<1>4. 0 \in Z
  <2>1. <<>> \in Seq(I) /\ IsInjective(<<>>) /\ ToSet(<<>>) = {}
      BY DEF IsInjective, ToSet
  <2> HIDE DEF D
  <2>2. Good(0)
      BY <1>2, <1>3, <2>1
  <2> QED
      BY <1>1, <2>2
<1>5. ASSUME NEW k \in 1..n, k - 1 \in Z PROVE k \in Z
  <2> DEFINE x == h[k - 1]
             i == s[k]
  <2>1. /\ DOMAIN x = {"nocon", "out"} /\ x.out \in Seq(I) /\ IsInjective(x.out)
        /\ ToSet(x.out) \subseteq D(k - 1) /\ i \in I
      BY <1>1, <1>5
  <2>2. D(k) = D(k - 1) \cup {i} /\ k \in 0..n
    <3>1. 1..k = 1..(k - 1) \cup {k} /\ k \in 0..n
        BY <1>1
    <3> QED
        BY <3>1
  <2>3. h[k] = Scan(g, x, i)
      BY <1>3
  <2>4. i \notin D(k - 1)
    <3>1. \A m \in 1..(k - 1) : m \in 1..n /\ m # k
        BY <1>1
    <3>2. \A m \in 1..n : s[m] = s[k] => m = k
        BY <1>1 DEF IsInjective
    <3> QED
        BY <3>1, <3>2
  <2> HIDE DEF x, i, D
  <2>5. CASE Scan(g, x, i) = x
      BY <2>1, <2>2, <2>3, <2>5
  <2>6. CASE Scan(g, x, i) = [x EXCEPT !.nocon = @ \cup {i}]
    <3> DEFINE y == [x EXCEPT !.nocon = @ \cup {i}]
    <3>1. DOMAIN y = {"nocon", "out"} /\ y.out = x.out
        BY <2>1
    <3> HIDE DEF y
    <3> QED
        BY <2>1, <2>2, <2>3, <2>6, <3>1 DEF y
  <2>7. CASE Scan(g, x, i) = [x EXCEPT !.out = Append(@, i)]
    <3> DEFINE y == [x EXCEPT !.out = Append(@, i)]
    <3>1. DOMAIN y = {"nocon", "out"} /\ y.out = Append(x.out, i)
        BY <2>1
    <3>2. <<i>> \in Seq(I) /\ IsInjective(<<i>>) /\ ToSet(<<i>>) = {i}
        BY <2>1 DEF IsInjective, ToSet
    <3>3. Append(x.out, i) = x.out \o <<i>>
        BY <2>1
    <3>4. x.out \o <<i>> \in Seq(I) /\ IsInjective(x.out \o <<i>>)
          /\ ToSet(x.out \o <<i>>) = ToSet(x.out) \cup {i}
      <4> DEFINE o == x.out
                 p == <<i>>
      <4>1. o \in Seq(I) /\ p \in Seq(I) /\ IsInjective(o) /\ IsInjective(p)
            /\ ToSet(o) \cap ToSet(p) = {}
          BY <2>1, <2>4, <3>2
      <4> HIDE DEF o, p
      <4>2. /\ o \o p \in Seq(I) /\ IsInjective(o \o p)
            /\ ToSet(o \o p) = ToSet(o) \cup ToSet(p)
          BY <4>1, Concatenation
      <4> QED
          BY <4>2, <3>2 DEF o, p
    <3> HIDE DEF y
    <3> QED
        BY <2>1, <2>2, <2>3, <2>7, <3>1, <3>3, <3>4 DEF y
  <2> QED
      BY <2>5, <2>6, <2>7 DEF Scan
<1>6. Good(n)
  <2> HIDE DEF Good
  <2>1. 0..n \subseteq Z
    <3> HIDE DEF Z
    <3> QED
        BY <1>1, <1>4, <1>5, UpTo
  <2> QED
      BY <1>1, <2>1
<1>7. D(n) = ToSet(s)
    BY <1>1 DEF ToSet
<1> QED
    BY <1>3, <1>6, <1>7
-----------------------------------------------------------------------------
(***************************************************************************)
(* LoopInvHoist.                                                           *)
(***************************************************************************)
\* What the pass has in hand between its blocks and its place outside.
Carried == IF base # Null THEN need_to_out ELSE <<>>

\* Nothing is in two places.
OncePlaced(code, out) ==
    /\ \A b \in Blocks : IsInjective(code[b]) /\ ToSet(code[b]) \cap ToSet(out) = {}
    /\ \A b, c \in Blocks : b # c => ToSet(code[b]) \cap ToSet(code[c]) = {}
    /\ IsInjective(out)

\* g and what is in hand hold the instructions of all, each once.
Keeps(I, g, out, all) ==
    /\ HasLists(I, g) /\ out \in Seq(I)
    /\ OncePlaced(g.code, out)
    /\ AllIn(g) \cup ToSet(out) = all

HoistInv ==
    /\ stage \in {"waiting", "pass", "before", "after", "end"}
    /\ todo \subseteq Blocks /\ base \in Blocks \cup {Null}
    /\ source \in Functions
    /\ stage = "waiting" => Inv /\ base = Null
    /\ stage # "waiting" =>
         /\ control = "run"
         /\ Keeps(Instructions(source), f, Carried, AllIn(given))
         /\ ToSet(given.blocks) \subseteq Blocks

\* What Mem2Reg leaves has each instruction in one place.
LEMMA DerivedOncePlaced ==
    ASSUME NEW src, BuiltByIRBuilder(src), NEW g, Derived(src, g)
    PROVE  /\ Keeps(Instructions(src), g, <<>>, AllIn(g))
           /\ g.blocks \in Seq(Blocks) /\ IsInjective(g.blocks)
           /\ ToSet(g.blocks) \subseteq Blocks
<1>1. HoldsInstructions(src, g.code) /\ IsFunction(g) /\ g.blocks = src.blocks
    BY DEF Derived
<1>2. HasLists(Instructions(src), g)
    BY <1>1 DEF HasLists, HoldsInstructions
<1>3. <<>> \in Seq(Instructions(src)) /\ IsInjective(<<>>) /\ ToSet(<<>>) = {}
    BY DEF IsInjective, ToSet
<1>4. ASSUME NEW b \in Blocks, NEW c \in Blocks, b # c, NEW i,
             i \in ToSet(g.code[b]), i \in ToSet(g.code[c])
      PROVE  FALSE
  <2>1. \/ i \in ToSet(src.code[b])
        \/ \E v \in StoredVariables(src) : i = PhiOf(b, v)
      BY <1>1, <1>4 DEF HoldsInstructions
  <2>2. \/ i \in ToSet(src.code[c])
        \/ \E v \in StoredVariables(src) : i = PhiOf(c, v)
      BY <1>1, <1>4 DEF HoldsInstructions
  <2>3. ToSet(src.code[b]) \cap ToSet(src.code[c]) = {}
      BY <1>4 DEF BuiltByIRBuilder
  <2>4. /\ \A v : PhiOf(b, v) \notin ToSet(src.code[c])
        /\ \A v : PhiOf(c, v) \notin ToSet(src.code[b])
      BY InstructionKinds
  <2>5. \A v, w : PhiOf(b, v) # PhiOf(c, w)
      BY <1>4 DEF PhiOf
  <2> QED
      BY <2>1, <2>2, <2>3, <2>4, <2>5
<1>5. OncePlaced(g.code, <<>>)
  <2>1. \A b \in Blocks : IsInjective(g.code[b]) /\ ToSet(g.code[b]) \cap ToSet(<<>>) = {}
      BY <1>1, <1>3 DEF HoldsInstructions
  <2>2. \A b, c \in Blocks : b # c => ToSet(g.code[b]) \cap ToSet(g.code[c]) = {}
      BY <1>4
  <2> QED
      BY <2>1, <2>2, <1>3 DEF OncePlaced
<1>6. AllIn(g) \cup ToSet(<<>>) = AllIn(g)
    BY <1>3
<1>7. g.blocks \in Seq(Blocks) /\ IsInjective(g.blocks)
    BY <1>1 DEF BuiltByIRBuilder
<1> QED
    BY <1>2, <1>3, <1>5, <1>6, <1>7, ToSetFinite DEF Keeps

\* Taking instructions of one block in hand.
LEMMA TakenOut ==
    ASSUME NEW I, NEW g, NEW out, NEW all, Keeps(I, g, out, all), NEW b \in Blocks,
           NEW s \in Seq(I), IsInjective(s), ToSet(s) \subseteq ToSet(g.code[b])
    PROVE  Keeps(I, DeleteAll(g, b, s), out \o s, all)
<1> DEFINE r == DeleteAll(g, b, s)
           t == out \o s
<1>1. HasLists(I, g) /\ out \in Seq(I) /\ OncePlaced(g.code, out)
      /\ AllIn(g) \cup ToSet(out) = all
    BY DEF Keeps
<1>2. Deleted(I, g, b, ToSet(s), r)
  <2>1. Len(s) \in Nat /\ DOMAIN s = 1..Len(s)
      OBVIOUS
  <2> QED
      BY <1>1, <2>1, DeleteAllEffect
<1>3. t \in Seq(I) /\ ToSet(t) = ToSet(out) \cup ToSet(s) /\ IsInjective(t)
  <2>1. IsInjective(out) /\ ToSet(out) \cap ToSet(s) = {}
      BY <1>1 DEF OncePlaced
  <2> QED
      BY <1>1, <2>1, Concatenation
<1> HIDE DEF r, t
<1>4. \A c \in Blocks : ToSet(r.code[c]) = IF c = b THEN ToSet(g.code[b]) \ ToSet(s)
                                           ELSE ToSet(g.code[c])
    BY <1>2 DEF Deleted
<1>5. OncePlaced(r.code, t)
  <2>1. ASSUME NEW c \in Blocks
        PROVE  IsInjective(r.code[c]) /\ ToSet(r.code[c]) \cap ToSet(t) = {}
    <3>1. IsInjective(r.code[c])
        BY <1>1, <1>2 DEF OncePlaced, Deleted
    <3>2. ToSet(g.code[c]) \cap ToSet(out) = {}
          /\ (c # b => ToSet(g.code[c]) \cap ToSet(g.code[b]) = {})
        BY <1>1 DEF OncePlaced
    <3> QED
        BY <3>1, <3>2, <1>3, <1>4
  <2>2. \A c, d \in Blocks : c # d => ToSet(r.code[c]) \cap ToSet(r.code[d]) = {}
    <3> SUFFICES ASSUME NEW c \in Blocks, NEW d \in Blocks, c # d
                 PROVE  ToSet(r.code[c]) \cap ToSet(r.code[d]) = {}
        OBVIOUS
    <3>1. ToSet(g.code[c]) \cap ToSet(g.code[d]) = {}
        BY <1>1 DEF OncePlaced
    <3>2. ToSet(r.code[c]) \subseteq ToSet(g.code[c]) /\ ToSet(r.code[d]) \subseteq ToSet(g.code[d])
        BY <1>4
    <3> QED
        BY <3>1, <3>2
  <2> QED
      BY <2>1, <2>2, <1>3 DEF OncePlaced
<1>6. AllIn(r) \cup ToSet(t) = AllIn(g) \cup ToSet(out)
  <2>1. AllIn(r) \cup ToSet(s) = AllIn(g)
      BY <1>4 DEF AllIn
  <2> QED
      BY <2>1, <1>3
<1>7. Keeps(I, r, t, all)
    BY <1>1, <1>2, <1>3, <1>5, <1>6 DEF Keeps, Deleted
<1> QED
    BY <1>7 DEF r, t

\* Putting what is in hand to the front of a block.
LEMMA TakenIn ==
    ASSUME NEW I, NEW g, NEW out, NEW all, Keeps(I, g, out, all), NEW b \in Blocks
    PROVE  Keeps(I, BeginAll(g, b, Reverse(out)), <<>>, all)
<1> DEFINE s == Reverse(out)
           r == BeginAll(g, b, s)
<1>1. HasLists(I, g) /\ out \in Seq(I) /\ OncePlaced(g.code, out)
      /\ AllIn(g) \cup ToSet(out) = all
    BY DEF Keeps
<1>2. s \in Seq(I) /\ IsInjective(s) /\ ToSet(s) = ToSet(out)
    BY <1>1, Turning DEF OncePlaced
<1> HIDE DEF s
<1>3. Begun(I, g, b, ToSet(s), r)
  <2>1. IsInjective(g.code[b]) /\ ToSet(s) \cap ToSet(g.code[b]) = {}
      BY <1>1, <1>2 DEF OncePlaced
  <2> QED
      BY <1>1, <1>2, <2>1, BeginAllEffect
<1> HIDE DEF r
<1>4. \A c \in Blocks : ToSet(r.code[c]) = IF c = b THEN ToSet(g.code[b]) \cup ToSet(out)
                                           ELSE ToSet(g.code[c])
    BY <1>2, <1>3 DEF Begun
<1>5. <<>> \in Seq(I) /\ IsInjective(<<>>) /\ ToSet(<<>>) = {}
    BY DEF IsInjective, ToSet
<1>6. OncePlaced(r.code, <<>>)
  <2>1. \A c \in Blocks : IsInjective(r.code[c]) /\ ToSet(r.code[c]) \cap ToSet(<<>>) = {}
    <3>1. \A c \in Blocks : IsInjective(r.code[c])
        BY <1>1, <1>3 DEF OncePlaced, Begun
    <3> QED
        BY <3>1, <1>5
  <2>2. \A c, d \in Blocks : c # d => ToSet(r.code[c]) \cap ToSet(r.code[d]) = {}
    <3> SUFFICES ASSUME NEW c \in Blocks, NEW d \in Blocks, c # d
                 PROVE  ToSet(r.code[c]) \cap ToSet(r.code[d]) = {}
        OBVIOUS
    <3>1. /\ ToSet(g.code[c]) \cap ToSet(g.code[d]) = {}
          /\ ToSet(g.code[c]) \cap ToSet(out) = {}
          /\ ToSet(g.code[d]) \cap ToSet(out) = {}
        BY <1>1 DEF OncePlaced
    <3> QED
        BY <3>1, <1>4
  <2> QED
      BY <2>1, <2>2, <1>5 DEF OncePlaced
<1>7. AllIn(r) \cup ToSet(<<>>) = AllIn(g) \cup ToSet(out)
  <2>1. AllIn(r) = AllIn(g) \cup ToSet(out)
      BY <1>4 DEF AllIn
  <2> QED
      BY <2>1, <1>5
<1>8. Keeps(I, r, <<>>, all)
    BY <1>1, <1>3, <1>5, <1>6, <1>7 DEF Keeps, Begun
<1> QED
    BY <1>8 DEF r, s

\* Mem2Reg's steps, before the pass.
LEMMA HoistWaits ==
    ASSUME HoistInv, control # "run", Next, UNCHANGED <<runVars, hoistVars>>
    PROVE  HoistInv'
<1>1. stage = "waiting" /\ Inv
    BY DEF HoistInv
<1>2. Inv' /\ source' = source
    BY <1>1, NextInv, SourceStays
<1>3. stage' = stage /\ todo' = todo /\ base' = base
    BY DEF runVars, hoistVars
<1> QED
    BY <1>1, <1>2, <1>3 DEF HoistInv

\* When the pass starts, every instruction is in one block: Mem2Reg has seen to it.
LEMMA HoistStarts ==
    ASSUME HoistInv, StartHoist
    PROVE  HoistInv'
<1>1. /\ control = "run" /\ stage = "waiting" /\ stage' = "pass" /\ given' = f
      /\ UNCHANGED <<source, f, control>> /\ UNCHANGED <<base, need_to_out>>
      /\ todo' = Headers(Graph(f))
    BY DEF StartHoist, GivePass, vars, passVars
<1>2. source \in Functions /\ Derived(source, f) /\ base = Null /\ BuiltByIRBuilder(source)
    BY <1>1, SourceBuilt DEF HoistInv, Inv, TypeInv
<1>3. /\ Keeps(Instructions(source), f, <<>>, AllIn(f))
      /\ ToSet(f.blocks) \subseteq Blocks
    BY <1>2, DerivedOncePlaced
<1>4. Carried' = <<>> /\ todo' \subseteq Blocks
    BY <1>1, <1>2 DEF Carried, Headers
<1>5. Keeps(Instructions(source'), f', Carried', AllIn(given'))
    BY <1>1, <1>3, <1>4
<1> QED
    BY <1>1, <1>2, <1>3, <1>4, <1>5 DEF HoistInv

\* The next loop starts with nothing taken out.
LEMMA HoistNextLoop ==
    ASSUME HoistInv, NextLoop
    PROVE  HoistInv'
<1>1. PICK h \in todo : EnterLoop(h) /\ todo' = todo \ {h}
    BY DEF NextLoop
<1>2. /\ stage = "pass" /\ base = Null
      /\ UNCHANGED <<source, f, control, stage, given>>
      /\ base' = h /\ need_to_out' = <<>>
    BY <1>1 DEF NextLoop, EnterLoop, vars, passVars, runVars
<1>3. Carried = <<>> /\ Carried' = <<>>
    BY <1>2 DEF Carried
<1> QED
    BY <1>1, <1>2, <1>3 DEF HoistInv

\* What is taken out of a block was in it and is put down in need_to_out.
LEMMA HoistScan ==
    ASSUME HoistInv, ScanBlock
    PROVE  HoistInv'
<1>1. PICK b \in Loop(base) \ scanned :
        LET r == ScanAll(f, nocon_value, f.code[b])
        IN  /\ need_to_out' = need_to_out \o r.out
            /\ f' = FoldLeft(LAMBDA g, i : DeleteInstr(g, b, i), f, r.out)
    BY DEF ScanBlock
<1> DEFINE s == ScanAll(f, nocon_value, f.code[b]).out
<1>2. /\ stage = "pass" /\ base # Null
      /\ UNCHANGED <<source, control, stage, given, todo, base>>
    BY DEF ScanBlock, passVars, runVars
<1>3. need_to_out' = need_to_out \o s /\ f' = DeleteAll(f, b, s)
    BY <1>1 DEF DeleteAll
<1>4. b \in Blocks
    BY <1>1, <1>2 DEF HoistInv, Loop, NaturalLoop
<1>5. /\ Keeps(Instructions(source), f, need_to_out, AllIn(given))
      /\ source \in Functions /\ control = "run" /\ ToSet(given.blocks) \subseteq Blocks
      /\ todo \subseteq Blocks /\ base \in Blocks \cup {Null}
    BY <1>2 DEF HoistInv, Carried
<1>6. s \in Seq(Instructions(source)) /\ IsInjective(s) /\ ToSet(s) \subseteq ToSet(f.code[b])
  <2>1. f.code[b] \in Seq(Instructions(source)) /\ IsInjective(f.code[b])
      BY <1>4, <1>5 DEF Keeps, HasLists, OncePlaced
  <2> QED
      BY <2>1, ScanAllEffect
<1> HIDE DEF s
<1>7. Keeps(Instructions(source), f', need_to_out', AllIn(given))
    BY <1>3, <1>4, <1>5, <1>6, TakenOut
<1>8. Carried' = need_to_out'
    BY <1>2 DEF Carried
<1> QED
    BY <1>2, <1>5, <1>7, <1>8 DEF HoistInv

\* What was taken out goes back into one block; need_to_out is empty for the
\* parent loop.
LEMMA HoistPutOut ==
    ASSUME HoistInv, PutOut
    PROVE  HoistInv'
<1>1. PICK p \in Outside(base) :
        f' = FoldLeft(LAMBDA g, i : AddInstrBegin(g, p, i), f, Reverse(need_to_out))
    BY DEF PutOut
<1>2. /\ stage = "pass" /\ base # Null
      /\ UNCHANGED <<source, control, stage, given, todo>>
    BY DEF PutOut, passVars, runVars
<1>3. base' = Null \/ (base' \in Blocks /\ need_to_out' = <<>>)
    BY DEF PutOut, EnterLoop, Parents, Headers
<1>4. p \in Blocks
    BY <1>1 DEF Outside, PreBlocks
<1>5. /\ Keeps(Instructions(source), f, need_to_out, AllIn(given))
      /\ source \in Functions /\ control = "run" /\ ToSet(given.blocks) \subseteq Blocks
      /\ todo \subseteq Blocks
    BY <1>2 DEF HoistInv, Carried
<1>6. f' = BeginAll(f, p, Reverse(need_to_out))
    BY <1>1 DEF BeginAll
<1>7. Keeps(Instructions(source), f', <<>>, AllIn(given))
    BY <1>4, <1>5, <1>6, TakenIn
<1>8. Carried' = <<>>
    BY <1>3 DEF Carried
<1>9. base' \in Blocks \cup {Null}
    BY <1>3
<1> QED
    BY <1>2, <1>5, <1>7, <1>8, <1>9 DEF HoistInv

\* The end of the pass, and the functions running: the blocks stay.
LEMMA HoistRuns ==
    ASSUME HoistInv, EndHoist \/ (Run /\ UNCHANGED hoistVars) \/ UNCHANGED <<vars, runVars, hoistVars>>
    PROVE  HoistInv'
<1>1. CASE UNCHANGED <<vars, runVars, hoistVars>>
  <2>1. UNCHANGED <<vars, stage, given, todo, base, need_to_out>>
      BY <1>1 DEF runVars, hoistVars
  <2>2. Inv' <=> Inv
      BY <2>1 DEF vars, passVars, Inv, TypeInv, PathInv, PhaseInv
  <2> QED
      BY <2>1, <2>2 DEF HoistInv, Carried, vars, passVars
<1>2. CASE EndHoist \/ (Run /\ UNCHANGED hoistVars)
  <2>1. /\ UNCHANGED <<source, f, control, given, todo, base, need_to_out>>
        /\ stage # "waiting" /\ stage' \in {"before", "after", "end"}
      BY <1>2 DEF EndHoist, Run, ReadInput, RunGiven, RunResult, vars, passVars, hoistVars
  <2> QED
      BY <2>1 DEF HoistInv, Carried
<1> QED
    BY <1>1, <1>2

\* HoistInv is an invariant.
LEMMA HoistInvAlways == HoistSpec => []HoistInv
<1>1. HoistInit => HoistInv
  <2> SUFFICES ASSUME HoistInit PROVE HoistInv
      OBVIOUS
  <2>1. Init /\ stage = "waiting" /\ todo = {} /\ base = Null
      BY DEF HoistInit, RunsInit, HoistStart, RunsStart
  <2>2. Inv
      BY <2>1, InitInv
  <2> QED
      BY <2>1, <2>2 DEF HoistInv, Inv, TypeInv
<1>2. HoistInv /\ [HoistNext]_<<vars, runVars, hoistVars>> => HoistInv'
    BY HoistWaits, HoistStarts, HoistNextLoop, HoistScan, HoistPutOut, HoistRuns
       DEF HoistNext, Hoist
<1> QED
    BY <1>1, <1>2, PTL DEF HoistSpec

\* LoopInvHoist loses no instruction and doubles none, for every function: what it
\* takes out of the blocks of a loop is in no block, and all of it is put into one
\* when the loop is left, in whatever order loops and blocks are taken.
THEOREM HoistKeepsInstructions == HoistSpec => []KeepsInstructions
<1>1. HoistInv => KeepsInstructions
  <2> SUFFICES ASSUME HoistInv, stage # "waiting", NEW i \in Placed(given)
               PROVE  Cardinality({b \in Blocks : i \in ToSet(f.code[b])})
                        + (IF i \in ToSet(need_to_out) /\ base # Null THEN 1 ELSE 0) = 1
      BY DEF KeepsInstructions
  <2> DEFINE B == {b \in Blocks : i \in ToSet(f.code[b])}
  <2>1. /\ OncePlaced(f.code, Carried) /\ AllIn(f) \cup ToSet(Carried) = AllIn(given)
        /\ ToSet(given.blocks) \subseteq Blocks
      BY DEF HoistInv, Keeps
  <2>2. i \in AllIn(f) \cup ToSet(Carried)
      BY <2>1 DEF Placed, AllIn
  <2>3. i \in ToSet(Carried) <=> (i \in ToSet(need_to_out) /\ base # Null)
      BY DEF Carried, ToSet
  <2>4. CASE i \in ToSet(Carried)
    <3>1. B = {}
        BY <2>1, <2>4 DEF OncePlaced
    <3>2. Cardinality(B) = 0
        BY <3>1, FS_EmptySet
    <3> QED
        BY <2>3, <2>4, <3>2
  <2>5. CASE i \notin ToSet(Carried)
    <3>1. PICK b \in Blocks : i \in ToSet(f.code[b])
        BY <2>2, <2>5 DEF AllIn
    <3>2. B = {b}
        BY <2>1, <3>1 DEF OncePlaced
    <3>3. Cardinality(B) = 1
        BY <3>2, FS_Singleton
    <3> QED
        BY <2>3, <2>5, <3>3
  <2> QED
      BY <2>4, <2>5
<1> QED
    BY <1>1, HoistInvAlways, PTL
-----------------------------------------------------------------------------
(***************************************************************************)
(* ConstPropagation.                                                       *)
(***************************************************************************)
\* Block b is before block c in the list of src.
IsBefore(src, b, c) ==
    \E m, k \in DOMAIN src.blocks : m < k /\ src.blocks[m] = b /\ src.blocks[k] = c

\* Whatever has come to a block, its forks go to blocks behind it.
Forward(src, g) ==
    \A b \in ToSet(src.blocks) : \A i \in ToSet(g.code[b]) :
        i \in DOMAIN src.op /\ IsFork(src, i) =>
            \A n \in {2, 3} : IsBefore(src, b, BlockOf(src.args[i][n]))

\* What the pass keeps of the function src that Mem2Reg was given; was is what
\* Mem2Reg left.
Shape(src, left, g) ==
    /\ HasLists(Instructions(src) \cap DOMAIN g.op, g)
    /\ KeepsOperands(src, g)
    /\ g.succ \in [Blocks -> Seq(Blocks)] /\ g.pre \in [Blocks -> Seq(Blocks)]
    /\ \A b \in Blocks : ToSet(g.succ[b]) \subseteq ToSet(left.succ[b])
    /\ g.blocks \in Seq(Blocks) /\ IsInjective(g.blocks)
    /\ ToSet(g.blocks) \subseteq ToSet(src.blocks)
    /\ Forward(src, g)

PropagationInv ==
    /\ stage \in {"waiting", "pass", "crashed", "before", "after", "end"}
    /\ source \in Functions
    /\ stage = "waiting" => Inv
    /\ stage # "waiting" =>
         /\ control = "run"
         /\ Shape(source, given, f)
         /\ wait_delete \in Seq(Instructions(source))
    /\ stage = "pass" =>
         /\ round \in {1, 2} /\ bb \in ToSet(f.blocks)
         /\ instr \in 1..(Len(f.code[bb]) + 1)

\* The order of the list is one.
LEMMA BeforeIsOrder ==
    ASSUME NEW src, BuiltByIRBuilder(src), NEW a, NEW b, IsBefore(src, a, b)
    PROVE  /\ a # b /\ a \in ToSet(src.blocks) /\ b \in ToSet(src.blocks)
           /\ a \in Blocks /\ b \in Blocks
           /\ \A c : IsBefore(src, b, c) => IsBefore(src, a, c)
<1> DEFINE s == src.blocks
<1>1. s \in Seq(Blocks) /\ IsInjective(s)
    BY DEF BuiltByIRBuilder
<1>2. PICK m \in DOMAIN s, k \in DOMAIN s : m < k /\ s[m] = a /\ s[k] = b
    BY DEF IsBefore
<1> HIDE DEF s
<1>3. /\ DOMAIN s \subseteq Nat /\ \A x, y \in DOMAIN s : s[x] = s[y] => x = y
      /\ \A x \in DOMAIN s : s[x] \in Blocks /\ s[x] \in ToSet(s)
    BY <1>1 DEF IsInjective, ToSet
<1>4. a # b
    BY <1>2, <1>3
<1>5. ASSUME NEW c, IsBefore(src, b, c) PROVE IsBefore(src, a, c)
  <2>1. PICK x \in DOMAIN s, y \in DOMAIN s : x < y /\ s[x] = b /\ s[y] = c
      BY <1>5 DEF IsBefore, s
  <2>2. x = k /\ m < y
      BY <1>2, <1>3, <2>1
  <2> QED
      BY <1>2, <2>1, <2>2 DEF IsBefore, s
<1> QED
    BY <1>2, <1>3, <1>4, <1>5 DEF s

\* A conditional branch that the pass finds is a fork of the source, and its
\* labels are.
LEMMA FoundFork ==
    ASSUME NEW src, BuiltByIRBuilder(src), NEW g, KeepsOperands(src, g),
           NEW i \in Instructions(src) \cap DOMAIN g.op, g.op[i] = "br", Len(g.args[i]) = 3
    PROVE  /\ i \in DOMAIN src.op /\ IsFork(src, i)
           /\ g.args[i][2] = src.args[i][2] /\ g.args[i][3] = src.args[i][3]
<1>1. ~IsPhi(i)
    BY DEF KeepsOperands, KeepsAccesses
<1>2. i \in DOMAIN src.op
    BY <1>1 DEF Instructions, PhiOf, IsPhi
<1>3. src.op[i] = "br"
    BY <1>2 DEF KeepsOperands, KeepsAccesses
<1>4. IF Len(src.args[i]) = 1 THEN g.args[i] = <<src.args[i][1]>>
      ELSE g.args[i] = <<g.args[i][1], src.args[i][2], src.args[i][3]>>
    BY <1>2, <1>3 DEF KeepsOperands, KeepsBranches
<1>5. Len(src.args[i]) # 1
    BY <1>4
<1>6. Len(src.args[i]) = 3
    BY <1>2, <1>3, <1>5, BranchShape
<1> QED
    BY <1>2, <1>3, <1>4, <1>5, <1>6 DEF IsFork

\* What the pass starts with.
LEMMA DerivedShape ==
    ASSUME NEW src, BuiltByIRBuilder(src), ForksGoForward(src), NEW g, Derived(src, g)
    PROVE  Shape(src, g, g) /\ Entry \in ToSet(g.blocks)
<1>1. /\ IsFunction(g) /\ g.blocks = src.blocks /\ g.succ = src.succ /\ g.pre = src.pre
      /\ HoldsInstructions(src, g.code) /\ KeepsOperands(src, g)
      /\ \A b \in Blocks : ToSet(g.code[b]) \subseteq DOMAIN g.op
    BY DEF Derived
<1>2. HasLists(Instructions(src) \cap DOMAIN g.op, g)
  <2> DEFINE I == Instructions(src) \cap DOMAIN g.op
  <2>1. ASSUME NEW b \in Blocks PROVE g.code[b] \in Seq(I)
    <3> DEFINE s == g.code[b]
    <3>1. s \in Seq(Instructions(src)) /\ ToSet(s) \subseteq DOMAIN g.op
        BY <1>1 DEF HoldsInstructions
    <3> HIDE DEF s
    <3>2. Len(s) \in Nat /\ s \in [1..Len(s) -> I]
        BY <3>1 DEF ToSet
    <3>3. s \in Seq(I)
        BY <3>2
    <3> QED
        BY <3>3 DEF s
  <2>2. DOMAIN g.code = Blocks /\ g.code = [b \in Blocks |-> g.code[b]]
      BY <1>1 DEF HoldsInstructions
  <2> HIDE DEF I
  <2>3. g.code \in [Blocks -> Seq(I)]
      BY <2>1, <2>2
  <2> QED
      BY <1>1, <2>3 DEF HasLists, I
<1>3. Forward(src, g)
  <2> SUFFICES ASSUME NEW b \in ToSet(src.blocks), NEW i \in ToSet(g.code[b]),
                      i \in DOMAIN src.op, IsFork(src, i), NEW n \in {2, 3}
               PROVE  IsBefore(src, b, BlockOf(src.args[i][n]))
      BY DEF Forward
  <2>1. b \in Blocks /\ src.blocks \in Seq(Blocks)
      BY ToSetFinite DEF BuiltByIRBuilder
  <2>2. i \in ToSet(src.code[b])
    <3>1. i[1] = "i"
        BY DEF BuiltByIRBuilder
    <3>2. \A v : i # PhiOf(b, v)
        BY <3>1 DEF PhiOf
    <3> QED
        BY <1>1, <2>1, <3>2 DEF HoldsInstructions
  <2>3. PICK m \in DOMAIN src.blocks : src.blocks[m] = b
      BY DEF ToSet
  <2>4. PICK k \in (m + 1)..Len(src.blocks) : src.args[i][n] = Label(src.blocks[k])
      BY <2>2, <2>3 DEF ForksGoForward
  <2>5. k \in DOMAIN src.blocks /\ m < k
      BY <2>1, <2>3, <2>4
  <2>6. BlockOf(src.args[i][n]) = src.blocks[k]
      BY <2>4 DEF BlockOf, Label
  <2> QED
      BY <2>3, <2>5, <2>6 DEF IsBefore
<1> QED
    BY <1>1, <1>2, <1>3 DEF Shape, BuiltByIRBuilder

\* r is g without block b.
Removed(g, b, r) ==
    /\ IsFunction(r)
    /\ r.code = g.code /\ r.op = g.op /\ r.args = g.args /\ r.uses = g.uses
    /\ r.succ \in [Blocks -> Seq(Blocks)] /\ r.pre \in [Blocks -> Seq(Blocks)]
    /\ \A c \in Blocks : ToSet(r.succ[c]) \subseteq ToSet(g.succ[c])
    /\ r.blocks \in Seq(Blocks) /\ IsInjective(r.blocks)
    /\ ToSet(r.blocks) = ToSet(g.blocks) \ {b}

\* What Function::remove does to the lists.
LEMMA RemoveEffect ==
    ASSUME NEW src, NEW left, NEW g, Shape(src, left, g), NEW b
    PROVE  Removed(g, b, RemoveBlock(g, b))
<1> DEFINE blocks == Without(g.blocks, b)
           succ == [c \in DOMAIN g.succ |->
                      IF c \in ToSet(g.pre[b]) THEN Without(g.succ[c], b) ELSE g.succ[c]]
           pre == [c \in DOMAIN g.pre |->
                     IF c \in ToSet(g.succ[b]) THEN Without(g.pre[c], b) ELSE g.pre[c]]
           r == RemoveBlock(g, b)
<1>1. /\ IsFunction(g) /\ g.blocks \in Seq(Blocks) /\ IsInjective(g.blocks)
      /\ g.succ \in [Blocks -> Seq(Blocks)] /\ g.pre \in [Blocks -> Seq(Blocks)]
    BY DEF Shape, HasLists
<1>2. r = [g EXCEPT !.blocks = blocks, !.succ = succ, !.pre = pre]
    BY DEF RemoveBlock
<1>3. /\ blocks \in Seq(Blocks) /\ IsInjective(blocks)
      /\ ToSet(blocks) = ToSet(g.blocks) \ {b}
    BY <1>1, WithoutEffect
<1>4. ASSUME NEW c \in Blocks
      PROVE  /\ Without(g.succ[c], b) \in Seq(Blocks) /\ Without(g.pre[c], b) \in Seq(Blocks)
             /\ ToSet(Without(g.succ[c], b)) = ToSet(g.succ[c]) \ {b}
  <2>1. g.succ[c] \in Seq(Blocks) /\ g.pre[c] \in Seq(Blocks)
      BY <1>1
  <2> QED
      BY <2>1, WithoutEffect
<1>5. /\ succ \in [Blocks -> Seq(Blocks)] /\ pre \in [Blocks -> Seq(Blocks)]
      /\ \A c \in Blocks : ToSet(succ[c]) \subseteq ToSet(g.succ[c])
  <2>1. DOMAIN g.succ = Blocks /\ DOMAIN g.pre = Blocks
        /\ \A c \in Blocks : g.succ[c] \in Seq(Blocks) /\ g.pre[c] \in Seq(Blocks)
      BY <1>1
  <2>2. \A c \in Blocks : /\ succ[c] = g.succ[c] \/ succ[c] = Without(g.succ[c], b)
                          /\ pre[c] = g.pre[c] \/ pre[c] = Without(g.pre[c], b)
      BY <2>1
  <2>3. DOMAIN succ = Blocks /\ DOMAIN pre = Blocks
        /\ succ = [c \in Blocks |-> succ[c]] /\ pre = [c \in Blocks |-> pre[c]]
      BY <2>1
  <2> HIDE DEF succ, pre
  <2>4. \A c \in Blocks : /\ succ[c] \in Seq(Blocks) /\ pre[c] \in Seq(Blocks)
                          /\ ToSet(succ[c]) \subseteq ToSet(g.succ[c])
      BY <1>4, <2>1, <2>2
  <2> QED
      BY <2>3, <2>4
<1> HIDE DEF blocks, succ, pre, r
<1>6. /\ IsFunction(r) /\ r.code = g.code /\ r.op = g.op /\ r.args = g.args /\ r.uses = g.uses
      /\ r.blocks = blocks /\ r.succ = succ /\ r.pre = pre
    BY <1>1, <1>2, SMTT(30) DEF IsFunction
<1>7. Removed(g, b, r)
    BY <1>3, <1>5, <1>6 DEF Removed
<1> QED
    BY <1>7 DEF r

\* Removing a block keeps the shape of the function.
LEMMA RemovedShape ==
    ASSUME NEW src, NEW left, NEW g, Shape(src, left, g), NEW b, NEW r, Removed(g, b, r)
    PROVE  Shape(src, left, r)
<1>1. HasLists(Instructions(src) \cap DOMAIN r.op, r)
    BY DEF Shape, HasLists, Removed
<1>2. KeepsOperands(src, r)
    BY DEF Shape, KeepsOperands, Removed
<1>3. Forward(src, r)
    BY DEF Shape, Forward, Removed
<1> QED
    BY <1>1, <1>2, <1>3 DEF Shape, Removed

\* r is g with block c appended to bb.
Joined(g, c, r) ==
    /\ IsFunction(r)
    /\ r.op = g.op /\ r.args = g.args /\ r.uses = g.uses /\ SameBlocks(g, r)
    /\ r.code = [d \in Blocks |-> IF d = bb THEN g.code[bb] \o g.code[c] ELSE g.code[d]]

\* What merging block c into bb does to the lists.
LEMMA MergeEffect ==
    ASSUME NEW I, NEW g, HasLists(I, g), NEW c
    PROVE  Joined(g, c, Merge(g, c))
<1> DEFINE code == [g.code EXCEPT ![bb] = @ \o g.code[c]]
           r == Merge(g, c)
<1>1. IsFunction(g) /\ DOMAIN g.code = Blocks
    BY DEF HasLists
<1>2. r = [g EXCEPT !.code = code]
    BY <1>1, SMTT(30) DEF Merge, IsFunction
<1>3. code = [d \in Blocks |-> IF d = bb THEN g.code[bb] \o g.code[c] ELSE g.code[d]]
    BY <1>1
<1> HIDE DEF code, r
<1>4. /\ IsFunction(r) /\ r.code = code /\ r.op = g.op /\ r.args = g.args /\ r.uses = g.uses
      /\ r.blocks = g.blocks /\ r.succ = g.succ /\ r.pre = g.pre
    BY <1>1, <1>2, SMTT(30) DEF IsFunction
<1>5. Joined(g, c, r)
    BY <1>3, <1>4 DEF Joined, SameBlocks
<1> QED
    BY <1>5 DEF r

\* Merging a block from further down the list keeps the shape: the branch that
\* comes with it goes forward from bb too.
LEMMA JoinedShape ==
    ASSUME NEW src, BuiltByIRBuilder(src), NEW left, NEW g, Shape(src, left, g),
           NEW c, IsBefore(src, bb, c), NEW r, Joined(g, c, r)
    PROVE  Shape(src, left, r)
<1> DEFINE I == Instructions(src) \cap DOMAIN g.op
<1>1. bb \in Blocks /\ c \in Blocks /\ c \in ToSet(src.blocks)
      /\ \A d : IsBefore(src, c, d) => IsBefore(src, bb, d)
    BY BeforeIsOrder
<1>2. g.code[bb] \in Seq(I) /\ g.code[c] \in Seq(I) /\ \A d \in Blocks : g.code[d] \in Seq(I)
    BY <1>1 DEF Shape, HasLists
<1> HIDE DEF I
<1>3. /\ g.code[bb] \o g.code[c] \in Seq(I)
      /\ ToSet(g.code[bb] \o g.code[c]) = ToSet(g.code[bb]) \cup ToSet(g.code[c])
    BY <1>2, Concatenation
<1>4. HasLists(Instructions(src) \cap DOMAIN r.op, r)
  <2>1. r.code \in [Blocks -> Seq(I)]
      BY <1>2, <1>3 DEF Joined
  <2> QED
      BY <2>1 DEF Joined, HasLists, I
<1>5. Forward(src, r)
  <2> SUFFICES ASSUME NEW b \in ToSet(src.blocks), NEW i \in ToSet(r.code[b]),
                      i \in DOMAIN src.op, IsFork(src, i), NEW n \in {2, 3}
               PROVE  IsBefore(src, b, BlockOf(src.args[i][n]))
      BY DEF Forward
  <2>1. b \in Blocks
    <3>1. src.blocks \in Seq(Blocks)
        BY DEF BuiltByIRBuilder
    <3> QED
        BY <3>1, ToSetFinite
  <2>2. i \in ToSet(g.code[b]) \/ (b = bb /\ i \in ToSet(g.code[c]))
      BY <1>3, <2>1 DEF Joined
  <2>3. CASE i \in ToSet(g.code[b])
      BY <2>3 DEF Shape, Forward
  <2>4. CASE b = bb /\ i \in ToSet(g.code[c])
    <3>1. IsBefore(src, c, BlockOf(src.args[i][n]))
        BY <1>1, <2>4 DEF Shape, Forward
    <3> QED
        BY <1>1, <2>4, <3>1
  <2> QED
      BY <2>2, <2>3, <2>4
<1>6. KeepsOperands(src, r)
    BY DEF Shape, KeepsOperands, Joined
<1> QED
    BY <1>4, <1>5, <1>6 DEF Shape, Joined, SameBlocks

\* What a branch taken does: the blocks of gone are not in the function any more,
\* and to is appended to bb.
Taken(src, left, g, to, gone, r) ==
    /\ Shape(src, left, r)
    /\ r.code = [d \in Blocks |-> IF d = bb THEN g.code[bb] \o g.code[to] ELSE g.code[d]]
    /\ r.op = g.op
    /\ ToSet(r.blocks) = ToSet(g.blocks) \ gone

\* In both ways of a branch the target taken leaves the list; but for a second
\* target that the first leads to.
LEMMA TakeEffect ==
    ASSUME NEW src, BuiltByIRBuilder(src), NEW left, Shape(src, left, f), NEW a,
           IsBefore(src, bb, BlockOf(a[2])), IsBefore(src, bb, BlockOf(a[3]))
    PROVE  /\ \E gone \in SUBSET {BlockOf(a[2]), BlockOf(a[3])} :
                /\ BlockOf(a[2]) \in gone
                /\ Taken(src, left, f, BlockOf(a[2]), gone, TakeFirst(a))
           /\ \E gone \in SUBSET {BlockOf(a[2]), BlockOf(a[3])} :
                /\ BlockOf(a[3]) \in gone \/ BlockOf(a[3]) \in ToSet(left.succ[BlockOf(a[2])])
                /\ BlockOf(a[2]) \in gone
                /\ Taken(src, left, f, BlockOf(a[3]), gone, TakeSecond(a))
<1> DEFINE T == BlockOf(a[2])
           F == BlockOf(a[3])
           g1 == IF F \in ToSet(f.succ[T]) THEN f ELSE RemoveBlock(f, F)
           h1 == Merge(g1, T)
           r1 == RemoveBlock(h1, T)
           g2 == RemoveBlock(f, T)
           h2 == IF F \in ToSet(g2.succ[T]) THEN g2 ELSE RemoveBlock(g2, F)
           r2 == Merge(h2, F)
           out1 == IF F \in ToSet(f.succ[T]) THEN {} ELSE {F}
           out2 == IF F \in ToSet(g2.succ[T]) THEN {T} ELSE {T, F}
<1>1. TakeFirst(a) = r1 /\ TakeSecond(a) = r2
    BY DEF TakeFirst, TakeSecond
<1>2. Shape(src, left, g1) /\ g1.code = f.code /\ g1.op = f.op
      /\ ToSet(g1.blocks) = ToSet(f.blocks) \ out1
  <2>1. CASE F \in ToSet(f.succ[T])
      BY <2>1
  <2>2. CASE F \notin ToSet(f.succ[T])
    <3> DEFINE g == RemoveBlock(f, F)
    <3>1. Removed(f, F, g)
        BY RemoveEffect
    <3>2. Shape(src, left, g)
        BY <3>1, RemovedShape
    <3>3. g1 = g /\ out1 = {F}
        BY <2>2
    <3> HIDE DEF g, g1, out1
    <3> QED
        BY <3>1, <3>2, <3>3 DEF Removed
  <2> QED
      BY <2>1, <2>2
<1> HIDE DEF g1
<1>3. Joined(g1, T, h1)
    BY <1>2, MergeEffect DEF Shape
<1> HIDE DEF h1
<1>4. Shape(src, left, h1)
    BY <1>2, <1>3, JoinedShape
<1>5. Removed(h1, T, r1)
    BY <1>4, RemoveEffect
<1>6. Shape(src, left, r1)
  <2> HIDE DEF r1
  <2> QED
      BY <1>4, <1>5, RemovedShape
<1> HIDE DEF r1
<1>7. Taken(src, left, f, T, out1 \cup {T}, r1)
    BY <1>2, <1>3, <1>5, <1>6 DEF Taken, Joined, Removed, SameBlocks
<1>8. Removed(f, T, g2)
    BY RemoveEffect
<1> HIDE DEF g2
<1>9. Shape(src, left, g2)
    BY <1>8, RemovedShape
<1>10. Shape(src, left, h2) /\ h2.code = f.code /\ h2.op = f.op
       /\ ToSet(h2.blocks) = ToSet(f.blocks) \ out2
  <2>1. CASE F \in ToSet(g2.succ[T])
      BY <2>1, <1>8, <1>9 DEF Removed
  <2>2. CASE F \notin ToSet(g2.succ[T])
    <3> DEFINE g == RemoveBlock(g2, F)
    <3>1. Removed(g2, F, g)
        BY <1>9, RemoveEffect
    <3> HIDE DEF g
    <3>2. Shape(src, left, g)
        BY <1>9, <3>1, RemovedShape
    <3>3. h2 = g /\ out2 = {T, F}
        BY <2>2 DEF g
    <3> HIDE DEF h2, out2
    <3> QED
        BY <3>1, <3>2, <3>3, <1>8 DEF Removed
  <2> QED
      BY <2>1, <2>2
<1> HIDE DEF h2
<1>11. Joined(h2, F, r2)
    BY <1>10, MergeEffect DEF Shape
<1> HIDE DEF r2
<1>12. Shape(src, left, r2)
    BY <1>10, <1>11, JoinedShape
<1>13. Taken(src, left, f, F, out2, r2)
    BY <1>10, <1>11, <1>12 DEF Taken, Joined, SameBlocks
<1>14. F \in out2 \/ F \in ToSet(left.succ[T])
  <2>1. T \in Blocks
      BY BeforeIsOrder
  <2>2. ToSet(g2.succ[T]) \subseteq ToSet(left.succ[T])
      BY <2>1, <1>9 DEF Shape
  <2> QED
      BY <2>2
<1>15. out2 \in SUBSET {T, F} /\ T \in out2 /\ out1 \cup {T} \in SUBSET {T, F}
    OBVIOUS
<1> HIDE DEF out1, out2
<1> QED
    BY <1>1, <1>7, <1>13, <1>14, <1>15

\* Folding and deleting keep the shape.
LEMMA ReplacedShape ==
    ASSUME NEW src, BuiltByIRBuilder(src), NEW left, NEW g, Shape(src, left, g),
           NEW v \in Instructions(src), NEW w
    PROVE  LET r == ReplaceAllUseWith(g, v, w)
           IN  Shape(src, left, r) /\ r.code = g.code /\ r.op = g.op /\ r.blocks = g.blocks
<1> DEFINE r == ReplaceAllUseWith(g, v, w)
<1>1. IsFunction(g) /\ KeepsOperands(src, g)
    BY DEF Shape, HasLists
<1>2. /\ IsFunction(r) /\ KeepsOperands(src, r) /\ r.code = g.code /\ r.op = g.op
      /\ r.blocks = g.blocks /\ r.succ = g.succ /\ r.pre = g.pre
    BY <1>1, ReplaceEffect
<1> HIDE DEF r
<1>3. HasLists(Instructions(src) \cap DOMAIN r.op, r) /\ Forward(src, r)
    BY <1>2 DEF Shape, HasLists, Forward
<1>4. Shape(src, left, r)
    BY <1>2, <1>3 DEF Shape
<1> QED
    BY <1>2, <1>4 DEF r

\* Deleting instructions keeps the shape.
LEMMA DeletedShape ==
    ASSUME NEW src, BuiltByIRBuilder(src), NEW left, NEW g, Shape(src, left, g),
           NEW b \in Blocks, NEW D, NEW r,
           Deleted(Instructions(src) \cap DOMAIN g.op, g, b, D, r)
    PROVE  Shape(src, left, r)
<1>1. HasLists(Instructions(src) \cap DOMAIN r.op, r)
    BY DEF Deleted
<1>2. KeepsOperands(src, r)
  <2>1. KeepsUses(src, r.uses) /\ KeepsLabels(src, r.uses)
      BY DEF Shape, KeepsOperands, KeepsUses, KeepsLabels, Deleted
  <2> QED
      BY <2>1 DEF Shape, KeepsOperands, Deleted
<1>3. Forward(src, r)
  <2>1. \A c \in Blocks : ToSet(r.code[c]) \subseteq ToSet(g.code[c])
      BY DEF Deleted
  <2>2. ToSet(src.blocks) \subseteq Blocks
    <3>1. src.blocks \in Seq(Blocks)
        BY DEF BuiltByIRBuilder
    <3> QED
        BY <3>1, ToSetFinite
  <2> QED
      BY <2>1, <2>2 DEF Shape, Forward
<1> QED
    BY <1>1, <1>2, <1>3 DEF Shape, Deleted, SameBlocks

\* The list that has come to a block: it is not empty, and what is behind a block
\* that is not its last is one of its blocks.
LEMMA NextInList ==
    ASSUME NEW S, NEW s \in Seq(S), NEW b \in ToSet(s)
    PROVE  /\ Head(s) \in ToSet(s)
           /\ b # Last(s) => s[SelectInSeq(s, LAMBDA c : c = b) + 1] \in ToSet(s)
<1> DEFINE n == Len(s)
           I == {k \in 1..n : s[k] = b}
           found == SelectInSeq(s, LAMBDA c : c = b)
<1>1. n \in Nat /\ DOMAIN s = 1..n
    OBVIOUS
<1>2. PICK k \in 1..n : s[k] = b
    BY <1>1 DEF ToSet
<1>3. 1 \in 1..n /\ Head(s) = s[1]
    BY <1>1, <1>2
<1>4. found = CHOOSE x \in I : \A y \in I : x <= y
  <2>1. I # {}
      BY <1>2
  <2> QED
      BY <2>1, Zenon DEF SelectInSeq, Min
<1>5. \E x \in I : \A y \in I : x <= y
  <2>1. I \in SUBSET Nat /\ I # {}
      BY <1>1, <1>2
  <2> HIDE DEF I
  <2> QED
      BY <2>1, LeastNumber
<1>6. found \in I
    BY <1>4, <1>5
<1> HIDE DEF found
<1>7. b # Last(s) => found + 1 \in 1..n
    BY <1>1, <1>6 DEF Last
<1> QED
    BY <1>1, <1>3, <1>7 DEF ToSet, found

\* The instruction the loop has come to.
LEMMA AtInstruction ==
    ASSUME PropagationInv, NEW i, At(i)
    PROVE  /\ bb \in Blocks /\ bb \in ToSet(f.blocks) /\ bb \in ToSet(source.blocks)
           /\ instr \in 1..Len(f.code[bb]) /\ i = f.code[bb][instr]
           /\ f.code[bb] \in Seq(Instructions(source) \cap DOMAIN f.op)
           /\ i \in ToSet(f.code[bb])
           /\ i \in Instructions(source) /\ i \in DOMAIN f.op
<1>1. /\ stage = "pass" /\ instr <= Len(f.code[bb]) /\ i = f.code[bb][instr]
      /\ Shape(source, given, f)
      /\ bb \in ToSet(f.blocks) /\ instr \in 1..(Len(f.code[bb]) + 1)
    BY DEF At, PropagationInv
<1>2. bb \in Blocks /\ bb \in ToSet(source.blocks)
  <2>1. f.blocks \in Seq(Blocks) /\ ToSet(f.blocks) \subseteq ToSet(source.blocks)
      BY <1>1 DEF Shape
  <2> QED
      BY <1>1, <2>1, ToSetFinite
<1> DEFINE s == f.code[bb]
           I == Instructions(source) \cap DOMAIN f.op
<1>3. s \in Seq(I) /\ instr <= Len(s) /\ instr \in 1..(Len(s) + 1)
    BY <1>1, <1>2 DEF Shape, HasLists
<1> HIDE DEF s, I
<1>4. instr \in 1..Len(s) /\ s[instr] \in I /\ s[instr] \in ToSet(s)
    BY <1>3 DEF ToSet
<1> QED
    BY <1>1, <1>2, <1>3, <1>4 DEF s, I

\* And the conditional branch it has come to.
LEMMA AtBranch ==
    ASSUME PropagationInv, NEW i, At(i), IsConstantBranch(i)
    PROVE  /\ i \in DOMAIN source.op /\ IsFork(source, i)
           /\ f.args[i][2] = source.args[i][2] /\ f.args[i][3] = source.args[i][3]
           /\ IsBefore(source, bb, BlockOf(f.args[i][2]))
           /\ IsBefore(source, bb, BlockOf(f.args[i][3]))
<1>1. i \in Instructions(source) \cap DOMAIN f.op /\ bb \in ToSet(source.blocks)
      /\ i \in ToSet(f.code[bb])
    BY AtInstruction
<1>2. BuiltByIRBuilder(source) /\ KeepsOperands(source, f) /\ Forward(source, f)
    BY SourceBuilt DEF At, PropagationInv, Shape
<1>3. /\ i \in DOMAIN source.op /\ IsFork(source, i)
      /\ f.args[i][2] = source.args[i][2] /\ f.args[i][3] = source.args[i][3]
    BY <1>1, <1>2, FoundFork DEF IsConstantBranch
<1>4. \A n \in {2, 3} : IsBefore(source, bb, BlockOf(source.args[i][n]))
    BY <1>1, <1>2, <1>3 DEF Forward
<1> QED
    BY <1>3, <1>4

\* A step of the loop over the instructions of bb leaves it where it is.
LEMMA PropagationSteps ==
    ASSUME PropagationInv, NEW i, At(i), Step, stage' = stage,
           Shape(source, given, f'), ToSet(f'.blocks) \subseteq Blocks,
           bb \in ToSet(f'.blocks), Len(f.code[bb]) <= Len(f'.code[bb]), Len(f'.code[bb]) \in Nat,
           wait_delete' \in {wait_delete, Append(wait_delete, i)}
    PROVE  PropagationInv'
<1>1. /\ stage = "pass" /\ control = "run" /\ source \in Functions
      /\ wait_delete \in Seq(Instructions(source)) /\ round \in {1, 2}
    BY DEF At, PropagationInv
<1>2. instr \in 1..Len(f.code[bb]) /\ i \in Instructions(source) /\ Len(f.code[bb]) \in Nat
    BY AtInstruction
<1>3. UNCHANGED <<source, given, control, round, bb>> /\ instr' = instr + 1
    BY DEF Step, passVars
<1>4. wait_delete' \in Seq(Instructions(source))
    BY <1>1, <1>2
<1>5. instr' \in 1..(Len(f'.code[bb]) + 1)
  <2> DEFINE n == Len(f.code[bb])
             m == Len(f'.code[bb])
  <2>1. n \in Nat /\ m \in Nat /\ n <= m /\ instr \in 1..n
      BY <1>2
  <2> HIDE DEF n, m
  <2>2. instr + 1 \in 1..(m + 1)
      BY <2>1
  <2> QED
      BY <1>3, <2>2 DEF m
<1> QED
    BY <1>1, <1>3, <1>4, <1>5 DEF PropagationInv

\* Folding an instruction or a phi keeps the invariant.
LEMMA PropagationFolds ==
    ASSUME PropagationInv, Fold \/ FoldPhi
    PROVE  PropagationInv'
<1>1. PICK i, w : /\ At(i) /\ Step /\ stage' = stage
                  /\ f' = ReplaceAllUseWith(f, i, w) /\ wait_delete' = Append(wait_delete, i)
    BY DEF Fold, FoldPhi
<1>2. /\ bb \in ToSet(f.blocks) /\ i \in Instructions(source)
      /\ f.code[bb] \in Seq(Instructions(source) \cap DOMAIN f.op)
    BY <1>1, AtInstruction
<1>3. BuiltByIRBuilder(source) /\ Shape(source, given, f)
    BY <1>1, SourceBuilt DEF At, PropagationInv
<1>4. Shape(source, given, f') /\ f'.code = f.code /\ f'.blocks = f.blocks
    BY <1>1, <1>2, <1>3, ReplacedShape
<1>5. ToSet(f'.blocks) \subseteq Blocks
    BY <1>4, ToSetFinite DEF Shape
<1>6. Len(f.code[bb]) \in Nat
    BY <1>2
<1>7. /\ Len(f.code[bb]) <= Len(f'.code[bb]) /\ Len(f'.code[bb]) \in Nat
      /\ bb \in ToSet(f'.blocks)
    BY <1>2, <1>4, <1>6
<1> QED
    BY <1>1, <1>4, <1>5, <1>7, PropagationSteps

\* Going on to the next instruction keeps it.
LEMMA PropagationSkips ==
    ASSUME PropagationInv, NEW i, At(i), Step, stage' = stage, f' = f, wait_delete' = wait_delete
    PROVE  PropagationInv'
<1>1. bb \in ToSet(f.blocks) /\ f.code[bb] \in Seq(Instructions(source) \cap DOMAIN f.op)
    BY AtInstruction
<1>2. Shape(source, given, f)
    BY DEF At, PropagationInv
<1>3. ToSet(f'.blocks) \subseteq Blocks
    BY <1>2, ToSetFinite DEF Shape
<1>4. Len(f.code[bb]) \in Nat /\ Len(f.code[bb]) <= Len(f'.code[bb])
    BY <1>1
<1> QED
    BY <1>1, <1>2, <1>3, <1>4, PropagationSteps

\* What a branch i taken in the second round does to the blocks: m is what is noted
\* of it, gone what leaves the list.
Goes(i, m, gone) ==
    /\ At(i) /\ IsConstantBranch(i)
    /\ {m.to, m.other} = {BlockOf(f.args[i][2]), BlockOf(f.args[i][3])}
    /\ gone \subseteq {m.to, m.other}
    /\ m.to \in gone \/ (~m.first /\ m.to \in ToSet(given.succ[m.other]))
    /\ Taken(source, given, f, m.to, gone, f')
    /\ wait_delete' = Append(wait_delete, i)
    /\ merged' = merged \cup {m}

\* In round 2 a constant branch is taken as Goes says.
LEMMA BranchTaken ==
    ASSUME PropagationInv, TakeBranch, round # 1
    PROVE  \E i, m, gone : Goes(i, m, gone)
<1>1. PICK i \in Placed(f) :
        /\ At(i) /\ IsConstantBranch(i)
        /\ LET a == f.args[i]
               first == a[1] = Const(1)
               taken == IF first THEN a[2] ELSE a[3]
               other == IF first THEN a[3] ELSE a[2]
           IN  /\ f' = IF first THEN TakeFirst(a) ELSE TakeSecond(a)
               /\ wait_delete' = Append(wait_delete, i)
               /\ merged' = merged \cup {[from |-> i[2], to |-> BlockOf(taken),
                                          other |-> BlockOf(other), first |-> first]}
    BY DEF TakeBranch
<1> DEFINE a == f.args[i]
           first == a[1] = Const(1)
           m == [from |-> i[2], to |-> BlockOf(IF first THEN a[2] ELSE a[3]),
                 other |-> BlockOf(IF first THEN a[3] ELSE a[2]), first |-> first]
<1>2. /\ IsBefore(source, bb, BlockOf(a[2])) /\ IsBefore(source, bb, BlockOf(a[3]))
      /\ BuiltByIRBuilder(source) /\ Shape(source, given, f)
    BY <1>1, AtBranch, SourceBuilt DEF At, PropagationInv
<1>3. /\ m.to = BlockOf(IF first THEN a[2] ELSE a[3])
      /\ m.other = BlockOf(IF first THEN a[3] ELSE a[2])
      /\ m.first = first
      /\ {m.to, m.other} = {BlockOf(a[2]), BlockOf(a[3])}
    OBVIOUS
<1>4. merged' = merged \cup {m} /\ wait_delete' = Append(wait_delete, i)
      /\ f' = IF first THEN TakeFirst(a) ELSE TakeSecond(a)
    BY <1>1
<1> HIDE DEF m
<1>5. CASE first
  <2>1. PICK gone \in SUBSET {BlockOf(a[2]), BlockOf(a[3])} :
          BlockOf(a[2]) \in gone /\ Taken(source, given, f, BlockOf(a[2]), gone, TakeFirst(a))
    <3> HIDE DEF a
    <3> QED
        BY <1>2, TakeEffect
  <2>2. m.to = BlockOf(a[2]) /\ f' = TakeFirst(a) /\ {m.to, m.other} = {BlockOf(a[2]), BlockOf(a[3])}
      BY <1>3, <1>4, <1>5
  <2>3. Goes(i, m, gone)
      BY <1>1, <1>4, <2>1, <2>2 DEF Goes
  <2> QED
      BY <2>3
<1>6. CASE ~first
  <2>1. PICK gone \in SUBSET {BlockOf(a[2]), BlockOf(a[3])} :
          /\ BlockOf(a[3]) \in gone \/ BlockOf(a[3]) \in ToSet(given.succ[BlockOf(a[2])])
          /\ BlockOf(a[2]) \in gone
          /\ Taken(source, given, f, BlockOf(a[3]), gone, TakeSecond(a))
    <3> HIDE DEF a
    <3> QED
        BY <1>2, TakeEffect
  <2>2. /\ m.to = BlockOf(a[3]) /\ m.other = BlockOf(a[2]) /\ f' = TakeSecond(a) /\ ~m.first
        /\ {m.to, m.other} = {BlockOf(a[2]), BlockOf(a[3])}
      BY <1>3, <1>4, <1>6
  <2>3. Goes(i, m, gone)
      BY <1>1, <1>4, <2>1, <2>2 DEF Goes
  <2> QED
      BY <2>3
<1> QED
    BY <1>5, <1>6

\* Neither the block of the branch nor any instruction of it is lost.
LEMMA PropagationBranches ==
    ASSUME PropagationInv, TakeBranch
    PROVE  PropagationInv'
<1>1. PICK i : At(i)
    BY DEF TakeBranch
<1>2. Step /\ stage' = stage
    BY DEF TakeBranch
<1>3. CASE round = 1
  <2>1. f' = f /\ wait_delete' = wait_delete
      BY <1>3 DEF TakeBranch
  <2> QED
      BY <1>1, <1>2, <2>1, PropagationSkips
<1>4. CASE round # 1
  <2>1. PICK j, m, gone : Goes(j, m, gone)
      BY <1>4, BranchTaken
  <2>2. At(j) /\ IsConstantBranch(j) /\ Taken(source, given, f, m.to, gone, f')
        /\ wait_delete' = Append(wait_delete, j)
        /\ {m.to, m.other} = {BlockOf(f.args[j][2]), BlockOf(f.args[j][3])}
        /\ gone \subseteq {m.to, m.other}
      BY <2>1 DEF Goes
  <2>3. /\ IsBefore(source, bb, m.to) /\ IsBefore(source, bb, m.other)
        /\ BuiltByIRBuilder(source) /\ Shape(source, given, f)
      BY <2>2, AtBranch, SourceBuilt DEF At, PropagationInv
  <2>4. bb \in Blocks /\ m.to \in Blocks /\ bb # m.to /\ bb # m.other
      BY <2>3, BeforeIsOrder
  <2>5. Shape(source, given, f') /\ ToSet(f'.blocks) = ToSet(f.blocks) \ gone
        /\ f'.code[bb] = f.code[bb] \o f.code[m.to]
      BY <2>2, <2>4 DEF Taken
  <2>6. bb \in ToSet(f'.blocks) /\ ToSet(f'.blocks) \subseteq Blocks
    <3>1. bb \in ToSet(f.blocks)
        BY <2>2, AtInstruction
    <3>2. f'.blocks \in Seq(Blocks)
        BY <2>5 DEF Shape
    <3> QED
        BY <2>2, <2>4, <2>5, <3>1, <3>2, ToSetFinite
  <2>7. Len(f.code[bb]) <= Len(f'.code[bb]) /\ Len(f'.code[bb]) \in Nat
    <3> DEFINE I == Instructions(source) \cap DOMAIN f.op
               s == f.code[bb]
               t == f.code[m.to]
    <3>1. s \in Seq(I) /\ t \in Seq(I)
        BY <2>3, <2>4 DEF Shape, HasLists
    <3> HIDE DEF s, t, I
    <3>2. Len(s \o t) = Len(s) + Len(t) /\ Len(s) \in Nat /\ Len(t) \in Nat
        BY <3>1
    <3>3. Len(s) <= Len(s \o t) /\ Len(s \o t) \in Nat
        BY <3>2
    <3>4. f'.code[bb] = s \o t
        BY <2>5 DEF s, t
    <3> QED
        BY <3>3, <3>4 DEF s
  <2> QED
      BY <1>2, <2>2, <2>5, <2>6, <2>7, PropagationSteps
<1> QED
    BY <1>3, <1>4

\* The end of a block: the next is one of the function's.
LEMMA BlockEnds ==
    ASSUME PropagationInv, EndBlock
    PROVE  /\ Deleted(Instructions(source) \cap DOMAIN f.op, f, bb, ToSet(wait_delete), f')
           /\ Shape(source, given, f') /\ f'.blocks = f.blocks
           /\ bb \in Blocks /\ bb \in ToSet(f.blocks) /\ bb' \in ToSet(f.blocks)
           /\ wait_delete' = <<>> /\ instr' = 1
           /\ UNCHANGED <<source, given, control, merged>>
<1>1. /\ stage = "pass" /\ bb \in ToSet(f.blocks) /\ Shape(source, given, f)
      /\ BuiltByIRBuilder(source) /\ wait_delete \in Seq(Instructions(source))
    BY SourceBuilt DEF EndBlock, PropagationInv
<1>2. f.blocks \in Seq(Blocks) /\ bb \in Blocks
  <2>1. f.blocks \in Seq(Blocks)
      BY <1>1 DEF Shape
  <2> QED
      BY <1>1, <2>1, ToSetFinite
<1>3. f' = DeleteAll(f, bb, wait_delete)
    BY DEF EndBlock, DeleteAll
<1>4. Deleted(Instructions(source) \cap DOMAIN f.op, f, bb, ToSet(wait_delete), f')
  <2>1. HasLists(Instructions(source) \cap DOMAIN f.op, f)
      BY <1>1 DEF Shape
  <2>2. Len(wait_delete) \in Nat /\ DOMAIN wait_delete = 1..Len(wait_delete)
      BY <1>1
  <2> QED
      BY <1>2, <1>3, <2>1, <2>2, DeleteAllEffect
<1>5. Shape(source, given, f')
    BY <1>1, <1>2, <1>4, DeletedShape
<1>6. f'.blocks = f.blocks
    BY <1>4 DEF Deleted, SameBlocks
<1>7. bb' \in ToSet(f.blocks)
  <2>1. /\ Head(f.blocks) \in ToSet(f.blocks)
        /\ bb # Last(f.blocks) =>
             f.blocks[SelectInSeq(f.blocks, LAMBDA b : b = bb) + 1] \in ToSet(f.blocks)
      BY <1>1, <1>2, NextInList
  <2>2. IF bb # Last(f.blocks)
        THEN bb' = f.blocks[SelectInSeq(f.blocks, LAMBDA b : b = bb) + 1]
        ELSE bb' = Head(f.blocks)
      BY DEF EndBlock
  <2> QED
      BY <2>1, <2>2
<1>8. wait_delete' = <<>> /\ instr' = 1 /\ UNCHANGED <<source, given, control, merged>>
    BY DEF EndBlock, passVars, takenVars
<1> QED
    BY <1>1, <1>2, <1>4, <1>5, <1>6, <1>7, <1>8

\* The end of a block keeps it.
LEMMA PropagationEnds ==
    ASSUME PropagationInv, EndBlock
    PROVE  PropagationInv'
<1>1. /\ Shape(source, given, f') /\ f'.blocks = f.blocks /\ bb' \in ToSet(f.blocks)
      /\ wait_delete' = <<>> /\ instr' = 1 /\ UNCHANGED <<source, given, control>>
    BY BlockEnds
<1>2. control = "run" /\ source \in Functions /\ round \in {1, 2}
    BY DEF EndBlock, PropagationInv
<1>3. /\ stage' \in {"pass", "before"}
      /\ stage' = "pass" => round' \in {1, 2}
  <2>1. \/ round' = round /\ stage' = stage
        \/ round' = round + 1 /\ stage' = IF round = 2 THEN "before" ELSE stage
      BY Zenon DEF EndBlock
  <2>2. stage = "pass"
      BY DEF EndBlock
  <2> QED
      BY <1>2, <2>1, <2>2
<1>4. instr' \in 1..(Len(f'.code[bb']) + 1)
  <2>1. bb' \in Blocks
      BY <1>1, ToSetFinite DEF Shape
  <2>2. f'.code[bb'] \in Seq(Instructions(source) \cap DOMAIN f'.op)
      BY <1>1, <2>1 DEF Shape, HasLists
  <2>3. Len(f'.code[bb']) \in Nat
      BY <2>2
  <2> QED
      BY <1>1, <2>3
<1>5. wait_delete' \in Seq(Instructions(source))
    BY <1>1
<1>6. PropagationInv'
    BY <1>1, <1>2, <1>3, <1>4, <1>5 DEF PropagationInv
<1> QED
    BY <1>6

\* When the pass starts, the conditional branches go forward.
LEMMA PropagationStarts ==
    ASSUME PropagationInv, StartPass, ForksGoForward(source)
    PROVE  PropagationInv'
<1>1. /\ control = "run" /\ stage = "waiting" /\ stage' = "pass" /\ given' = f
      /\ UNCHANGED <<source, f, control>>
      /\ round' = 1 /\ bb' = Head(f.blocks) /\ instr' = 1 /\ wait_delete' = <<>>
    BY DEF StartPass, GivePass, vars, passVars
<1>2. source \in Functions /\ Derived(source, f) /\ BuiltByIRBuilder(source)
    BY <1>1, SourceBuilt DEF PropagationInv, Inv, TypeInv
<1>3. Shape(source, f, f) /\ Entry \in ToSet(f.blocks)
    BY <1>2, DerivedShape
<1>4. Head(f.blocks) \in ToSet(f.blocks) /\ Head(f.blocks) \in Blocks
  <2>1. f.blocks \in Seq(Blocks)
      BY <1>3 DEF Shape
  <2>2. Head(f.blocks) \in ToSet(f.blocks)
      BY <1>3, <2>1, NextInList
  <2> QED
      BY <2>1, <2>2, ToSetFinite
<1>5. Len(f.code[Head(f.blocks)]) \in Nat
  <2>1. f.code[Head(f.blocks)] \in Seq(Instructions(source) \cap DOMAIN f.op)
      BY <1>3, <1>4 DEF Shape, HasLists
  <2> QED
      BY <2>1
<1>6. instr' \in 1..(Len(f'.code[bb']) + 1) /\ wait_delete' \in Seq(Instructions(source))
    BY <1>1, <1>5
<1> QED
    BY <1>1, <1>2, <1>3, <1>4, <1>6 DEF PropagationInv

\* What has nothing to do with the blocks.
LEMMA PropagationRests ==
    ASSUME PropagationInv,
           \/ control # "run" /\ Next /\ UNCHANGED <<runVars, foldVars>>
           \/ FoldCrashes \/ (Run /\ UNCHANGED foldVars)
           \/ UNCHANGED allVars
    PROVE  PropagationInv'
<1>1. CASE control # "run" /\ Next /\ UNCHANGED <<runVars, foldVars>>
  <2>1. stage = "waiting" /\ Inv
      BY <1>1 DEF PropagationInv
  <2>2. Inv' /\ source' = source
      BY <1>1, <2>1, NextInv, SourceStays
  <2>3. stage' = stage
      BY <1>1 DEF runVars
  <2> QED
      BY <2>1, <2>2, <2>3 DEF PropagationInv
<1>2. CASE FoldCrashes \/ (Run /\ UNCHANGED foldVars)
  <2>1. /\ UNCHANGED <<source, f, control, given, wait_delete>>
        /\ stage # "waiting" /\ stage' \in {"crashed", "before", "after", "end"}
      BY <1>2 DEF FoldCrashes, At, Run, ReadInput, RunGiven, RunResult, vars, passVars,
                  foldVars, loopVars
  <2> QED
      BY <2>1 DEF PropagationInv
<1>3. CASE UNCHANGED allVars
  <2>1. UNCHANGED <<vars, stage, given, wait_delete, round, bb, instr>>
      BY <1>3 DEF allVars, runVars, foldVars, loopVars
  <2>2. Inv' <=> Inv
      BY <2>1 DEF vars, passVars, Inv, TypeInv, PathInv, PhaseInv
  <2> QED
      BY <2>1, <2>2 DEF PropagationInv, vars, passVars
<1> QED
    BY <1>1, <1>2, <1>3

\* Every step keeps the invariant.
LEMMA PropagationInvNext ==
    ASSUME PropagationInv, ForksGoForward(source), [PropagationNext]_allVars
    PROVE  PropagationInv'
<1>1. CASE StartPass
    BY <1>1, PropagationStarts
<1>2. CASE Fold \/ FoldPhi
    BY <1>2, PropagationFolds
<1>3. CASE TakeBranch
    BY <1>3, PropagationBranches
<1>4. CASE SkipInstr
  <2>1. PICK i : At(i)
      BY <1>4 DEF SkipInstr
  <2>2. Step /\ stage' = stage /\ f' = f /\ wait_delete' = wait_delete
      BY <1>4 DEF SkipInstr
  <2> QED
      BY <2>1, <2>2, PropagationSkips
<1>5. CASE EndBlock
    BY <1>5, PropagationEnds
<1> QED
    BY <1>1, <1>2, <1>3, <1>4, <1>5, PropagationRests DEF PropagationNext, Propagate

\* It holds when the compiler starts.
LEMMA PropagationInvInit == PropagationInit => PropagationInv
<1> SUFFICES ASSUME PropagationInit PROVE PropagationInv
    OBVIOUS
<1>1. Init /\ stage = "waiting"
    BY DEF PropagationInit, RunsInit, RunsStart
<1>2. Inv
    BY <1>1, InitInv
<1> QED
    BY <1>1, <1>2 DEF PropagationInv, Inv, TypeInv

\* The loop over the blocks never comes to a block that is not one of the
\* function's any more, for every function whose forks go forward: what is merged
\* and what is removed are targets of branches at the block at work, so they are
\* behind it in the list, whatever has been merged into it before.
THEOREM PropagationStandsOnBlock ==
    ASSUME \A g \in Functions : ForksGoForward(g)
    PROVE  PropagationSpec => []LoopStandsOnBlock
<1>1. PropagationInv => ForksGoForward(source) /\ LoopStandsOnBlock
    BY DEF PropagationInv, LoopStandsOnBlock
<1>2. PropagationInv /\ [PropagationNext]_allVars => PropagationInv'
    BY <1>1, PropagationInvNext
<1> QED
    BY <1>1, <1>2, PropagationInvInit, PTL DEF PropagationSpec
-----------------------------------------------------------------------------
(***************************************************************************)
(* ConstPropagation leaves an instruction in one block.                    *)
(***************************************************************************)
\* The targets of the branches taken.
TargetsOf(M) == UNION {{m.to, m.other} : m \in M}

\* The blocks that may still come to work, or are in the function.
Live(src, g, M) == (ToSet(src.blocks) \ TargetsOf(M)) \cup ToSet(g.blocks)

\* A second target stayed that the first one leads to.
SecondStays(M, left) == \E m \in M : ~m.first /\ m.to \in ToSet(left.succ[m.other])

\* Nothing is in two blocks that may still come to work, and the forks in them, but
\* for those in W, have targets of their own.
Apart(src, g, M, W) ==
    /\ \A b \in Live(src, g, M) : IsInjective(g.code[b])
    /\ \A b, c \in Live(src, g, M) : b # c => ToSet(g.code[b]) \cap ToSet(g.code[c]) = {}
    /\ \A b \in Live(src, g, M) : \A i \in ToSet(g.code[b]) \ W :
         i \in DOMAIN src.op /\ IsFork(src, i) =>
             \A n \in {2, 3} : BlockOf(src.args[i][n]) \notin TargetsOf(M)
    /\ \A b \in ToSet(src.blocks) : ToSet(g.code[b]) \cap DOMAIN src.op \subseteq Placed(src)

OnceInv ==
    /\ stage = "waiting" => merged = {}
    /\ stage # "waiting" =>
         SecondStays(merged, given) \/ Apart(source, f, merged, ToSet(wait_delete))
    /\ stage = "pass" =>
         \A i \in ToSet(wait_delete) : \E k \in 1..(instr - 1) : f.code[bb][k] = i

\* What the pass starts with.
LEMMA DerivedApart ==
    ASSUME NEW src, BuiltByIRBuilder(src), NEW g, Derived(src, g)
    PROVE  Apart(src, g, {}, {})
<1>1. HoldsInstructions(src, g.code) /\ g.blocks = src.blocks
    BY DEF Derived
<1>2. OncePlaced(g.code, <<>>)
    BY DerivedOncePlaced DEF Keeps
<1>3. ToSet(src.blocks) \subseteq Blocks
  <2>1. src.blocks \in Seq(Blocks)
      BY DEF BuiltByIRBuilder
  <2> QED
      BY <2>1, ToSetFinite
<1>4. TargetsOf({}) = {}
    BY DEF TargetsOf
<1>5. Live(src, g, {}) \subseteq Blocks
    BY <1>1, <1>3, <1>4 DEF Live
<1>6. ASSUME NEW b \in ToSet(src.blocks), NEW i \in ToSet(g.code[b]), i \in DOMAIN src.op
      PROVE  i \in Placed(src)
  <2>1. i[1] = "i"
      BY <1>6 DEF BuiltByIRBuilder
  <2>2. \A v : i # PhiOf(b, v)
      BY <2>1 DEF PhiOf
  <2>3. i \in ToSet(src.code[b])
      BY <1>1, <1>3, <2>2 DEF HoldsInstructions
  <2> QED
      BY <2>3 DEF Placed
<1>7. \A b \in ToSet(src.blocks) : ToSet(g.code[b]) \cap DOMAIN src.op \subseteq Placed(src)
    BY <1>6
<1>8. \A b \in Live(src, g, {}) : IsInjective(g.code[b])
    BY <1>2, <1>5 DEF OncePlaced
<1>9. \A b, c \in Live(src, g, {}) : b # c => ToSet(g.code[b]) \cap ToSet(g.code[c]) = {}
    BY <1>2, <1>5 DEF OncePlaced
<1> QED
    BY <1>4, <1>7, <1>8, <1>9 DEF Apart

\* What goes on waiting is deleted at the end of its block.
LEMMA WaitsInBlock ==
    ASSUME PropagationInv, OnceInv, NEW i, At(i), Step, stage' = stage,
           f'.code[bb] \in Seq(Instructions(source)),
           Len(f.code[bb]) <= Len(f'.code[bb]),
           \A k \in 1..Len(f.code[bb]) : f'.code[bb][k] = f.code[bb][k],
           wait_delete' \in {wait_delete, Append(wait_delete, i)}
    PROVE  /\ stage' # "waiting"
           /\ ToSet(wait_delete') \subseteq ToSet(wait_delete) \cup {i}
           /\ ToSet(wait_delete) \subseteq ToSet(wait_delete')
           /\ \A j \in ToSet(wait_delete') : \E k \in 1..(instr' - 1) : f'.code[bb'][k] = j
<1>1. stage = "pass" /\ wait_delete \in Seq(Instructions(source))
    BY DEF At, PropagationInv
<1>2. instr \in 1..Len(f.code[bb]) /\ i = f.code[bb][instr] /\ Len(f.code[bb]) \in Nat
    BY AtInstruction
<1>3. instr' = instr + 1 /\ bb' = bb
    BY DEF Step
<1>4. ToSet(wait_delete') \subseteq ToSet(wait_delete) \cup {i}
      /\ ToSet(wait_delete) \subseteq ToSet(wait_delete')
  <2> DEFINE w == wait_delete
  <2>1. i \in Instructions(source)
      BY AtInstruction
  <2>2. w \in Seq(Instructions(source))
      BY <1>1
  <2> HIDE DEF w
  <2>3. DOMAIN w = 1..Len(w) /\ Len(w) \in Nat
      BY <2>2
  <2>4. /\ DOMAIN Append(w, i) = 1..(Len(w) + 1)
        /\ \A k \in 1..Len(w) : Append(w, i)[k] = w[k]
        /\ Append(w, i)[Len(w) + 1] = i
      BY <2>1, <2>2
  <2>5. /\ \A k \in 1..(Len(w) + 1) : k \in 1..Len(w) \/ k = Len(w) + 1
        /\ \A k \in 1..Len(w) : k \in 1..(Len(w) + 1)
      BY <2>3
  <2>6. /\ ToSet(Append(w, i)) \subseteq ToSet(w) \cup {i}
        /\ ToSet(w) \subseteq ToSet(Append(w, i))
      BY <2>3, <2>4, <2>5 DEF ToSet
  <2> QED
      BY <2>6 DEF w
<1>5. ASSUME NEW j \in ToSet(wait_delete')
      PROVE  \E k \in 1..(instr' - 1) : f'.code[bb'][k] = j
  <2> DEFINE s == f.code[bb]
  <2>1. \E k \in 1..instr : s[k] = j
    <3>1. CASE j \in ToSet(wait_delete)
      <4>1. PICK k \in 1..(instr - 1) : s[k] = j
          BY <1>1, <3>1 DEF OnceInv
      <4>2. k \in 1..instr
          BY <1>2
      <4> QED
          BY <4>1, <4>2
    <3>2. CASE j = i
        BY <1>2, <3>2
    <3> QED
        BY <1>4, <1>5, <3>1, <3>2
  <2>2. PICK k \in 1..instr : s[k] = j
      BY <2>1
  <2> HIDE DEF s
  <2>3. k \in 1..Len(f.code[bb]) /\ k \in 1..(instr' - 1)
      BY <1>2, <1>3
  <2> QED
      BY <1>3, <2>2, <2>3 DEF s
<1> QED
    BY <1>1, <1>4, <1>5

\* Steps that change neither a block nor the list of blocks keep OnceInv.
LEMMA OnceSteps ==
    ASSUME PropagationInv, OnceInv, NEW i, At(i), Step, stage' = stage,
           f'.code = f.code, f'.blocks = f.blocks, merged' = merged,
           wait_delete' \in {wait_delete, Append(wait_delete, i)}
    PROVE  OnceInv'
<1>1. /\ f.code[bb] \in Seq(Instructions(source) \cap DOMAIN f.op)
      /\ stage = "pass" /\ UNCHANGED <<source, given>>
    BY AtInstruction DEF At, Step
<1>2. f.code[bb] \in Seq(Instructions(source)) /\ Len(f.code[bb]) \in Nat
    BY <1>1
<1>3. Len(f.code[bb]) <= Len(f'.code[bb])
    BY <1>2
<1>4. /\ ToSet(wait_delete) \subseteq ToSet(wait_delete')
      /\ \A j \in ToSet(wait_delete') : \E k \in 1..(instr' - 1) : f'.code[bb'][k] = j
    BY <1>2, <1>3, WaitsInBlock
<1>5. ASSUME Apart(source, f, merged, ToSet(wait_delete))
      PROVE  Apart(source', f', merged', ToSet(wait_delete'))
  <2>1. Live(source', f', merged') = Live(source, f, merged)
      BY <1>1 DEF Live
  <2> QED
      BY <1>1, <1>4, <1>5, <2>1 DEF Apart
<1>6. SecondStays(merged, given) => SecondStays(merged', given')
    BY <1>1
<1> QED
    BY <1>1, <1>4, <1>5, <1>6 DEF OnceInv

\* A fork of the source goes to blocks no other goes to.
LEMMA OwnTargets ==
    ASSUME NEW src, BuiltByIRBuilder(src), ForksOwnTheirTargets(src),
           NEW i \in Placed(src), NEW j \in Placed(src), i # j,
           i \in DOMAIN src.op, j \in DOMAIN src.op, IsFork(src, i), IsFork(src, j)
    PROVE  \A n, k \in {2, 3} : BlockOf(src.args[i][n]) # BlockOf(src.args[j][k])
<1>1. \A n \in {2, 3} : /\ \E b \in Blocks : src.args[i][n] = Label(b)
                        /\ \E b \in Blocks : src.args[j][n] = Label(b)
  <2>1. /\ src.op[i] = "br" /\ Len(src.args[i]) # 1
        /\ src.op[j] = "br" /\ Len(src.args[j]) # 1
      BY DEF IsFork
  <2>2. /\ src.args[i][2] \in {Label(b) : b \in Blocks} /\ src.args[i][3] \in {Label(b) : b \in Blocks}
        /\ src.args[j][2] \in {Label(b) : b \in Blocks} /\ src.args[j][3] \in {Label(b) : b \in Blocks}
      BY <2>1, BranchShape
  <2> QED
      BY <2>2
<1>2. {src.args[i][2], src.args[i][3]} \cap {src.args[j][2], src.args[j][3]} = {}
    BY DEF ForksOwnTheirTargets
<1>3. \A n, k \in {2, 3} : src.args[i][n] # src.args[j][k]
    BY <1>2
<1>4. \A b : BlockOf(Label(b)) = b
    BY DEF BlockOf, Label
<1> QED
    BY <1>1, <1>3, <1>4

\* The target taken is in no list of branches any more, and with it goes what it
\* held before.
LEMMA TakenApart ==
    ASSUME NEW src, BuiltByIRBuilder(src), ForksOwnTheirTargets(src),
           NEW left, NEW g, Shape(src, left, g), NEW M, NEW W, Apart(src, g, M, W),
           bb \in ToSet(g.blocks),
           NEW i \in ToSet(g.code[bb]), i \notin W, i \in DOMAIN src.op, IsFork(src, i),
           NEW m, {m.to, m.other} = {BlockOf(src.args[i][2]), BlockOf(src.args[i][3])},
           IsBefore(src, bb, m.to),
           NEW gone, m.to \in gone, NEW r, Taken(src, left, g, m.to, gone, r)
    PROVE  Apart(src, r, M \cup {m}, W \cup {i})
<1> DEFINE T == m.to
           L == Live(src, g, M)
           N == Live(src, r, M \cup {m})
           G == TargetsOf(M)
<1>1. TargetsOf(M \cup {m}) = G \cup {m.to, m.other}
    BY DEF TargetsOf
<1>2. /\ T \in Blocks /\ bb \in Blocks /\ bb # T
      /\ T \in ToSet(src.blocks) /\ bb \in ToSet(src.blocks)
    BY BeforeIsOrder
<1>3. bb \in L
    BY DEF Live
<1>4. BlockOf(src.args[i][2]) \notin G /\ BlockOf(src.args[i][3]) \notin G
    BY <1>3 DEF Apart
<1>5. T \in L
  <2>1. T \notin G
      BY <1>4
  <2> QED
      BY <1>2, <2>1 DEF Live
<1>6. ToSet(r.blocks) = ToSet(g.blocks) \ gone
      /\ r.code = [d \in Blocks |-> IF d = bb THEN g.code[bb] \o g.code[T] ELSE g.code[d]]
    BY DEF Taken
<1>7. N \subseteq L \ {T}
  <2>1. T \in TargetsOf(M \cup {m}) /\ T \notin ToSet(r.blocks) /\ G \subseteq TargetsOf(M \cup {m})
      BY <1>1, <1>6
  <2> HIDE DEF T, G
  <2> QED
      BY <2>1, <1>6 DEF Live, G
<1>8. ToSet(src.blocks) \subseteq Blocks /\ L \subseteq Blocks
  <2>1. src.blocks \in Seq(Blocks) /\ g.blocks \in Seq(Blocks)
      BY DEF BuiltByIRBuilder, Shape
  <2>2. ToSet(src.blocks) \subseteq Blocks /\ ToSet(g.blocks) \subseteq Blocks
      BY <2>1, ToSetFinite
  <2> QED
      BY <2>2 DEF Live
<1> HIDE DEF L, N, T
<1>9. /\ ToSet(r.code[bb]) = ToSet(g.code[bb]) \cup ToSet(g.code[T])
      /\ IsInjective(r.code[bb])
      /\ \A d \in Blocks : d # bb => r.code[d] = g.code[d]
  <2> DEFINE I == Instructions(src) \cap DOMAIN g.op
  <2>1. g.code[bb] \in Seq(I) /\ g.code[T] \in Seq(I)
      BY <1>2 DEF Shape, HasLists
  <2>2. /\ IsInjective(g.code[bb]) /\ IsInjective(g.code[T])
        /\ ToSet(g.code[bb]) \cap ToSet(g.code[T]) = {}
      BY <1>2, <1>3, <1>5 DEF Apart, L
  <2> HIDE DEF I
  <2>3. /\ ToSet(g.code[bb] \o g.code[T]) = ToSet(g.code[bb]) \cup ToSet(g.code[T])
        /\ IsInjective(g.code[bb] \o g.code[T])
      BY <2>1, <2>2, Concatenation
  <2> QED
      BY <1>2, <1>6, <2>3
<1>10. /\ \A b \in L : IsInjective(g.code[b])
       /\ \A b, c \in L : b # c => ToSet(g.code[b]) \cap ToSet(g.code[c]) = {}
    BY DEF Apart, L
<1>11. \A b \in N : IsInjective(r.code[b])
    BY <1>7, <1>8, <1>9, <1>10
<1>12. ASSUME NEW b \in N, NEW c \in N, b # c
       PROVE  ToSet(r.code[b]) \cap ToSet(r.code[c]) = {}
  <2>1. b \in L /\ c \in L /\ b # T /\ c # T /\ b \in Blocks /\ c \in Blocks
      BY <1>7, <1>8
  <2>2. /\ ToSet(g.code[b]) \cap ToSet(g.code[c]) = {}
        /\ ToSet(g.code[b]) \cap ToSet(g.code[T]) = {}
        /\ ToSet(g.code[c]) \cap ToSet(g.code[T]) = {}
      BY <1>5, <1>10, <1>12, <2>1
  <2>3. CASE b = bb
      BY <1>9, <1>12, <2>1, <2>2, <2>3
  <2>4. CASE c = bb
      BY <1>9, <1>12, <2>1, <2>2, <2>4
  <2>5. CASE b # bb /\ c # bb
      BY <1>9, <2>1, <2>2, <2>5
  <2> QED
      BY <2>3, <2>4, <2>5
<1>13. \A b \in ToSet(src.blocks) : ToSet(g.code[b]) \cap DOMAIN src.op \subseteq Placed(src)
    BY DEF Apart
<1>14. \A b \in ToSet(src.blocks) : ToSet(r.code[b]) \cap DOMAIN src.op \subseteq Placed(src)
    BY <1>2, <1>8, <1>9, <1>13
<1>15. ASSUME NEW b \in N, NEW j \in ToSet(r.code[b]) \ (W \cup {i}),
              j \in DOMAIN src.op, IsFork(src, j), NEW n \in {2, 3}
       PROVE  BlockOf(src.args[j][n]) \notin TargetsOf(M \cup {m})
  <2>1. PICK c \in L : j \in ToSet(g.code[c]) \ W
      BY <1>5, <1>7, <1>8, <1>9
  <2>2. BlockOf(src.args[j][n]) \notin G
      BY <1>15, <2>1 DEF Apart, L
  <2>3. L \subseteq ToSet(src.blocks)
      BY DEF L, Live, Shape
  <2>4. i \in Placed(src) /\ j \in Placed(src) /\ i # j
      BY <1>2, <1>13, <1>15, <2>1, <2>3
  <2>5. BlockOf(src.args[j][n]) \notin {BlockOf(src.args[i][2]), BlockOf(src.args[i][3])}
      BY <1>15, <2>4, OwnTargets
  <2> QED
      BY <1>1, <2>2, <2>5
<1> QED
    BY <1>11, <1>12, <1>14, <1>15 DEF Apart, N

\* Taking a branch keeps OnceInv: the target merged was nobody else's.
LEMMA OnceBranches ==
    ASSUME PropagationInv, OnceInv, ForksOwnTheirTargets(source), TakeBranch
    PROVE  OnceInv'
<1>1. Step /\ stage' = stage
    BY DEF TakeBranch
<1>2. CASE round = 1
  <2>1. PICK i : At(i)
      BY DEF TakeBranch
  <2>2. f' = f /\ wait_delete' = wait_delete /\ merged' = merged
      BY <1>2 DEF TakeBranch
  <2> QED
      BY <1>1, <2>1, <2>2, OnceSteps
<1>3. CASE round # 1
  <2>1. PICK i, m, gone : Goes(i, m, gone)
      BY <1>3, BranchTaken
  <2>2. /\ At(i) /\ IsConstantBranch(i) /\ Taken(source, given, f, m.to, gone, f')
        /\ wait_delete' = Append(wait_delete, i) /\ merged' = merged \cup {m}
        /\ m.to \in gone \/ (~m.first /\ m.to \in ToSet(given.succ[m.other]))
        /\ {m.to, m.other} = {BlockOf(f.args[i][2]), BlockOf(f.args[i][3])}
      BY <2>1 DEF Goes
  <2>3. /\ IsBefore(source, bb, m.to) /\ i \in DOMAIN source.op /\ IsFork(source, i)
        /\ {m.to, m.other} = {BlockOf(source.args[i][2]), BlockOf(source.args[i][3])}
      BY <2>2, AtBranch
  <2>4. /\ BuiltByIRBuilder(source) /\ Shape(source, given, f) /\ stage = "pass"
        /\ UNCHANGED <<source, given>>
      BY <1>1, <2>2, SourceBuilt DEF At, PropagationInv, Step
  <2>5. /\ instr \in 1..Len(f.code[bb]) /\ i = f.code[bb][instr]
        /\ bb \in ToSet(f.blocks) /\ i \in ToSet(f.code[bb])
      BY <2>2, AtInstruction
  <2>6. /\ f'.code[bb] \in Seq(Instructions(source)) /\ Len(f.code[bb]) <= Len(f'.code[bb])
        /\ \A k \in 1..Len(f.code[bb]) : f'.code[bb][k] = f.code[bb][k]
        /\ f.code[bb] \in Seq(Instructions(source))
    <3> DEFINE s == f.code[bb]
               t == f.code[m.to]
               I == Instructions(source)
    <3>1. bb \in Blocks /\ m.to \in Blocks
        BY <2>3, <2>4, BeforeIsOrder
    <3>2. s \in Seq(I) /\ t \in Seq(I)
      <4>1. s \in Seq(I \cap DOMAIN f.op) /\ t \in Seq(I \cap DOMAIN f.op)
          BY <2>4, <3>1 DEF Shape, HasLists
      <4> HIDE DEF s, t, I
      <4> QED
          BY <4>1
    <3>3. f'.code[bb] = s \o t
        BY <2>2, <3>1 DEF Taken
    <3> HIDE DEF s, t, I
    <3>4. /\ s \o t \in Seq(I) /\ Len(s) <= Len(s \o t)
          /\ \A k \in 1..Len(s) : (s \o t)[k] = s[k]
        BY <3>2
    <3> QED
        BY <3>2, <3>3, <3>4 DEF s, I
  <2>7. /\ ToSet(wait_delete') \subseteq ToSet(wait_delete) \cup {i}
        /\ ToSet(wait_delete) \subseteq ToSet(wait_delete')
        /\ \A j \in ToSet(wait_delete') : \E k \in 1..(instr' - 1) : f'.code[bb'][k] = j
      BY <1>1, <2>2, <2>6, WaitsInBlock
  <2>8. i \in ToSet(wait_delete')
    <3>1. wait_delete \in Seq(Instructions(source)) /\ i \in Instructions(source)
        BY <2>2, AtInstruction DEF At, PropagationInv
    <3>2. /\ Len(wait_delete) + 1 \in DOMAIN Append(wait_delete, i)
          /\ Append(wait_delete, i)[Len(wait_delete) + 1] = i
        BY <3>1
    <3> QED
        BY <2>2, <3>2 DEF ToSet
  <2>9. SecondStays(merged', given') \/ Apart(source', f', merged', ToSet(wait_delete'))
    <3>1. CASE SecondStays(merged, given)
        BY <2>2, <2>4, <3>1 DEF SecondStays
    <3>2. CASE m.to \notin gone
        BY <2>2, <2>4, <3>2 DEF SecondStays
    <3>3. CASE m.to \in gone /\ Apart(source, f, merged, ToSet(wait_delete))
      <4>1. i \notin ToSet(wait_delete)
        <5>1. ASSUME i \in ToSet(wait_delete) PROVE FALSE
          <6>1. PICK k \in 1..(instr - 1) : f.code[bb][k] = i
              BY <2>4, <5>1 DEF OnceInv
          <6>2. IsInjective(f.code[bb])
              BY <2>5, <3>3 DEF Apart, Live
          <6>3. k \in DOMAIN f.code[bb] /\ instr \in DOMAIN f.code[bb] /\ k # instr
              BY <2>5, <2>6
          <6> QED
              BY <2>5, <6>1, <6>2, <6>3 DEF IsInjective
        <5> QED
            BY <5>1
      <4>2. Apart(source, f', merged', ToSet(wait_delete) \cup {i})
          BY <2>2, <2>3, <2>4, <2>5, <3>3, <4>1, TakenApart
      <4>3. ToSet(wait_delete') = ToSet(wait_delete) \cup {i}
          BY <2>7, <2>8
      <4> QED
          BY <2>4, <4>2, <4>3
    <3> QED
        BY <2>2, <2>4, <3>1, <3>2, <3>3 DEF OnceInv
  <2> QED
      BY <1>1, <2>4, <2>7, <2>9 DEF OnceInv
<1> QED
    BY <1>2, <1>3

\* At the end of a block nothing waits any more.
LEMMA OnceEnds ==
    ASSUME PropagationInv, OnceInv, EndBlock
    PROVE  OnceInv'
<1>1. /\ Deleted(Instructions(source) \cap DOMAIN f.op, f, bb, ToSet(wait_delete), f')
      /\ f'.blocks = f.blocks /\ bb \in Blocks /\ bb \in ToSet(f.blocks)
      /\ wait_delete' = <<>> /\ UNCHANGED <<source, given, merged>>
    BY BlockEnds
<1>2. stage = "pass" /\ Shape(source, given, f) /\ wait_delete \in Seq(Instructions(source))
      /\ instr \in 1..(Len(f.code[bb]) + 1)
      /\ BuiltByIRBuilder(source)
    BY SourceBuilt DEF EndBlock, PropagationInv
<1>3. stage' \in {"pass", "before"}
  <2>1. stage' = stage \/ stage' = "before"
      BY Zenon DEF EndBlock
  <2> QED
      BY <1>2, <2>1
<1>4. ToSet(<<>>) = {}
    BY DEF ToSet
<1>5. ToSet(wait_delete) \subseteq ToSet(f.code[bb])
  <2> SUFFICES ASSUME NEW i \in ToSet(wait_delete) PROVE i \in ToSet(f.code[bb])
      OBVIOUS
  <2>1. PICK k \in 1..(instr - 1) : f.code[bb][k] = i
      BY <1>2 DEF OnceInv
  <2>2. f.code[bb] \in Seq(Instructions(source) \cap DOMAIN f.op)
      BY <1>1, <1>2 DEF Shape, HasLists
  <2>3. k \in DOMAIN f.code[bb]
      BY <1>2, <2>2
  <2> QED
      BY <2>1, <2>3 DEF ToSet
<1>6. ASSUME Apart(source, f, merged, ToSet(wait_delete))
      PROVE  Apart(source, f', merged, {})
  <2> DEFINE L == Live(source, f, merged)
             W == ToSet(wait_delete)
  <2>1. Live(source, f', merged) = L
      BY <1>1 DEF Live
  <2>2. ToSet(source.blocks) \subseteq Blocks /\ L \subseteq Blocks /\ bb \in L
        /\ L \subseteq ToSet(source.blocks)
    <3>1. source.blocks \in Seq(Blocks)
        BY <1>2 DEF BuiltByIRBuilder
    <3>2. ToSet(source.blocks) \subseteq Blocks /\ ToSet(f.blocks) \subseteq ToSet(source.blocks)
        BY <1>2, <3>1, ToSetFinite DEF Shape
    <3> QED
        BY <1>1, <3>2 DEF Live
  <2> HIDE DEF L, W
  <2>3. \A b \in Blocks : ToSet(f'.code[b]) = IF b = bb THEN ToSet(f.code[b]) \ W
                                              ELSE ToSet(f.code[b])
      BY <1>1 DEF Deleted, W
  <2>4. /\ \A b \in L : IsInjective(f.code[b])
        /\ \A b, c \in L : b # c => ToSet(f.code[b]) \cap ToSet(f.code[c]) = {}
        /\ \A b \in L : \A i \in ToSet(f.code[b]) \ W :
             i \in DOMAIN source.op /\ IsFork(source, i) =>
                 \A n \in {2, 3} : BlockOf(source.args[i][n]) \notin TargetsOf(merged)
        /\ \A b \in ToSet(source.blocks) :
             ToSet(f.code[b]) \cap DOMAIN source.op \subseteq Placed(source)
      BY <1>6 DEF Apart, L, W
  <2>5. \A b \in L : IsInjective(f'.code[b])
      BY <1>1, <2>2, <2>4 DEF Deleted
  <2>6. \A b, c \in L : b # c => ToSet(f'.code[b]) \cap ToSet(f'.code[c]) = {}
    <3> SUFFICES ASSUME NEW b \in L, NEW c \in L, b # c
                 PROVE  ToSet(f'.code[b]) \cap ToSet(f'.code[c]) = {}
        OBVIOUS
    <3>1. /\ ToSet(f'.code[b]) \subseteq ToSet(f.code[b])
          /\ ToSet(f'.code[c]) \subseteq ToSet(f.code[c])
          /\ ToSet(f.code[b]) \cap ToSet(f.code[c]) = {}
        BY <2>2, <2>3, <2>4
    <3> QED
        BY <3>1
  <2>7. ASSUME NEW b \in L, NEW i \in ToSet(f'.code[b]) \ {}
        PROVE  i \in ToSet(f.code[b]) \ W
    <3>1. CASE b = bb
        BY <2>2, <2>3, <2>7, <3>1
    <3>2. CASE b # bb
      <4>1. i \in ToSet(f.code[b]) /\ ToSet(f.code[b]) \cap ToSet(f.code[bb]) = {}
          BY <2>2, <2>3, <2>4, <2>7, <3>2
      <4> QED
          BY <1>5, <4>1 DEF W
    <3> QED
        BY <3>1, <3>2
  <2>8. \A b \in ToSet(source.blocks) :
          ToSet(f'.code[b]) \cap DOMAIN source.op \subseteq Placed(source)
      BY <2>2, <2>3, <2>4
  <2>9. \A b \in L : \A i \in ToSet(f'.code[b]) \ {} :
          i \in DOMAIN source.op /\ IsFork(source, i) =>
              \A n \in {2, 3} : BlockOf(source.args[i][n]) \notin TargetsOf(merged)
      BY <2>4, <2>7
  <2> QED
      BY <2>1, <2>5, <2>6, <2>8, <2>9 DEF Apart
<1>7. SecondStays(merged', given') \/ Apart(source', f', merged', ToSet(wait_delete'))
    BY <1>1, <1>2, <1>4, <1>6 DEF OnceInv
<1>8. \A i : i \notin ToSet(wait_delete')
    BY <1>1, <1>4
<1> QED
    BY <1>3, <1>7, <1>8 DEF OnceInv

\* Every step keeps OnceInv.
LEMMA OnceNext ==
    ASSUME PropagationInv, OnceInv, ForksOwnTheirTargets(source), [PropagationNext]_allVars
    PROVE  OnceInv'
<1>1. CASE control # "run" /\ Next /\ UNCHANGED <<runVars, foldVars>>
  <2>1. stage = "waiting" /\ stage' = stage /\ merged' = merged
      BY <1>1 DEF PropagationInv, runVars, foldVars, takenVars
  <2> QED
      BY <2>1 DEF OnceInv
<1>2. CASE StartPass
  <2>1. /\ stage = "waiting" /\ stage' = "pass" /\ given' = f /\ control = "run"
        /\ UNCHANGED <<source, f, merged>> /\ wait_delete' = <<>>
      BY <1>2 DEF StartPass, GivePass, vars, takenVars
  <2>2. BuiltByIRBuilder(source) /\ Derived(source, f) /\ merged = {}
      BY <2>1, SourceBuilt DEF PropagationInv, OnceInv, Inv, TypeInv
  <2>3. Apart(source, f, {}, {})
      BY <2>2, DerivedApart
  <2>4. ToSet(<<>>) = {}
      BY DEF ToSet
  <2>5. /\ Apart(source', f', merged', ToSet(wait_delete'))
        /\ \A i : i \notin ToSet(wait_delete')
      BY <2>1, <2>2, <2>3, <2>4
  <2> QED
      BY <2>1, <2>5 DEF OnceInv
<1>3. CASE Fold \/ FoldPhi
  <2>1. PICK i, w : /\ At(i) /\ Step /\ stage' = stage /\ merged' = merged
                    /\ f' = ReplaceAllUseWith(f, i, w) /\ wait_delete' = Append(wait_delete, i)
      BY <1>3 DEF Fold, FoldPhi, takenVars
  <2>2. BuiltByIRBuilder(source) /\ Shape(source, given, f) /\ i \in Instructions(source)
      BY <2>1, AtInstruction, SourceBuilt DEF At, PropagationInv
  <2>3. f'.code = f.code /\ f'.blocks = f.blocks
      BY <2>1, <2>2, ReplacedShape
  <2> QED
      BY <2>1, <2>3, OnceSteps
<1>4. CASE TakeBranch
    BY <1>4, OnceBranches
<1>5. CASE SkipInstr
  <2>1. PICK i : At(i)
      BY <1>5 DEF SkipInstr
  <2>2. Step /\ stage' = stage /\ f' = f /\ wait_delete' = wait_delete /\ merged' = merged
      BY <1>5 DEF SkipInstr, takenVars
  <2> QED
      BY <2>1, <2>2, OnceSteps
<1>6. CASE EndBlock
    BY <1>6, OnceEnds
<1>7. CASE FoldCrashes \/ (Run /\ UNCHANGED foldVars)
  <2>1. /\ UNCHANGED <<source, f, given, wait_delete, merged>>
        /\ stage # "waiting" /\ stage' \in {"crashed", "before", "after", "end"}
      BY <1>7 DEF FoldCrashes, At, Run, ReadInput, RunGiven, RunResult, vars, foldVars,
                  PropagationInv, loopVars, takenVars
  <2> QED
      BY <2>1 DEF OnceInv
<1>8. CASE UNCHANGED allVars
  <2>1. UNCHANGED <<source, f, stage, given, wait_delete, bb, instr, merged>>
      BY <1>8 DEF allVars, vars, runVars, foldVars, loopVars, takenVars
  <2> QED
      BY <2>1 DEF OnceInv
<1> QED
    BY <1>1, <1>2, <1>3, <1>4, <1>5, <1>6, <1>7, <1>8 DEF PropagationNext, Propagate

\* The pass leaves no instruction in two blocks, for every function whose forks go
\* forward to blocks of their own, unless a second target stayed that the first
\* leads to: all that was merged has left the list of the function, and no branch
\* that is still to come leads to it.
THEOREM PropagationKeepsOneBlock ==
    ASSUME \A g \in Functions : ForksGoForward(g) /\ ForksOwnTheirTargets(g)
    PROVE  PropagationSpec => []OneBlockPerInstruction
<1>1. PropagationInv => ForksGoForward(source) /\ ForksOwnTheirTargets(source)
    BY DEF PropagationInv
<1>2. PropagationInit => OnceInv
    BY DEF PropagationInit, RunsInit, RunsStart, PropagationStart, OnceInv
<1>3. PropagationInv /\ [PropagationNext]_allVars => PropagationInv'
    BY <1>1, PropagationInvNext
<1>4. PropagationInv /\ OnceInv /\ [PropagationNext]_allVars => OnceInv'
    BY <1>1, OnceNext
<1>5. OnceInv => OneBlockPerInstruction
  <2> SUFFICES ASSUME OnceInv, stage = "before",
                      NEW b \in ToSet(f.blocks), NEW c \in ToSet(f.blocks), b # c,
                      ToSet(f.code[b]) \cap ToSet(f.code[c]) # {}
               PROVE  SecondStays(merged, given)
      BY DEF OneBlockPerInstruction, SecondStays
  <2>1. ~Apart(source, f, merged, ToSet(wait_delete))
      BY DEF Apart, Live
  <2> QED
      BY <2>1 DEF OnceInv
<1> QED
    BY <1>2, <1>3, <1>4, <1>5, PropagationInvInit, PTL DEF PropagationSpec
-----------------------------------------------------------------------------
(***************************************************************************)
(* ConstPropagation: the lists of neighbours.                              *)
(***************************************************************************)
\* What stands in t stands in s, in the same order.
InOrder(t, s) ==
    \A l, k \in DOMAIN t : l < k => \E q, p \in DOMAIN s : q < p /\ s[q] = t[l] /\ s[p] = t[k]

LEMMA InOrderTrans ==
    ASSUME NEW r, NEW t, NEW s, InOrder(r, t), InOrder(t, s)
    PROVE  InOrder(r, s)
<1> SUFFICES ASSUME NEW l \in DOMAIN r, NEW k \in DOMAIN r, l < k
             PROVE  \E q, p \in DOMAIN s : q < p /\ s[q] = r[l] /\ s[p] = r[k]
    BY DEF InOrder
<1>1. PICK m \in DOMAIN t, n \in DOMAIN t : m < n /\ t[m] = r[l] /\ t[n] = r[k]
    BY DEF InOrder
<1>2. PICK q \in DOMAIN s, p \in DOMAIN s : q < p /\ s[q] = t[m] /\ s[p] = t[n]
    BY <1>1 DEF InOrder
<1> QED
    BY <1>1, <1>2

\* Taking an element out of a list keeps the order, and the last unless it is that.
LEMMA WithoutOrder ==
    ASSUME NEW S, NEW s \in Seq(S), NEW i
    PROVE  /\ InOrder(Without(s, i), s)
           /\ s # <<>> /\ Last(s) # i => Without(s, i) # <<>> /\ Last(Without(s, i)) = Last(s)
<1> DEFINE n == Len(s)
<1>1. n \in Nat /\ DOMAIN s = 1..n /\ \A k \in 1..n : s[k] \in S
    OBVIOUS
<1>2. PICK h : /\ h[0] = <<>>
               /\ \A k \in 1..n : h[k] = IF s[k] = i THEN h[k - 1] ELSE Append(h[k - 1], s[k])
               /\ h[n] = Without(s, i)
  <2> HIDE DEF n
  <2>1. Skips(i, s, n)
      BY <1>1, SkipSteps
  <2> QED
      BY <2>1 DEF Skips
<1> DEFINE Good(k) ==
             /\ h[k] \in Seq(S)
             /\ \A a \in 1..Len(h[k]) : \E m \in 1..k : h[k][a] = s[m]
             /\ \A a, b \in 1..Len(h[k]) : a < b =>
                  \E q, p \in 1..k : q < p /\ s[q] = h[k][a] /\ s[p] = h[k][b]
             /\ k # 0 /\ s[k] # i => Len(h[k]) # 0 /\ h[k][Len(h[k])] = s[k]
           T == {k \in 0..n : Good(k)}
<1>3. 0 \in T
  <2>1. Len(<<>>) = 0 /\ <<>> \in Seq(S) /\ 1..0 = {} /\ 0 \in 0..n
      BY <1>1
  <2>2. Good(0)
      BY <1>2, <2>1
  <2> QED
      BY <2>1, <2>2
<1>4. ASSUME NEW k \in 1..n, k - 1 \in T PROVE k \in T
  <2> DEFINE t == h[k - 1]
             u == h[k]
  <2>1. /\ t \in Seq(S)
        /\ \A a \in 1..Len(t) : \E m \in 1..(k - 1) : t[a] = s[m]
        /\ \A a, b \in 1..Len(t) : a < b =>
             \E q, p \in 1..(k - 1) : q < p /\ s[q] = t[a] /\ s[p] = t[b]
      BY <1>4
  <2>2. k \in Nat /\ k # 0 /\ k \in 0..n /\ s[k] \in S /\ k \in 1..k
        /\ \A m \in 1..(k - 1) : m \in 1..k /\ m < k
      BY <1>1
  <2>3. u = IF s[k] = i THEN t ELSE Append(t, s[k])
      BY <1>2
  <2> HIDE DEF t, n
  <2>4. CASE s[k] = i
    <3>1. u = t
        BY <2>3, <2>4
    <3> HIDE DEF u
    <3>2. /\ u \in Seq(S)
          /\ \A a \in 1..Len(u) : \E m \in 1..k : u[a] = s[m]
        BY <3>1, <2>1, <2>2
    <3>3. \A a, b \in 1..Len(u) : a < b => \E q, p \in 1..k : q < p /\ s[q] = u[a] /\ s[p] = u[b]
        BY <3>1, <2>1, <2>2
    <3>4. Good(k)
        BY <3>2, <3>3, <2>4 DEF u
    <3> QED
        BY <3>4, <2>2
  <2>5. CASE s[k] # i
    <3>1. u = Append(t, s[k])
        BY <2>3, <2>5
    <3> HIDE DEF u
    <3>2. /\ u \in Seq(S) /\ Len(u) = Len(t) + 1 /\ Len(t) \in Nat
          /\ \A a \in 1..Len(t) : u[a] = t[a]
          /\ u[Len(t) + 1] = s[k]
        BY <3>1, <2>1, <2>2
    <3>3. \A a \in 1..Len(u) : a \in 1..Len(t) \/ a = Len(t) + 1
        BY <3>2
    <3>4. \A a \in 1..Len(u) : \E m \in 1..k : u[a] = s[m]
        BY <3>2, <3>3, <2>1, <2>2
    <3>5. ASSUME NEW a \in 1..Len(u), NEW b \in 1..Len(u), a < b
          PROVE  \E q, p \in 1..k : q < p /\ s[q] = u[a] /\ s[p] = u[b]
      <4>1. a \in 1..Len(t)
          BY <3>2, <3>5
      <4>2. CASE b \in 1..Len(t)
        <5>1. PICK q \in 1..(k - 1), p \in 1..(k - 1) : q < p /\ s[q] = t[a] /\ s[p] = t[b]
            BY <4>1, <4>2, <3>5, <2>1
        <5> QED
            BY <5>1, <4>1, <4>2, <3>2, <2>2
      <4>3. CASE b = Len(t) + 1
        <5>1. PICK q \in 1..(k - 1) : t[a] = s[q]
            BY <4>1, <2>1
        <5> QED
            BY <5>1, <4>1, <4>3, <3>2, <2>2
      <4> QED
          BY <4>2, <4>3, <3>3
    <3>6. Len(u) # 0 /\ u[Len(u)] = s[k]
        BY <3>2
    <3>7. Good(k)
        BY <3>2, <3>4, <3>5, <3>6 DEF u
    <3> QED
        BY <3>7, <2>2
  <2> QED
      BY <2>4, <2>5
<1>5. Good(n)
  <2> HIDE DEF T, n
  <2>1. 0..n \subseteq T
      BY <1>1, <1>3, <1>4, UpTo
  <2> HIDE DEF Good
  <2>2. n \in {k \in 0..n : Good(k)}
      BY <1>1, <2>1 DEF T
  <2> QED
      BY <2>2
<1> DEFINE t == Without(s, i)
<1>6. /\ t \in Seq(S)
      /\ \A a, b \in 1..Len(t) : a < b =>
           \E q, p \in 1..n : q < p /\ s[q] = t[a] /\ s[p] = t[b]
      /\ n # 0 /\ s[n] # i => Len(t) # 0 /\ t[Len(t)] = s[n]
  <2> HIDE DEF n
  <2> QED
      BY <1>2, <1>5
<1> HIDE DEF t
<1>7. DOMAIN t = 1..Len(t)
    BY <1>6
<1>8. InOrder(t, s)
  <2> HIDE DEF n
  <2>1. \A a, b \in DOMAIN t : a < b => \E q, p \in DOMAIN s : q < p /\ s[q] = t[a] /\ s[p] = t[b]
      BY <1>1, <1>6, <1>7
  <2> QED
      BY <2>1, Zenon DEF InOrder
<1>9. s # <<>> /\ Last(s) # i => t # <<>> /\ Last(t) = Last(s)
    BY <1>1, <1>6 DEF Last
<1> QED
    BY <1>8, <1>9 DEF t

\* The lists of neighbours are those of src among these blocks.
Neighbours(src, blocks, succ, pre) ==
    \A b \in ToSet(blocks) :
        /\ ToSet(succ[b]) = ToSet(src.succ[b]) \cap ToSet(blocks)
        /\ ToSet(pre[b]) = {c \in ToSet(blocks) : b \in ToSet(succ[c])}

Listed(src, g) ==
    /\ IsFunction(g)
    /\ g.succ \in [Blocks -> Seq(Blocks)] /\ g.pre \in [Blocks -> Seq(Blocks)]
    /\ g.blocks \in Seq(Blocks) /\ InOrder(g.blocks, src.blocks)
    /\ Neighbours(src, g.blocks, g.succ, g.pre)

\* Function::remove takes a block out of the lists of all its neighbours.
LEMMA RemoveListed ==
    ASSUME NEW src, NEW g, Listed(src, g), NEW b \in Blocks
    PROVE  Listed(src, RemoveBlock(g, b))
<1> DEFINE blocks == Without(g.blocks, b)
           succ == [c \in DOMAIN g.succ |->
                      IF c \in ToSet(g.pre[b]) THEN Without(g.succ[c], b) ELSE g.succ[c]]
           pre == [c \in DOMAIN g.pre |->
                     IF c \in ToSet(g.succ[b]) THEN Without(g.pre[c], b) ELSE g.pre[c]]
           r == RemoveBlock(g, b)
<1>1. /\ IsFunction(g) /\ g.blocks \in Seq(Blocks) /\ InOrder(g.blocks, src.blocks)
      /\ g.succ \in [Blocks -> Seq(Blocks)] /\ g.pre \in [Blocks -> Seq(Blocks)]
    BY DEF Listed
<1>2. r = [g EXCEPT !.blocks = blocks, !.succ = succ, !.pre = pre]
    BY DEF RemoveBlock
<1>3. /\ blocks \in Seq(Blocks) /\ ToSet(blocks) = ToSet(g.blocks) \ {b}
      /\ InOrder(blocks, src.blocks)
    BY <1>1, WithoutEffect, WithoutOrder, InOrderTrans
<1>4. ASSUME NEW c \in Blocks
      PROVE  /\ succ[c] \in Seq(Blocks) /\ pre[c] \in Seq(Blocks)
             /\ ToSet(succ[c]) = IF c \in ToSet(g.pre[b]) THEN ToSet(g.succ[c]) \ {b}
                                 ELSE ToSet(g.succ[c])
             /\ ToSet(pre[c]) = IF c \in ToSet(g.succ[b]) THEN ToSet(g.pre[c]) \ {b}
                                ELSE ToSet(g.pre[c])
  <2>1. g.succ[c] \in Seq(Blocks) /\ g.pre[c] \in Seq(Blocks)
      BY <1>1
  <2>2. /\ Without(g.succ[c], b) \in Seq(Blocks) /\ Without(g.pre[c], b) \in Seq(Blocks)
        /\ ToSet(Without(g.succ[c], b)) = ToSet(g.succ[c]) \ {b}
        /\ ToSet(Without(g.pre[c], b)) = ToSet(g.pre[c]) \ {b}
      BY <2>1, WithoutEffect
  <2>3. /\ succ[c] = IF c \in ToSet(g.pre[b]) THEN Without(g.succ[c], b) ELSE g.succ[c]
        /\ pre[c] = IF c \in ToSet(g.succ[b]) THEN Without(g.pre[c], b) ELSE g.pre[c]
      BY <1>1
  <2> HIDE DEF succ, pre
  <2> QED
      BY <2>1, <2>2, <2>3
<1>5. succ \in [Blocks -> Seq(Blocks)] /\ pre \in [Blocks -> Seq(Blocks)]
  <2>1. DOMAIN succ = Blocks /\ DOMAIN pre = Blocks
        /\ succ = [c \in Blocks |-> succ[c]] /\ pre = [c \in Blocks |-> pre[c]]
      BY <1>1
  <2> HIDE DEF succ, pre
  <2> QED
      BY <1>4, <2>1
<1> HIDE DEF blocks, succ, pre, r
<1>6. /\ IsFunction(r) /\ r.blocks = blocks /\ r.succ = succ /\ r.pre = pre
    BY <1>1, <1>2, SMTT(30) DEF IsFunction
<1>7. ASSUME NEW c \in ToSet(blocks)
      PROVE  /\ ToSet(succ[c]) = ToSet(src.succ[c]) \cap ToSet(blocks)
             /\ ToSet(pre[c]) = {d \in ToSet(blocks) : c \in ToSet(succ[d])}
  <2>1. c \in ToSet(g.blocks) /\ c # b /\ c \in Blocks
      BY <1>1, <1>3, ToSetFinite
  <2>2. /\ ToSet(g.succ[c]) = ToSet(src.succ[c]) \cap ToSet(g.blocks)
        /\ ToSet(g.pre[c]) = {d \in ToSet(g.blocks) : c \in ToSet(g.succ[d])}
      BY <2>1 DEF Listed, Neighbours
  <2>3. b \in ToSet(g.blocks) =>
          /\ ToSet(g.succ[b]) = ToSet(src.succ[b]) \cap ToSet(g.blocks)
          /\ ToSet(g.pre[b]) = {d \in ToSet(g.blocks) : b \in ToSet(g.succ[d])}
      BY DEF Listed, Neighbours
  <2>4. ToSet(succ[c]) = ToSet(src.succ[c]) \cap ToSet(blocks)
      BY <1>3, <1>4, <2>1, <2>2, <2>3
  <2>5. ASSUME NEW d \in ToSet(blocks)
        PROVE  c \in ToSet(succ[d]) <=> c \in ToSet(g.succ[d])
    <3>1. d \in Blocks
        BY <1>3, ToSetFinite
    <3> QED
        BY <3>1, <1>4, <2>1
  <2>6. ToSet(pre[c]) = ToSet(g.pre[c]) \ {b}
    <3>1. CASE c \in ToSet(g.succ[b])
        BY <3>1, <1>4, <2>1
    <3>2. CASE c \notin ToSet(g.succ[b])
        BY <3>2, <1>4, <2>1, <2>2
    <3> QED
        BY <3>1, <3>2
  <2>7. ToSet(pre[c]) = {d \in ToSet(blocks) : c \in ToSet(succ[d])}
      BY <1>3, <2>2, <2>5, <2>6
  <2> QED
      BY <2>4, <2>7
<1>8. Listed(src, r)
  <2>1. Neighbours(src, blocks, succ, pre)
      BY <1>7, Zenon DEF Neighbours
  <2> QED
      BY <1>3, <1>5, <1>6, <2>1 DEF Listed
<1> QED
    BY <1>8 DEF r

\* Merging touches no list.
LEMMA MergeListed ==
    ASSUME NEW src, NEW g, Listed(src, g), NEW c
    PROVE  Listed(src, Merge(g, c))
<1> DEFINE code == [g.code EXCEPT ![bb] = @ \o g.code[c]]
           r == Merge(g, c)
<1>1. IsFunction(g)
    BY DEF Listed
<1>2. r = [g EXCEPT !.code = code]
    BY <1>1, SMTT(30) DEF Merge, IsFunction
<1> HIDE DEF code, r
<1>3. IsFunction(r) /\ r.blocks = g.blocks /\ r.succ = g.succ /\ r.pre = g.pre
    BY <1>1, <1>2, SMTT(30) DEF IsFunction
<1>4. Listed(src, r)
    BY <1>3 DEF Listed
<1> QED
    BY <1>4 DEF r

\* So a branch that is taken keeps the lists in order.
LEMMA TakeListed ==
    ASSUME NEW src, Listed(src, f), NEW a, BlockOf(a[2]) \in Blocks, BlockOf(a[3]) \in Blocks
    PROVE  Listed(src, TakeFirst(a)) /\ Listed(src, TakeSecond(a))
<1> DEFINE T == BlockOf(a[2])
           F == BlockOf(a[3])
           g1 == IF F \in ToSet(f.succ[T]) THEN f ELSE RemoveBlock(f, F)
           g2 == RemoveBlock(f, T)
           h2 == IF F \in ToSet(g2.succ[T]) THEN g2 ELSE RemoveBlock(g2, F)
<1>1. Listed(src, g1)
    BY RemoveListed
<1> HIDE DEF g1
<1>2. Listed(src, RemoveBlock(Merge(g1, T), T))
    BY <1>1, MergeListed, RemoveListed
<1>3. Listed(src, g2)
    BY RemoveListed
<1> HIDE DEF g2
<1>4. Listed(src, h2)
    BY <1>3, RemoveListed
<1> HIDE DEF h2
<1>5. Listed(src, Merge(h2, F))
    BY <1>4, MergeListed
<1> QED
    BY <1>2, <1>5 DEF TakeFirst, TakeSecond, g1, g2, h2

\* Mem2Reg takes loads and stores out of the blocks and puts phis in front: how a
\* block ends stays.
KeepsEnds(src, g) ==
    \A b \in ToSet(src.blocks) : g.code[b] # <<>> /\ Last(g.code[b]) = Last(src.code[b])

IsAccess(src, i) == i \in DOMAIN src.op /\ src.op[i] \in {"load", "store"}

AccessesOnly(src, s) == \A i \in ToSet(s) : IsAccess(src, i)

EndsStay ==
    /\ KeepsEnds(source, f)
    /\ \A k \in DOMAIN frames : AccessesOnly(source, frames[k].wait_delete)

\* What waits for its deletion behind one instruction.
LEMMA RenameStepWaits ==
    ASSUME NEW src, BuiltByIRBuilder(src), NEW g, NEW r, IsRenaming(src, g, r),
           NEW b \in Blocks, NEW i \in ToSet(g.code[b]), AccessesOnly(src, r.delete)
    PROVE  AccessesOnly(src, RenameInstr(r, i).delete)
<1> DEFINE v == Last(r.f.args[i])
           q == RenameInstr(r, i)
           loads == r.f.op[i] = "load" /\ Promoted(v) /\ v \in DOMAIN r.stack
           stores == r.f.op[i] = "store" /\ Promoted(v)
<1>1. DOMAIN r = {"f", "stack", "delete"} /\ Derived(src, r.f) /\ r.f.code = g.code
      /\ r.delete \in Seq(Instructions(src))
    BY DEF IsRenaming
<1>2. /\ (IsPhi(i) /\ r.f.op[i] = "phi") \/ (i \in DOMAIN src.op /\ r.f.op[i] = src.op[i])
  <2>1. i \in ToSet(r.f.code[b])
      BY <1>1
  <2> QED
      BY <2>1, <1>1, CodeKinds
<1>3. q.delete = r.delete \/ (r.f.op[i] \in {"load", "store"} /\ q.delete = Append(r.delete, i))
  <2> DEFINE p == ReplaceAllUseWith(r.f, i, Back(r.stack, v))
             u == Push(r.stack, v, r.f.args[i][1])
  <2>1. CASE loads
    <3>1. q = [r EXCEPT !.f = p, !.delete = Append(r.delete, i)]
        BY <1>1, <2>1, SMTT(30) DEF RenameInstr
    <3> HIDE DEF p, q
    <3>2. q.delete = Append(r.delete, i)
        BY <3>1, <1>1, SMTT(30)
    <3> QED
        BY <2>1, <3>2
  <2>2. CASE stores
    <3>1. q = [r EXCEPT !.stack = u, !.delete = Append(r.delete, i)]
        BY <1>1, <2>2, SMTT(30) DEF RenameInstr
    <3> HIDE DEF u, q
    <3>2. q.delete = Append(r.delete, i)
        BY <3>1, <1>1, SMTT(30)
    <3> QED
        BY <2>2, <3>2
  <2>3. CASE ~loads /\ ~stores
    <3>1. q = r
        BY <2>3 DEF RenameInstr
    <3> QED
        BY <3>1
  <2> QED
      BY <2>1, <2>2, <2>3
<1> HIDE DEF q
<1>4. CASE q.delete = r.delete
    BY <1>4 DEF q
<1>5. CASE r.f.op[i] \in {"load", "store"} /\ q.delete = Append(r.delete, i)
  <2>1. IsAccess(src, i)
      BY <1>2, <1>5 DEF IsAccess
  <2>2. ToSet(q.delete) = ToSet(r.delete) \cup {i}
      BY <1>1, <1>5, AppendSet
  <2>3. AccessesOnly(src, q.delete)
      BY <2>1, <2>2 DEF AccessesOnly
  <2> QED
      BY <2>3 DEF q
<1> QED
    BY <1>3, <1>4, <1>5

\* And behind a whole block.
LEMMA RenameAllWaits ==
    ASSUME NEW src, BuiltByIRBuilder(src), NEW g, Derived(src, g), NEW b \in Blocks,
           NEW stack, AreStacks(src, stack)
    PROVE  AccessesOnly(src, RenameAll([f |-> g, stack |-> stack, delete |-> <<>>],
                                       g.code[b]).delete)
<1> DEFINE start == [f |-> g, stack |-> stack, delete |-> <<>>]
           s == g.code[b]
           n == Len(s)
<1>1. /\ n \in Nat /\ DOMAIN s = 1..n /\ \A k \in 1..n : s[k] \in ToSet(s)
    BY CodeList
<1>2. IsRenaming(src, g, start) /\ AccessesOnly(src, start.delete)
    BY DEF IsRenaming, AccessesOnly, ToSet
<1>3. PICK h : /\ h[0] = start
               /\ \A k \in 1..n : h[k] = RenameInstr(h[k - 1], s[k])
               /\ h[n] = RenameAll(start, s)
  <2> HIDE DEF s, n, start
  <2>1. Renames(start, s, n)
      BY <1>1, RenameSteps
  <2> QED
      BY <2>1 DEF Renames
<1> DEFINE Good(k) == IsRenaming(src, g, h[k]) /\ AccessesOnly(src, h[k].delete)
           Z == {k \in 0..n : Good(k)}
<1> HIDE DEF start
<1>4. 0 \in Z
  <2> HIDE DEF n
  <2> QED
      BY <1>1, <1>2, <1>3
<1>5. ASSUME NEW k \in 1..n, k - 1 \in Z PROVE k \in Z
  <2>1. /\ IsRenaming(src, g, h[k - 1]) /\ AccessesOnly(src, h[k - 1].delete)
        /\ h[k] = RenameInstr(h[k - 1], s[k]) /\ s[k] \in ToSet(g.code[b])
      BY <1>1, <1>3, <1>5
  <2>2. k \in 0..n
      BY <1>1
  <2> HIDE DEF s, n
  <2>3. IsRenaming(src, g, h[k]) /\ AccessesOnly(src, h[k].delete)
      BY <2>1, RenameStep, RenameStepWaits
  <2> QED
      BY <2>2, <2>3
<1>6. Good(n)
  <2> HIDE DEF Good, s, n
  <2>1. 0..n \subseteq Z
    <3> HIDE DEF Z
    <3> QED
        BY <1>1, <1>4, <1>5, UpTo
  <2> QED
      BY <1>1, <2>1
<1> HIDE DEF n, s
<1>7. AccessesOnly(src, RenameAll(start, s).delete)
    BY <1>3, <1>6
<1> QED
    BY <1>7 DEF start, s

\* re_name gives its frame nothing else to delete, and leaves the blocks as they are.
LEMMA RenameKeepsEnds ==
    ASSUME TypeInv, EndsStay, NEW b \in Blocks, NEW below \in Seq(Frame(source)), Rename(b, below),
           \A k \in DOMAIN below : AccessesOnly(source, below[k].wait_delete)
    PROVE  EndsStay'
<1>1. BuiltByIRBuilder(source) /\ Derived(source, f) /\ AreStacks(source, var_val_stack)
    BY SourceBuilt DEF TypeInv
<1>2. f'.code = f.code /\ source' = source
    BY <1>1, RenameEffect
<1> DEFINE pushed == PushAll(var_val_stack, f.code[b])
           w == RenameAll([f |-> f, stack |-> pushed, delete |-> <<>>], f.code[b]).delete
           children == Children(Graph(f), b)
           fr == [bb |-> b, todo |-> children, wait_delete |-> w]
           n == Len(below)
<1>3. frames' = Append(below, fr)
    BY RenameFolds
<1>4. AreStacks(source, pushed)
    BY <1>1, PushAllEffect
<1> HIDE DEF pushed
<1>5. AccessesOnly(source, w)
    BY <1>1, <1>4, RenameAllWaits
<1> HIDE DEF w, children
<1>6. fr.wait_delete = w
    OBVIOUS
<1> HIDE DEF fr
<1>7. /\ n \in Nat /\ DOMAIN below = 1..n /\ DOMAIN frames' = 1..(n + 1)
      /\ frames'[n + 1] = fr /\ \A k \in 1..n : frames'[k] = below[k]
  <2> DEFINE S == Frame(source)
  <2>1. below \in Seq(S)
      OBVIOUS
  <2> HIDE DEF S
  <2> QED
      BY <2>1, <1>3
<1>8. \A k \in 1..(n + 1) : k \in 1..n \/ k = n + 1
    BY <1>7
<1>9. \A k \in DOMAIN frames' : AccessesOnly(source, frames'[k].wait_delete)
    BY <1>5, <1>6, <1>7, <1>8
<1>10. KeepsEnds(source, f')
    BY <1>2 DEF EndsStay, KeepsEnds
<1> QED
    BY <1>2, <1>9, <1>10 DEF EndsStay

\* A phi in front of a list that is not empty leaves its last.
LEMMA LastBehind ==
    ASSUME NEW S, NEW s \in Seq(S), s # <<>>, NEW i \in S
    PROVE  <<i>> \o s \in Seq(S) /\ <<i>> \o s # <<>> /\ Last(<<i>> \o s) = Last(s)
<1> DEFINE n == Len(s)
           t == <<i>> \o s
<1>1. n \in Nat /\ n # 0
    OBVIOUS
<1>2. t \in Seq(S) /\ Len(t) = n + 1 /\ \A k \in 2..(n + 1) : t[k] = s[k - 1]
    BY <1>1
<1>3. n + 1 \in 2..(n + 1) /\ n + 1 - 1 = n /\ n + 1 # 0
    BY <1>1
<1> HIDE DEF t
<1>4. t[n + 1] = s[n]
    BY <1>2, <1>3
<1>5. t # <<>> /\ Last(t) = Last(s)
    BY <1>2, <1>3, <1>4 DEF Last
<1> QED
    BY <1>2, <1>5 DEF t

LEMMA AddPhiKeepsEnds ==
    ASSUME NEW src, NEW g, HasLists(Instructions(src), g), KeepsEnds(src, g),
           ToSet(src.blocks) \subseteq Blocks, NEW b \in Blocks, NEW v \in StoredVariables(src)
    PROVE  HasLists(Instructions(src), AddPhi(g, b, v)) /\ KeepsEnds(src, AddPhi(g, b, v))
<1> DEFINE i == PhiOf(b, v)
           I == Instructions(src)
           op == [j \in DOMAIN g.op \cup {i} |-> IF j = i THEN "phi" ELSE g.op[j]]
           args == [j \in DOMAIN g.args \cup {i} |-> IF j = i THEN <<>> ELSE g.args[j]]
           k == [g EXCEPT !.op = op, !.args = args]
           code == [g.code EXCEPT ![b] = <<i>> \o @]
           r == AddPhi(g, b, v)
<1>1. r = [k EXCEPT !.code[b] = <<i>> \o @]
    BY DEF AddPhi, AddInstrBegin
<1>2. IsFunction(k) /\ k.code = g.code
  <2>1. IsFunction(g) /\ k = [g EXCEPT !.op = op, !.args = args]
      BY DEF HasLists
  <2> HIDE DEF op, args, k
  <2> QED
      BY <2>1, SMTT(30) DEF IsFunction
<1>3. i \in I /\ g.code \in [Blocks -> Seq(I)]
    BY DEF Instructions, HasLists
<1> HIDE DEF i, I, op, args, k, r
<1>4. r = [k EXCEPT !.code = code]
    BY <1>1, <1>2
<1>5. \A c \in Blocks : code[c] = IF c = b THEN <<i>> \o g.code[b] ELSE g.code[c]
    BY <1>3
<1>6. code \in [Blocks -> Seq(I)]
  <2>1. <<i>> \o g.code[b] \in Seq(I)
      BY <1>3
  <2> QED
      BY <1>3, <2>1
<1> HIDE DEF code
<1>7. IsFunction(r) /\ r.code = code
    BY <1>2, <1>4, SMTT(30) DEF IsFunction
<1>8. KeepsEnds(src, r)
  <2> SUFFICES ASSUME NEW c \in ToSet(src.blocks)
               PROVE  r.code[c] # <<>> /\ Last(r.code[c]) = Last(src.code[c])
      BY DEF KeepsEnds
  <2>1. c \in Blocks /\ g.code[c] # <<>> /\ Last(g.code[c]) = Last(src.code[c])
      BY DEF KeepsEnds
  <2>2. CASE c = b
    <3>1. g.code[b] \in Seq(I)
        BY <1>3
    <3>2. <<i>> \o g.code[b] # <<>> /\ Last(<<i>> \o g.code[b]) = Last(g.code[b])
        BY <1>3, <2>1, <2>2, <3>1, LastBehind
    <3> QED
        BY <1>5, <1>7, <2>1, <2>2, <3>2
  <2>3. CASE c # b
      BY <1>5, <1>7, <2>1, <2>3
  <2> QED
      BY <2>2, <2>3
<1>9. HasLists(I, r)
    BY <1>6, <1>7 DEF HasLists
<1> QED
    BY <1>8, <1>9 DEF I, r

LEMMA PlaceAllKeepsEnds ==
    ASSUME NEW src, NEW g, HasLists(Instructions(src), g), KeepsEnds(src, g),
           ToSet(src.blocks) \subseteq Blocks, NEW v \in StoredVariables(src),
           NEW s \in Seq(Blocks)
    PROVE  KeepsEnds(src, PlaceAll(g, v, s))
<1> DEFINE n == Len(s)
<1>1. n \in Nat /\ DOMAIN s = 1..n /\ \A k \in 1..n : s[k] \in Blocks
    OBVIOUS
<1> HIDE DEF n
<1>2. PICK h : /\ h[0] = g
               /\ \A k \in 1..n : h[k] = AddPhi(h[k - 1], s[k], v)
               /\ h[n] = PlaceAll(g, v, s)
  <2>1. Places(v, g, s, n)
      BY <1>1, PlaceSteps
  <2> QED
      BY <2>1 DEF Places
<1> DEFINE Good(k) == HasLists(Instructions(src), h[k]) /\ KeepsEnds(src, h[k])
           Z == {k \in 0..n : Good(k)}
<1>3. 0 \in Z
    BY <1>1, <1>2
<1>4. ASSUME NEW k \in 1..n, k - 1 \in Z PROVE k \in Z
  <2> DEFINE x == h[k - 1]
             b == s[k]
  <2>1. HasLists(Instructions(src), x) /\ KeepsEnds(src, x) /\ b \in Blocks
        /\ h[k] = AddPhi(x, b, v) /\ k \in 0..n
      BY <1>1, <1>2, <1>4
  <2> HIDE DEF x, b
  <2>2. HasLists(Instructions(src), h[k]) /\ KeepsEnds(src, h[k])
      BY <2>1, AddPhiKeepsEnds
  <2> QED
      BY <2>1, <2>2
<1>5. Good(n)
  <2> HIDE DEF Good
  <2>1. 0..n \subseteq Z
    <3> HIDE DEF Z
    <3> QED
        BY <1>1, <1>3, <1>4, UpTo
  <2> QED
      BY <1>1, <2>1
<1> QED
    BY <1>2, <1>5

\* Deleting instructions keeps their order, and the last one if it stays.
LEMMA DeleteAllOrder ==
    ASSUME NEW I, NEW g, HasLists(I, g), NEW b \in Blocks, NEW s, NEW n \in Nat, DOMAIN s = 1..n
    PROVE  LET t == DeleteAll(g, b, s).code[b]
           IN  /\ InOrder(t, g.code[b])
               /\ g.code[b] # <<>> /\ Last(g.code[b]) \notin ToSet(s)
                    => t # <<>> /\ Last(t) = Last(g.code[b])
<1>1. n \in Nat
    OBVIOUS
<1>2. PICK h : /\ h[0] = g
               /\ \A k \in 1..n : h[k] = DeleteInstr(h[k - 1], b, s[k])
               /\ h[n] = DeleteAll(g, b, s)
  <2>1. Deletes(b, g, s, n)
      BY DeleteSteps
  <2> QED
      BY <2>1 DEF Deletes
<1> DEFINE c == g.code[b]
           keeps == c # <<>> /\ Last(c) \notin ToSet(s)
           Good(k) == /\ HasLists(I, h[k]) /\ InOrder(h[k].code[b], c)
                      /\ keeps => h[k].code[b] # <<>> /\ Last(h[k].code[b]) = Last(c)
           Z == {k \in 0..n : Good(k)}
<1>3. 0 \in Z
  <2>1. InOrder(c, c)
    <3> HIDE DEF c
    <3> QED
        BY DEF InOrder
  <2>2. Good(0)
      BY <1>2, <2>1
  <2> QED
      BY <1>1, <2>2
<1>4. ASSUME NEW k \in 1..n, k - 1 \in Z PROVE k \in Z
  <2> DEFINE x == h[k - 1]
             i == s[k]
             t == x.code[b]
  <2>1. /\ HasLists(I, x) /\ InOrder(t, c)
        /\ keeps => t # <<>> /\ Last(t) = Last(c)
        /\ h[k] = DeleteInstr(x, b, i) /\ k \in 0..n /\ i \in ToSet(s)
      BY <1>2, <1>4 DEF ToSet
  <2> HIDE DEF x, i, c
  <2>2. HasLists(I, h[k])
      BY <2>1, DeleteEffect DEF Deleted
  <2>3. h[k].code[b] = Without(t, i)
    <3> DEFINE left == {u \in x.uses : ~(u[2] = i /\ u[1] \in OperandsOf(x, i))}
               code == [x.code EXCEPT ![b] = Without(@, i)]
    <3>1. h[k] = [x EXCEPT !.code = code, !.uses = left]
        BY <2>1, SMTT(30) DEF DeleteInstr, HasLists, IsFunction
    <3>2. code[b] = Without(t, i)
        BY <2>1 DEF HasLists
    <3> HIDE DEF left, code
    <3>3. h[k].code = code
        BY <2>1, <3>1, SMTT(30) DEF HasLists, IsFunction
    <3> QED
        BY <3>2, <3>3
  <2>4. t \in Seq(I)
      BY <2>1 DEF HasLists
  <2> HIDE DEF t
  <2>5. InOrder(Without(t, i), t)
        /\ (t # <<>> /\ Last(t) # i => Without(t, i) # <<>> /\ Last(Without(t, i)) = Last(t))
      BY <2>4, WithoutOrder
  <2>6. InOrder(Without(t, i), c)
      BY <2>1, <2>5, InOrderTrans
  <2>7. ASSUME keeps PROVE Without(t, i) # <<>> /\ Last(Without(t, i)) = Last(c)
      BY <2>1, <2>5, <2>7
  <2>8. Good(k)
      BY <2>2, <2>3, <2>6, <2>7
  <2> QED
      BY <2>1, <2>8
<1>5. Good(n)
  <2> HIDE DEF Good
  <2>1. 0..n \subseteq Z
    <3> HIDE DEF Z
    <3> QED
        BY <1>1, <1>3, <1>4, UpTo
  <2> QED
      BY <1>1, <2>1
<1> QED
    BY <1>2, <1>5

\* Placing phis.
LEMMA PlacePhisKeepsEnds ==
    ASSUME TypeInv, EndsStay, PlacePhis
    PROVE  EndsStay'
<1> DEFINE b0 == Head(work_list)[1]
           v == Head(work_list)[2]
           missing == {b \in Frontier(Graph(f), b0) : PhiOf(b, v) \notin Placed(f)}
           s == SetToSeq(missing)
<1>1. f' = PlaceAll(f, v, s) /\ UNCHANGED <<source, frames>>
    BY DEF PlacePhis, PlaceAll
<1>2. v \in StoredVariables(source)
  <2>1. work_list \in Seq(Blocks \X StoredVariables(source)) /\ work_list # <<>>
      BY DEF TypeInv, PlacePhis
  <2>2. Head(work_list) \in Blocks \X StoredVariables(source)
      BY <2>1
  <2> QED
      BY <2>2
<1>3. missing \in SUBSET Blocks
    BY DEF Frontier
<1> HIDE DEF v, missing
<1>4. s \in Seq(Blocks)
  <2>1. IsFiniteSet(missing)
      BY <1>3, FS_Subset, BlocksAssumption DEF BlocksAssumption
  <2>2. s \in Seq(missing)
      BY <2>1, SetToSeqOf
  <2> HIDE DEF s
  <2> QED
      BY <1>3, <2>2
<1> HIDE DEF s
<1>5. HasLists(Instructions(source), f) /\ ToSet(source.blocks) \subseteq Blocks
  <2>1. BuiltByIRBuilder(source) /\ Derived(source, f)
      BY SourceBuilt DEF TypeInv
  <2>2. source.blocks \in Seq(Blocks)
      BY <2>1 DEF BuiltByIRBuilder
  <2> QED
      BY <2>1, <2>2, ToSetFinite DEF Derived, HoldsInstructions, HasLists
<1>6. KeepsEnds(source, f')
    BY <1>1, <1>2, <1>4, <1>5, PlaceAllKeepsEnds DEF EndsStay
<1> QED
    BY <1>1, <1>6 DEF EndsStay

\* Entering a block.
LEMMA EnteringKeepsEnds ==
    ASSUME TypeInv, EndsStay, StartRenaming \/ RenameChild
    PROVE  EndsStay'
<1>1. CASE StartRenaming
  <2>1. Rename(Entry, <<>>) /\ Entry \in Blocks /\ <<>> \in Seq(Frame(source)) /\ DOMAIN <<>> = {}
      BY <1>1, BlocksAssumption DEF StartRenaming, BlocksAssumption
  <2> QED
      BY <2>1, RenameKeepsEnds
<1>2. CASE RenameChild
  <2> DEFINE n == Len(frames)
  <2>1. PICK c \in Last(frames).todo : Rename(c, [frames EXCEPT ![n].todo = @ \ {c}])
      BY <1>2 DEF RenameChild
  <2> DEFINE below == [frames EXCEPT ![n].todo = @ \ {c}]
             top == [frames[n] EXCEPT !.todo = @ \ {c}]
  <2>2. frames \in Seq(Frame(source)) /\ frames # <<>>
      BY <1>2 DEF TypeInv, RenameChild
  <2>3. /\ n \in Nat /\ n # 0 /\ DOMAIN frames = 1..n /\ n \in 1..n /\ Last(frames) = frames[n]
        /\ \A k \in 1..n : frames[k] \in Frame(source)
      BY <2>2 DEF Last
  <2>4. c \in Blocks
      BY <2>1, <2>3 DEF Frame
  <2>5. top \in Frame(source) /\ top.wait_delete = frames[n].wait_delete
      BY <2>3 DEF Frame
  <2>6. below = [frames EXCEPT ![n] = top]
      OBVIOUS
  <2>7. Rename(c, below)
      BY <2>1
  <2> HIDE DEF top, n, below
  <2>8. /\ below \in [1..n -> Frame(source)]
        /\ \A k \in 1..n : below[k] = IF k = n THEN top ELSE frames[k]
      BY <2>2, <2>3, <2>5, <2>6
  <2>9. below \in Seq(Frame(source)) /\ DOMAIN below = 1..n
      BY <2>8, <2>3
  <2>10. \A k \in DOMAIN below : AccessesOnly(source, below[k].wait_delete)
      BY <2>3, <2>5, <2>8, <2>9 DEF EndsStay
  <2> QED
      BY <2>4, <2>7, <2>9, <2>10, RenameKeepsEnds
<1> QED
    BY <1>1, <1>2

\* Leaving a block: what it ends with is no load and no store.
LEMMA LeaveBlockKeepsEnds ==
    ASSUME TypeInv, EndsStay, EndsItsBlocks(source), LeaveBlock
    PROVE  EndsStay'
<1> DEFINE top == Last(frames)
           b == top.bb
           s == top.wait_delete
           n == Len(frames)
<1>1. f' = DeleteAll(f, b, s) /\ frames' = Front(frames) /\ source' = source
    BY DEF LeaveBlock, DeleteAll
<1>2. frames \in Seq(Frame(source)) /\ frames # <<>>
    BY DEF TypeInv, LeaveBlock
<1>3. /\ n \in Nat /\ n # 0 /\ DOMAIN frames = 1..n /\ n \in 1..n /\ top = frames[n]
      /\ \A k \in 1..n : frames[k] \in Frame(source)
    BY <1>2 DEF Last
<1>4. DOMAIN frames' = 1..(n - 1) /\ \A k \in 1..(n - 1) : frames'[k] = frames[k] /\ k \in 1..n
  <2> DEFINE F == Front(frames)
  <2>1. /\ F \in Seq(Frame(source)) /\ Len(F) = n - 1
        /\ \A k \in 1..(n - 1) : F[k] = frames[k]
      BY <1>2, FrontLast
  <2> HIDE DEF F
  <2>2. DOMAIN F = 1..(n - 1)
      BY <2>1
  <2>3. \A k \in 1..(n - 1) : k \in 1..n
      BY <1>3
  <2>4. frames' = F
      BY <1>1 DEF F
  <2> QED
      BY <2>1, <2>2, <2>3, <2>4
<1>5. \A k \in DOMAIN frames' : AccessesOnly(source, frames'[k].wait_delete)
    BY <1>3, <1>4 DEF EndsStay
<1>6. AccessesOnly(source, s) /\ b \in Blocks /\ s \in Seq(Instructions(source))
    BY <1>3 DEF EndsStay, Frame
<1>7. BuiltByIRBuilder(source) /\ Derived(source, f)
    BY SourceBuilt DEF TypeInv
<1>8. HasLists(Instructions(source), f) /\ ToSet(source.blocks) \subseteq Blocks
  <2>1. source.blocks \in Seq(Blocks)
      BY <1>7 DEF BuiltByIRBuilder
  <2> QED
      BY <1>7, <2>1, ToSetFinite DEF Derived, HoldsInstructions, HasLists
<1> HIDE DEF b, s, top
<1>9. PICK m \in Nat : DOMAIN s = 1..m
    BY <1>6
<1>10. \A c \in Blocks : c # b => f'.code[c] = f.code[c]
    BY <1>1, <1>6, <1>7, <1>9, DeleteAllDerived
<1>11. f.code[b] # <<>> /\ Last(f.code[b]) \notin ToSet(s)
         => f'.code[b] # <<>> /\ Last(f'.code[b]) = Last(f.code[b])
    BY <1>1, <1>6, <1>8, <1>9, DeleteAllOrder
<1>12. ASSUME NEW c \in ToSet(source.blocks)
       PROVE  f'.code[c] # <<>> /\ Last(f'.code[c]) = Last(source.code[c])
  <2>1. c \in Blocks /\ f.code[c] # <<>> /\ Last(f.code[c]) = Last(source.code[c])
      BY <1>8 DEF EndsStay, KeepsEnds
  <2>2. Last(source.code[c]) \notin ToSet(s)
    <3> DEFINE t == source.code[c]
    <3>1. /\ t # <<>> /\ t \in Seq(DOMAIN source.op)
          /\ \A k \in DOMAIN t : IsEnd(source.op[t[k]]) <=> k = Len(t)
        BY <1>7, <2>1 DEF EndsItsBlocks, BuiltByIRBuilder
    <3> HIDE DEF t
    <3>2. Len(t) \in DOMAIN t /\ Last(t) = t[Len(t)]
        BY <3>1 DEF Last
    <3>3. source.op[Last(t)] \notin {"load", "store"}
        BY <3>1, <3>2 DEF IsEnd
    <3> QED
        BY <3>3, <1>6 DEF t, AccessesOnly, IsAccess
  <2>3. CASE c = b
      BY <1>11, <2>1, <2>2, <2>3
  <2>4. CASE c # b
      BY <1>10, <2>1, <2>4
  <2> QED
      BY <2>3, <2>4
<1>13. KeepsEnds(source, f')
    BY <1>12 DEF KeepsEnds
<1> QED
    BY <1>1, <1>5, <1>13 DEF EndsStay

\* What Mem2Reg leaves ends its blocks as the source does.
LEMMA EndsStayInit ==
    ASSUME Init, EndsItsBlocks(source)
    PROVE  EndsStay
<1>1. f = source /\ frames = <<>> /\ DOMAIN <<>> = {}
    BY DEF Init
<1>2. KeepsEnds(source, f)
    BY <1>1 DEF KeepsEnds, EndsItsBlocks
<1> QED
    BY <1>1, <1>2 DEF EndsStay

LEMMA EndsStayNext ==
    ASSUME TypeInv, EndsStay, EndsItsBlocks(source), Next
    PROVE  EndsStay'
<1>1. CASE NextVariable \/ RemoveAlloca \/ RunNextBlock
  <2>1. UNCHANGED <<source, f, frames>>
      BY <1>1 DEF NextVariable, RemoveAlloca, RunNextBlock, passVars
  <2> QED
      BY <2>1 DEF EndsStay
<1>2. CASE PlacePhis
    BY <1>2, PlacePhisKeepsEnds
<1>3. CASE StartRenaming \/ RenameChild
    BY <1>3, EnteringKeepsEnds
<1>4. CASE LeaveBlock
    BY <1>4, LeaveBlockKeepsEnds
<1> QED
    BY <1>1, <1>2, <1>3, <1>4 DEF Next

\* Nothing has been merged into block b.
IsUnjoined(src, g, b) ==
    /\ g.code[b] # <<>> /\ Last(g.code[b]) = Last(src.code[b])
    /\ \A k \in DOMAIN g.code[b] :
         /\ g.code[b][k][2] = b
         /\ IsEnd(g.op[g.code[b][k]]) <=> k = Len(g.code[b])

\* Block b ends as a block behind it does.
IsJoined(src, g, b) == g.code[b] # <<>> /\ IsBefore(src, b, Last(g.code[b])[2])

\* From place n on, list s has one branch or return, its last.
EndsBehind(op, s, n) ==
    /\ IsEnd(op[Last(s)])
    /\ \A k \in n..Len(s) : IsEnd(op[s[k]]) <=> k = Len(s)

HoldsPlaced(src, code) ==
    \A b \in ToSet(src.blocks) : ToSet(code[b]) \cap DOMAIN src.op \subseteq Placed(src)

\* The branches of the block at work that are to be deleted were made in blocks
\* before the one whose end the block has got.
ListsInv ==
    /\ stage = "waiting" => EndsStay
    /\ stage # "waiting" =>
         /\ Listed(source, f) /\ HoldsPlaced(source, f.code)
         /\ \A b \in ToSet(f.blocks) : IsUnjoined(source, f, b) \/ IsJoined(source, f, b)
    /\ stage = "pass" =>
         /\ \A b \in ToSet(source.blocks) :
              round = 1 \/ IsBefore(source, bb, b) => IsUnjoined(source, f, b)
         /\ EndsBehind(f.op, f.code[bb], instr)
         /\ \A i \in ToSet(wait_delete) :
              IsEnd(f.op[i]) => /\ IsBefore(source, i[2], Last(f.code[bb])[2])
                                /\ IsJoined(source, f, bb)

\* A list that is not empty ends with one of its elements.
LEMMA LastIn ==
    ASSUME NEW S, NEW s \in Seq(S), s # <<>>
    PROVE  /\ Len(s) \in DOMAIN s /\ Last(s) = s[Len(s)] /\ Last(s) \in ToSet(s) /\ Last(s) \in S
           /\ DOMAIN s = 1..Len(s) /\ Len(s) \in Nat /\ Len(s) # 0
<1>1. Len(s) \in Nat /\ Len(s) # 0 /\ DOMAIN s = 1..Len(s)
    OBVIOUS
<1>2. Len(s) \in DOMAIN s /\ Last(s) = s[Len(s)]
    BY <1>1 DEF Last
<1> QED
    BY <1>1, <1>2 DEF ToSet

LEMMA UnjoinedEnds ==
    ASSUME NEW S, NEW src, NEW g, NEW b, g.code[b] \in Seq(S), IsUnjoined(src, g, b)
    PROVE  EndsBehind(g.op, g.code[b], 1) /\ Last(g.code[b])[2] = b
<1> DEFINE s == g.code[b]
<1>1. s # <<>> /\ \A k \in DOMAIN s : s[k][2] = b /\ (IsEnd(g.op[s[k]]) <=> k = Len(s))
    BY DEF IsUnjoined
<1>2. Len(s) \in DOMAIN s /\ Last(s) = s[Len(s)] /\ DOMAIN s = 1..Len(s)
    BY <1>1, LastIn
<1> HIDE DEF s
<1>3. EndsBehind(g.op, s, 1) /\ Last(s)[2] = b
    BY <1>1, <1>2 DEF EndsBehind
<1> QED
    BY <1>3 DEF s

\* Mem2Reg leaves each block with the end it had.
LEMMA DerivedUnjoined ==
    ASSUME NEW src, BuiltByIRBuilder(src), EndsItsBlocks(src), NEW g, Derived(src, g),
           KeepsEnds(src, g), NEW b \in ToSet(src.blocks)
    PROVE  IsUnjoined(src, g, b)
<1> DEFINE s == g.code[b]
           t == src.code[b]
<1>1. b \in Blocks
  <2>1. src.blocks \in Seq(Blocks)
      BY DEF BuiltByIRBuilder
  <2> QED
      BY <2>1, ToSetFinite
<1>2. /\ s \in Seq(Instructions(src)) /\ IsInjective(s) /\ t \in Seq(DOMAIN src.op)
      /\ s # <<>> /\ t # <<>> /\ Last(s) = Last(t)
      /\ \A k \in DOMAIN t : (IsEnd(src.op[t[k]]) <=> k = Len(t)) /\ t[k][2] = b
      /\ \A i \in ToSet(s) : i \in ToSet(t) \/ \E v \in StoredVariables(src) : i = PhiOf(b, v)
    BY <1>1 DEF Derived, HoldsInstructions, KeepsEnds, EndsItsBlocks, BuiltByIRBuilder
<1> HIDE DEF s, t
<1>3. /\ Len(s) \in DOMAIN s /\ Last(s) = s[Len(s)] /\ DOMAIN s = 1..Len(s)
      /\ Len(t) \in DOMAIN t /\ Last(t) = t[Len(t)] /\ Last(t) \in DOMAIN src.op
      /\ \A j, k \in DOMAIN s : s[j] = s[k] => j = k
    BY <1>2, LastIn DEF IsInjective
<1>4. ASSUME NEW k \in DOMAIN s
      PROVE  s[k][2] = b /\ (IsEnd(g.op[s[k]]) <=> k = Len(s))
  <2>1. s[k] \in ToSet(s)
      BY DEF ToSet
  <2>2. CASE s[k] \in ToSet(t)
    <3>1. PICK m \in DOMAIN t : s[k] = t[m]
        BY <2>2 DEF ToSet
    <3>2. s[k] \in DOMAIN src.op
        BY <1>2, <3>1
    <3>3. g.op[s[k]] = src.op[s[k]]
        BY <3>2 DEF Derived, KeepsOperands, KeepsAccesses
    <3>4. (IsEnd(src.op[s[k]]) <=> m = Len(t)) /\ s[k][2] = b
        BY <1>2, <3>1
    <3>5. IsEnd(src.op[s[k]]) => k = Len(s)
        BY <1>2, <1>3, <3>1, <3>4
    <3>6. k = Len(s) => IsEnd(src.op[s[k]])
        BY <1>2, <1>3
    <3> QED
        BY <3>3, <3>4, <3>5, <3>6
  <2>3. CASE s[k] \notin ToSet(t)
    <3>1. PICK v \in StoredVariables(src) : s[k] = PhiOf(b, v)
        BY <1>2, <2>1, <2>3
    <3>2. s[k][2] = b /\ IsPhi(s[k])
        BY <3>1 DEF PhiOf, IsPhi
    <3>3. s[k] \in DOMAIN g.op
        BY <1>1, <2>1 DEF Derived, s
    <3>4. g.op[s[k]] = "phi"
        BY <3>2, <3>3 DEF Derived, KeepsOperands, KeepsAccesses
    <3>5. k # Len(s)
      <4>1. Last(t) \in ToSet(t)
          BY <1>2, LastIn
      <4> QED
          BY <4>1, <1>2, <1>3, <2>3
    <3> QED
        BY <3>2, <3>4, <3>5 DEF IsEnd
  <2> QED
      BY <2>2, <2>3
<1> QED
    BY <1>2, <1>4 DEF IsUnjoined, s, t

\* What the pass starts with.
LEMMA ListsStart ==
    ASSUME PropagationInv, ListsInv, StartPass, EndsItsBlocks(source), ListsFollowBranches(source)
    PROVE  ListsInv'
<1>1. /\ stage = "waiting" /\ stage' = "pass"
      /\ UNCHANGED <<source, f>>
      /\ round' = 1 /\ bb' = Head(f.blocks) /\ instr' = 1 /\ wait_delete' = <<>>
    BY DEF StartPass, GivePass, vars
<1>2. Derived(source, f) /\ BuiltByIRBuilder(source) /\ EndsStay
    BY <1>1, SourceBuilt DEF PropagationInv, Inv, TypeInv, ListsInv
<1>3. /\ IsFunction(f) /\ f.blocks = source.blocks /\ f.succ = source.succ /\ f.pre = source.pre
      /\ f.blocks \in Seq(Blocks) /\ Entry \in ToSet(f.blocks)
      /\ f.succ \in [Blocks -> Seq(Blocks)] /\ f.pre \in [Blocks -> Seq(Blocks)]
    BY <1>2 DEF Derived, BuiltByIRBuilder
<1>4. ToSet(f.blocks) \subseteq Blocks
    BY <1>3, ToSetFinite
<1>5. Listed(source, f)
  <2>1. InOrder(f.blocks, source.blocks)
    <3> DEFINE s == source.blocks
    <3>1. f.blocks = s
        BY <1>3
    <3> HIDE DEF s
    <3>2. InOrder(s, s)
        BY DEF InOrder
    <3> QED
        BY <3>1, <3>2 DEF s
  <2>2. \A b \in Blocks : ToSet(source.succ[b]) \subseteq ToSet(source.blocks)
      BY <1>2 DEF BuiltByIRBuilder, Graph
  <2>3. Neighbours(source, f.blocks, f.succ, f.pre)
    <3> SUFFICES ASSUME NEW b \in ToSet(source.blocks)
                 PROVE  /\ ToSet(source.succ[b]) = ToSet(source.succ[b]) \cap ToSet(source.blocks)
                        /\ ToSet(source.pre[b]) = {c \in ToSet(source.blocks) :
                                                      b \in ToSet(source.succ[c])}
        BY <1>3 DEF Neighbours
    <3>1. b \in Blocks
        BY <1>3, <1>4
    <3> QED
        BY <2>2, <3>1 DEF ListsFollowBranches
  <2> QED
      BY <1>3, <2>1, <2>3 DEF Listed
<1>6. HoldsPlaced(source, f.code)
    BY <1>2, DerivedApart DEF Apart, HoldsPlaced
<1>7. \A b \in ToSet(f.blocks) : IsUnjoined(source, f, b)
    BY <1>2, <1>3, DerivedUnjoined DEF EndsStay
<1>8. EndsBehind(f.op, f.code[Head(f.blocks)], 1)
  <2>1. Head(f.blocks) \in ToSet(f.blocks)
      BY <1>3, NextInList
  <2>2. f.code[Head(f.blocks)] \in Seq(Instructions(source))
      BY <1>2, <1>4, <2>1 DEF Derived, HoldsInstructions
  <2> QED
      BY <1>7, <2>1, <2>2, UnjoinedEnds
<1>9. ToSet(<<>>) = {}
    BY DEF ToSet
<1>10. \A b \in ToSet(source'.blocks) : IsUnjoined(source', f', b)
    BY <1>1, <1>3, <1>7
<1>11. EndsBehind(f'.op, f'.code[bb'], instr')
    BY <1>1, <1>8
<1>12. \A i : i \notin ToSet(wait_delete')
    BY <1>1, <1>9
<1>13. Listed(source', f') /\ HoldsPlaced(source', f'.code) /\ f'.blocks = source'.blocks
    BY <1>1, <1>3, <1>5, <1>6
<1>14. stage' = "pass"
    BY <1>1
<1> QED
    BY <1>10, <1>11, <1>12, <1>13, <1>14 DEF ListsInv

\* A step of the loop over the instructions that changes no block, and lets no
\* branch wait to be deleted, keeps ListsInv.
LEMMA ListsSteps ==
    ASSUME PropagationInv, ListsInv, NEW i, At(i), Step, stage' = stage,
           f'.code = f.code, f'.op = f.op, Listed(source, f'), f'.blocks = f.blocks,
           wait_delete' = wait_delete \/ (wait_delete' = Append(wait_delete, i) /\ ~IsEnd(f.op[i]))
    PROVE  ListsInv'
<1>1. /\ stage = "pass" /\ wait_delete \in Seq(Instructions(source))
      /\ UNCHANGED <<source, round, bb>> /\ instr' = instr + 1
    BY DEF At, PropagationInv, Step
<1>2. instr \in Nat /\ i \in Instructions(source)
    BY AtInstruction
<1>3. \A j \in ToSet(wait_delete') : j \in ToSet(wait_delete) \/ ~IsEnd(f.op[j])
  <2>1. CASE wait_delete' = wait_delete
      BY <2>1
  <2>2. CASE wait_delete' = Append(wait_delete, i) /\ ~IsEnd(f.op[i])
    <3> DEFINE w == wait_delete
    <3>1. w \in Seq(Instructions(source))
        BY <1>1
    <3> HIDE DEF w
    <3>2. /\ DOMAIN Append(w, i) = 1..(Len(w) + 1)
          /\ \A k \in 1..(Len(w) + 1) : k \in DOMAIN w \/ k = Len(w) + 1
          /\ \A k \in DOMAIN w : Append(w, i)[k] = w[k]
          /\ Append(w, i)[Len(w) + 1] = i
        BY <1>2, <3>1
    <3>3. \A j \in ToSet(Append(w, i)) : j \in ToSet(w) \/ j = i
        BY <3>2 DEF ToSet
    <3> QED
        BY <2>2, <3>3 DEF w
  <2> QED
      BY <2>1, <2>2
<1>4. \A b : /\ IsUnjoined(source', f', b) <=> IsUnjoined(source, f, b)
             /\ IsJoined(source', f', b) <=> IsJoined(source, f, b)
    BY <1>1 DEF IsUnjoined, IsJoined
<1>5. EndsBehind(f.op, f.code[bb], instr + 1)
  <2>1. EndsBehind(f.op, f.code[bb], instr)
      BY <1>1 DEF ListsInv
  <2>2. f.code[bb] \in Seq(Instructions(source) \cap DOMAIN f.op)
      BY AtInstruction
  <2>3. Len(f.code[bb]) \in Nat
      BY <2>2
  <2>4. \A k \in (instr + 1)..Len(f.code[bb]) : k \in instr..Len(f.code[bb])
      BY <1>2, <2>3
  <2> QED
      BY <2>1, <2>4 DEF EndsBehind
<1>6. /\ HoldsPlaced(source', f'.code) /\ Listed(source', f')
      /\ EndsBehind(f'.op, f'.code[bb'], instr')
    BY <1>1, <1>5 DEF ListsInv
<1>7. \A b \in ToSet(source'.blocks) :
        round' = 1 \/ IsBefore(source', bb', b) => IsUnjoined(source', f', b)
    BY <1>1, <1>4 DEF ListsInv
<1>8. \A b \in ToSet(f'.blocks) : IsUnjoined(source', f', b) \/ IsJoined(source', f', b)
    BY <1>1, <1>4 DEF ListsInv
<1>9. \A j \in ToSet(wait_delete') :
        IsEnd(f'.op[j]) => /\ IsBefore(source', j[2], Last(f'.code[bb'])[2])
                           /\ IsJoined(source', f', bb')
    BY <1>1, <1>3, <1>4 DEF ListsInv
<1>10. stage' = "pass"
    BY <1>1
<1> QED
    BY <1>6, <1>7, <1>8, <1>9, <1>10 DEF ListsInv

\* Folding touches no list.
LEMMA ListsFold ==
    ASSUME PropagationInv, ListsInv, Fold \/ FoldPhi
    PROVE  ListsInv'
<1>1. PICK i, w : /\ At(i) /\ Step /\ stage' = stage /\ (IsFolded(i) \/ IsPhi(i))
                  /\ f' = ReplaceAllUseWith(f, i, w) /\ wait_delete' = Append(wait_delete, i)
    BY DEF Fold, FoldPhi
<1>2. /\ BuiltByIRBuilder(source) /\ Shape(source, given, f)
      /\ i \in Instructions(source) /\ i \in DOMAIN f.op /\ stage = "pass"
    BY <1>1, AtInstruction, SourceBuilt DEF At, PropagationInv
<1>3. IsFunction(f) /\ KeepsOperands(source, f)
    BY <1>2 DEF Shape, HasLists
<1>4. /\ IsFunction(f') /\ f'.code = f.code /\ f'.op = f.op
      /\ f'.blocks = f.blocks /\ f'.succ = f.succ /\ f'.pre = f.pre
    BY <1>1, <1>2, <1>3, ReplaceEffect
<1>5. Listed(source, f')
    BY <1>2, <1>4 DEF ListsInv, Listed
<1>6. ~IsEnd(f.op[i])
  <2>1. CASE IsFolded(i)
      BY <2>1 DEF IsFolded, IsEnd, Binary, ICmp, FCmp
  <2>2. CASE IsPhi(i)
    <3>1. f.op[i] = "phi"
        BY <1>2, <1>3, <2>2 DEF KeepsOperands, KeepsAccesses
    <3> QED
        BY <3>1 DEF IsEnd
  <2> QED
      BY <1>1, <2>1, <2>2
<1> QED
    BY <1>1, <1>4, <1>5, <1>6, ListsSteps

\* Two lists with one end each, the first one's taken in by the second.
LEMMA EndsJoined ==
    ASSUME NEW S, NEW s \in Seq(S), NEW t \in Seq(S), t # <<>>, NEW op, EndsBehind(op, t, 1)
    PROVE  /\ s \o t # <<>> /\ Last(s \o t) = Last(t)
           /\ EndsBehind(op, s \o t, Len(s) + 1)
<1> DEFINE n == Len(s)
           m == Len(t)
           u == s \o t
<1>1. n \in Nat /\ m \in Nat /\ m # 0
    OBVIOUS
<1>2. Len(u) = n + m /\ \A k \in (n + 1)..(n + m) : u[k] = t[k - n]
    BY <1>1
<1>3. n + m \in (n + 1)..(n + m) /\ (n + m) - n = m /\ n + m # 0 /\ u \in Seq(S)
    BY <1>1
<1>4. \A k \in (n + 1)..(n + m) : k - n \in 1..m /\ (k - n = m <=> k = n + m)
    BY <1>1
<1>5. /\ IsEnd(op[Last(t)]) /\ Last(t) = t[m]
      /\ \A k \in 1..m : IsEnd(op[t[k]]) <=> k = m
    BY <1>1 DEF EndsBehind, Last
<1> HIDE DEF u, n, m
<1>6. u # <<>> /\ Last(u) = u[n + m]
    BY <1>2, <1>3 DEF Last
<1>7. u[n + m] = t[m]
    BY <1>2, <1>3
<1>8. \A k \in (n + 1)..(n + m) : IsEnd(op[u[k]]) <=> k = n + m
    BY <1>2, <1>4, <1>5
<1>9. EndsBehind(op, u, n + 1)
    BY <1>2, <1>5, <1>6, <1>7, <1>8 DEF EndsBehind
<1> QED
    BY <1>5, <1>6, <1>7, <1>9 DEF u, n

\* A branch that is found in a block was made in one of the source, and goes to
\* blocks behind that.
LEMMA MadeBefore ==
    ASSUME NEW src, BuiltByIRBuilder(src), EndsItsBlocks(src), ForksGoForward(src),
           NEW i \in Placed(src), IsFork(src, i), NEW n \in {2, 3}
    PROVE  IsBefore(src, i[2], BlockOf(src.args[i][n]))
<1>1. PICK b \in ToSet(src.blocks) : i \in ToSet(src.code[b])
    BY DEF Placed
<1>2. PICK m \in DOMAIN src.blocks : src.blocks[m] = b
    BY <1>1 DEF ToSet
<1>3. PICK k \in (m + 1)..Len(src.blocks) : src.args[i][n] = Label(src.blocks[k])
    BY <1>1, <1>2 DEF ForksGoForward
<1>4. k \in DOMAIN src.blocks /\ m < k
  <2>1. src.blocks \in Seq(Blocks)
      BY DEF BuiltByIRBuilder
  <2> QED
      BY <2>1, <1>2, <1>3
<1>5. i[2] = b
    BY <1>1 DEF EndsItsBlocks, ToSet
<1>6. BlockOf(src.args[i][n]) = src.blocks[k]
    BY <1>3 DEF BlockOf, Label
<1> QED
    BY <1>2, <1>4, <1>5, <1>6 DEF IsBefore

\* The lists when a branch is taken.
LEMMA BranchListed ==
    ASSUME PropagationInv, Listed(source, f), TakeBranch, round # 1
    PROVE  Listed(source, f')
<1>1. PICK i \in Placed(f) :
        /\ At(i) /\ IsConstantBranch(i)
        /\ f' = IF f.args[i][1] = Const(1) THEN TakeFirst(f.args[i]) ELSE TakeSecond(f.args[i])
    BY DEF TakeBranch
<1> DEFINE a == f.args[i]
<1>2. /\ IsBefore(source, bb, BlockOf(a[2])) /\ IsBefore(source, bb, BlockOf(a[3]))
      /\ BuiltByIRBuilder(source)
    BY <1>1, AtBranch, SourceBuilt DEF At, PropagationInv
<1>3. BlockOf(a[2]) \in Blocks /\ BlockOf(a[3]) \in Blocks
    BY <1>2, BeforeIsOrder
<1> HIDE DEF a
<1>4. Listed(source, TakeFirst(a)) /\ Listed(source, TakeSecond(a))
    BY <1>3, TakeListed
<1> QED
    BY <1>1, <1>4 DEF a

\* Taking a branch: the block at work ends as the target taken does, and that is
\* behind the block the branch was made in.
LEMMA ListsBranches ==
    ASSUME PropagationInv, ListsInv, EndsItsBlocks(source), ForksGoForward(source), TakeBranch
    PROVE  ListsInv'
<1>1. Step /\ stage' = stage
    BY DEF TakeBranch
<1>2. CASE round = 1
  <2>1. PICK i : At(i)
      BY DEF TakeBranch
  <2>2. f' = f /\ wait_delete' = wait_delete
      BY <1>2 DEF TakeBranch
  <2>3. Listed(source, f')
      BY <2>1, <2>2 DEF At, ListsInv
  <2> QED
      BY <1>1, <2>1, <2>2, <2>3, ListsSteps
<1>3. CASE round # 1
  <2>1. PICK i, m, gone : Goes(i, m, gone)
      BY <1>3, BranchTaken
  <2>2. /\ At(i) /\ IsConstantBranch(i) /\ Taken(source, given, f, m.to, gone, f')
        /\ wait_delete' = Append(wait_delete, i)
        /\ {m.to, m.other} = {BlockOf(f.args[i][2]), BlockOf(f.args[i][3])}
      BY <2>1 DEF Goes
  <2>3. /\ IsBefore(source, bb, m.to) /\ i \in DOMAIN source.op /\ IsFork(source, i)
        /\ {m.to, m.other} = {BlockOf(source.args[i][2]), BlockOf(source.args[i][3])}
      BY <2>2, AtBranch
  <2>4. /\ BuiltByIRBuilder(source) /\ Shape(source, given, f) /\ stage = "pass"
        /\ wait_delete \in Seq(Instructions(source))
        /\ UNCHANGED <<source, bb, round>> /\ instr' = instr + 1
      BY <1>1, <2>2, SourceBuilt DEF At, PropagationInv, Step
  <2> DEFINE s == f.code[bb]
             t == f.code[m.to]
             I == Instructions(source) \cap DOMAIN f.op
  <2>5. /\ instr \in 1..Len(s) /\ i = s[instr] /\ i \in ToSet(s) /\ s \in Seq(I)
        /\ bb \in Blocks /\ bb \in ToSet(source.blocks)
        /\ i \in Instructions(source)
      BY <2>2, AtInstruction
  <2>6. /\ m.to \in Blocks /\ m.to \in ToSet(source.blocks) /\ m.to # bb
        /\ t \in Seq(I) /\ \A c : IsBefore(source, m.to, c) => IsBefore(source, bb, c)
    <3>1. /\ m.to \in Blocks /\ m.to \in ToSet(source.blocks) /\ m.to # bb
          /\ \A c : IsBefore(source, m.to, c) => IsBefore(source, bb, c)
        BY <2>3, <2>4, BeforeIsOrder
    <3>2. t \in Seq(I)
        BY <2>4, <3>1 DEF Shape, HasLists
    <3> QED
        BY <3>1, <3>2
  <2>7. /\ f'.code[bb] = s \o t /\ f'.op = f.op /\ ToSet(f'.blocks) \subseteq ToSet(f.blocks)
        /\ \A b \in Blocks : b # bb => f'.code[b] = f.code[b]
      BY <2>2, <2>5 DEF Taken
  <2>8. IsUnjoined(source, f, m.to)
      BY <2>3, <2>4, <2>6 DEF ListsInv
  <2>9. EndsBehind(f.op, t, 1) /\ Last(t)[2] = m.to /\ t # <<>>
    <3>1. EndsBehind(f.op, t, 1)
        BY <2>6, <2>8, UnjoinedEnds
    <3>2. Last(t)[2] = m.to
        BY <2>6, <2>8, LastIn DEF IsUnjoined
    <3> QED
        BY <2>8, <3>1, <3>2 DEF IsUnjoined
  <2>10. EndsBehind(f.op, s, instr)
      BY <2>4 DEF ListsInv
  <2> HIDE DEF s, t, I
  <2>11. instr = Len(s) /\ Last(s) = i
    <3>1. instr \in instr..Len(s) /\ IsEnd(f.op[s[instr]])
        BY <2>2, <2>5 DEF IsConstantBranch, IsEnd
    <3>2. instr = Len(s)
        BY <2>10, <3>1 DEF EndsBehind
    <3> QED
        BY <2>5, <3>2 DEF Last
  <2>12. /\ s \o t # <<>> /\ Last(s \o t) = Last(t)
         /\ EndsBehind(f.op, s \o t, instr + 1)
         /\ ToSet(s \o t) = ToSet(s) \cup ToSet(t)
      BY <2>5, <2>6, <2>9, <2>11, EndsJoined, Concatenation
  <2>13. IsBefore(source, i[2], m.to)
    <3>1. i \in Placed(source)
      <4>1. HoldsPlaced(source, f.code)
          BY <2>4 DEF ListsInv
      <4> QED
          BY <2>3, <2>5, <4>1 DEF HoldsPlaced, s
    <3>2. \A n \in {2, 3} : IsBefore(source, i[2], BlockOf(source.args[i][n]))
        BY <2>3, <2>4, <3>1, MadeBefore
    <3> QED
        BY <2>3, <3>2
  <2>14. IsJoined(source, f', bb)
      BY <2>3, <2>7, <2>9, <2>12 DEF IsJoined
  <2>15. ASSUME NEW j \in ToSet(wait_delete'), IsEnd(f.op[j])
         PROVE  IsBefore(source, j[2], m.to)
    <3>1. j \in ToSet(wait_delete) \/ j = i
      <4> DEFINE w == wait_delete
      <4>1. w \in Seq(Instructions(source))
          BY <2>4
      <4> HIDE DEF w
      <4>2. /\ DOMAIN Append(w, i) = 1..(Len(w) + 1)
            /\ \A k \in 1..(Len(w) + 1) : k \in DOMAIN w \/ k = Len(w) + 1
            /\ \A k \in DOMAIN w : Append(w, i)[k] = w[k]
            /\ Append(w, i)[Len(w) + 1] = i
          BY <2>5, <4>1
      <4>3. \A x \in ToSet(Append(w, i)) : x \in ToSet(w) \/ x = i
          BY <4>2 DEF ToSet
      <4> QED
          BY <2>2, <2>15, <4>3 DEF w
    <3>2. CASE j = i
        BY <3>2, <2>13
    <3>3. CASE j \in ToSet(wait_delete)
      <4>1. IsBefore(source, j[2], i[2])
          BY <2>4, <2>11, <2>15, <3>3 DEF ListsInv, s
      <4> QED
          BY <4>1, <2>4, <2>13, BeforeIsOrder
    <3> QED
        BY <3>1, <3>2, <3>3
  <2>16. \A b \in Blocks : b # bb =>
           /\ IsUnjoined(source, f', b) <=> IsUnjoined(source, f, b)
           /\ IsJoined(source, f', b) <=> IsJoined(source, f, b)
      BY <2>7 DEF IsUnjoined, IsJoined
  <2>17. HoldsPlaced(source, f'.code)
    <3>1. HoldsPlaced(source, f.code) /\ ToSet(source.blocks) \subseteq Blocks
      <4>1. source.blocks \in Seq(Blocks)
          BY <2>4 DEF BuiltByIRBuilder
      <4> QED
          BY <2>4, <4>1, ToSetFinite DEF ListsInv
    <3>2. (ToSet(s) \cup ToSet(t)) \cap DOMAIN source.op \subseteq Placed(source)
        BY <2>5, <2>6, <3>1 DEF HoldsPlaced, s, t
    <3>3. ASSUME NEW b \in ToSet(source.blocks)
          PROVE  ToSet(f'.code[b]) \cap DOMAIN source.op \subseteq Placed(source)
      <4>1. CASE b = bb
          BY <4>1, <2>7, <2>12, <3>2
      <4>2. CASE b # bb
          BY <4>2, <2>7, <3>1 DEF HoldsPlaced
      <4> QED
          BY <4>1, <4>2
    <3> QED
        BY <3>3 DEF HoldsPlaced
  <2>18. Listed(source, f')
      BY <1>3, <2>4, BranchListed DEF ListsInv
  <2>19. ASSUME NEW b \in ToSet(source.blocks), IsBefore(source, bb, b)
         PROVE  IsUnjoined(source, f', b)
    <3>1. b \in Blocks /\ b # bb
        BY <2>4, <2>19, BeforeIsOrder
    <3> QED
        BY <2>4, <2>16, <2>19, <3>1 DEF ListsInv
  <2>20. ASSUME NEW b \in ToSet(f'.blocks)
         PROVE  IsUnjoined(source, f', b) \/ IsJoined(source, f', b)
    <3>1. b \in ToSet(f.blocks) /\ b \in Blocks
      <4>1. f.blocks \in Seq(Blocks)
          BY <2>4 DEF Shape
      <4> QED
          BY <2>7, <2>20, <4>1, ToSetFinite
    <3> QED
        BY <2>4, <2>14, <2>16, <3>1 DEF ListsInv
  <2>21. /\ EndsBehind(f'.op, f'.code[bb'], instr')
         /\ \A j \in ToSet(wait_delete') :
              IsEnd(f'.op[j]) => /\ IsBefore(source', j[2], Last(f'.code[bb'])[2])
                                 /\ IsJoined(source', f', bb')
      BY <2>4, <2>7, <2>9, <2>12, <2>14, <2>15
  <2>22. \A b \in ToSet(source'.blocks) :
           round' = 1 \/ IsBefore(source', bb', b) => IsUnjoined(source', f', b)
      BY <1>3, <2>4, <2>19
  <2>23. stage' = "pass"
      BY <1>1, <2>4
  <2> QED
      BY <2>4, <2>17, <2>18, <2>20, <2>21, <2>22, <2>23 DEF ListsInv
<1> QED
    BY <1>2, <1>3

\* What is taken out of a block is not its end.
LEMMA DeletedEnds ==
    ASSUME NEW S, NEW s \in Seq(S), NEW t \in Seq(S), s # <<>>, t # <<>>, InOrder(t, s),
           Last(t) = Last(s), NEW src, NEW g, NEW r, NEW b,
           g.code[b] = s, r.code[b] = t, r.op = g.op, IsUnjoined(src, g, b)
    PROVE  IsUnjoined(src, r, b)
<1>1. /\ Len(s) \in DOMAIN s /\ Last(s) = s[Len(s)] /\ DOMAIN s = 1..Len(s) /\ Len(s) \in Nat
      /\ Len(t) \in DOMAIN t /\ Last(t) = t[Len(t)] /\ DOMAIN t = 1..Len(t) /\ Len(t) \in Nat
    BY LastIn
<1>2. /\ \A k \in DOMAIN s : s[k][2] = b /\ (IsEnd(g.op[s[k]]) <=> k = Len(s))
      /\ Last(s) = Last(src.code[b])
    BY DEF IsUnjoined
<1>3. ASSUME NEW k \in DOMAIN t
      PROVE  t[k][2] = b /\ (IsEnd(r.op[t[k]]) <=> k = Len(t))
  <2>1. CASE k = Len(t)
      BY <2>1, <1>1, <1>2
  <2>2. CASE k # Len(t)
    <3>1. k < Len(t)
        BY <1>1, <2>2
    <3>2. PICK q \in DOMAIN s, p \in DOMAIN s : q < p /\ s[q] = t[k]
        BY <1>1, <3>1 DEF InOrder
    <3>3. q # Len(s)
        BY <1>1, <3>2
    <3> QED
        BY <1>2, <2>2, <3>2, <3>3
  <2> QED
      BY <2>1, <2>2
<1> QED
    BY <1>2, <1>3 DEF IsUnjoined

\* The block behind b in the list s.
Following(s, b) == s[SelectInSeq(s, LAMBDA c : c = b) + 1]

LEMMA NextIsBehind ==
    ASSUME NEW src, NEW S, NEW s \in Seq(S), InOrder(s, src.blocks), NEW b \in ToSet(s), b # Last(s)
    PROVE  IsBefore(src, b, Following(s, b))
<1> DEFINE n == Len(s)
           I == {k \in 1..n : s[k] = b}
           found == SelectInSeq(s, LAMBDA c : c = b)
<1>1. n \in Nat /\ DOMAIN s = 1..n
    OBVIOUS
<1>2. PICK k \in 1..n : s[k] = b
    BY <1>1 DEF ToSet
<1>3. found = CHOOSE x \in I : \A y \in I : x <= y
  <2>1. I # {}
      BY <1>2
  <2> QED
      BY <2>1, Zenon DEF SelectInSeq, Min
<1>4. \E x \in I : \A y \in I : x <= y
  <2>1. I \in SUBSET Nat /\ I # {}
      BY <1>1, <1>2
  <2> HIDE DEF I
  <2> QED
      BY <2>1, LeastNumber
<1>5. found \in I
    BY <1>3, <1>4
<1> HIDE DEF found
<1>6. found + 1 \in DOMAIN s /\ found \in DOMAIN s /\ found < found + 1 /\ s[found] = b
    BY <1>1, <1>5 DEF Last
<1>7. \E q, p \in DOMAIN src.blocks :
        q < p /\ src.blocks[q] = s[found] /\ src.blocks[p] = s[found + 1]
    BY <1>6 DEF InOrder
<1>8. IsBefore(src, b, s[found + 1])
    BY <1>6, <1>7 DEF IsBefore
<1> QED
    BY <1>8 DEF found, Following

\* The end of a block: the branches deleted are not the end it has.
LEMMA ListsEnds ==
    ASSUME PropagationInv, ListsInv, EndBlock
    PROVE  ListsInv'
<1>1. /\ Deleted(Instructions(source) \cap DOMAIN f.op, f, bb, ToSet(wait_delete), f')
      /\ f'.blocks = f.blocks /\ bb \in Blocks /\ bb \in ToSet(f.blocks) /\ bb' \in ToSet(f.blocks)
      /\ wait_delete' = <<>> /\ instr' = 1 /\ source' = source
    BY BlockEnds
<1>2. /\ stage = "pass" /\ Shape(source, given, f) /\ wait_delete \in Seq(Instructions(source))
      /\ BuiltByIRBuilder(source) /\ round \in {1, 2} /\ instr \in 1..(Len(f.code[bb]) + 1)
      /\ f' = DeleteAll(f, bb, wait_delete)
    BY SourceBuilt DEF EndBlock, PropagationInv, DeleteAll
<1>3. /\ ToSet(f.blocks) \subseteq Blocks /\ ToSet(f.blocks) \subseteq ToSet(source.blocks)
      /\ ToSet(source.blocks) \subseteq Blocks
      /\ f.blocks \in Seq(Blocks)
  <2>1. f.blocks \in Seq(Blocks) /\ source.blocks \in Seq(Blocks)
        /\ ToSet(f.blocks) \subseteq ToSet(source.blocks)
      BY <1>2 DEF Shape, BuiltByIRBuilder
  <2> QED
      BY <2>1, ToSetFinite
<1>4. /\ f'.op = f.op /\ f'.succ = f.succ /\ f'.pre = f.pre /\ IsFunction(f')
      /\ \A c \in Blocks : c # bb => f'.code[c] = f.code[c]
      /\ ToSet(f'.code[bb]) \subseteq ToSet(f.code[bb])
    BY <1>1 DEF Deleted, SameBlocks, HasLists
<1> DEFINE s == f.code[bb]
           t == f'.code[bb]
           I == Instructions(source) \cap DOMAIN f.op
<1>5. s \in Seq(I) /\ t \in Seq(I)
    BY <1>1, <1>2 DEF Shape, HasLists, Deleted
<1>6. /\ IsUnjoined(source, f, bb) \/ IsJoined(source, f, bb)
      /\ EndsBehind(f.op, s, instr)
      /\ \A i \in ToSet(wait_delete) : IsEnd(f.op[i]) => IsBefore(source, i[2], Last(s)[2])
    BY <1>1, <1>2 DEF ListsInv
<1>7. s # <<>>
    BY <1>6 DEF IsUnjoined, IsJoined
<1>8. Last(s) \notin ToSet(wait_delete)
  <2>1. ASSUME Last(s) \in ToSet(wait_delete) PROVE FALSE
    <3>1. IsBefore(source, Last(s)[2], Last(s)[2])
        BY <1>6, <2>1 DEF EndsBehind
    <3> HIDE DEF s
    <3> QED
        BY <3>1, <1>2, BeforeIsOrder
  <2> QED
      BY <2>1
<1>9. InOrder(t, s) /\ t # <<>> /\ Last(t) = Last(s)
  <2>1. Len(wait_delete) \in Nat /\ DOMAIN wait_delete = 1..Len(wait_delete)
      BY <1>2
  <2>2. HasLists(I, f)
      BY <1>2 DEF Shape
  <2> HIDE DEF I
  <2> QED
      BY <1>1, <1>2, <1>7, <1>8, <2>1, <2>2, DeleteAllOrder
<1>10. ASSUME NEW b \in Blocks
       PROVE  /\ IsUnjoined(source, f, b) => IsUnjoined(source, f', b)
              /\ IsJoined(source, f, b) => IsJoined(source, f', b)
  <2>1. CASE b = bb
    <3>1. IsUnjoined(source, f, bb) => IsUnjoined(source, f', bb)
      <4>1. f.code[bb] = s /\ f'.code[bb] = t
          OBVIOUS
      <4> HIDE DEF s, t, I
      <4> QED
          BY <4>1, <1>4, <1>5, <1>7, <1>9, DeletedEnds
    <3>2. IsJoined(source, f, bb) => IsJoined(source, f', bb)
        BY <1>9 DEF IsJoined
    <3> QED
        BY <2>1, <3>1, <3>2
  <2>2. CASE b # bb
      BY <2>2, <1>4 DEF IsUnjoined, IsJoined
  <2> QED
      BY <2>1, <2>2
<1> HIDE DEF s, t, I
<1>11. Listed(source, f')
  <2>1. Listed(source, f)
      BY <1>2 DEF ListsInv
  <2> QED
      BY <2>1, <1>1, <1>4 DEF Listed
<1>12. HoldsPlaced(source, f'.code)
  <2>1. HoldsPlaced(source, f.code)
      BY <1>2 DEF ListsInv
  <2>2. \A b \in ToSet(source.blocks) : ToSet(f'.code[b]) \subseteq ToSet(f.code[b])
      BY <1>3, <1>4
  <2> QED
      BY <2>1, <2>2 DEF HoldsPlaced
<1>13. \A b \in ToSet(f'.blocks) : IsUnjoined(source, f', b) \/ IsJoined(source, f', b)
    BY <1>1, <1>2, <1>3, <1>10 DEF ListsInv
<1>14. /\ stage' \in {"pass", "before"}
       /\ \/ round' = round /\ IsBefore(source, bb, bb')
          \/ round' = round + 1 /\ (stage' = "pass" => round = 1)
  <2>1. CASE bb # Last(f.blocks)
    <3>1. bb' = Following(f.blocks, bb) /\ round' = round /\ stage' = stage
        BY <2>1 DEF EndBlock, Following
    <3>2. InOrder(f.blocks, source.blocks)
        BY <1>2 DEF ListsInv, Listed
    <3>3. IsBefore(source, bb, Following(f.blocks, bb))
      <4>1. f.blocks \in Seq(Blocks) /\ bb \in ToSet(f.blocks)
          BY <1>1, <1>3
      <4> QED
          BY <4>1, <3>2, <2>1, NextIsBehind
    <3>4. IsBefore(source, bb, bb')
        BY <3>1, <3>3
    <3> QED
        BY <3>1, <3>4, <1>2
  <2>2. CASE bb = Last(f.blocks)
    <3>1. round' = round + 1 /\ stage' = IF round = 2 THEN "before" ELSE stage
        BY <2>2 DEF EndBlock
    <3> QED
        BY <3>1, <1>2
  <2> QED
      BY <2>1, <2>2
<1>15. ASSUME stage' = "pass", NEW b \in ToSet(source.blocks),
              round' = 1 \/ IsBefore(source, bb', b) \/ b = bb'
       PROVE  IsUnjoined(source, f', b)
  <2>1. b \in Blocks
      BY <1>3
  <2>2. CASE round = 1
      BY <1>2, <1>10, <2>1, <2>2 DEF ListsInv
  <2>3. CASE round = 2
    <3>1. round' = round /\ IsBefore(source, bb, bb')
        BY <1>14, <1>15, <2>3
    <3>2. IsBefore(source, bb, b)
        BY <1>2, <1>15, <2>3, <3>1, BeforeIsOrder
    <3> QED
        BY <1>2, <1>10, <2>1, <3>2 DEF ListsInv
  <2> QED
      BY <1>2, <2>2, <2>3
<1>16. ASSUME stage' = "pass" PROVE EndsBehind(f'.op, f'.code[bb'], instr')
  <2>1. bb' \in ToSet(source.blocks) /\ bb' \in Blocks
      BY <1>1, <1>3
  <2>2. IsUnjoined(source, f', bb')
      BY <1>15, <1>16, <2>1
  <2>3. f'.code[bb'] \in Seq(Instructions(source) \cap DOMAIN f.op)
      BY <1>1, <2>1 DEF Deleted, HasLists
  <2>4. EndsBehind(f'.op, f'.code[bb'], 1)
      BY <2>2, <2>3, UnjoinedEnds
  <2> QED
      BY <1>1, <2>4
<1>17. ToSet(<<>>) = {}
    BY DEF ToSet
<1>18. \A i : i \notin ToSet(wait_delete')
    BY <1>1, <1>17
<1>19. \A b \in ToSet(source'.blocks) :
         stage' = "pass" /\ (round' = 1 \/ IsBefore(source', bb', b)) => IsUnjoined(source', f', b)
    BY <1>1, <1>15
<1> QED
    BY <1>1, <1>11, <1>12, <1>13, <1>14, <1>16, <1>18, <1>19 DEF ListsInv

\* Every step keeps ListsInv.
LEMMA ListsNext ==
    ASSUME PropagationInv, ListsInv, ForksGoForward(source), EndsItsBlocks(source),
           ListsFollowBranches(source), [PropagationNext]_allVars
    PROVE  ListsInv'
<1>1. CASE control # "run" /\ Next /\ UNCHANGED <<runVars, foldVars>>
  <2>1. stage = "waiting" /\ stage' = stage /\ TypeInv
      BY <1>1 DEF PropagationInv, Inv, runVars
  <2>2. EndsStay'
      BY <1>1, <2>1, EndsStayNext DEF ListsInv
  <2> QED
      BY <2>1, <2>2 DEF ListsInv
<1>2. CASE StartPass
    BY <1>2, ListsStart
<1>3. CASE Fold \/ FoldPhi
    BY <1>3, ListsFold
<1>4. CASE TakeBranch
    BY <1>4, ListsBranches
<1>5. CASE SkipInstr
  <2>1. PICK i : At(i)
      BY <1>5 DEF SkipInstr
  <2>2. Step /\ stage' = stage /\ f' = f /\ wait_delete' = wait_delete
      BY <1>5 DEF SkipInstr
  <2>3. Listed(source, f')
      BY <2>1, <2>2 DEF At, ListsInv
  <2> QED
      BY <2>1, <2>2, <2>3, ListsSteps
<1>6. CASE EndBlock
    BY <1>6, ListsEnds
<1>7. CASE FoldCrashes \/ (Run /\ UNCHANGED foldVars)
  <2>1. /\ UNCHANGED <<source, f>>
        /\ stage # "waiting" /\ stage' \in {"crashed", "before", "after", "end"}
      BY <1>7 DEF FoldCrashes, At, Run, ReadInput, RunGiven, RunResult, vars, foldVars,
                  PropagationInv, loopVars, takenVars
  <2>2. Listed(source', f') <=> Listed(source, f)
      BY <2>1
  <2>3. \A b : /\ IsUnjoined(source', f', b) <=> IsUnjoined(source, f, b)
               /\ IsJoined(source', f', b) <=> IsJoined(source, f, b)
      BY <2>1
  <2>4. HoldsPlaced(source', f'.code) <=> HoldsPlaced(source, f.code)
      BY <2>1
  <2>5. /\ Listed(source', f') /\ HoldsPlaced(source', f'.code)
        /\ \A b \in ToSet(f'.blocks) : IsUnjoined(source', f', b) \/ IsJoined(source', f', b)
      BY <2>1, <2>2, <2>3, <2>4 DEF ListsInv
  <2>6. stage' # "waiting" /\ stage' # "pass"
      BY <2>1
  <2> QED
      BY <2>5, <2>6 DEF ListsInv
<1>8. CASE UNCHANGED allVars
  <2>1. UNCHANGED <<source, f, stage, wait_delete, round, bb, instr, frames>>
      BY <1>8 DEF allVars, vars, passVars, runVars, foldVars, loopVars, takenVars
  <2>2. EndsStay' <=> EndsStay
      BY <2>1 DEF EndsStay
  <2>3. /\ Listed(source', f') <=> Listed(source, f)
        /\ HoldsPlaced(source', f'.code) <=> HoldsPlaced(source, f.code)
        /\ EndsBehind(f'.op, f'.code[bb'], instr') <=> EndsBehind(f.op, f.code[bb], instr)
      BY <2>1
  <2>4. \A b : /\ IsUnjoined(source', f', b) <=> IsUnjoined(source, f, b)
               /\ IsJoined(source', f', b) <=> IsJoined(source, f, b)
      BY <2>1
  <2> QED
      BY <2>1, <2>2, <2>3, <2>4 DEF ListsInv
<1> QED
    BY <1>1, <1>2, <1>3, <1>4, <1>5, <1>6, <1>7, <1>8 DEF PropagationNext, Propagate

\* The branches of a block with one end.
LEMMA EndTargets ==
    ASSUME NEW S, NEW g, NEW b, g.code[b] \in Seq(S), g.code[b] # <<>>,
           \A k \in DOMAIN g.code[b] : IsEnd(g.op[g.code[b][k]]) <=> k = Len(g.code[b]),
           NEW l, l = Last(g.code[b])
    PROVE  Targets(g, b) = IF g.op[l] # "br" THEN {}
                           ELSE IF IsFork(g, l) THEN {BlockOf(g.args[l][2]), BlockOf(g.args[l][3])}
                           ELSE {BlockOf(g.args[l][1])}
<1> DEFINE s == g.code[b]
           J == {j \in ToSet(s) : g.op[j] = "br"}
           goes(i) == IF IsFork(g, i) THEN {BlockOf(g.args[i][2]), BlockOf(g.args[i][3])}
                      ELSE {BlockOf(g.args[i][1])}
<1>1. /\ s \in Seq(S) /\ s # <<>> /\ \A k \in DOMAIN s : IsEnd(g.op[s[k]]) <=> k = Len(s)
      /\ l = Last(s)
    OBVIOUS
<1>2. Targets(g, b) = UNION {goes(i) : i \in J}
    BY DEF Targets
<1> HIDE DEF s
<1>3. l \in ToSet(s) /\ l = s[Len(s)]
    BY <1>1, LastIn
<1>4. \A j \in J : j = l
    BY <1>1, <1>3 DEF IsEnd, ToSet
<1>5. J = IF g.op[l] = "br" THEN {l} ELSE {}
    BY <1>3, <1>4
<1> HIDE DEF goes, J
<1>6. Targets(g, b) = IF g.op[l] # "br" THEN {} ELSE goes(l)
    BY <1>2, <1>5
<1> QED
    BY <1>6 DEF goes

\* A block nothing has been merged into goes where it went in the source.
LEMMA UnjoinedTargets ==
    ASSUME NEW src, BuiltByIRBuilder(src), EndsItsBlocks(src), NEW g, KeepsOperands(src, g),
           NEW b \in ToSet(src.blocks), NEW S, g.code[b] \in Seq(S), IsUnjoined(src, g, b)
    PROVE  Targets(g, b) = Targets(src, b)
<1> DEFINE l == Last(src.code[b])
<1>1. b \in Blocks
  <2>1. src.blocks \in Seq(Blocks)
      BY DEF BuiltByIRBuilder
  <2> QED
      BY <2>1, ToSetFinite
<1>2. /\ src.code[b] \in Seq(DOMAIN src.op) /\ src.code[b] # <<>>
      /\ \A k \in DOMAIN src.code[b] : IsEnd(src.op[src.code[b][k]]) <=> k = Len(src.code[b])
    BY <1>1 DEF BuiltByIRBuilder, EndsItsBlocks
<1>3. /\ g.code[b] # <<>> /\ Last(g.code[b]) = l
      /\ \A k \in DOMAIN g.code[b] : IsEnd(g.op[g.code[b][k]]) <=> k = Len(g.code[b])
    BY DEF IsUnjoined
<1>4. l \in DOMAIN src.op
  <2> DEFINE s == src.code[b]
  <2>1. s \in Seq(DOMAIN src.op) /\ s # <<>>
      BY <1>2
  <2> HIDE DEF s
  <2>2. Last(s) \in DOMAIN src.op
      BY <2>1, LastIn
  <2> QED
      BY <2>2 DEF s
<1> HIDE DEF l
<1>5. Targets(src, b) = IF src.op[l] # "br" THEN {}
                        ELSE IF IsFork(src, l)
                             THEN {BlockOf(src.args[l][2]), BlockOf(src.args[l][3])}
                        ELSE {BlockOf(src.args[l][1])}
  <2>1. l = Last(src.code[b])
      BY DEF l
  <2>2. \E T : src.code[b] \in Seq(T)
      BY <1>2
  <2> QED
      BY <1>2, <2>1, <2>2, EndTargets
<1>6. Targets(g, b) = IF g.op[l] # "br" THEN {}
                      ELSE IF IsFork(g, l) THEN {BlockOf(g.args[l][2]), BlockOf(g.args[l][3])}
                      ELSE {BlockOf(g.args[l][1])}
    BY <1>3, EndTargets
<1>7. g.op[l] = src.op[l]
    BY <1>4 DEF KeepsOperands, KeepsAccesses
<1>8. CASE src.op[l] # "br"
    BY <1>5, <1>6, <1>7, <1>8
<1>9. CASE src.op[l] = "br"
  <2>1. IF Len(src.args[l]) = 1 THEN g.args[l] = <<src.args[l][1]>>
        ELSE g.args[l] = <<g.args[l][1], src.args[l][2], src.args[l][3]>>
      BY <1>4, <1>9 DEF KeepsOperands, KeepsBranches
  <2>2. CASE Len(src.args[l]) = 1
    <3>0. g.args[l] = <<src.args[l][1]>>
        BY <2>1, <2>2
    <3>1. Len(g.args[l]) = 1 /\ g.args[l][1] = src.args[l][1]
      <4> DEFINE x == src.args[l][1]
      <4>1. g.args[l] = <<x>>
          BY <3>0
      <4> HIDE DEF x
      <4>2. Len(g.args[l]) = 1 /\ g.args[l][1] = x
          BY <4>1
      <4> QED
          BY <4>2 DEF x
    <3> QED
        BY <1>5, <1>6, <1>7, <1>9, <2>2, <3>1 DEF IsFork
  <2>3. CASE Len(src.args[l]) # 1
    <3>1. Len(src.args[l]) = 3
        BY <1>4, <1>9, <2>3, BranchShape
    <3>2. /\ Len(g.args[l]) = 3
          /\ g.args[l][2] = src.args[l][2] /\ g.args[l][3] = src.args[l][3]
      <4> DEFINE x == g.args[l][1]
                 y == src.args[l][2]
                 z == src.args[l][3]
      <4>1. g.args[l] = <<x, y, z>>
          BY <2>1, <2>3
      <4> HIDE DEF x, y, z
      <4>2. Len(g.args[l]) = 3 /\ g.args[l][2] = y /\ g.args[l][3] = z
          BY <4>1
      <4> QED
          BY <4>2 DEF y, z
    <3> QED
        BY <1>5, <1>6, <1>7, <1>9, <3>1, <3>2 DEF IsFork
  <2> QED
      BY <2>2, <2>3
<1> QED
    BY <1>8, <1>9

\* Behind the pass the lists of neighbours are those of the branches, but for a
\* block that another was merged into, for every function whose forks go forward,
\* whose blocks end with their only branch or return, and whose lists were right.
THEOREM PropagationKeepsLists ==
    ASSUME \A g \in Functions : ForksGoForward(g) /\ EndsItsBlocks(g) /\ ListsFollowBranches(g)
    PROVE  PropagationSpec => []ListsFollowBranchesNotMerged
<1>1. PropagationInv => /\ ForksGoForward(source) /\ EndsItsBlocks(source)
                        /\ ListsFollowBranches(source)
    BY DEF PropagationInv
<1>2. PropagationInit => ListsInv
  <2> SUFFICES ASSUME PropagationInit PROVE ListsInv
      OBVIOUS
  <2>1. Init /\ stage = "waiting" /\ source \in Functions
      BY DEF PropagationInit, RunsInit, RunsStart, Init
  <2>2. EndsStay
      BY <2>1, EndsStayInit
  <2> QED
      BY <2>1, <2>2 DEF ListsInv
<1>3. PropagationInv /\ [PropagationNext]_allVars => PropagationInv'
    BY <1>1, PropagationInvNext
<1>4. PropagationInv /\ ListsInv /\ [PropagationNext]_allVars => ListsInv'
    BY <1>1, ListsNext
<1>5. PropagationInv /\ ListsInv => ListsFollowBranchesNotMerged
  <2> SUFFICES ASSUME PropagationInv, ListsInv, stage = "before", NEW b \in ToSet(f.blocks)
               PROVE  /\ HasMerged(b) \/ ToSet(f.succ[b]) = Targets(f, b) \cap ToSet(f.blocks)
                      /\ ToSet(f.pre[b]) = {c \in ToSet(f.blocks) : b \in ToSet(f.succ[c])}
      BY DEF ListsFollowBranchesNotMerged
  <2>1. /\ Shape(source, given, f) /\ BuiltByIRBuilder(source)
        /\ EndsItsBlocks(source) /\ ListsFollowBranches(source)
      BY <1>1, SourceBuilt DEF PropagationInv
  <2>2. Neighbours(source, f.blocks, f.succ, f.pre)
      BY DEF ListsInv, Listed
  <2>3. /\ ToSet(f.succ[b]) = ToSet(source.succ[b]) \cap ToSet(f.blocks)
        /\ ToSet(f.pre[b]) = {c \in ToSet(f.blocks) : b \in ToSet(f.succ[c])}
      BY <2>2 DEF Neighbours
  <2>4. b \in ToSet(source.blocks) /\ b \in Blocks
    <3>1. f.blocks \in Seq(Blocks) /\ ToSet(f.blocks) \subseteq ToSet(source.blocks)
        BY <2>1 DEF Shape
    <3> QED
        BY <3>1, ToSetFinite
  <2>5. f.code[b] \in Seq(Instructions(source) \cap DOMAIN f.op) /\ KeepsOperands(source, f)
      BY <2>1, <2>4 DEF Shape, HasLists
  <2>6. CASE IsUnjoined(source, f, b)
    <3>1. Targets(f, b) = Targets(source, b)
        BY <2>1, <2>4, <2>5, <2>6, UnjoinedTargets
    <3>2. ToSet(source.succ[b]) = Targets(source, b)
        BY <2>1, <2>4 DEF ListsFollowBranches
    <3> QED
        BY <2>3, <3>1, <3>2
  <2>7. CASE IsJoined(source, f, b)
    <3>1. f.code[b] # <<>> /\ Last(f.code[b])[2] # b
        BY <2>1, <2>7, BeforeIsOrder DEF IsJoined
    <3>2. Last(f.code[b]) \in ToSet(f.code[b])
        BY <2>5, <3>1, LastIn
    <3> QED
        BY <2>3, <3>1, <3>2 DEF HasMerged
  <2> QED
      BY <2>6, <2>7 DEF ListsInv
<1> QED
    BY <1>2, <1>3, <1>4, <1>5, PropagationInvInit, PTL DEF PropagationSpec
=============================================================================
