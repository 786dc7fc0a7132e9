--------------------------- MODULE CodeGenProofs ----------------------------
(***************************************************************************)
(* Proofs about CodeGen, for every bound on the program and its nesting:   *)
(* that no two blocks share a label, that nothing is put behind a          *)
(* terminator, that every block gets one, and where dead code begins.      *)
(*                                                                         *)
(* First what the helpers do to a sequence of blocks, then what each       *)
(* action does; then six invariants: the types, with those of the active   *)
(* visitors (TypeInv); the labels in use and those the visitors are yet to *)
(* use (LabelInv); which blocks are open, each waiting for one visitor     *)
(* alone (OpenInv); that no other block is (ClosedInv); that what is taken *)
(* for a return is one (ReturnInv); and that a block is branched to from   *)
(* one made before it (LinkInv).                                           *)
(***************************************************************************)
EXTENDS CodeGen, FiniteSetTheorems, SequenceTheorems, WellFoundedInduction, TLAPS

(***************************************************************************)
(* Facts about numbers and sequences.  ControlFlowProofs has the same, for *)
(* the proofs about graphs, under its assumption about the blocks.         *)
(***************************************************************************)
\* A set of natural numbers that is not empty has a least element: the initial
\* segments below its elements are finite, so one of them is minimal under
\* strict inclusion.
LEMMA LeastNumber ==
    ASSUME NEW S \in SUBSET Nat, S # {}
    PROVE  \E n \in S : \A m \in S : n <= m
<1> DEFINE R == StrictSubsetOrdering(Nat)
           F == FiniteSubsetsOf(Nat)
           T == {0..m : m \in S}
<1>1. IsWellFoundedOn(R, F)
    BY FS_StrictSubsetOrderingWellFounded
<1>2. T \subseteq F /\ T # {}
  <2>1. \A m \in S : IsFiniteSet(0..m) /\ 0..m \subseteq Nat
      BY FS_Interval
  <2> QED
      BY <2>1 DEF FiniteSubsetsOf
<1>3. \E I \in T : \A J \in T : <<J, I>> \notin R
  <2> HIDE DEF R, T, F
  <2> QED
      BY <1>1, <1>2, WFMin
<1>4. PICK n \in S : \A m \in S : <<0..m, 0..n>> \notin R
    BY <1>3
<1>5. ASSUME NEW m \in S, m < n PROVE FALSE
  <2>1. n \in 0..n /\ n \notin 0..m
      BY <1>5
  <2>2. 0..m \subseteq 0..n /\ 0..m # 0..n /\ 0..m \in SUBSET Nat /\ 0..n \in SUBSET Nat
      BY <1>5, <2>1
  <2> QED
      BY <2>2, <1>4, <1>5 DEF StrictSubsetOrdering
<1> QED
    BY <1>5

\* What holds of 0, and of a number when it holds of the one before, holds of
\* every number up to n.
LEMMA UpTo ==
    ASSUME NEW n \in Nat, NEW S, 0 \in S, \A k \in 1..n : k - 1 \in S => k \in S
    PROVE  0..n \subseteq S
<1> SUFFICES ASSUME (0..n) \ S # {} PROVE FALSE
    OBVIOUS
<1> DEFINE T == (0..n) \ S
<1>1. PICK m \in T : \A k \in T : m <= k
  <2>1. T \in SUBSET Nat
      OBVIOUS
  <2> HIDE DEF T
  <2> QED
      BY <2>1, LeastNumber DEF T
<1>2. m \in 1..n /\ m - 1 \in 0..n
    BY <1>1
<1>3. m - 1 \in S
    BY <1>1, <1>2
<1> QED
    BY <1>1, <1>2, <1>3

\* Taking the last element off a sequence.
LEMMA FrontLast ==
    ASSUME NEW S, NEW s \in Seq(S), s # <<>>
    PROVE  /\ Front(s) \in Seq(S)
           /\ Len(Front(s)) = Len(s) - 1
           /\ \A i \in 1..Len(s) - 1 : Front(s)[i] = s[i]
           /\ Last(s) \in S
           /\ Len(s) \in Nat \ {0}
           /\ Last(s) = s[Len(s)]
<1>1. Len(s) \in Nat \ {0}
    BY EmptySeq
<1> DEFINE n == Len(s) - 1
<1>2. n \in Nat /\ \A i \in 1..n : s[i] \in S
    BY ElementOfSeq, <1>1
<1>3. /\ SubSeq(s, 1, n) \in Seq(S)
      /\ Len(SubSeq(s, 1, n)) = IF 1 <= n THEN n - 1 + 1 ELSE 0
      /\ \A i \in 1..n - 1 + 1 : SubSeq(s, 1, n)[i] = s[1 + i - 1]
  <2> HIDE DEF n
  <2> QED
      BY <1>2, SubSeqProperties
<1>4. n - 1 + 1 = n /\ \A i \in Int : 1 + i - 1 = i
    BY <1>1
<1>5. Len(SubSeq(s, 1, n)) = n /\ \A i \in 1..n : SubSeq(s, 1, n)[i] = s[i]
    BY <1>2, <1>3, <1>4
<1> QED
    BY <1>1, <1>3, <1>5, ElementOfSeq DEF Front, Last
-----------------------------------------------------------------------------

\* A block of instructions and the places of its neighbours.
Block == [label : Kinds \X Nat, instrs : Seq(Instrs), succ : SUBSET Nat, pre : SUBSET Nat]

\* The edges of the blocks lead to blocks.
EdgesStay(bs) ==
    \A b \in 1..Len(bs) : bs[b].succ \subseteq 1..Len(bs) /\ bs[b].pre \subseteq 1..Len(bs)

\* Instructions without a terminator, and with one as the last and only there.
Open(q) == \A i \in 1..Len(q) : ~IsTerminator(q[i])
Closed(q) == q # <<>> /\ IsTerminator(q[Len(q)])
             /\ \A i \in 1..(Len(q) - 1) : ~IsTerminator(q[i])

\* The visitors that are active.
CompoundFrame == [kind : {"compound"}]
ThenFrame == [kind : {"then"}, label_now : Nat, trueBB : Nat, orig_block : Nat,
              cond : 0..MaxStatements]
ElseFrame == [kind : {"else"}, label_now : Nat, trueBB : Nat, orig_block : Nat,
              falseBB : Nat, trueBB_location : Nat, trueBB_returned : BOOLEAN,
              trueExits : SUBSET (0..MaxStatements)]
BodyFrame == [kind : {"body"}, label_now : Nat, startBB : Nat, bodyBB : Nat,
              cond : 0..MaxStatements]
Frame == CompoundFrame \cup ThenFrame \cup ElseFrame \cup BodyFrame

\* The blocks a visitor keeps, up to the nth.
Keeps(f, n) ==
    /\ f.kind = "then" => {f.trueBB, f.orig_block} \subseteq 1..n
    /\ f.kind = "else" =>
         {f.trueBB, f.orig_block, f.falseBB, f.trueBB_location} \subseteq 1..n
    /\ f.kind = "body" => {f.startBB, f.bodyBB} \subseteq 1..n

TypeInv ==
    /\ blocks \in Seq(Block) /\ EdgesStay(blocks)
    /\ {insert, curr_block, return_block} \subseteq 1..Len(blocks)
    /\ {is_returned, is_returned_record} \subseteq BOOLEAN
    /\ label_cnt \in Nat
    /\ frames \in Seq(Frame) /\ Len(frames) <= MaxFrames
    /\ \A i \in 1..Len(frames) : Keeps(frames[i], Len(blocks))
    /\ control \in {"visit", "back", "end"}
    /\ control = "visit" => frames # <<>>
    /\ statements \in 0..MaxStatements
    /\ exits \subseteq 0..MaxStatements
    /\ flow \subseteq (0..MaxStatements) \X (-1..MaxStatements)

\* The labels of the blocks are distinct and none is numbered beyond n.
Labelled(bs, n) ==
    /\ \A i \in 1..Len(bs) : bs[i].label[2] <= n
    /\ \A i, j \in 1..Len(bs) : bs[i].label = bs[j].label => i = j

\* What a visitor will call the blocks it is yet to make.
ToMake(f) == CASE f.kind = "then" -> {"selFalseBB", "selEndBB"}
               [] f.kind = "else" -> {"selEndBB"}
               [] f.kind = "body" -> {"loopEndBB"}
               [] OTHER -> {}

Unused(bs, f) ==
    \A i \in 1..Len(bs) : \A k \in ToMake(f) : bs[i].label # <<k, f.label_now>>

FrameLabels(bs, s, n) ==
    \A i \in 1..Len(s) :
        s[i].kind # "compound" =>
            /\ s[i].label_now <= n
            /\ Unused(bs, s[i])
            /\ \A j \in 1..Len(s) :
                 s[j].kind # "compound" /\ j # i => s[j].label_now # s[i].label_now

LabelInv == Labelled(blocks, label_cnt) /\ FrameLabels(blocks, frames, label_cnt)

\* The blocks that wait for a visitor to close them.
Waits(f) == CASE f.kind = "then" -> {f.orig_block}
              [] f.kind = "else" -> {f.orig_block} \cup
                                    (IF f.trueBB_returned THEN {} ELSE {f.trueBB_location})
              [] f.kind = "body" -> {f.startBB}
              [] OTHER -> {}

\* The statement the innermost visitor is at has returned.
HasReturned ==
    control = "back" /\ IF frames # <<>> /\ Top.kind = "compound"
                        THEN is_returned ELSE is_returned_record

Settled(q) == Open(q) \/ Closed(q)

\* The blocks that wait are open, and nobody else's.
Apart(bs, s, cur, ret) ==
    \A i \in 1..Len(s) : \A w \in Waits(s[i]) :
        /\ Open(bs[w].instrs) /\ w # cur /\ w # ret
        /\ \A j \in 1..Len(s) : j # i => w \notin Waits(s[j])

Arms(s) == \A i \in 1..Len(s) :
    s[i].kind = "else" => s[i].trueBB_returned \/ s[i].orig_block # s[i].trueBB_location

Nested(s) == \A i \in 1..Len(s) :
    s[i].kind = "compound" /\ i > 1 => s[i - 1].kind # "compound"

OpenInv ==
    /\ \A b \in 1..Len(blocks) : Settled(blocks[b].instrs)
    /\ Apart(blocks, frames, curr_block, return_block)
    /\ Arms(frames) /\ Nested(frames)
    /\ curr_block # return_block
    /\ control # "end" =>
         /\ blocks[return_block].instrs = <<>>
         /\ ~HasReturned => Open(blocks[curr_block].instrs)

\* The programs without compound statements in lists of statements and without
\* array accesses in the conditions of loops.
WithoutInnerOrIndexed == Features \cap {"inner block", "indexed condition"} = {}

\* The programs in which the body of an if or while has its braces.
Braced == "bare body" \notin Features

\* The programs without the three.
Plain == Features = {}

\* A compound statement and an if or while take turns in the visitors.
Alternating(s) == \A i \in 1..Len(s) : s[i].kind = "compound" <=> i % 2 = 1

Waiting(s) == UNION {Waits(s[i]) : i \in 1..Len(s)}

\* Every block is closed, is yet to be, by a visitor that has it in W, or is one
\* of the two that EndFunction sees to.
Covered(bs, W, cur, ret) ==
    \A b \in 1..Len(bs) : Closed(bs[b].instrs) \/ b \in {cur, ret} \/ b \in W

ClosedInv ==
    /\ Alternating(frames)
    /\ Covered(blocks, Waiting(frames), curr_block, return_block)
    /\ control = "visit" => ~is_returned /\ (Top.kind # "compound" => exits # {})
    /\ HasReturned => Closed(blocks[curr_block].instrs)
    /\ control = "back" /\ (frames = <<>> \/ Top.kind # "compound") => ~is_returned
    /\ exits = {} /\ Open(blocks[curr_block].instrs) => blocks[curr_block].instrs = <<>>
    /\ control = "end" =>
         /\ frames = <<>>
         /\ Closed(blocks[return_block].instrs)
         /\ Cut(curr_block) \/ Closed(blocks[curr_block].instrs)

\* Without bare bodies an if or while is in a compound statement, and an arm that
\* is kept as returned leaves no statement that control goes on from.
FramesRight(s) ==
    \A i \in 1..Len(s) :
        /\ s[i].kind # "compound" /\ i > 1 => s[i - 1].kind = "compound"
        /\ s[i].kind = "else" /\ s[i].trueBB_returned => s[i].trueExits = {}

ReturnInv ==
    /\ FramesRight(frames)
    /\ is_returned => /\ control = "back" /\ frames # <<>> /\ Top.kind = "compound"
                      /\ exits = {}
    /\ control = "back" /\ frames # <<>> /\ Top.kind # "compound" /\ is_returned_record =>
         exits = {}

-----------------------------------------------------------------------------
(***************************************************************************)
(* The helpers on a sequence of blocks.                                    *)
(***************************************************************************)
LEMMA BoundsType ==
    /\ MaxStatements \in Nat /\ MaxWithArrays \in Nat /\ MaxIndexed \in Nat
    /\ MaxWithArrays <= MaxStatements
    /\ MaxFrames \in Nat \ {0}
<1>1. MaxStatements \in Nat /\ MaxWithArrays \in Nat /\ MaxIndexed \in Nat
    BY BoundsAssumption, Zenon DEF BoundsAssumption
<1> QED
    BY <1>1, BoundsAssumption DEF BoundsAssumption

\* new is bs but for the edges and for the instructions of b, which are q.
Rewrites(bs, new, b, q) ==
    /\ new \in Seq(Block) /\ Len(new) = Len(bs) /\ EdgesStay(new)
    /\ \A i \in 1..Len(bs) : new[i].label = bs[i].label
    /\ \A i \in 1..Len(bs) : i # b => new[i].instrs = bs[i].instrs
    /\ new[b].instrs = q

LEMMA BlockAt ==
    ASSUME NEW bs \in Seq(Block), NEW b \in 1..Len(bs)
    PROVE  /\ bs[b] \in Block
           /\ bs[b].label \in Kinds \X Nat /\ bs[b].instrs \in Seq(Instrs)
           /\ bs[b].succ \subseteq Nat /\ bs[b].pre \subseteq Nat
           /\ bs[b] = [label |-> bs[b].label, instrs |-> bs[b].instrs,
                       succ |-> bs[b].succ, pre |-> bs[b].pre]
<1>1. bs[b] \in Block
    BY ElementOfSeq
<1> QED
    BY <1>1 DEF Block

LEMMA AddInstrEffect ==
    ASSUME NEW bs \in Seq(Block), EdgesStay(bs), NEW b \in 1..Len(bs),
           NEW op \in {"op", "br", "cond_br", "ret"}, NEW s \in -1..MaxStatements
    PROVE  Rewrites(bs, AddInstr(bs, b, op, s), b, Append(bs[b].instrs, [op |-> op, of |-> s]))
<1> DEFINE new == AddInstr(bs, b, op, s)
           q == Append(bs[b].instrs, [op |-> op, of |-> s])
<1>1. bs[b] \in Block /\ bs[b].instrs \in Seq(Instrs)
    BY BlockAt
<1>2. q \in Seq(Instrs)
  <2>1. [op |-> op, of |-> s] \in Instrs
      BY DEF Instrs
  <2> QED
      BY <2>1, <1>1, AppendProperties
<1>3. new = [bs EXCEPT ![b] = [bs[b] EXCEPT !.instrs = q]]
    BY DEF AddInstr
<1> DEFINE x == [bs[b] EXCEPT !.instrs = q]
<1>4. x \in Block /\ x.label = bs[b].label /\ x.instrs = q
      /\ x.succ = bs[b].succ /\ x.pre = bs[b].pre
    BY <1>1, <1>2 DEF Block
<1>5. new \in Seq(Block) /\ Len(new) = Len(bs)
      /\ \A i \in 1..Len(bs) : new[i] = IF i = b THEN x ELSE bs[i]
  <2> HIDE DEF x, q
  <2> QED
      BY <1>3, <1>4, ExceptSeq DEF x
<1> HIDE DEF new, x, q
<1>6. EdgesStay(new)
    BY <1>4, <1>5 DEF EdgesStay
<1>7. \A i \in 1..Len(bs) : new[i].label = bs[i].label
    BY <1>4, <1>5
<1>8. \A i \in 1..Len(bs) : i # b => new[i].instrs = bs[i].instrs
    BY <1>5
<1>9. new[b].instrs = q
    BY <1>4, <1>5
<1> QED
    BY <1>5, <1>6, <1>7, <1>8, <1>9 DEF Rewrites, new, q

LEMMA AddEdgesEffect ==
    ASSUME NEW bs \in Seq(Block), EdgesStay(bs), NEW b \in 1..Len(bs),
           NEW targets \in SUBSET (1..Len(bs))
    PROVE  Rewrites(bs, AddEdges(bs, b, targets), b, bs[b].instrs)
<1> DEFINE new == AddEdges(bs, b, targets)
           x(i) == [bs[i] EXCEPT !.pre = IF i \in targets THEN @ \cup {b} ELSE @,
                                 !.succ = IF i = b THEN @ \cup targets ELSE @]
<1>1. Len(bs) \in Nat /\ DOMAIN bs = 1..Len(bs)
    BY LenProperties
<1>2. new = [i \in 1..Len(bs) |-> x(i)]
    BY <1>1 DEF AddEdges
<1>3. ASSUME NEW i \in 1..Len(bs)
      PROVE  /\ x(i) \in Block
             /\ x(i).label = bs[i].label /\ x(i).instrs = bs[i].instrs
             /\ x(i).succ \subseteq 1..Len(bs) /\ x(i).pre \subseteq 1..Len(bs)
  <2>1. bs[i] \in Block /\ bs[i].succ \subseteq 1..Len(bs) /\ bs[i].pre \subseteq 1..Len(bs)
      BY BlockAt DEF EdgesStay
  <2>2. b \in Nat /\ targets \subseteq Nat /\ 1..Len(bs) \subseteq Nat
      BY <1>1
  <2> QED
      BY <2>1, <2>2 DEF Block
<1> HIDE DEF x
<1>4. new \in Seq(Block) /\ Len(new) = Len(bs)
    BY <1>1, <1>2, <1>3, IsASeq
<1>5. \A i \in 1..Len(bs) : new[i] = x(i)
    BY <1>2
<1> HIDE DEF new
<1>6. EdgesStay(new)
    BY <1>3, <1>4, <1>5 DEF EdgesStay
<1> QED
    BY <1>3, <1>4, <1>5, <1>6 DEF Rewrites, new

\* What an instruction makes of the ones it is put behind.
LEMMA AppendInstr ==
    ASSUME NEW q \in Seq(Instrs), NEW x \in Instrs
    PROVE  /\ Append(q, x) \in Seq(Instrs) /\ Append(q, x) # <<>>
           /\ Open(q) /\ IsTerminator(x) => Closed(Append(q, x))
           /\ Open(q) /\ ~IsTerminator(x) => Open(Append(q, x))
<1>1. /\ Append(q, x) \in Seq(Instrs) /\ Append(q, x) # <<>>
      /\ Len(Append(q, x)) = Len(q) + 1
      /\ \A i \in 1..Len(q) : Append(q, x)[i] = q[i]
      /\ Append(q, x)[Len(q) + 1] = x
    BY AppendProperties
<1>2. Len(q) \in Nat
    BY LenProperties
<1> DEFINE r == Append(q, x)
<1> HIDE DEF r
<1>3. r # <<>> /\ Len(r) = Len(q) + 1 /\ r[Len(q) + 1] = x
      /\ \A i \in 1..Len(q) : r[i] = q[i]
    BY <1>1 DEF r
<1>4. Open(q) /\ IsTerminator(x) => Closed(r)
    BY <1>2, <1>3 DEF Open, Closed
<1>5. ASSUME Open(q), ~IsTerminator(x), NEW i \in 1..Len(r) PROVE ~IsTerminator(r[i])
    BY <1>2, <1>3, <1>5 DEF Open
<1> QED
    BY <1>1, <1>4, <1>5 DEF r, Open

LEMMA EmptyIsOpen == Open(<<>>) /\ ~Closed(<<>>)
    BY EmptySeq DEF Open, Closed

LEMMA NotBoth ==
    ASSUME NEW q \in Seq(Instrs), Closed(q)
    PROVE  ~Open(q)
<1>1. Len(q) \in Nat \ {0}
    BY EmptySeq DEF Closed
<1> QED
    BY <1>1 DEF Open, Closed

\* new is bs but for the edges and for the instructions of b, which have been
\* given one that is no branch (Fills) or that is one (Ends).
Touches(bs, new, b) == Rewrites(bs, new, b, new[b].instrs)

Fills(bs, new, b) ==
    /\ Touches(bs, new, b)
    /\ new[b].instrs # <<>>
    /\ Open(bs[b].instrs) => Open(new[b].instrs)

Ends(bs, new, b) ==
    /\ Touches(bs, new, b)
    /\ new[b].instrs # <<>>
    /\ Open(bs[b].instrs) => Closed(new[b].instrs)

\* new is bs and another block.
Created(bs, new, kind, n) ==
    /\ new \in Seq(Block) /\ EdgesStay(new) /\ Len(new) = Len(bs) + 1
    /\ \A i \in 1..Len(bs) : new[i] = bs[i]
    /\ new[Len(bs) + 1].label = <<kind, n>>
    /\ new[Len(bs) + 1].instrs = <<>>

LEMMA CreateEffect ==
    ASSUME NEW bs \in Seq(Block), EdgesStay(bs), NEW kind \in Kinds, NEW n \in Nat
    PROVE  Created(bs, Create(bs, kind, n), kind, n)
<1> DEFINE x == NewBlock(kind, n)
           new == Create(bs, kind, n)
<1>1. x \in Block /\ x.label = <<kind, n>> /\ x.instrs = <<>> /\ x.succ = {} /\ x.pre = {}
    BY EmptySeq DEF NewBlock, Block
<1>2. Len(bs) \in Nat
    BY LenProperties
<1> HIDE DEF x
<1>3. /\ new \in Seq(Block) /\ Len(new) = Len(bs) + 1
      /\ \A i \in 1..Len(bs) : new[i] = bs[i]
      /\ new[Len(bs) + 1] = x
    BY <1>1, AppendProperties DEF Create, x
<1> HIDE DEF new
<1>4. EdgesStay(new)
  <2>1. ASSUME NEW b \in 1..Len(new)
        PROVE  new[b].succ \subseteq 1..Len(new) /\ new[b].pre \subseteq 1..Len(new)
    <3>1. CASE b = Len(bs) + 1
        BY <3>1, <1>1, <1>3
    <3>2. CASE b # Len(bs) + 1
      <4>1. b \in 1..Len(bs) /\ new[b] = bs[b]
          BY <3>2, <1>2, <1>3
      <4> QED
          BY <4>1, <1>2, <1>3 DEF EdgesStay
    <3> QED
        BY <3>1, <3>2
  <2> QED
      BY <2>1 DEF EdgesStay
<1> QED
    BY <1>1, <1>3, <1>4 DEF new, Created

LEMMA AddOpEffect ==
    ASSUME NEW bs \in Seq(Block), EdgesStay(bs), NEW b \in 1..Len(bs), NEW s \in 0..MaxStatements
    PROVE  Fills(bs, AddOp(bs, b, s), b)
<1>1. CASE bs[b].instrs # <<>> /\ Last(bs[b].instrs) = [op |-> "op", of |-> s]
  <2>1. AddOp(bs, b, s) = bs
      BY <1>1 DEF AddOp
  <2> QED
      BY <2>1, <1>1 DEF Fills, Touches, Rewrites
<1>2. CASE ~(bs[b].instrs # <<>> /\ Last(bs[b].instrs) = [op |-> "op", of |-> s])
  <2> DEFINE x == [op |-> "op", of |-> s]
             new == AddOp(bs, b, s)
  <2>1. new = AddInstr(bs, b, "op", s)
      BY <1>2 DEF AddOp
  <2>2. s \in -1..MaxStatements
      BY BoundsType
  <2>3. Rewrites(bs, new, b, Append(bs[b].instrs, x))
      BY <2>1, <2>2, AddInstrEffect
  <2>4. x \in Instrs /\ ~IsTerminator(x) /\ bs[b].instrs \in Seq(Instrs)
      BY <2>2, BlockAt DEF Instrs, IsTerminator
  <2> HIDE DEF new, x
  <2>5. new[b].instrs = Append(bs[b].instrs, x)
      BY <2>3 DEF Rewrites
  <2> QED
      BY <2>3, <2>4, <2>5, AppendInstr DEF Fills, Touches, new
<1> QED
    BY <1>1, <1>2

LEMMA BranchEffect ==
    ASSUME NEW bs \in Seq(Block), EdgesStay(bs), NEW b \in 1..Len(bs),
           NEW targets \in SUBSET (1..Len(bs)),
           NEW op \in {"br", "cond_br", "ret"}, NEW s \in -1..MaxStatements
    PROVE  Ends(bs, AddInstr(AddEdges(bs, b, targets), b, op, s), b)
<1> DEFINE mid == AddEdges(bs, b, targets)
           new == AddInstr(mid, b, op, s)
           x == [op |-> op, of |-> s]
<1>1. Rewrites(bs, mid, b, bs[b].instrs)
    BY AddEdgesEffect
<1>2. mid \in Seq(Block) /\ Len(mid) = Len(bs) /\ EdgesStay(mid) /\ mid[b].instrs = bs[b].instrs
    BY <1>1 DEF Rewrites
<1> HIDE DEF mid
<1>3. Rewrites(mid, new, b, Append(bs[b].instrs, x))
    BY <1>2, AddInstrEffect
<1> HIDE DEF new
<1>4. new[b].instrs = Append(bs[b].instrs, x)
    BY <1>3 DEF Rewrites
<1>5. Touches(bs, new, b)
    BY <1>1, <1>3, <1>4 DEF Rewrites, Touches
<1>6. x \in Instrs /\ IsTerminator(x) /\ bs[b].instrs \in Seq(Instrs)
    BY BlockAt DEF Instrs, IsTerminator
<1> HIDE DEF x
<1> QED
    BY <1>4, <1>5, <1>6, AppendInstr DEF Ends, new, mid

LEMMA BrEffect ==
    ASSUME NEW bs \in Seq(Block), EdgesStay(bs), NEW b \in 1..Len(bs), NEW target \in 1..Len(bs)
    PROVE  Ends(bs, Br(bs, b, target), b)
<1>1. 0 \in -1..MaxStatements /\ {target} \in SUBSET (1..Len(bs))
    BY BoundsType
<1> QED
    BY <1>1, BranchEffect DEF Br

LEMMA CondBrEffect ==
    ASSUME NEW bs \in Seq(Block), EdgesStay(bs), NEW b \in 1..Len(bs),
           NEW t \in 1..Len(bs), NEW f \in 1..Len(bs)
    PROVE  Ends(bs, CondBr(bs, b, t, f), b)
<1>1. 0 \in -1..MaxStatements /\ {t, f} \in SUBSET (1..Len(bs))
    BY BoundsType
<1> QED
    BY <1>1, BranchEffect DEF CondBr

-----------------------------------------------------------------------------
(***************************************************************************)
(* An index check leaves behind the block it was begun in, and so does an  *)
(* expression with one after another.                                      *)
(***************************************************************************)
\* What k index checks, begun in b of bs, make of it.
Checked(bs, b, count, k, c) ==
    /\ c.blocks \in Seq(Block) /\ EdgesStay(c.blocks)
    /\ Len(c.blocks) = Len(bs) + k + k
    /\ c.label_cnt = count + k
    /\ c.at = IF k = 0 THEN b ELSE Len(c.blocks)
    /\ \A i \in 1..Len(bs) : c.blocks[i].label = bs[i].label
    /\ \A i \in 1..Len(bs) : i # b => c.blocks[i].instrs = bs[i].instrs
    /\ \A i \in (Len(bs) + 1)..Len(c.blocks) : c.blocks[i].label[1] \in {"arr_neg", "arr_ok"}
    /\ Labelled(bs, count) => Labelled(c.blocks, c.label_cnt)
    /\ Open(bs[b].instrs) =>
         /\ Open(c.blocks[c.at].instrs)
         /\ \A i \in (Len(bs) + 1)..Len(c.blocks) :
              i # c.at => Closed(c.blocks[i].instrs)
         /\ k # 0 => Closed(c.blocks[b].instrs)

\* What a block is labelled keeps to its number.
LEMMA LabelType ==
    ASSUME NEW bs \in Seq(Block), NEW i \in 1..Len(bs)
    PROVE  bs[i].label[1] \in Kinds /\ bs[i].label[2] \in Nat
    BY BlockAt

\* Blocks that get the same labels stay labelled, and so do they with two more
\* of the next number.
LEMMA LabelledSame ==
    ASSUME NEW bs \in Seq(Block), NEW new \in Seq(Block), NEW n \in Nat,
           Labelled(bs, n), Len(new) = Len(bs),
           \A i \in 1..Len(bs) : new[i].label = bs[i].label
    PROVE  Labelled(new, n)
    BY DEF Labelled

LEMMA LabelledNew ==
    ASSUME NEW bs \in Seq(Block), NEW new \in Seq(Block), NEW n \in Nat, NEW m \in Nat, n <= m,
           Labelled(bs, n), Len(new) = Len(bs) + 1,
           \A i \in 1..Len(bs) : new[i].label = bs[i].label,
           new[Len(new)].label[2] <= m,
           \A i \in 1..Len(bs) : bs[i].label # new[Len(new)].label
    PROVE  Labelled(new, m)
<1>1. Len(bs) \in Nat /\ \A i \in 1..Len(bs) : bs[i].label[2] \in Nat
    BY LenProperties, LabelType
<1>2. \A i \in 1..Len(new) : i \in 1..Len(bs) \/ i = Len(new)
    BY <1>1
<1>3. ASSUME NEW i \in 1..Len(new) PROVE new[i].label[2] <= m
    BY <1>1, <1>2 DEF Labelled
<1>4. ASSUME NEW i \in 1..Len(new), NEW j \in 1..Len(new), new[i].label = new[j].label
      PROVE  i = j
    BY <1>1, <1>2, <1>4 DEF Labelled
<1> QED
    BY <1>3, <1>4 DEF Labelled

LEMMA IndexCheckEffect ==
    ASSUME NEW c, c.blocks \in Seq(Block), EdgesStay(c.blocks), c.at \in 1..Len(c.blocks),
           c.label_cnt \in Nat
    PROVE  LET d == IndexCheck(c)
               n == Len(c.blocks)
           IN  /\ d.blocks \in Seq(Block) /\ EdgesStay(d.blocks) /\ Len(d.blocks) = n + 2
               /\ d.at = n + 2 /\ d.label_cnt = c.label_cnt + 1
               /\ \A i \in 1..n : d.blocks[i].label = c.blocks[i].label
               /\ \A i \in 1..n : i # c.at => d.blocks[i].instrs = c.blocks[i].instrs
               /\ d.blocks[n + 1].label = <<"arr_neg", c.label_cnt + 1>>
               /\ d.blocks[n + 2].label = <<"arr_ok", c.label_cnt + 1>>
               /\ d.blocks[n + 2].instrs = <<>>
               /\ Closed(d.blocks[n + 1].instrs)
               /\ Open(c.blocks[c.at].instrs) => Closed(d.blocks[c.at].instrs)
<1> DEFINE bs == c.blocks
           at == c.at
           n == Len(bs)
           m == c.label_cnt + 1
           b1 == AddOp(bs, at, 0)
           b2 == Create(b1, "arr_neg", m)
           b3 == Create(b2, "arr_ok", m)
           b4 == CondBr(b3, at, n + 1, n + 2)
           b5 == AddOp(b4, n + 1, 0)
           b6 == Br(b5, n + 1, n + 2)
           d == IndexCheck(c)
<1>0. n \in Nat /\ Len(bs) = n /\ 0 \in 0..MaxStatements /\ at \in 1..n /\ at \in Nat
      /\ bs \in Seq(Block) /\ EdgesStay(bs)
      /\ m \in Nat /\ "arr_neg" \in Kinds /\ "arr_ok" \in Kinds
    BY LenProperties, BoundsType DEF Kinds
<1>a. n + 1 + 1 = n + 2 /\ n + 1 # n + 2 /\ n + 1 \notin 1..n /\ n + 2 \notin 1..n
      /\ n + 1 \in 1..n + 2 /\ n + 2 \in 1..n + 2 /\ at \in 1..n + 2
      /\ 1..n + 1 = 1..n \cup {n + 1} /\ 1..n + 2 = 1..n \cup {n + 1, n + 2}
    BY <1>0, SMTT(40)
<1>1. d.blocks = b6 /\ d.at = n + 2 /\ d.label_cnt = m
    BY <1>a DEF IndexCheck
<1> HIDE DEF d, bs, n, at, m
<1>2. /\ b1 \in Seq(Block) /\ Len(b1) = n /\ EdgesStay(b1)
      /\ \A i \in 1..n : b1[i].label = bs[i].label
      /\ \A i \in 1..n : i # at => b1[i].instrs = bs[i].instrs
      /\ Open(bs[at].instrs) => Open(b1[at].instrs)
  <2>1. Fills(bs, b1, at)
      BY <1>0, AddOpEffect
  <2> QED
      BY <2>1, <1>0 DEF Fills, Touches, Rewrites
<1> HIDE DEF b1
<1>3. /\ b2 \in Seq(Block) /\ EdgesStay(b2) /\ Len(b2) = n + 1
      /\ \A i \in 1..n : b2[i] = b1[i]
      /\ b2[n + 1].label = <<"arr_neg", m>> /\ b2[n + 1].instrs = <<>>
  <2>1. Created(b1, b2, "arr_neg", m)
      BY <1>0, <1>2, CreateEffect
  <2> QED
      BY <2>1, <1>0, <1>2 DEF Created
<1> HIDE DEF b2
<1>4. /\ b3 \in Seq(Block) /\ EdgesStay(b3) /\ Len(b3) = n + 2
      /\ \A i \in 1..n + 1 : b3[i] = b2[i]
      /\ b3[n + 2].label = <<"arr_ok", m>> /\ b3[n + 2].instrs = <<>>
  <2>1. Created(b2, b3, "arr_ok", m)
      BY <1>0, <1>a, <1>3, CreateEffect
  <2> QED
      BY <2>1, <1>0, <1>a, <1>3 DEF Created
<1> HIDE DEF b3
<1>5. /\ b4 \in Seq(Block) /\ Len(b4) = n + 2 /\ EdgesStay(b4)
      /\ \A i \in 1..n + 2 : b4[i].label = b3[i].label
      /\ \A i \in 1..n + 2 : i # at => b4[i].instrs = b3[i].instrs
      /\ Open(b3[at].instrs) => Closed(b4[at].instrs)
  <2>1. Ends(b3, b4, at)
      BY <1>a, <1>4, CondBrEffect
  <2> QED
      BY <2>1, <1>a, <1>4 DEF Ends, Touches, Rewrites
<1> HIDE DEF b4
<1>6. /\ b5 \in Seq(Block) /\ Len(b5) = n + 2 /\ EdgesStay(b5)
      /\ \A i \in 1..n + 2 : b5[i].label = b4[i].label
      /\ \A i \in 1..n + 2 : i # n + 1 => b5[i].instrs = b4[i].instrs
      /\ Open(b4[n + 1].instrs) => Open(b5[n + 1].instrs)
  <2>1. Fills(b4, b5, n + 1)
      BY <1>0, <1>a, <1>5, AddOpEffect
  <2> QED
      BY <2>1, <1>0, <1>a, <1>5 DEF Fills, Touches, Rewrites
<1> HIDE DEF b5
<1>7. /\ b6 \in Seq(Block) /\ Len(b6) = n + 2 /\ EdgesStay(b6)
      /\ \A i \in 1..n + 2 : b6[i].label = b5[i].label
      /\ \A i \in 1..n + 2 : i # n + 1 => b6[i].instrs = b5[i].instrs
      /\ Open(b5[n + 1].instrs) => Closed(b6[n + 1].instrs)
  <2>1. Ends(b5, b6, n + 1)
      BY <1>a, <1>6, BrEffect
  <2> QED
      BY <2>1, <1>a, <1>6 DEF Ends, Touches, Rewrites
<1> HIDE DEF b6
<1>8. ASSUME NEW i \in 1..n PROVE b6[i].label = bs[i].label
  <2>1. i \in 1..n + 1 /\ i \in 1..n + 2
      BY <1>a
  <2>2. b3[i].label = b1[i].label
      BY <1>3, <1>4, <2>1
  <2>3. b6[i].label = b3[i].label
      BY <1>5, <1>6, <1>7, <2>1
  <2> QED
      BY <1>2, <2>2, <2>3
<1>9. ASSUME NEW i \in 1..n, i # at PROVE b6[i].instrs = bs[i].instrs
  <2>1. i \in 1..n + 1 /\ i \in 1..n + 2 /\ i # n + 1
      BY <1>a
  <2>2. b3[i] = b1[i]
      BY <1>3, <1>4, <2>1
  <2>3. b6[i].instrs = b3[i].instrs
      BY <1>5, <1>6, <1>7, <1>9, <2>1
  <2> QED
      BY <1>2, <1>9, <2>2, <2>3
<1>10. b6[n + 1].label = <<"arr_neg", m>> /\ b6[n + 2].label = <<"arr_ok", m>>
    BY <1>3, <1>4, <1>5, <1>6, <1>7, <1>a
<1>11. b6[n + 2].instrs = <<>>
  <2>1. n + 2 \in 1..n + 2 /\ n + 2 # at /\ n + 2 # n + 1
      BY <1>0, <1>a
  <2>2. b4[n + 2].instrs = b3[n + 2].instrs /\ b5[n + 2].instrs = b4[n + 2].instrs
        /\ b6[n + 2].instrs = b5[n + 2].instrs
      BY <1>5, <1>6, <1>7, <2>1
  <2> QED
      BY <1>4, <2>2
<1>12. Closed(b6[n + 1].instrs)
  <2>1. b4[n + 1].instrs = <<>>
      BY <1>0, <1>3, <1>4, <1>5, <1>a
  <2> QED
      BY <2>1, <1>6, <1>7, EmptyIsOpen
<1>13. Open(bs[at].instrs) => Closed(b6[at].instrs)
  <2>1. b3[at].instrs = b1[at].instrs
      BY <1>0, <1>a, <1>3, <1>4
  <2>2. at # n + 1
      BY <1>0
  <2> QED
      BY <2>1, <2>2, <1>a, <1>2, <1>5, <1>6, <1>7
<1> QED
    BY <1>1, <1>7, <1>8, <1>9, <1>10, <1>11, <1>12, <1>13 DEF d, bs, n, at, m

LEMMA CheckedStep ==
    ASSUME NEW bs \in Seq(Block), EdgesStay(bs), NEW b \in 1..Len(bs), NEW count \in Nat,
           NEW k \in Nat, NEW c, Checked(bs, b, count, k, c)
    PROVE  Checked(bs, b, count, k + 1, IndexCheck(c))
<1> DEFINE d == IndexCheck(c)
           n == Len(c.blocks)
<1>1. /\ c.blocks \in Seq(Block) /\ EdgesStay(c.blocks)
      /\ n = Len(bs) + k + k /\ c.label_cnt = count + k
      /\ c.at = IF k = 0 THEN b ELSE n
    BY DEF Checked
<1>2. Len(bs) \in Nat /\ Len(bs) # 0
    BY LenProperties
<1>3. n \in Nat /\ c.at \in 1..n /\ c.label_cnt \in Nat
      /\ \A i \in 1..Len(bs) : i \in 1..n /\ (i # b => i # c.at)
    BY <1>1, <1>2
<1>4. /\ d.blocks \in Seq(Block) /\ EdgesStay(d.blocks) /\ Len(d.blocks) = n + 2
      /\ d.at = n + 2 /\ d.label_cnt = c.label_cnt + 1
      /\ \A i \in 1..n : d.blocks[i].label = c.blocks[i].label
      /\ \A i \in 1..n : i # c.at => d.blocks[i].instrs = c.blocks[i].instrs
      /\ d.blocks[n + 1].label = <<"arr_neg", c.label_cnt + 1>>
      /\ d.blocks[n + 2].label = <<"arr_ok", c.label_cnt + 1>>
      /\ d.blocks[n + 2].instrs = <<>>
      /\ Closed(d.blocks[n + 1].instrs)
      /\ Open(c.blocks[c.at].instrs) => Closed(d.blocks[c.at].instrs)
    BY <1>1, <1>3, IndexCheckEffect
<1> HIDE DEF d
<1>5. n + 2 = Len(bs) + (k + 1) + (k + 1) /\ d.label_cnt = count + (k + 1)
      /\ k + 1 # 0 /\ d.at = Len(d.blocks)
    BY <1>1, <1>2, <1>4
<1>6. \A i \in 1..Len(bs) : d.blocks[i].label = bs[i].label
    BY <1>3, <1>4 DEF Checked
<1>7. \A i \in 1..Len(bs) : i # b => d.blocks[i].instrs = bs[i].instrs
    BY <1>3, <1>4 DEF Checked
<1>8. \A i \in (Len(bs) + 1)..Len(d.blocks) :
        (i \in (Len(bs) + 1)..n /\ i \in 1..n) \/ i = n + 1 \/ i = n + 2
    BY <1>1, <1>2, <1>3, <1>4, SMTT(40)
<1>9. ASSUME NEW i \in (Len(bs) + 1)..Len(d.blocks)
      PROVE  d.blocks[i].label[1] \in {"arr_neg", "arr_ok"}
  <2>1. CASE i \in (Len(bs) + 1)..n /\ i \in 1..n
      BY <2>1, <1>4 DEF Checked
  <2>2. CASE i = n + 1 \/ i = n + 2
      BY <2>2, <1>4
  <2> QED
      BY <2>1, <2>2, <1>8
<1>10. ASSUME Labelled(bs, count) PROVE Labelled(d.blocks, d.label_cnt)
  <2>1. Labelled(c.blocks, c.label_cnt)
      BY <1>10 DEF Checked
  <2> HIDE DEF n
  <2>0. Len(d.blocks) = n + 2 /\ n \in Nat /\ c.label_cnt \in Nat
        /\ d.label_cnt = c.label_cnt + 1
      BY <1>3, <1>4
  <2>2. \A i \in 1..Len(d.blocks) : i \in 1..n \/ i = n + 1 \/ i = n + 2
      BY <2>0
  <2>3. \A i \in 1..n : d.blocks[i].label[2] \in Nat /\ d.blocks[i].label[2] <= c.label_cnt
      BY <1>1, <1>4, <2>1, LabelType DEF Labelled, n
  <2>4. d.blocks[n + 1].label[2] = c.label_cnt + 1 /\ d.blocks[n + 2].label[2] = c.label_cnt + 1
        /\ d.blocks[n + 1].label # d.blocks[n + 2].label
      BY <1>4
  <2>5. ASSUME NEW i \in 1..Len(d.blocks) PROVE d.blocks[i].label[2] <= d.label_cnt
    <3>1. CASE i \in 1..n
        BY <3>1, <2>0, <2>3
    <3>2. CASE i = n + 1
        BY <3>2, <2>0, <2>4
    <3>3. CASE i = n + 2
        BY <3>3, <2>0, <2>4
    <3> QED
        BY <3>1, <3>2, <3>3, <2>2
  <2>6. \A i, j \in 1..n : d.blocks[i].label = d.blocks[j].label => i = j
      BY <1>4, <2>1 DEF Labelled, n
  <2>7. ASSUME NEW i \in 1..n
        PROVE  d.blocks[i].label # d.blocks[n + 1].label
               /\ d.blocks[i].label # d.blocks[n + 2].label
    <3>1. d.blocks[i].label[2] # c.label_cnt + 1
        BY <2>0, <2>3
    <3> QED
        BY <3>1, <2>4
  <2>8. \A i, j \in 1..Len(d.blocks) : d.blocks[i].label = d.blocks[j].label => i = j
      BY <2>2, <2>4, <2>6, <2>7
  <2> QED
      BY <2>5, <2>8 DEF Labelled
<1>11. ASSUME Open(bs[b].instrs)
       PROVE  /\ Open(d.blocks[d.at].instrs)
              /\ \A i \in (Len(bs) + 1)..Len(d.blocks) : i # d.at => Closed(d.blocks[i].instrs)
              /\ Closed(d.blocks[b].instrs)
  <2>1. /\ Open(c.blocks[c.at].instrs)
        /\ \A i \in (Len(bs) + 1)..n : i # c.at => Closed(c.blocks[i].instrs)
        /\ k # 0 => Closed(c.blocks[b].instrs)
      BY <1>11 DEF Checked
  <2>2. Open(d.blocks[d.at].instrs)
      BY <1>4, EmptyIsOpen
  <2>3. ASSUME NEW i \in (Len(bs) + 1)..Len(d.blocks), i # d.at
        PROVE  Closed(d.blocks[i].instrs)
    <3>1. CASE i \in (Len(bs) + 1)..n /\ i \in 1..n
      <4>1. CASE i = c.at
          BY <4>1, <2>1, <1>4
      <4>2. CASE i # c.at
          BY <4>2, <3>1, <2>1, <1>4
      <4> QED
          BY <4>1, <4>2
    <3>2. CASE i = n + 1
        BY <3>2, <1>4
    <3> QED
        BY <3>1, <3>2, <2>3, <1>4, <1>8
  <2>4. Closed(d.blocks[b].instrs)
    <3>1. CASE k = 0
        BY <3>1, <2>1, <1>1, <1>4
    <3>2. CASE k # 0
      <4>1. b # c.at /\ b \in 1..n
          BY <3>2, <1>1, <1>2, <1>3
      <4> QED
          BY <4>1, <3>2, <2>1, <1>4
    <3> QED
        BY <3>1, <3>2
  <2> QED
      BY <2>2, <2>3, <2>4
<1> HIDE DEF n
<1> QED
    BY <1>4, <1>5, <1>6, <1>7, <1>9, <1>10, <1>11 DEF Checked, d

\* The instructions an expression leaves after its checks change no more.
LEMMA CheckedAddOp ==
    ASSUME NEW bs \in Seq(Block), EdgesStay(bs), NEW b \in 1..Len(bs), NEW count \in Nat,
           NEW k \in Nat, NEW c, Checked(bs, b, count, k, c), NEW s \in 0..MaxStatements,
           NEW d, d.blocks = AddOp(c.blocks, c.at, s), d.at = c.at, d.label_cnt = c.label_cnt
    PROVE  Checked(bs, b, count, k, d)
<1>1. /\ c.blocks \in Seq(Block) /\ EdgesStay(c.blocks)
      /\ Len(c.blocks) = Len(bs) + k + k /\ c.label_cnt = count + k
      /\ c.at = IF k = 0 THEN b ELSE Len(c.blocks)
    BY DEF Checked
<1>2. Len(bs) \in Nat /\ Len(bs) # 0
    BY LenProperties
<1>3. /\ c.at \in 1..Len(c.blocks) /\ c.label_cnt \in Nat
      /\ \A i \in 1..Len(bs) : i \in 1..Len(c.blocks) /\ (i # b => i # c.at)
      /\ \A i \in (Len(bs) + 1)..Len(c.blocks) : i \in 1..Len(c.blocks)
    BY <1>1, <1>2
<1>4. Fills(c.blocks, d.blocks, c.at)
    BY <1>1, <1>3, AddOpEffect
<1>5. /\ d.blocks \in Seq(Block) /\ EdgesStay(d.blocks) /\ Len(d.blocks) = Len(c.blocks)
      /\ \A i \in 1..Len(c.blocks) : d.blocks[i].label = c.blocks[i].label
      /\ \A i \in 1..Len(c.blocks) : i # c.at => d.blocks[i].instrs = c.blocks[i].instrs
      /\ Open(c.blocks[c.at].instrs) => Open(d.blocks[c.at].instrs)
    BY <1>4 DEF Fills, Touches, Rewrites
<1>6. \A i \in 1..Len(bs) : d.blocks[i].label = bs[i].label
    BY <1>3, <1>5 DEF Checked
<1>7. \A i \in 1..Len(bs) : i # b => d.blocks[i].instrs = bs[i].instrs
    BY <1>3, <1>5 DEF Checked
<1>8. \A i \in (Len(bs) + 1)..Len(c.blocks) : d.blocks[i].label[1] \in {"arr_neg", "arr_ok"}
    BY <1>3, <1>5 DEF Checked
<1>9. Labelled(bs, count) => Labelled(d.blocks, c.label_cnt)
    BY <1>1, <1>3, <1>5, LabelledSame DEF Checked
<1>10. ASSUME Open(bs[b].instrs)
       PROVE  /\ Open(d.blocks[c.at].instrs)
              /\ \A i \in (Len(bs) + 1)..Len(c.blocks) : i # c.at => Closed(d.blocks[i].instrs)
              /\ k # 0 => Closed(d.blocks[b].instrs)
  <2>1. /\ Open(c.blocks[c.at].instrs)
        /\ \A i \in (Len(bs) + 1)..Len(c.blocks) : i # c.at => Closed(c.blocks[i].instrs)
        /\ k # 0 => Closed(c.blocks[b].instrs)
      BY <1>10 DEF Checked
  <2>2. ASSUME k # 0 PROVE Closed(d.blocks[b].instrs)
    <3>1. b # c.at /\ b \in 1..Len(c.blocks)
        BY <2>2, <1>1, <1>2, <1>3
    <3> QED
        BY <3>1, <2>1, <2>2, <1>5
  <2> QED
      BY <2>1, <2>2, <1>3, <1>5
<1> QED
    BY <1>1, <1>5, <1>6, <1>7, <1>8, <1>9, <1>10 DEF Checked

\* The recursion of Evaluate has a value.
LEMMA ChecksExist ==
    ASSUME NEW c, NEW n \in Nat
    PROVE  \E f : f = [k \in 0..n |-> IF k = 0 THEN c ELSE IndexCheck(f[k - 1])]
<1> DEFINE Is(f, m) == f = [k \in 0..m |-> IF k = 0 THEN c ELSE IndexCheck(f[k - 1])]
           S == {m \in Nat : ~\E f : Is(f, m)}
<1>1. CASE S = {}
    BY <1>1
<1>2. CASE S # {}
  <2>1. PICK m \in S : \A i \in S : m <= i
    <3> HIDE DEF S
    <3>1. S \in SUBSET Nat
        BY DEF S
    <3> QED
        BY <1>2, <3>1, LeastNumber
  <2>2. CASE m = 0
    <3> DEFINE f == [k \in 0..0 |-> c]
    <3>1. Is(f, 0)
      <4>1. f = [k \in 0..0 |-> IF k = 0 THEN c ELSE IndexCheck(f[k - 1])]
          OBVIOUS
      <4> QED
          BY <4>1
    <3> QED
        BY <3>1, <2>1, <2>2
  <2>3. CASE m # 0
    <3>1. m - 1 \in Nat /\ m - 1 \notin S
        BY <2>1, <2>3
    <3>2. PICK f : Is(f, m - 1)
        BY <3>1
    <3> DEFINE g == [k \in 0..m |-> IF k = 0 THEN c ELSE IndexCheck(f[k - 1])]
    <3>3. \A k \in 0..m - 1 : k \in 0..m /\ g[k] = f[k]
        BY <3>2, <3>1
    <3>4. \A k \in 0..m : k # 0 => k - 1 \in 0..m - 1
        BY <3>1
    <3>5. \A k \in 0..m : g[k] = IF k = 0 THEN c ELSE IndexCheck(g[k - 1])
      <4> HIDE DEF Is
      <4>1. \A k \in 0..m : g[k] = IF k = 0 THEN c ELSE IndexCheck(f[k - 1])
          OBVIOUS
      <4> HIDE DEF g
      <4> QED
          BY <3>3, <3>4, <4>1
    <3>6. Is(g, m)
      <4>1. g = [k \in 0..m |-> g[k]]
          OBVIOUS
      <4> HIDE DEF g
      <4> QED
          BY <4>1, <3>5
    <3> QED
        BY <3>6, <2>1
  <2> QED
      BY <2>2, <2>3
<1> QED
    BY <1>1, <1>2

LEMMA EvaluateEffect ==
    ASSUME NEW bs \in Seq(Block), EdgesStay(bs), NEW b \in 1..Len(bs), NEW count \in Nat,
           NEW n \in Nat, NEW s \in 0..MaxStatements, NEW emits \in BOOLEAN
    PROVE  Checked(bs, b, count, n, Evaluate(bs, b, count, n, s, emits))
<1> DEFINE c0 == [blocks |-> bs, at |-> b, label_cnt |-> count]
           f == CHOOSE f : f = [k \in 0..n |-> IF k = 0 THEN c0 ELSE IndexCheck(f[k - 1])]
           e == f[n]
           d == [e EXCEPT !.blocks = IF emits THEN AddOp(@, e.at, s) ELSE @]
<1>1. Evaluate(bs, b, count, n, s, emits) = d
    BY DEF Evaluate
<1>2. f = [k \in 0..n |-> IF k = 0 THEN c0 ELSE IndexCheck(f[k - 1])]
  <2> HIDE DEF c0
  <2> QED
      BY ChecksExist, ZenonT(40)
<1> HIDE DEF f
<1>3. \A k \in 0..n : f[k] = IF k = 0 THEN c0 ELSE IndexCheck(f[k - 1])
  <2> HIDE DEF c0
  <2> QED
      BY <1>2
<1> DEFINE Rec == [blocks : Seq(Block), at : Nat, label_cnt : Nat]
<1>4. ASSUME NEW k \in 0..n PROVE Checked(bs, b, count, k, f[k]) /\ f[k] \in Rec
  <2> DEFINE S == {m \in 0..n : ~(Checked(bs, b, count, m, f[m]) /\ f[m] \in Rec)}
  <2> SUFFICES ASSUME S # {} PROVE FALSE
      OBVIOUS
  <2>1. PICK m \in S : \A i \in S : m <= i
    <3>1. S \in SUBSET Nat
        OBVIOUS
    <3> HIDE DEF S
    <3> QED
        BY <3>1, LeastNumber
  <2>2. CASE m = 0
    <3>1. f[0] = c0
        BY <1>3
    <3>2. c0.blocks = bs /\ c0.at = b /\ c0.label_cnt = count
        OBVIOUS
    <3>3. Len(bs) \in Nat /\ c0 \in Rec
        BY LenProperties
    <3> HIDE DEF c0
    <3>4. Checked(bs, b, count, 0, c0)
      <4>1. \A i \in (Len(bs) + 1)..Len(bs) : FALSE
          BY <3>3
      <4> QED
          BY <4>1, <3>2, <3>3 DEF Checked
    <3> QED
        BY <3>1, <3>3, <3>4, <2>1, <2>2
  <2>3. CASE m # 0
    <3>1. m \in 0..n /\ m - 1 \in 0..n /\ m - 1 \in Nat /\ m - 1 \notin S /\ m - 1 + 1 = m
        BY <2>1, <2>3
    <3>2. Checked(bs, b, count, m - 1, f[m - 1])
        BY <3>1
    <3>3. f[m] = IndexCheck(f[m - 1])
        BY <1>3, <2>3, <3>1
    <3>4. Checked(bs, b, count, m, f[m])
        BY <3>1, <3>2, <3>3, CheckedStep
    <3>5. f[m] \in Rec
      <4>1. f[m].blocks \in Seq(Block) /\ f[m].label_cnt \in Nat /\ f[m].at \in Nat
        <5>1. Len(bs) \in Nat
            BY LenProperties
        <5>0. m \in Nat
            BY <3>1
        <5>2. f[m].blocks \in Seq(Block) /\ Len(f[m].blocks) = Len(bs) + m + m
              /\ f[m].label_cnt = count + m /\ f[m].at = IF m = 0 THEN b ELSE Len(f[m].blocks)
            BY <3>4 DEF Checked
        <5>3. f[m].at \in Nat
            BY <5>0, <5>1, <5>2, <2>3
        <5> QED
            BY <5>0, <5>1, <5>2, <5>3
      <4>2. f[m] = [blocks |-> f[m].blocks, at |-> f[m].at, label_cnt |-> f[m].label_cnt]
          BY <3>3 DEF IndexCheck
      <4> QED
          BY <4>1, <4>2
    <3> QED
        BY <3>4, <3>5, <2>1
  <2> QED
      BY <2>2, <2>3
<1>5. Checked(bs, b, count, n, e) /\ e \in Rec
    BY <1>4
<1> HIDE DEF e
<1>6. CASE emits
  <2>1. d.blocks = AddOp(e.blocks, e.at, s) /\ d.at = e.at /\ d.label_cnt = e.label_cnt
      BY <1>5, <1>6
  <2> HIDE DEF d
  <2>2. Checked(bs, b, count, n, d)
      BY <2>1, <1>5, CheckedAddOp
  <2> QED
      BY <2>2, <1>1
<1>7. CASE ~emits
  <2>1. d = e
      BY <1>5, <1>7
  <2> HIDE DEF d
  <2> QED
      BY <2>1, <1>1, <1>5
<1> QED
    BY <1>6, <1>7

-----------------------------------------------------------------------------
(***************************************************************************)
(* What each visitor does to the blocks.                                   *)
(***************************************************************************)
\* new has m blocks after those of bs, labelled with K, and is bs but for the
\* edges and for the instructions of the blocks in C.
Grown(bs, new, C, m, K) ==
    /\ new \in Seq(Block) /\ EdgesStay(new) /\ Len(new) = Len(bs) + m
    /\ \A i \in 1..Len(bs) : new[i].label = bs[i].label
    /\ \A i \in 1..Len(bs) : i \notin C => new[i].instrs = bs[i].instrs
    /\ \A i \in (Len(bs) + 1)..Len(new) : new[i].label[1] \in K

\* new is bs but that the arm at location has its branch, unless it has returned.
ArmEnded(bs, new, location, returned) ==
    /\ new \in Seq(Block) /\ EdgesStay(new) /\ Len(new) = Len(bs)
    /\ \A i \in 1..Len(bs) : new[i].label = bs[i].label
    /\ \A i \in 1..Len(bs) : i # location => new[i].instrs = bs[i].instrs
    /\ returned => new[location].instrs = bs[location].instrs
    /\ ~returned => new[location].instrs # <<>>
    /\ ~returned /\ Open(bs[location].instrs) => Closed(new[location].instrs)

LEMMA EndArmEffect ==
    ASSUME NEW bs \in Seq(Block), EdgesStay(bs), NEW location \in 1..Len(bs),
           NEW returned \in BOOLEAN, NEW endBB \in 1..Len(bs)
    PROVE  ArmEnded(bs, EndArm(bs, location, returned, endBB), location, returned)
<1>1. CASE returned
    BY <1>1 DEF EndArm, ArmEnded
<1>2. CASE ~returned
  <2>1. Ends(bs, Br(bs, location, endBB), location)
      BY BrEffect
  <2>2. EndArm(bs, location, returned, endBB) = Br(bs, location, endBB)
      BY <1>2 DEF EndArm
  <2> QED
      BY <1>2, <2>1, <2>2 DEF Ends, Touches, Rewrites, ArmEnded
<1> QED
    BY <1>1, <1>2

\* The blocks after an if without else.
IfEnded(bs, new, orig, cur, returned, n) ==
    LET endBB == Len(bs) + 1
    IN  /\ Grown(bs, new, {orig, cur}, 1, {"selEndBB"})
        /\ new[endBB].label = <<"selEndBB", n>> /\ new[endBB].instrs = <<>>
        /\ orig # cur =>
             /\ Open(bs[orig].instrs) => Closed(new[orig].instrs)
             /\ returned => new[cur].instrs = bs[cur].instrs
             /\ ~returned /\ Open(bs[cur].instrs) => Closed(new[cur].instrs)

LEMMA EndIfEffect ==
    ASSUME NEW bs \in Seq(Block), EdgesStay(bs), NEW n \in Nat,
           NEW orig \in 1..Len(bs), NEW trueBB \in 1..Len(bs), NEW cur \in 1..Len(bs),
           NEW returned \in BOOLEAN
    PROVE  LET endBB == Len(Create(bs, "selEndBB", n))
           IN  /\ endBB = Len(bs) + 1
               /\ IfEnded(bs, EndArm(CondBr(Create(bs, "selEndBB", n), orig, trueBB, endBB),
                                     cur, returned, endBB),
                          orig, cur, returned, n)
<1> DEFINE b1 == Create(bs, "selEndBB", n)
           m == Len(bs)
           b2 == CondBr(b1, orig, trueBB, m + 1)
           b3 == EndArm(b2, cur, returned, m + 1)
<1>1. m \in Nat /\ Len(bs) = m /\ "selEndBB" \in Kinds
      /\ orig \in 1..m /\ trueBB \in 1..m /\ cur \in 1..m
    BY LenProperties DEF Kinds
<1> HIDE DEF m
<1>2. m + 1 \notin 1..m /\ m + 1 \in 1..m + 1 /\ \A i \in 1..m : i \in 1..m + 1 /\ i # m + 1
    BY <1>1
<1>3. /\ b1 \in Seq(Block) /\ EdgesStay(b1) /\ Len(b1) = m + 1
      /\ \A i \in 1..m : b1[i] = bs[i]
      /\ b1[m + 1].label = <<"selEndBB", n>> /\ b1[m + 1].instrs = <<>>
  <2>1. Created(bs, b1, "selEndBB", n)
      BY <1>1, CreateEffect
  <2> QED
      BY <2>1, <1>1 DEF Created
<1> HIDE DEF b1
<1>4. /\ b2 \in Seq(Block) /\ EdgesStay(b2) /\ Len(b2) = m + 1
      /\ \A i \in 1..m + 1 : b2[i].label = b1[i].label
      /\ \A i \in 1..m + 1 : i # orig => b2[i].instrs = b1[i].instrs
      /\ Open(b1[orig].instrs) => Closed(b2[orig].instrs)
  <2>1. Ends(b1, b2, orig)
      BY <1>1, <1>2, <1>3, CondBrEffect
  <2> QED
      BY <2>1, <1>3 DEF Ends, Touches, Rewrites
<1> HIDE DEF b2
<1>5. /\ b3 \in Seq(Block) /\ EdgesStay(b3) /\ Len(b3) = m + 1
      /\ \A i \in 1..m + 1 : b3[i].label = b2[i].label
      /\ \A i \in 1..m + 1 : i # cur => b3[i].instrs = b2[i].instrs
      /\ returned => b3[cur].instrs = b2[cur].instrs
      /\ ~returned /\ Open(b2[cur].instrs) => Closed(b3[cur].instrs)
  <2>1. cur \in 1..Len(b2) /\ m + 1 \in 1..Len(b2)
      BY <1>1, <1>2, <1>4
  <2>2. ArmEnded(b2, b3, cur, returned)
      BY <2>1, <1>4, EndArmEffect
  <2> QED
      BY <2>2, <1>4 DEF ArmEnded
<1> HIDE DEF b3
<1>6. Grown(bs, b3, {orig, cur}, 1, {"selEndBB"})
  <2>1. \A i \in 1..m : b3[i].label = bs[i].label
      BY <1>2, <1>3, <1>4, <1>5
  <2>2. \A i \in 1..m : i \notin {orig, cur} => b3[i].instrs = bs[i].instrs
      BY <1>2, <1>3, <1>4, <1>5
  <2>3. \A i \in (m + 1)..(m + 1) : i = m + 1
      BY <1>1
  <2>4. b3[m + 1].label[1] = "selEndBB"
      BY <1>2, <1>3, <1>4, <1>5
  <2> QED
      BY <1>1, <1>5, <2>1, <2>2, <2>3, <2>4 DEF Grown
<1>7. b3[m + 1].label = <<"selEndBB", n>> /\ b3[m + 1].instrs = <<>>
    BY <1>1, <1>2, <1>3, <1>4, <1>5
<1>8. ASSUME orig # cur
      PROVE  /\ Open(bs[orig].instrs) => Closed(b3[orig].instrs)
             /\ returned => b3[cur].instrs = bs[cur].instrs
             /\ ~returned /\ Open(bs[cur].instrs) => Closed(b3[cur].instrs)
    BY <1>1, <1>2, <1>3, <1>4, <1>5, <1>8
<1> QED
    BY <1>1, <1>3, <1>6, <1>7, <1>8 DEF b1, b2, b3, IfEnded

\* The blocks after an if with else.
ElseEnded(bs, new, f, cur, returned) ==
    LET endBB == Len(bs) + 1
        orig == f.orig_block
        loc == f.trueBB_location
    IN  /\ Grown(bs, new, {orig, cur} \cup (IF f.trueBB_returned THEN {} ELSE {loc}), 1,
                 {"selEndBB"})
        /\ new[endBB].label = <<"selEndBB", f.label_now>> /\ new[endBB].instrs = <<>>
        /\ orig # cur /\ (f.trueBB_returned \/ loc \notin {orig, cur}) =>
             /\ Open(bs[orig].instrs) => Closed(new[orig].instrs)
             /\ ~f.trueBB_returned /\ Open(bs[loc].instrs) => Closed(new[loc].instrs)
             /\ returned /\ Settled(bs[cur].instrs) => Settled(new[cur].instrs)
             /\ Closed(bs[cur].instrs) /\ returned => Closed(new[cur].instrs)
             /\ ~returned /\ Open(bs[cur].instrs) => Closed(new[cur].instrs)

\* What EndElse makes of the blocks.
Filled(bs, b, endBB) == IF bs[b].instrs = <<>> THEN Br(bs, b, endBB) ELSE bs

AfterElse(bs, f, cur, returned) ==
    LET made == Create(bs, "selEndBB", f.label_now)
        endBB == Len(made)
        branched == CondBr(made, f.orig_block, f.trueBB, f.falseBB)
        trueEnded == EndArm(branched, f.trueBB_location, f.trueBB_returned, endBB)
        falseEnded == EndArm(trueEnded, cur, returned, endBB)
    IN  Filled(falseEnded, cur, endBB)

LEMMA EndElseEffect ==
    ASSUME NEW bs \in Seq(Block), EdgesStay(bs),
           NEW f, f.label_now \in Nat, f.orig_block \in 1..Len(bs), f.trueBB \in 1..Len(bs),
           f.falseBB \in 1..Len(bs), f.trueBB_location \in 1..Len(bs),
           f.trueBB_returned \in BOOLEAN,
           NEW cur \in 1..Len(bs), NEW returned \in BOOLEAN
    PROVE  /\ Len(Create(bs, "selEndBB", f.label_now)) = Len(bs) + 1
           /\ ElseEnded(bs, AfterElse(bs, f, cur, returned), f, cur, returned)
<1> DEFINE m == Len(bs)
           n == f.label_now
           orig == f.orig_block
           trueBB == f.trueBB
           falseBB == f.falseBB
           loc == f.trueBB_location
           trueReturned == f.trueBB_returned
           b1 == Create(bs, "selEndBB", n)
           b2 == CondBr(b1, orig, trueBB, falseBB)
           b3 == EndArm(b2, loc, trueReturned, m + 1)
           b4 == EndArm(b3, cur, returned, m + 1)
           b5 == Filled(b4, cur, m + 1)
<1>1. m \in Nat /\ Len(bs) = m /\ "selEndBB" \in Kinds
      /\ orig \in 1..m /\ trueBB \in 1..m /\ falseBB \in 1..m /\ loc \in 1..m /\ cur \in 1..m
      /\ n \in Nat /\ trueReturned \in BOOLEAN
    BY LenProperties DEF Kinds
<1> HIDE DEF m, n, orig, trueBB, falseBB, loc, trueReturned
<1>2. m + 1 \notin 1..m /\ m + 1 \in 1..m + 1 /\ \A i \in 1..m : i \in 1..m + 1 /\ i # m + 1
    BY <1>1
<1>3. /\ b1 \in Seq(Block) /\ EdgesStay(b1) /\ Len(b1) = m + 1
      /\ \A i \in 1..m : b1[i] = bs[i]
      /\ b1[m + 1].label = <<"selEndBB", n>> /\ b1[m + 1].instrs = <<>>
  <2>1. Created(bs, b1, "selEndBB", n)
      BY <1>1, CreateEffect
  <2> QED
      BY <2>1, <1>1 DEF Created
<1> HIDE DEF b1
<1>4. /\ b2 \in Seq(Block) /\ EdgesStay(b2) /\ Len(b2) = m + 1
      /\ \A i \in 1..m + 1 : b2[i].label = b1[i].label
      /\ \A i \in 1..m + 1 : i # orig => b2[i].instrs = b1[i].instrs
      /\ Open(b1[orig].instrs) => Closed(b2[orig].instrs)
  <2>1. Ends(b1, b2, orig)
      BY <1>1, <1>2, <1>3, CondBrEffect
  <2> QED
      BY <2>1, <1>3 DEF Ends, Touches, Rewrites
<1> HIDE DEF b2
<1>5. /\ b3 \in Seq(Block) /\ EdgesStay(b3) /\ Len(b3) = m + 1
      /\ \A i \in 1..m + 1 : b3[i].label = b2[i].label
      /\ \A i \in 1..m + 1 : i # loc => b3[i].instrs = b2[i].instrs
      /\ trueReturned => b3[loc].instrs = b2[loc].instrs
      /\ ~trueReturned /\ Open(b2[loc].instrs) => Closed(b3[loc].instrs)
  <2>1. loc \in 1..Len(b2) /\ m + 1 \in 1..Len(b2)
      BY <1>1, <1>2, <1>4
  <2>2. ArmEnded(b2, b3, loc, trueReturned)
      BY <2>1, <1>1, <1>4, EndArmEffect
  <2> QED
      BY <2>2, <1>4 DEF ArmEnded
<1> HIDE DEF b3
<1>6. /\ b4 \in Seq(Block) /\ EdgesStay(b4) /\ Len(b4) = m + 1
      /\ \A i \in 1..m + 1 : b4[i].label = b3[i].label
      /\ \A i \in 1..m + 1 : i # cur => b4[i].instrs = b3[i].instrs
      /\ returned => b4[cur].instrs = b3[cur].instrs
      /\ ~returned /\ Open(b3[cur].instrs) => Closed(b4[cur].instrs)
      /\ ~returned => b4[cur].instrs # <<>>
  <2>1. cur \in 1..Len(b3) /\ m + 1 \in 1..Len(b3)
      BY <1>1, <1>2, <1>5
  <2>2. ArmEnded(b3, b4, cur, returned)
      BY <2>1, <1>5, EndArmEffect
  <2> QED
      BY <2>2, <1>5 DEF ArmEnded
<1> HIDE DEF b4
<1>7. /\ b5 \in Seq(Block) /\ EdgesStay(b5) /\ Len(b5) = m + 1
      /\ \A i \in 1..m + 1 : b5[i].label = b4[i].label
      /\ \A i \in 1..m + 1 : i # cur => b5[i].instrs = b4[i].instrs
      /\ b4[cur].instrs = <<>> => Closed(b5[cur].instrs)
      /\ b4[cur].instrs # <<>> => b5[cur].instrs = b4[cur].instrs
  <2>1. cur \in 1..Len(b4) /\ m + 1 \in 1..Len(b4)
      BY <1>1, <1>2, <1>6
  <2>2. CASE b4[cur].instrs = <<>>
    <3>1. Ends(b4, Br(b4, cur, m + 1), cur)
        BY <2>1, <1>6, BrEffect
    <3>2. b5 = Br(b4, cur, m + 1)
        BY <2>2 DEF Filled
    <3> HIDE DEF b5
    <3> QED
        BY <2>2, <3>1, <3>2, <1>6, EmptyIsOpen DEF Ends, Touches, Rewrites
  <2>3. CASE b4[cur].instrs # <<>>
      BY <2>3, <1>6 DEF Filled
  <2> QED
      BY <2>2, <2>3
<1> DEFINE C == {orig, cur} \cup (IF trueReturned THEN {} ELSE {loc})
<1> HIDE DEF b5
<1>8. Grown(bs, b5, C, 1, {"selEndBB"})
  <2>1. ASSUME NEW i \in 1..m PROVE b5[i].label = bs[i].label
    <3>1. i \in 1..m + 1
        BY <1>2
    <3>2. b5[i].label = b3[i].label /\ b3[i].label = b1[i].label
        BY <3>1, <1>4, <1>5, <1>6, <1>7
    <3> QED
        BY <3>2, <1>3
  <2>2. ASSUME NEW i \in 1..m, i \notin C PROVE b5[i].instrs = bs[i].instrs
    <3>1. i \in 1..m + 1 /\ i # orig /\ i # cur /\ (trueReturned \/ i # loc)
        BY <1>2, <2>2
    <3>2. b3[i].instrs = b2[i].instrs
        BY <3>1, <1>5
    <3> QED
        BY <3>1, <3>2, <1>3, <1>4, <1>6, <1>7
  <2>3. \A i \in (m + 1)..(m + 1) : i = m + 1
      BY <1>1
  <2>4. b5[m + 1].label[1] = "selEndBB"
      BY <1>2, <1>3, <1>4, <1>5, <1>6, <1>7
  <2> QED
      BY <1>1, <1>7, <2>1, <2>2, <2>3, <2>4 DEF Grown
<1>9. b5[m + 1].label = <<"selEndBB", n>> /\ b5[m + 1].instrs = <<>>
    BY <1>1, <1>2, <1>3, <1>4, <1>5, <1>6, <1>7
<1>10. ASSUME orig # cur, trueReturned \/ loc \notin {orig, cur}
       PROVE  /\ Open(bs[orig].instrs) => Closed(b5[orig].instrs)
              /\ ~trueReturned /\ Open(bs[loc].instrs) => Closed(b5[loc].instrs)
              /\ returned /\ Settled(bs[cur].instrs) => Settled(b5[cur].instrs)
              /\ Closed(bs[cur].instrs) /\ returned => Closed(b5[cur].instrs)
              /\ ~returned /\ Open(bs[cur].instrs) => Closed(b5[cur].instrs)
  <2>1. b3[orig].instrs = b2[orig].instrs /\ b3[cur].instrs = bs[cur].instrs
      BY <1>1, <1>2, <1>3, <1>4, <1>5, <1>10
  <2>2. Open(bs[orig].instrs) => Closed(b5[orig].instrs)
      BY <2>1, <1>1, <1>2, <1>3, <1>4, <1>6, <1>7, <1>10
  <2>3. ~trueReturned /\ Open(bs[loc].instrs) => Closed(b5[loc].instrs)
      BY <1>1, <1>2, <1>3, <1>4, <1>5, <1>6, <1>7, <1>10
  <2>4. ~returned /\ Open(bs[cur].instrs) => Closed(b5[cur].instrs)
      BY <2>1, <1>6, <1>7
  <2>5. returned =>
          /\ Closed(bs[cur].instrs) => Closed(b5[cur].instrs)
          /\ Open(bs[cur].instrs) => Settled(b5[cur].instrs)
      BY <2>1, <1>6, <1>7 DEF Settled
  <2> QED
      BY <2>2, <2>3, <2>4, <2>5 DEF Settled
<1> QED
    BY <1>1, <1>3, <1>8, <1>9, <1>10
       DEF m, n, orig, trueBB, falseBB, loc, trueReturned, b1, b2, b3, b4, b5, ElseEnded, AfterElse

\* The blocks after a while.
LoopEnded(bs, new, ins, startBB, returned, n) ==
    LET endBB == Len(bs) + 1
    IN  /\ Grown(bs, new, {ins, startBB}, 1, {"loopEndBB"})
        /\ new[endBB].label = <<"loopEndBB", n>> /\ new[endBB].instrs = <<>>
        /\ ins # startBB =>
             /\ Open(bs[startBB].instrs) => Closed(new[startBB].instrs)
             /\ returned => new[ins].instrs = bs[ins].instrs
             /\ ~returned /\ Open(bs[ins].instrs) => Closed(new[ins].instrs)

LEMMA EndIterationEffect ==
    ASSUME NEW bs \in Seq(Block), EdgesStay(bs), NEW n \in Nat,
           NEW ins \in 1..Len(bs), NEW startBB \in 1..Len(bs), NEW bodyBB \in 1..Len(bs),
           NEW returned \in BOOLEAN
    PROVE  LET made == Create(EndArm(bs, ins, returned, startBB), "loopEndBB", n)
               endBB == Len(made)
           IN  /\ endBB = Len(bs) + 1
               /\ LoopEnded(bs, CondBr(made, startBB, bodyBB, endBB), ins, startBB, returned, n)
<1> DEFINE m == Len(bs)
           b1 == EndArm(bs, ins, returned, startBB)
           b2 == Create(b1, "loopEndBB", n)
           b3 == CondBr(b2, startBB, bodyBB, m + 1)
<1>1. m \in Nat /\ Len(bs) = m /\ "loopEndBB" \in Kinds
      /\ ins \in 1..m /\ startBB \in 1..m /\ bodyBB \in 1..m
    BY LenProperties DEF Kinds
<1> HIDE DEF m
<1>2. m + 1 \notin 1..m /\ m + 1 \in 1..m + 1 /\ \A i \in 1..m : i \in 1..m + 1 /\ i # m + 1
    BY <1>1
<1>3. ArmEnded(bs, b1, ins, returned)
    BY EndArmEffect
<1> HIDE DEF b1
<1>4. /\ b1 \in Seq(Block) /\ EdgesStay(b1) /\ Len(b1) = m
      /\ \A i \in 1..m : b1[i].label = bs[i].label
      /\ \A i \in 1..m : i # ins => b1[i].instrs = bs[i].instrs
      /\ returned => b1[ins].instrs = bs[ins].instrs
      /\ ~returned /\ Open(bs[ins].instrs) => Closed(b1[ins].instrs)
    BY <1>1, <1>3 DEF ArmEnded
<1>5. /\ b2 \in Seq(Block) /\ EdgesStay(b2) /\ Len(b2) = m + 1
      /\ \A i \in 1..m : b2[i] = b1[i]
      /\ b2[m + 1].label = <<"loopEndBB", n>> /\ b2[m + 1].instrs = <<>>
  <2>1. Created(b1, b2, "loopEndBB", n)
      BY <1>1, <1>4, CreateEffect
  <2> QED
      BY <2>1, <1>4 DEF Created
<1> HIDE DEF b2
<1>6. /\ b3 \in Seq(Block) /\ EdgesStay(b3) /\ Len(b3) = m + 1
      /\ \A i \in 1..m + 1 : b3[i].label = b2[i].label
      /\ \A i \in 1..m + 1 : i # startBB => b3[i].instrs = b2[i].instrs
      /\ Open(b2[startBB].instrs) => Closed(b3[startBB].instrs)
  <2>1. Ends(b2, b3, startBB)
      BY <1>1, <1>2, <1>5, CondBrEffect
  <2> QED
      BY <2>1, <1>5 DEF Ends, Touches, Rewrites
<1> HIDE DEF b3
<1>7. Grown(bs, b3, {ins, startBB}, 1, {"loopEndBB"})
  <2>1. \A i \in 1..m : b3[i].label = bs[i].label
      BY <1>2, <1>4, <1>5, <1>6
  <2>2. \A i \in 1..m : i \notin {ins, startBB} => b3[i].instrs = bs[i].instrs
      BY <1>2, <1>4, <1>5, <1>6, SMTT(40)
  <2>3. \A i \in (m + 1)..(m + 1) : i = m + 1
      BY <1>1
  <2>4. b3[m + 1].label[1] = "loopEndBB"
      BY <1>2, <1>5, <1>6
  <2> QED
      BY <1>1, <1>6, <2>1, <2>2, <2>3, <2>4 DEF Grown
<1>8. b3[m + 1].label = <<"loopEndBB", n>> /\ b3[m + 1].instrs = <<>>
    BY <1>1, <1>2, <1>5, <1>6
<1>9. ASSUME ins # startBB
      PROVE  /\ Open(bs[startBB].instrs) => Closed(b3[startBB].instrs)
             /\ returned => b3[ins].instrs = bs[ins].instrs
             /\ ~returned /\ Open(bs[ins].instrs) => Closed(b3[ins].instrs)
    BY <1>1, <1>2, <1>4, <1>5, <1>6, <1>9
<1> QED
    BY <1>1, <1>5, <1>7, <1>8, <1>9 DEF b1, b2, b3, LoopEnded

\* The blocks after a function's body, which may run off its end.
FunctionEnded(bs, new, cur, end, falls) ==
    /\ Grown(bs, new, {cur, end}, 0, {})
    /\ cur # end =>
         /\ falls <=> bs[cur].instrs = <<>>
         /\ falls => Closed(new[cur].instrs)
         /\ ~falls => new[cur].instrs = bs[cur].instrs
         /\ bs[end].instrs = <<>> => Closed(new[end].instrs)

LEMMA EndFunctionEffect ==
    ASSUME NEW bs \in Seq(Block), EdgesStay(bs), NEW cur \in 1..Len(bs), NEW end \in 1..Len(bs)
    PROVE  LET returns == AddInstr(bs, end, "ret", Return)
               falls == returns[cur].instrs = <<>>
           IN  FunctionEnded(bs, IF falls THEN Br(returns, cur, end) ELSE returns,
                             cur, end, falls)
<1> DEFINE m == Len(bs)
           x == [op |-> "ret", of |-> Return]
           b1 == AddInstr(bs, end, "ret", Return)
           falls == b1[cur].instrs = <<>>
           b2 == IF falls THEN Br(b1, cur, end) ELSE b1
<1>1. m \in Nat /\ Len(bs) = m /\ cur \in 1..m /\ end \in 1..m
    BY LenProperties
<1> HIDE DEF m
<1>2. x \in Instrs /\ IsTerminator(x) /\ Return \in -1..MaxStatements
    BY BoundsType DEF Instrs, IsTerminator, Return
<1>3. Rewrites(bs, b1, end, Append(bs[end].instrs, x))
    BY <1>2, AddInstrEffect
<1> HIDE DEF b1
<1>4. bs[end].instrs = <<>> => Closed(b1[end].instrs)
  <2>1. bs[end].instrs \in Seq(Instrs)
      BY BlockAt
  <2>2. b1[end].instrs = Append(bs[end].instrs, x)
      BY <1>3 DEF Rewrites
  <2> HIDE DEF x
  <2> QED
      BY <2>1, <2>2, <1>2, AppendInstr, EmptyIsOpen
<1>5. /\ b1 \in Seq(Block) /\ EdgesStay(b1) /\ Len(b1) = m
      /\ \A i \in 1..m : b1[i].label = bs[i].label
      /\ \A i \in 1..m : i # end => b1[i].instrs = bs[i].instrs
    BY <1>1, <1>3 DEF Rewrites
<1>6. CASE falls
  <2>1. b2 = Br(b1, cur, end)
      BY <1>6
  <2>2. Ends(b1, Br(b1, cur, end), cur)
      BY <1>1, <1>5, BrEffect
  <2> HIDE DEF b2
  <2>3. /\ b2 \in Seq(Block) /\ EdgesStay(b2) /\ Len(b2) = m
        /\ \A i \in 1..m : b2[i].label = b1[i].label
        /\ \A i \in 1..m : i # cur => b2[i].instrs = b1[i].instrs
        /\ Open(b1[cur].instrs) => Closed(b2[cur].instrs)
      BY <2>1, <2>2, <1>5 DEF Ends, Touches, Rewrites
  <2>4. Grown(bs, b2, {cur, end}, 0, {})
    <3>1. \A i \in (m + 1)..m : FALSE
        BY <1>1
    <3>2. \A i \in 1..m : b2[i].label = bs[i].label
        BY <2>3, <1>5
    <3>3. \A i \in 1..m : i \notin {cur, end} => b2[i].instrs = bs[i].instrs
        BY <2>3, <1>5
    <3> QED
        BY <3>1, <3>2, <3>3, <2>3, <1>1 DEF Grown
  <2>5. cur # end => (falls <=> bs[cur].instrs = <<>>) /\ Closed(b2[cur].instrs)
                     /\ (bs[end].instrs = <<>> => Closed(b2[end].instrs))
      BY <2>3, <1>1, <1>4, <1>5, <1>6, EmptyIsOpen
  <2> QED
      BY <2>4, <2>5, <1>6 DEF b1, b2, FunctionEnded
<1>7. CASE ~falls
  <2>1. b2 = b1
      BY <1>7
  <2> HIDE DEF b2
  <2>4. Grown(bs, b2, {cur, end}, 0, {})
    <3>1. \A i \in (m + 1)..m : FALSE
        BY <1>1
    <3> QED
        BY <3>1, <2>1, <1>1, <1>5 DEF Grown
  <2>5. cur # end => (falls <=> bs[cur].instrs = <<>>) /\ b2[cur].instrs = bs[cur].instrs
                     /\ (bs[end].instrs = <<>> => Closed(b2[end].instrs))
      BY <2>1, <1>1, <1>4, <1>5
  <2> QED
      BY <2>4, <2>5, <1>7 DEF b1, b2, FunctionEnded
<1> QED
    BY <1>6, <1>7

\* An expression's blocks: those of its checks, of which only the last is open.
ExpressionMade(bs, b, count, n, e) ==
    /\ Grown(bs, e.blocks, {b}, n + n, {"arr_neg", "arr_ok"})
    /\ e.label_cnt = count + n
    /\ e.at \in 1..Len(e.blocks) /\ (n > 0 => e.at \notin 1..Len(bs))
    /\ n = 0 => e.at = b
    /\ Labelled(bs, count) => Labelled(e.blocks, e.label_cnt)
    /\ Open(bs[b].instrs) =>
         /\ Open(e.blocks[e.at].instrs)
         /\ \A i \in {b} \cup ((Len(bs) + 1)..Len(e.blocks)) :
              i # e.at => Closed(e.blocks[i].instrs)

LEMMA ExpressionEffect ==
    ASSUME NEW bs \in Seq(Block), EdgesStay(bs), NEW b \in 1..Len(bs), NEW count \in Nat,
           NEW n \in Nat, NEW s \in 0..MaxStatements, NEW emits \in BOOLEAN
    PROVE  ExpressionMade(bs, b, count, n, Evaluate(bs, b, count, n, s, emits))
<1> DEFINE e == Evaluate(bs, b, count, n, s, emits)
<1>1. Checked(bs, b, count, n, e)
    BY EvaluateEffect
<1> HIDE DEF e
<1>2. Len(bs) \in Nat /\ Len(bs) # 0
    BY LenProperties
<1>3. /\ e.blocks \in Seq(Block) /\ EdgesStay(e.blocks)
      /\ Len(e.blocks) = Len(bs) + n + n
      /\ e.label_cnt = count + n
      /\ e.at = IF n = 0 THEN b ELSE Len(e.blocks)
      /\ \A i \in 1..Len(bs) : e.blocks[i].label = bs[i].label
      /\ \A i \in 1..Len(bs) : i # b => e.blocks[i].instrs = bs[i].instrs
      /\ \A i \in (Len(bs) + 1)..Len(e.blocks) : e.blocks[i].label[1] \in {"arr_neg", "arr_ok"}
    BY <1>1 DEF Checked
<1>4. Len(e.blocks) = Len(bs) + (n + n)
    BY <1>2, <1>3
<1>5. Grown(bs, e.blocks, {b}, n + n, {"arr_neg", "arr_ok"})
    BY <1>3, <1>4 DEF Grown
<1>6. e.at \in 1..Len(e.blocks) /\ (n > 0 => e.at \notin 1..Len(bs)) /\ (n = 0 => e.at = b)
    BY <1>2, <1>3
<1>7. Labelled(bs, count) => Labelled(e.blocks, e.label_cnt)
    BY <1>1 DEF Checked
<1>8. ASSUME Open(bs[b].instrs)
      PROVE  /\ Open(e.blocks[e.at].instrs)
             /\ \A i \in {b} \cup ((Len(bs) + 1)..Len(e.blocks)) :
                  i # e.at => Closed(e.blocks[i].instrs)
  <2>1. /\ Open(e.blocks[e.at].instrs)
        /\ \A i \in (Len(bs) + 1)..Len(e.blocks) : i # e.at => Closed(e.blocks[i].instrs)
        /\ n # 0 => Closed(e.blocks[b].instrs)
      BY <1>1, <1>8 DEF Checked
  <2> QED
      BY <2>1, <1>3
<1> QED
    BY <1>3, <1>5, <1>6, <1>7, <1>8 DEF e, ExpressionMade

\* The blocks after a return statement, which leaves none open.
ReturnMade(bs, b, count, n, e, new) ==
    /\ Grown(bs, new, {b}, n + n, {"arr_neg", "arr_ok"})
    /\ Labelled(bs, count) => Labelled(new, e.label_cnt)
    /\ Open(bs[b].instrs) =>
         \A i \in {b} \cup ((Len(bs) + 1)..Len(new)) : Closed(new[i].instrs)

LEMMA ReturnEffect ==
    ASSUME NEW bs \in Seq(Block), EdgesStay(bs), NEW b \in 1..Len(bs), NEW count \in Nat,
           NEW n \in Nat, NEW s \in 0..MaxStatements, NEW emits \in BOOLEAN,
           NEW end \in 1..Len(bs)
    PROVE  LET e == Evaluate(bs, b, count, n, s, emits)
           IN  ReturnMade(bs, b, count, n, e, Br(e.blocks, e.at, end))
<1> DEFINE e == Evaluate(bs, b, count, n, s, emits)
           new == Br(e.blocks, e.at, end)
<1>0. ExpressionMade(bs, b, count, n, e)
    BY ExpressionEffect
<1> HIDE DEF e
<1>1. /\ Grown(bs, e.blocks, {b}, n + n, {"arr_neg", "arr_ok"})
      /\ e.at \in 1..Len(e.blocks) /\ (n > 0 => e.at \notin 1..Len(bs))
      /\ n = 0 => e.at = b
      /\ e.label_cnt = count + n
      /\ Labelled(bs, count) => Labelled(e.blocks, e.label_cnt)
      /\ Open(bs[b].instrs) =>
           /\ Open(e.blocks[e.at].instrs)
           /\ \A i \in {b} \cup ((Len(bs) + 1)..Len(e.blocks)) :
                i # e.at => Closed(e.blocks[i].instrs)
    BY <1>0 DEF ExpressionMade
<1>2. /\ e.blocks \in Seq(Block) /\ EdgesStay(e.blocks)
      /\ Len(e.blocks) = Len(bs) + (n + n)
      /\ \A i \in 1..Len(bs) : e.blocks[i].label = bs[i].label
      /\ \A i \in 1..Len(bs) : i # b => e.blocks[i].instrs = bs[i].instrs
      /\ \A i \in (Len(bs) + 1)..Len(e.blocks) : e.blocks[i].label[1] \in {"arr_neg", "arr_ok"}
    BY <1>1 DEF Grown
<1>3. Len(bs) \in Nat /\ 1..Len(bs) \subseteq 1..Len(e.blocks)
      /\ (Len(bs) + 1)..Len(e.blocks) \subseteq 1..Len(e.blocks)
  <2>1. Len(bs) \in Nat
      BY LenProperties
  <2> QED
      BY <2>1, <1>2
<1>4. /\ new \in Seq(Block) /\ EdgesStay(new) /\ Len(new) = Len(e.blocks)
      /\ \A i \in 1..Len(e.blocks) : new[i].label = e.blocks[i].label
      /\ \A i \in 1..Len(e.blocks) : i # e.at => new[i].instrs = e.blocks[i].instrs
      /\ Open(e.blocks[e.at].instrs) => Closed(new[e.at].instrs)
  <2>1. end \in 1..Len(e.blocks)
      BY <1>3
  <2>2. Ends(e.blocks, new, e.at)
      BY <2>1, <1>1, <1>2, BrEffect
  <2> HIDE DEF new
  <2> QED
      BY <2>2 DEF Ends, Touches, Rewrites
<1> HIDE DEF new
<1>5. Grown(bs, new, {b}, n + n, {"arr_neg", "arr_ok"})
  <2>1. \A i \in 1..Len(bs) : new[i].label = bs[i].label
      BY <1>2, <1>3, <1>4
  <2>2. ASSUME NEW i \in 1..Len(bs), i # b PROVE new[i].instrs = bs[i].instrs
    <3>1. i # e.at
        BY <1>1, <2>2
    <3> QED
        BY <3>1, <2>2, <1>2, <1>3, <1>4
  <2>3. \A i \in (Len(bs) + 1)..Len(new) : new[i].label[1] \in {"arr_neg", "arr_ok"}
      BY <1>2, <1>3, <1>4
  <2> QED
      BY <2>1, <2>2, <2>3, <1>2, <1>4 DEF Grown
<1>6. ASSUME Labelled(bs, count) PROVE Labelled(new, e.label_cnt)
  <2>1. Labelled(e.blocks, e.label_cnt) /\ e.label_cnt \in Nat
      BY <1>1, <1>6
  <2> QED
      BY <2>1, <1>2, <1>4, LabelledSame
<1>7. ASSUME Open(bs[b].instrs), NEW i \in {b} \cup ((Len(bs) + 1)..Len(new))
      PROVE  Closed(new[i].instrs)
  <2>1. CASE i = e.at
      BY <2>1, <1>1, <1>4, <1>7
  <2>2. CASE i # e.at
      BY <2>2, <1>1, <1>3, <1>4, <1>7
  <2> QED
      BY <2>1, <2>2
<1> QED
    BY <1>5, <1>6, <1>7 DEF new, e, ReturnMade

\* The blocks after the condition of an if: its expression's, then trueBB.
SelectionMade(bs, b, count, n, e, new) ==
    LET trueBB == Len(e.blocks) + 1
    IN  /\ Grown(bs, new, {b}, n + n + 1, {"arr_neg", "arr_ok", "selTrueBB"})
        /\ Len(new) = trueBB /\ trueBB \notin 1..Len(bs)
        /\ e.label_cnt = count + n
        /\ e.at \in 1..Len(new) /\ e.at # trueBB
        /\ n > 0 => e.at \notin 1..Len(bs)
        /\ n = 0 => e.at = b
        /\ Labelled(bs, count) => Labelled(new, e.label_cnt + 1)
        /\ new[trueBB].instrs = <<>>
        /\ Open(bs[b].instrs) =>
             /\ Open(new[e.at].instrs)
             /\ \A i \in {b} \cup ((Len(bs) + 1)..Len(new)) :
                  i \notin {e.at, trueBB} => Closed(new[i].instrs)

LEMMA SelectionEffect ==
    ASSUME NEW bs \in Seq(Block), EdgesStay(bs), NEW b \in 1..Len(bs), NEW count \in Nat,
           NEW n \in Nat, NEW e, ExpressionMade(bs, b, count, n, e)
    PROVE  SelectionMade(bs, b, count, n, e, Create(e.blocks, "selTrueBB", e.label_cnt + 1))
<1> DEFINE m == Len(e.blocks)
           k == e.label_cnt + 1
           new == Create(e.blocks, "selTrueBB", k)
<1>1. /\ Grown(bs, e.blocks, {b}, n + n, {"arr_neg", "arr_ok"})
      /\ e.label_cnt = count + n
      /\ e.at \in 1..m /\ (n > 0 => e.at \notin 1..Len(bs))
      /\ n = 0 => e.at = b
      /\ Labelled(bs, count) => Labelled(e.blocks, e.label_cnt)
      /\ Open(bs[b].instrs) =>
           /\ Open(e.blocks[e.at].instrs)
           /\ \A i \in {b} \cup ((Len(bs) + 1)..m) : i # e.at => Closed(e.blocks[i].instrs)
    BY DEF ExpressionMade
<1>2. /\ e.blocks \in Seq(Block) /\ EdgesStay(e.blocks) /\ m = Len(bs) + (n + n)
      /\ \A i \in 1..Len(bs) : e.blocks[i].label = bs[i].label
      /\ \A i \in 1..Len(bs) : i # b => e.blocks[i].instrs = bs[i].instrs
      /\ \A i \in (Len(bs) + 1)..m : e.blocks[i].label[1] \in {"arr_neg", "arr_ok"}
    BY <1>1 DEF Grown
<1>3. Len(bs) \in Nat /\ m \in Nat /\ Len(e.blocks) = m /\ Len(bs) <= m /\ "selTrueBB" \in Kinds
      /\ e.label_cnt \in Nat /\ k = e.label_cnt + 1 /\ k \in Nat
  <2>1. Len(bs) \in Nat
      BY LenProperties
  <2> QED
      BY <2>1, <1>1, <1>2 DEF Kinds
<1> HIDE DEF m, k
<1>4. /\ new \in Seq(Block) /\ EdgesStay(new) /\ Len(new) = m + 1
      /\ \A i \in 1..m : new[i] = e.blocks[i]
      /\ new[m + 1].label = <<"selTrueBB", k>> /\ new[m + 1].instrs = <<>>
  <2>1. Created(e.blocks, new, "selTrueBB", k)
      BY <1>2, <1>3, CreateEffect
  <2> QED
      BY <2>1, <1>3 DEF Created
<1> HIDE DEF new
<1>5. Grown(bs, new, {b}, n + n + 1, {"arr_neg", "arr_ok", "selTrueBB"})
  <2>1. 1..Len(bs) \subseteq 1..m /\ Len(new) = Len(bs) + (n + n + 1)
      BY <1>2, <1>3, <1>4
  <2>2. \A i \in 1..Len(bs) : new[i].label = bs[i].label
      BY <2>1, <1>2, <1>4
  <2>3. \A i \in 1..Len(bs) : i # b => new[i].instrs = bs[i].instrs
      BY <2>1, <1>2, <1>4
  <2>4. ASSUME NEW i \in (Len(bs) + 1)..(m + 1)
        PROVE  new[i].label[1] \in {"arr_neg", "arr_ok", "selTrueBB"}
    <3>1. CASE i = m + 1
        BY <3>1, <1>4
    <3>2. CASE i # m + 1
      <4>1. i \in 1..m /\ i \in (Len(bs) + 1)..m
          BY <3>2, <1>3
      <4> QED
          BY <4>1, <1>2, <1>4
    <3> QED
        BY <3>1, <3>2
  <2> QED
      BY <2>1, <2>2, <2>3, <2>4, <1>4 DEF Grown
<1>6. ASSUME Labelled(bs, count) PROVE Labelled(new, k)
  <2>1. Labelled(e.blocks, e.label_cnt)
      BY <1>1, <1>6
  <2>2. new[Len(new)].label[2] = k
      BY <1>4
  <2>3. \A i \in 1..Len(e.blocks) : e.blocks[i].label # new[Len(new)].label
    <3>1. \A i \in 1..Len(e.blocks) : e.blocks[i].label[2] # k
        BY <2>1, <1>2, <1>3, LabelType DEF Labelled
    <3> QED
        BY <3>1, <2>2
  <2>4. /\ Len(new) = Len(e.blocks) + 1 /\ e.label_cnt <= k /\ new[Len(new)].label[2] <= k
        /\ \A i \in 1..Len(e.blocks) : new[i].label = e.blocks[i].label
      BY <2>2, <1>3, <1>4
  <2> QED
      BY <2>1, <2>3, <2>4, <1>2, <1>3, <1>4, LabelledNew
<1>7. ASSUME Open(bs[b].instrs)
      PROVE  /\ Open(new[e.at].instrs)
             /\ \A i \in {b} \cup ((Len(bs) + 1)..Len(new)) :
                  i \notin {e.at, m + 1} => Closed(new[i].instrs)
  <2>1. Open(new[e.at].instrs)
      BY <1>1, <1>4, <1>7
  <2>2. ASSUME NEW i \in {b} \cup ((Len(bs) + 1)..Len(new)), i \notin {e.at, m + 1}
        PROVE  Closed(new[i].instrs)
    <3>1. i \in 1..m /\ i \in {b} \cup ((Len(bs) + 1)..m)
        BY <2>2, <1>3, <1>4
    <3> QED
        BY <3>1, <2>2, <1>1, <1>4, <1>7
  <2> QED
      BY <2>1, <2>2
<1>8. m + 1 \notin 1..Len(bs) /\ e.at \in 1..(m + 1) /\ e.at # m + 1
    BY <1>1, <1>3
<1> QED
    BY <1>1, <1>4, <1>5, <1>6, <1>7, <1>8 DEF new, m, k, SelectionMade

\* The blocks after the condition of a while: startBB, its expression's, bodyBB.
IterationMade(bs, b, count, n, e, new) ==
    LET startBB == Len(bs) + 1
        bodyBB == Len(e.blocks) + 1
    IN  /\ Grown(bs, new, {b}, n + n + 2, {"arr_neg", "arr_ok", "loopStartBB", "loopBodyBB"})
        /\ Len(new) = bodyBB /\ startBB \in 1..Len(new) /\ startBB # bodyBB
        /\ bodyBB \notin 1..Len(bs)
        /\ e.label_cnt = count + 1 + n
        /\ Labelled(bs, count) => Labelled(new, e.label_cnt)
        /\ new[bodyBB].instrs = <<>>
        /\ Open(bs[b].instrs) => Closed(new[b].instrs)
        /\ n = 0 => Open(new[startBB].instrs)

LEMMA IterationEffect ==
    ASSUME NEW bs \in Seq(Block), EdgesStay(bs), NEW b \in 1..Len(bs), NEW count \in Nat,
           NEW n \in Nat, NEW s \in 0..MaxStatements
    PROVE  LET startBB == Len(bs) + 1
               entered == Br(Create(bs, "loopStartBB", count + 1), b, startBB)
               e == Evaluate(entered, startBB, count + 1, n, s, TRUE)
           IN  IterationMade(bs, b, count, n, e, Create(e.blocks, "loopBodyBB", count + 1))
<1> DEFINE m == Len(bs)
           k == count + 1
           b1 == Create(bs, "loopStartBB", k)
           b2 == Br(b1, b, m + 1)
           e == Evaluate(b2, m + 1, k, n, s, TRUE)
           l == Len(e.blocks)
           new == Create(e.blocks, "loopBodyBB", k)
<1>1. m \in Nat /\ Len(bs) = m /\ b \in 1..m /\ k \in Nat /\ k = count + 1
      /\ "loopStartBB" \in Kinds /\ "loopBodyBB" \in Kinds
    BY LenProperties DEF Kinds
<1> HIDE DEF m, k
<1>2. m + 1 \notin 1..m /\ m + 1 \in 1..m + 1 /\ \A i \in 1..m : i \in 1..m + 1 /\ i # m + 1
    BY <1>1
<1>3. /\ b1 \in Seq(Block) /\ EdgesStay(b1) /\ Len(b1) = m + 1
      /\ \A i \in 1..m : b1[i] = bs[i]
      /\ b1[m + 1].label = <<"loopStartBB", k>> /\ b1[m + 1].instrs = <<>>
  <2>1. Created(bs, b1, "loopStartBB", k)
      BY <1>1, CreateEffect
  <2> QED
      BY <2>1, <1>1 DEF Created
<1> HIDE DEF b1
<1>4. /\ b2 \in Seq(Block) /\ EdgesStay(b2) /\ Len(b2) = m + 1
      /\ \A i \in 1..m + 1 : b2[i].label = b1[i].label
      /\ \A i \in 1..m + 1 : i # b => b2[i].instrs = b1[i].instrs
      /\ Open(b1[b].instrs) => Closed(b2[b].instrs)
  <2>1. Ends(b1, b2, b)
      BY <1>1, <1>2, <1>3, BrEffect
  <2> QED
      BY <2>1, <1>3 DEF Ends, Touches, Rewrites
<1> HIDE DEF b2
<1>5. ExpressionMade(b2, m + 1, k, n, e)
  <2>1. m + 1 \in 1..Len(b2)
      BY <1>2, <1>4
  <2> QED
      BY <2>1, <1>1, <1>4, ExpressionEffect
<1> HIDE DEF e
<1>6. /\ Grown(b2, e.blocks, {m + 1}, n + n, {"arr_neg", "arr_ok"})
      /\ e.label_cnt = k + n
      /\ n = 0 => e.at = m + 1
      /\ Labelled(b2, k) => Labelled(e.blocks, e.label_cnt)
      /\ Open(b2[m + 1].instrs) => Open(e.blocks[e.at].instrs)
    BY <1>5 DEF ExpressionMade
<1>7. /\ e.blocks \in Seq(Block) /\ EdgesStay(e.blocks) /\ Len(e.blocks) = m + 1 + (n + n)
      /\ \A i \in 1..m + 1 : e.blocks[i].label = b2[i].label
      /\ \A i \in 1..m + 1 : i # m + 1 => e.blocks[i].instrs = b2[i].instrs
      /\ \A i \in (m + 1 + 1)..l : e.blocks[i].label[1] \in {"arr_neg", "arr_ok"}
    BY <1>4, <1>6 DEF Grown
<1>8. l \in Nat /\ Len(e.blocks) = l /\ l = m + 1 + (n + n) /\ m + 1 <= l
      /\ e.label_cnt \in Nat /\ k <= e.label_cnt
    BY <1>1, <1>6, <1>7
<1> HIDE DEF l
<1>9. /\ new \in Seq(Block) /\ EdgesStay(new) /\ Len(new) = l + 1
      /\ \A i \in 1..l : new[i] = e.blocks[i]
      /\ new[l + 1].label = <<"loopBodyBB", k>> /\ new[l + 1].instrs = <<>>
  <2>1. Created(e.blocks, new, "loopBodyBB", k)
      BY <1>1, <1>7, CreateEffect
  <2> QED
      BY <2>1, <1>8 DEF Created
<1> HIDE DEF new
<1>10. \A i \in 1..m + 1 : i \in 1..l
    BY <1>1, <1>8
<1>11. \A i \in 1..m : e.blocks[i].label = bs[i].label /\ i \in 1..l
                       /\ (i # b => e.blocks[i].instrs = bs[i].instrs)
    BY <1>2, <1>3, <1>4, <1>7, <1>10
<1>12. e.blocks[m + 1].label = <<"loopStartBB", k>>
    BY <1>2, <1>3, <1>4, <1>7
<1>13. Grown(bs, new, {b}, n + n + 2, {"arr_neg", "arr_ok", "loopStartBB", "loopBodyBB"})
  <2>1. \A i \in 1..m : new[i].label = bs[i].label
      BY <1>9, <1>11
  <2>2. \A i \in 1..m : i # b => new[i].instrs = bs[i].instrs
      BY <1>9, <1>11
  <2>3. ASSUME NEW i \in (m + 1)..(l + 1)
        PROVE  new[i].label[1] \in {"arr_neg", "arr_ok", "loopStartBB", "loopBodyBB"}
    <3>1. CASE i = l + 1
        BY <3>1, <1>9
    <3>2. CASE i = m + 1
        BY <3>2, <1>2, <1>9, <1>10, <1>12
    <3>3. CASE i # m + 1 /\ i # l + 1
      <4>1. i \in (m + 1 + 1)..l /\ i \in 1..l
          BY <3>3, <1>1, <1>8
      <4> QED
          BY <4>1, <1>7, <1>9
    <3> QED
        BY <3>1, <3>2, <3>3
  <2>4. Len(new) = Len(bs) + (n + n + 2)
      BY <1>1, <1>8, <1>9
  <2> QED
      BY <2>1, <2>2, <2>3, <2>4, <1>1, <1>9 DEF Grown
<1>14. ASSUME Labelled(bs, count) PROVE Labelled(new, e.label_cnt)
  <2>1. \A i \in 1..m : bs[i].label[2] # k
      BY <1>1, <1>14, LabelType DEF Labelled
  <2>2. /\ b1[Len(b1)].label[2] <= k /\ count <= k /\ Len(b1) = Len(bs) + 1
        /\ \A i \in 1..Len(bs) : b1[i].label = bs[i].label
        /\ \A i \in 1..Len(bs) : bs[i].label # b1[Len(b1)].label
      BY <2>1, <1>1, <1>3
  <2>3. Labelled(b1, k)
      BY <2>2, <1>1, <1>3, <1>14, LabelledNew
  <2>4. Labelled(b2, k)
      BY <2>3, <1>1, <1>3, <1>4, LabelledSame
  <2>5. Labelled(e.blocks, e.label_cnt)
      BY <2>4, <1>6
  <2>6. ASSUME NEW i \in 1..l PROVE e.blocks[i].label # <<"loopBodyBB", k>>
    <3>1. CASE i \in 1..m
      <4>1. e.blocks[i].label[2] # k
          BY <3>1, <2>1, <1>11
      <4> QED
          BY <4>1
    <3>2. CASE i = m + 1
        BY <3>2, <1>12
    <3>3. CASE i \notin 1..m /\ i # m + 1
      <4>1. i \in (m + 1 + 1)..l
          BY <3>3, <1>1, <1>8
      <4>2. e.blocks[i].label[1] # "loopBodyBB"
          BY <4>1, <1>7
      <4> QED
          BY <4>2
    <3> QED
        BY <3>1, <3>2, <3>3
  <2>7. /\ Len(new) = Len(e.blocks) + 1 /\ new[Len(new)].label[2] <= e.label_cnt
        /\ \A i \in 1..Len(e.blocks) : new[i].label = e.blocks[i].label
        /\ \A i \in 1..Len(e.blocks) : e.blocks[i].label # new[Len(new)].label
      BY <2>6, <1>8, <1>9, SMTT(40)
  <2>8. e.label_cnt <= e.label_cnt
      BY <1>8
  <2> QED
      BY <2>5, <2>7, <2>8, <1>7, <1>8, <1>9, LabelledNew
<1>15. Open(bs[b].instrs) => Closed(new[b].instrs)
    BY <1>1, <1>2, <1>3, <1>4, <1>7, <1>9, <1>10
<1>16. n = 0 => Open(new[m + 1].instrs)
  <2>1. b2[m + 1].instrs = <<>>
      BY <1>1, <1>2, <1>3, <1>4
  <2> QED
      BY <2>1, <1>2, <1>6, <1>9, <1>10, EmptyIsOpen
<1>17. m + 1 \in 1..(l + 1) /\ m + 1 # l + 1 /\ l + 1 \notin 1..m
  <2>1. CASE n # 0
      BY <2>1, <1>1, <1>8
  <2>2. CASE n = 0
      BY <2>2, <1>1, <1>8
  <2> QED
      BY <2>1, <2>2
<1> QED
    BY <1>1, <1>6, <1>8, <1>9, <1>13, <1>14, <1>15, <1>16, <1>17
       DEF m, k, b1, b2, e, l, new, IterationMade

-----------------------------------------------------------------------------
(***************************************************************************)
(* The stack of visitors.                                                  *)
(***************************************************************************)
LEMMA FrameFields ==
    ASSUME NEW f \in Frame
    PROVE  /\ f.kind \in {"compound", "then", "else", "body"}
           /\ f.kind = "then" => f.label_now \in Nat /\ f.cond \in 0..MaxStatements
           /\ f.kind = "else" => /\ f.label_now \in Nat /\ f.trueBB_returned \in BOOLEAN
                                 /\ f.trueExits \subseteq 0..MaxStatements
           /\ f.kind = "body" => f.label_now \in Nat /\ f.cond \in 0..MaxStatements
           /\ f.kind # "compound" => f.label_now \in Nat
<1>1. CASE f \in CompoundFrame
    BY <1>1 DEF CompoundFrame
<1>2. CASE f \in ThenFrame
    BY <1>2 DEF ThenFrame
<1>3. CASE f \in ElseFrame
    BY <1>3 DEF ElseFrame
<1>4. CASE f \in BodyFrame
    BY <1>4 DEF BodyFrame
<1> QED
    BY <1>1, <1>2, <1>3, <1>4 DEF Frame

LEMMA KeepsMore ==
    ASSUME NEW f, NEW n \in Nat, NEW m \in Nat, n <= m, Keeps(f, n)
    PROVE  Keeps(f, m)
<1>1. 1..n \subseteq 1..m
    OBVIOUS
<1> QED
    BY <1>1 DEF Keeps

\* The frames left and the one taken off.
LEMMA BelowTop ==
    ASSUME frames \in Seq(Frame), frames # <<>>
    PROVE  /\ Below \in Seq(Frame) /\ Len(Below) = Len(frames) - 1
           /\ Len(frames) \in Nat \ {0} /\ Len(Below) \in Nat
           /\ \A i \in 1..Len(Below) : i \in 1..Len(frames) /\ i # Len(frames)
                                       /\ Below[i] = frames[i]
           /\ Len(frames) \in 1..Len(frames)
           /\ Top = frames[Len(frames)] /\ Top \in Frame
<1>1. /\ Below \in Seq(Frame)
      /\ Len(Below) = Len(frames) - 1
      /\ \A i \in 1..Len(frames) - 1 : Below[i] = frames[i]
      /\ Len(frames) \in Nat \ {0}
      /\ Top = frames[Len(frames)] /\ Top \in Frame
    BY FrontLast DEF Below, Top
<1> QED
    BY <1>1

\* The frames after a visitor is entered.
LEMMA Pushed ==
    ASSUME NEW s \in Seq(Frame), NEW f \in Frame
    PROVE  /\ Append(s, f) \in Seq(Frame) /\ Append(s, f) # <<>>
           /\ Len(Append(s, f)) = Len(s) + 1 /\ Len(s) \in Nat
           /\ \A i \in 1..Len(s) : Append(s, f)[i] = s[i] /\ i # Len(s) + 1
           /\ Append(s, f)[Len(s) + 1] = f
           /\ Last(Append(s, f)) = f
           /\ \A i \in 1..Len(Append(s, f)) : i \in 1..Len(s) \/ i = Len(s) + 1
<1>1. /\ Append(s, f) \in Seq(Frame) /\ Append(s, f) # <<>>
      /\ Len(Append(s, f)) = Len(s) + 1
      /\ \A i \in 1..Len(s) : Append(s, f)[i] = s[i]
      /\ Append(s, f)[Len(s) + 1] = f
    BY AppendProperties
<1>2. Len(s) \in Nat
    BY LenProperties
<1>3. Last(Append(s, f)) = f
    BY <1>1 DEF Last
<1> QED
    BY <1>1, <1>2, <1>3

-----------------------------------------------------------------------------
(***************************************************************************)
(* The types.                                                              *)
(***************************************************************************)
\* The blocks a function begins with.
LEMMA InitBlocks ==
    ASSUME Init
    PROVE  /\ blocks \in Seq(Block) /\ EdgesStay(blocks) /\ Len(blocks) = 2
           /\ blocks[1].label = <<"entry", 0>> /\ blocks[2].label = <<"returnBB", 0>>
           /\ Open(blocks[1].instrs) /\ blocks[2].instrs = <<>>
<1>1. PICK allocas \in BOOLEAN :
        blocks = IF allocas THEN AddOp(Create(<<NewBlock("entry", 0)>>, "returnBB", 0), 1, 0)
                 ELSE Create(<<NewBlock("entry", 0)>>, "returnBB", 0)
    BY DEF Init
<1> DEFINE b0 == <<NewBlock("entry", 0)>>
           b1 == Create(b0, "returnBB", 0)
<1>2. b0 \in Seq(Block) /\ Len(b0) = 1 /\ EdgesStay(b0)
      /\ b0[1].label = <<"entry", 0>> /\ b0[1].instrs = <<>>
  <2>1. NewBlock("entry", 0) \in Block
    <3>1. <<>> \in Seq(Instrs) /\ <<"entry", 0>> \in Kinds \X Nat
        BY EmptySeq DEF Kinds
    <3> QED
        BY <3>1 DEF NewBlock, Block
  <2>2. b0 \in Seq(Block) /\ Len(b0) = 1
      BY <2>1
  <2>3. b0[1].succ = {} /\ b0[1].pre = {} /\ b0[1].label = <<"entry", 0>>
        /\ b0[1].instrs = <<>>
      BY DEF NewBlock
  <2> HIDE DEF b0
  <2> QED
      BY <2>2, <2>3 DEF EdgesStay
<1> HIDE DEF b0
<1>3. b1 \in Seq(Block) /\ Len(b1) = 2 /\ EdgesStay(b1)
      /\ b1[1] = b0[1] /\ b1[2].label = <<"returnBB", 0>> /\ b1[2].instrs = <<>>
  <2>1. Created(b0, b1, "returnBB", 0)
    <3>1. "returnBB" \in Kinds
        BY DEF Kinds
    <3> QED
        BY <3>1, <1>2, CreateEffect
  <2> QED
      BY <2>1, <1>2 DEF Created
<1> HIDE DEF b1
<1>4. Fills(b1, AddOp(b1, 1, 0), 1)
  <2>1. 1 \in 1..Len(b1) /\ 0 \in 0..MaxStatements
      BY <1>3, BoundsType
  <2> QED
      BY <2>1, <1>3, AddOpEffect
<1>5. CASE blocks = b1
    BY <1>2, <1>3, <1>5, EmptyIsOpen
<1>6. CASE blocks = AddOp(b1, 1, 0)
    BY <1>2, <1>3, <1>4, <1>6, EmptyIsOpen DEF Fills, Touches, Rewrites
<1> QED
    BY <1>1, <1>5, <1>6 DEF b0, b1

LEMMA TypeInit ==
    ASSUME Init
    PROVE  TypeInv
<1>4. blocks \in Seq(Block) /\ Len(blocks) = 2 /\ EdgesStay(blocks)
    BY InitBlocks
<1>5. frames \in Seq(Frame) /\ Len(frames) = 1 /\ frames # <<>>
      /\ frames[1] = [kind |-> "compound"]
  <2>1. [kind |-> "compound"] \in Frame
      BY DEF Frame, CompoundFrame
  <2>2. frames = <<[kind |-> "compound"]>>
      BY DEF Init
  <2> QED
      BY <2>1, <2>2
<1>6. \A i \in 1..Len(frames) : Keeps(frames[i], Len(blocks))
    BY <1>5 DEF Keeps
<1>7. 1 <= MaxFrames /\ 0 \in 0..MaxStatements
    BY BoundsType
<1>8. /\ {insert, curr_block, return_block} \subseteq 1..Len(blocks)
      /\ label_cnt \in Nat
      /\ control \in {"visit", "back", "end"} /\ control # "visit"
    BY <1>4 DEF Init
<1>9. {is_returned, is_returned_record} \subseteq BOOLEAN
    BY Zenon DEF Init
<1>10. exits = {0} /\ flow = {} /\ statements = 0
    BY DEF Init, Start
<1> QED
    BY <1>4, <1>5, <1>6, <1>7, <1>8, <1>9, <1>10 DEF TypeInv

LEMMA TypeVisitCompound ==
    ASSUME TypeInv, VisitCompound
    PROVE  TypeInv'
<1>1. /\ blocks' \in Seq(Block) /\ EdgesStay(blocks') /\ Len(blocks') = Len(blocks)
  <2>1. blocks' = blocks \/ blocks' = AddOp(blocks, insert, 0)
      BY DEF VisitCompound
  <2>2. insert \in 1..Len(blocks) /\ 0 \in 0..MaxStatements
      BY BoundsType DEF TypeInv
  <2>3. Fills(blocks, AddOp(blocks, insert, 0), insert)
      BY <2>2, AddOpEffect DEF TypeInv
  <2> QED
      BY <2>1, <2>3 DEF Fills, Touches, Rewrites, TypeInv
<1> DEFINE f == [kind |-> "compound"]
<1>2. f \in Frame
    BY DEF Frame, CompoundFrame
<1>3. frames' = Append(frames, f) /\ Len(frames) < MaxFrames
    BY DEF VisitCompound
<1>4. frames' \in Seq(Frame) /\ frames' # <<>> /\ Len(frames') <= MaxFrames
      /\ \A i \in 1..Len(frames') : Keeps(frames'[i], Len(blocks'))
  <2>1. Keeps(f, Len(blocks'))
      BY DEF Keeps
  <2> HIDE DEF f
  <2> QED
      BY <1>1, <1>2, <1>3, <2>1, Pushed, BoundsType DEF TypeInv
<1> QED
    BY <1>1, <1>4 DEF VisitCompound, TypeInv, specVars

LEMMA TypeNextStatement ==
    ASSUME TypeInv, NextStatement
    PROVE  TypeInv'
    BY DEF TypeInv, NextStatement, In, codeVars, flagVars, specVars

LEMMA TypeLeaveCompound ==
    ASSUME TypeInv, LeaveCompound
    PROVE  TypeInv'
<1>1. frames' = Below /\ frames # <<>> /\ control = "back" /\ control' = control
    BY DEF LeaveCompound, In
<1>2. frames' \in Seq(Frame) /\ Len(frames') <= MaxFrames
      /\ \A i \in 1..Len(frames') : Keeps(frames'[i], Len(blocks))
    BY <1>1, BelowTop, BoundsType DEF TypeInv
<1>3. {is_returned', is_returned_record'} \subseteq BOOLEAN
    BY Zenon DEF LeaveCompound, TypeInv
<1> QED
    BY <1>1, <1>2, <1>3 DEF LeaveCompound, TypeInv, codeVars, specVars

\* What a statement visited adds to the history.
LEMMA TypeBegin ==
    ASSUME TypeInv, MayVisit, Begin
    PROVE  /\ statements' \in 0..MaxStatements /\ statements + 1 \in 0..MaxStatements
           /\ statements' = statements + 1
           /\ flow \cup (exits \X {statements + 1}) \subseteq (0..MaxStatements) \X (-1..MaxStatements)
           /\ \A n \in Accesses : n \in Nat
<1>1. statements < MaxStatements /\ statements \in Nat
    BY BoundsType DEF TypeInv, MayVisit
<1>2. statements + 1 \in 0..MaxStatements /\ statements + 1 \in -1..MaxStatements
    BY <1>1, BoundsType
<1>3. \A n \in Accesses : n \in Nat
    BY BoundsType DEF Accesses
<1> QED
    BY <1>2, <1>3 DEF TypeInv, Begin

LEMMA ExpressionStep ==
    ASSUME TypeInv, VisitExpression
    PROVE  \E n \in Nat : \E e :
             /\ ExpressionMade(blocks, insert, label_cnt, n, e)
             /\ blocks' = e.blocks /\ label_cnt' = e.label_cnt
             /\ insert' = e.at /\ curr_block' = IF n > 0 THEN e.at ELSE curr_block
<1>1. PICK n \in Accesses :
        LET e == Evaluate(blocks, insert, label_cnt, n, statements + 1, TRUE)
        IN  /\ blocks' = e.blocks /\ label_cnt' = e.label_cnt
            /\ insert' = e.at
            /\ curr_block' = IF n > 0 THEN e.at ELSE curr_block
    BY DEF VisitExpression
<1>2. statements + 1 \in 0..MaxStatements /\ n \in Nat
    BY TypeBegin DEF VisitExpression, Visits
<1> DEFINE e == Evaluate(blocks, insert, label_cnt, n, statements + 1, TRUE)
<1>3. ExpressionMade(blocks, insert, label_cnt, n, e)
    BY <1>2, ExpressionEffect DEF TypeInv
<1>4. /\ blocks' = e.blocks /\ label_cnt' = e.label_cnt
      /\ insert' = e.at /\ curr_block' = IF n > 0 THEN e.at ELSE curr_block
    BY <1>1
<1> HIDE DEF e
<1> QED
    BY <1>2, <1>3, <1>4

LEMMA TypeVisitExpression ==
    ASSUME TypeInv, VisitExpression
    PROVE  TypeInv'
<1>1. PICK n \in Nat : \E e :
        /\ ExpressionMade(blocks, insert, label_cnt, n, e)
        /\ blocks' = e.blocks /\ label_cnt' = e.label_cnt
        /\ insert' = e.at /\ curr_block' = IF n > 0 THEN e.at ELSE curr_block
    BY ExpressionStep
<1>2. /\ statements' \in 0..MaxStatements /\ statements + 1 \in 0..MaxStatements
      /\ statements' = statements + 1
      /\ flow \cup (exits \X {statements + 1}) \subseteq (0..MaxStatements) \X (-1..MaxStatements)
    BY TypeBegin DEF VisitExpression, Visits
<1>3. PICK e :
        /\ ExpressionMade(blocks, insert, label_cnt, n, e)
        /\ blocks' = e.blocks /\ label_cnt' = e.label_cnt
        /\ insert' = e.at /\ curr_block' = IF n > 0 THEN e.at ELSE curr_block
    BY <1>1
<1>4. /\ blocks' = e.blocks /\ label_cnt' = e.label_cnt
      /\ insert' = e.at
      /\ curr_block' = IF n > 0 THEN e.at ELSE curr_block
    BY <1>3
<1>5. /\ blocks' \in Seq(Block) /\ EdgesStay(blocks') /\ Len(blocks') = Len(blocks) + (n + n)
      /\ label_cnt' \in Nat /\ insert' \in 1..Len(blocks')
    BY <1>2, <1>3, <1>4 DEF ExpressionMade, Grown, TypeInv
<1>6. Len(blocks) \in Nat /\ Len(blocks') \in Nat /\ Len(blocks) <= Len(blocks')
      /\ 1..Len(blocks) \subseteq 1..Len(blocks')
  <2>1. Len(blocks) \in Nat
      BY LenProperties DEF TypeInv
  <2> QED
      BY <2>1, <1>2, <1>5
<1>7. {insert', curr_block', return_block'} \subseteq 1..Len(blocks')
    BY <1>4, <1>5, <1>6 DEF TypeInv, VisitExpression
<1>8. \A i \in 1..Len(frames) : Keeps(frames[i], Len(blocks'))
    BY <1>6, KeepsMore DEF TypeInv
<1> QED
    BY <1>2, <1>5, <1>7, <1>8 DEF VisitExpression, TypeInv, flagVars, Runs

LEMMA ReturnStep ==
    ASSUME TypeInv, VisitReturn
    PROVE  \E n \in Nat : \E e :
             /\ ReturnMade(blocks, insert, label_cnt, n, e, blocks')
             /\ label_cnt' = e.label_cnt /\ e.label_cnt = label_cnt + n
             /\ e.at \in 1..Len(blocks') /\ (n = 0 => e.at = insert)
             /\ n > 0 => e.at \notin 1..Len(blocks)
             /\ insert' = e.at /\ curr_block' = IF n > 0 THEN e.at ELSE curr_block
<1>1. PICK n \in Accesses : \E emits \in BOOLEAN :
        LET e == Evaluate(blocks, insert, label_cnt, n, statements + 1, emits)
        IN  /\ blocks' = Br(e.blocks, e.at, return_block) /\ label_cnt' = e.label_cnt
            /\ insert' = e.at
            /\ curr_block' = IF n > 0 THEN e.at ELSE curr_block
    BY DEF VisitReturn
<1>2. PICK emits \in BOOLEAN :
        LET e == Evaluate(blocks, insert, label_cnt, n, statements + 1, emits)
        IN  /\ blocks' = Br(e.blocks, e.at, return_block) /\ label_cnt' = e.label_cnt
            /\ insert' = e.at
            /\ curr_block' = IF n > 0 THEN e.at ELSE curr_block
    BY <1>1
<1>3. statements + 1 \in 0..MaxStatements /\ n \in Nat
    BY TypeBegin DEF VisitReturn, Visits
<1> DEFINE e == Evaluate(blocks, insert, label_cnt, n, statements + 1, emits)
<1>4. ExpressionMade(blocks, insert, label_cnt, n, e)
    BY <1>3, ExpressionEffect DEF TypeInv
<1>5. ReturnMade(blocks, insert, label_cnt, n, e, Br(e.blocks, e.at, return_block))
    BY <1>3, ReturnEffect DEF TypeInv
<1>6. /\ blocks' = Br(e.blocks, e.at, return_block) /\ label_cnt' = e.label_cnt
      /\ insert' = e.at /\ curr_block' = IF n > 0 THEN e.at ELSE curr_block
    BY <1>2
<1> HIDE DEF e
<1>7. /\ e.label_cnt = label_cnt + n /\ e.at \in 1..Len(e.blocks) /\ (n = 0 => e.at = insert)
      /\ n > 0 => e.at \notin 1..Len(blocks)
      /\ Len(e.blocks) = Len(blocks) + (n + n)
    BY <1>4 DEF ExpressionMade, Grown
<1>8. ReturnMade(blocks, insert, label_cnt, n, e, blocks') /\ Len(blocks') = Len(e.blocks)
    BY <1>5, <1>6, <1>7 DEF ReturnMade, Grown
<1> QED
    BY <1>3, <1>6, <1>7, <1>8

LEMMA TypeVisitReturn ==
    ASSUME TypeInv, VisitReturn
    PROVE  TypeInv'
<1>1. PICK n \in Nat : \E e :
        /\ ReturnMade(blocks, insert, label_cnt, n, e, blocks')
        /\ label_cnt' = e.label_cnt /\ e.label_cnt = label_cnt + n
        /\ e.at \in 1..Len(blocks')
        /\ insert' = e.at /\ curr_block' = IF n > 0 THEN e.at ELSE curr_block
    BY ReturnStep
<1>2. PICK e :
        /\ ReturnMade(blocks, insert, label_cnt, n, e, blocks')
        /\ label_cnt' = e.label_cnt /\ e.label_cnt = label_cnt + n
        /\ e.at \in 1..Len(blocks')
        /\ insert' = e.at /\ curr_block' = IF n > 0 THEN e.at ELSE curr_block
    BY <1>1
<1>3. /\ statements' \in 0..MaxStatements /\ statements + 1 \in 0..MaxStatements
      /\ statements' = statements + 1
      /\ flow \cup (exits \X {statements + 1}) \subseteq (0..MaxStatements) \X (-1..MaxStatements)
    BY TypeBegin DEF VisitReturn, Visits
<1>6. /\ label_cnt' = e.label_cnt /\ insert' = e.at
      /\ curr_block' = IF n > 0 THEN e.at ELSE curr_block
    BY <1>2
<1>7. /\ blocks' \in Seq(Block) /\ EdgesStay(blocks') /\ Len(blocks') = Len(blocks) + (n + n)
      /\ label_cnt' \in Nat /\ e.at \in 1..Len(blocks')
    BY <1>2 DEF ReturnMade, Grown, TypeInv
<1>8. Len(blocks) \in Nat /\ Len(blocks') \in Nat /\ Len(blocks) <= Len(blocks')
      /\ 1..Len(blocks) \subseteq 1..Len(blocks')
  <2>1. Len(blocks) \in Nat
      BY LenProperties DEF TypeInv
  <2> QED
      BY <2>1, <1>3, <1>7
<1>9. {insert', curr_block', return_block'} \subseteq 1..Len(blocks')
    BY <1>6, <1>7, <1>8 DEF TypeInv, VisitReturn
<1>10. \A i \in 1..Len(frames) : Keeps(frames[i], Len(blocks'))
    BY <1>8, KeepsMore DEF TypeInv
<1>11. flow' \subseteq (0..MaxStatements) \X (-1..MaxStatements)
  <2>1. Return \in -1..MaxStatements
      BY BoundsType DEF Return
  <2>2. /\ flow \subseteq (0..MaxStatements) \X (-1..MaxStatements)
        /\ exits \X {Return} \subseteq (0..MaxStatements) \X (-1..MaxStatements)
      BY <2>1 DEF TypeInv
  <2>6. {<<statements + 1, Return>>} \subseteq (0..MaxStatements) \X (-1..MaxStatements)
      BY <1>3, <2>1
  <2>3. PICK emits \in BOOLEAN :
          flow' = flow \cup IF emits
                           THEN (exits \X {statements + 1}) \cup {<<statements + 1, Return>>}
                           ELSE exits \X {Return}
      BY DEF VisitReturn
  <2>4. CASE emits
    <3>1. flow' = (flow \cup (exits \X {statements + 1})) \cup {<<statements + 1, Return>>}
        BY <2>3, <2>4
    <3> QED
        BY <3>1, <2>6, <1>3
  <2>5. CASE ~emits
    <3>1. flow' = flow \cup (exits \X {Return})
        BY <2>3, <2>5
    <3> QED
        BY <3>1, <2>2
  <2> QED
      BY <2>4, <2>5
<1>12. {is_returned', is_returned_record'} \subseteq BOOLEAN
    BY Zenon DEF VisitReturn
<1> QED
    BY <1>3, <1>7, <1>9, <1>10, <1>11, <1>12 DEF VisitReturn, TypeInv

LEMMA SelectionStep ==
    ASSUME TypeInv, VisitSelection
    PROVE  \E n \in Nat : \E e : \E f \in Frame :
             /\ SelectionMade(blocks, insert, label_cnt, n, e, blocks')
             /\ label_cnt' = e.label_cnt + 1
             /\ insert' = Len(blocks') /\ curr_block' = Len(blocks')
             /\ frames' = Append(frames, f) /\ f.kind = "then" /\ f.label_now = label_cnt'
             /\ f.trueBB = Len(blocks') /\ f.orig_block = IF n > 0 THEN e.at ELSE curr_block
<1>1. PICK n \in Accesses :
         LET e == Evaluate(blocks, insert, label_cnt, n, statements + 1, TRUE)
             trueBB == Len(e.blocks) + 1
         IN  /\ blocks' = Create(e.blocks, "selTrueBB", e.label_cnt + 1)
             /\ label_cnt' = e.label_cnt + 1
             /\ frames' = Append(frames,
                    [kind |-> "then", label_now |-> label_cnt', trueBB |-> trueBB,
                     orig_block |-> IF n > 0 THEN e.at ELSE curr_block,
                     cond |-> statements + 1])
             /\ insert' = trueBB /\ curr_block' = trueBB
    BY DEF VisitSelection
<1>2. statements + 1 \in 0..MaxStatements /\ n \in Nat
    BY TypeBegin DEF VisitSelection, Visits
<1> DEFINE e == Evaluate(blocks, insert, label_cnt, n, statements + 1, TRUE)
           trueBB == Len(e.blocks) + 1
           orig == IF n > 0 THEN e.at ELSE curr_block
           f == [kind |-> "then", label_now |-> label_cnt', trueBB |-> trueBB,
                 orig_block |-> orig, cond |-> statements + 1]
<1>3. ExpressionMade(blocks, insert, label_cnt, n, e)
    BY <1>2, ExpressionEffect DEF TypeInv
<1>4. /\ blocks' = Create(e.blocks, "selTrueBB", e.label_cnt + 1)
      /\ label_cnt' = e.label_cnt + 1
      /\ frames' = Append(frames, f)
      /\ insert' = trueBB /\ curr_block' = trueBB
    BY <1>1
<1> HIDE DEF e
<1>5. SelectionMade(blocks, insert, label_cnt, n, e, blocks')
    BY <1>2, <1>3, <1>4, SelectionEffect DEF TypeInv
<1>6. /\ trueBB = Len(blocks') /\ trueBB \in Nat /\ label_cnt' \in Nat
      /\ e.at \in 1..Len(blocks')
    BY <1>2, <1>4, <1>5, LenProperties DEF SelectionMade, Grown, TypeInv
<1> HIDE DEF trueBB
<1>7. orig \in Nat
    BY <1>6 DEF TypeInv
<1> HIDE DEF orig
<1>8. f \in Frame
    BY <1>2, <1>6, <1>7 DEF Frame, ThenFrame
<1>9. f.kind = "then" /\ f.label_now = label_cnt' /\ f.trueBB = Len(blocks') /\ f.orig_block = orig
    BY <1>6
<1> HIDE DEF f
<1> QED
    BY <1>2, <1>4, <1>5, <1>6, <1>8, <1>9 DEF orig

LEMMA TypeVisitSelection ==
    ASSUME TypeInv, VisitSelection
    PROVE  TypeInv'
<1>1. PICK n \in Nat : \E e : \E f \in Frame :
        /\ SelectionMade(blocks, insert, label_cnt, n, e, blocks')
        /\ label_cnt' = e.label_cnt + 1
        /\ insert' = Len(blocks') /\ curr_block' = Len(blocks')
        /\ frames' = Append(frames, f) /\ f.kind = "then" /\ f.label_now = label_cnt'
        /\ f.trueBB = Len(blocks') /\ f.orig_block = IF n > 0 THEN e.at ELSE curr_block
    BY SelectionStep
<1>2. /\ statements' \in 0..MaxStatements /\ statements + 1 \in 0..MaxStatements
      /\ statements' = statements + 1
      /\ flow \cup (exits \X {statements + 1}) \subseteq (0..MaxStatements) \X (-1..MaxStatements)
    BY TypeBegin DEF VisitSelection, Visits
<1>3. PICK e : \E f \in Frame :
        /\ SelectionMade(blocks, insert, label_cnt, n, e, blocks')
        /\ label_cnt' = e.label_cnt + 1
        /\ insert' = Len(blocks') /\ curr_block' = Len(blocks')
        /\ frames' = Append(frames, f) /\ f.kind = "then" /\ f.label_now = label_cnt'
        /\ f.trueBB = Len(blocks') /\ f.orig_block = IF n > 0 THEN e.at ELSE curr_block
    BY <1>1
<1>4. PICK f \in Frame :
        /\ SelectionMade(blocks, insert, label_cnt, n, e, blocks')
        /\ label_cnt' = e.label_cnt + 1
        /\ insert' = Len(blocks') /\ curr_block' = Len(blocks')
        /\ frames' = Append(frames, f) /\ f.kind = "then" /\ f.label_now = label_cnt'
        /\ f.trueBB = Len(blocks') /\ f.orig_block = IF n > 0 THEN e.at ELSE curr_block
    BY <1>3
<1>5. /\ Grown(blocks, blocks', {insert}, n + n + 1, {"arr_neg", "arr_ok", "selTrueBB"})
      /\ e.label_cnt = label_cnt + n
      /\ e.at \in 1..Len(blocks')
    BY <1>4 DEF SelectionMade
<1>6. /\ blocks' \in Seq(Block) /\ EdgesStay(blocks') /\ Len(blocks') = Len(blocks) + (n + n + 1)
    BY <1>5 DEF Grown
<1>7. Len(blocks) \in Nat /\ Len(blocks') \in Nat /\ Len(blocks) <= Len(blocks')
      /\ 1..Len(blocks) \subseteq 1..Len(blocks') /\ Len(blocks') \in 1..Len(blocks')
      /\ label_cnt' \in Nat
  <2>1. Len(blocks) \in Nat /\ label_cnt \in Nat
      BY LenProperties DEF TypeInv
  <2> QED
      BY <2>1, <1>4, <1>5, <1>6
<1>8. f.orig_block \in 1..Len(blocks')
    BY <1>4, <1>5, <1>7 DEF TypeInv
<1>9. Keeps(f, Len(blocks'))
    BY <1>4, <1>7, <1>8 DEF Keeps
<1>10. frames' \in Seq(Frame) /\ frames' # <<>> /\ Len(frames') <= MaxFrames
       /\ \A i \in 1..Len(frames') : Keeps(frames'[i], Len(blocks'))
  <2>1. /\ frames' \in Seq(Frame) /\ frames' # <<>>
        /\ Len(frames') = Len(frames) + 1 /\ Len(frames) \in Nat
        /\ \A i \in 1..Len(frames) : frames'[i] = frames[i]
        /\ frames'[Len(frames) + 1] = f
        /\ \A i \in 1..Len(frames') : i \in 1..Len(frames) \/ i = Len(frames) + 1
      BY <1>4, Pushed DEF TypeInv
  <2>2. \A i \in 1..Len(frames) : Keeps(frames[i], Len(blocks'))
      BY <1>7, KeepsMore DEF TypeInv
  <2>3. Len(frames) + 2 <= MaxFrames
      BY DEF VisitSelection
  <2> QED
      BY <2>1, <2>2, <2>3, <1>9, BoundsType
<1>11. {insert', curr_block', return_block'} \subseteq 1..Len(blocks')
    BY <1>4, <1>7 DEF TypeInv, VisitSelection
<1>12. exits' \subseteq 0..MaxStatements /\ flow' \subseteq (0..MaxStatements) \X (-1..MaxStatements)
    BY <1>2 DEF VisitSelection, Runs
<1> QED
    BY <1>2, <1>6, <1>7, <1>10, <1>11, <1>12 DEF VisitSelection, TypeInv, flagVars

LEMMA EndIfStep ==
    ASSUME TypeInv, EndIf
    PROVE  /\ frames' = Below /\ frames # <<>> /\ Top.kind = "then" /\ Top \in Frame
           /\ control = "back" /\ control' = control
           /\ insert' = Len(blocks) + 1 /\ curr_block' = Len(blocks) + 1
           /\ Top.label_now \in Nat /\ Top.cond \in 0..MaxStatements
           /\ Top.orig_block \in 1..Len(blocks)
           /\ IfEnded(blocks, blocks', Top.orig_block, curr_block, is_returned_record,
                      Top.label_now)
<1>1. frames' = Below /\ frames # <<>> /\ Top.kind = "then" /\ control = "back"
      /\ control' = control
    BY DEF EndIf, In
<1>2. Top \in Frame /\ Keeps(Top, Len(blocks))
    BY <1>1, BelowTop DEF TypeInv
<1>3. /\ Top.label_now \in Nat /\ Top.cond \in 0..MaxStatements
      /\ Top.orig_block \in 1..Len(blocks) /\ Top.trueBB \in 1..Len(blocks)
    BY <1>1, <1>2, FrameFields DEF Keeps
<1> DEFINE endBB == Len(Create(blocks, "selEndBB", Top.label_now))
<1>4. /\ blocks' = EndArm(CondBr(Create(blocks, "selEndBB", Top.label_now),
                                 Top.orig_block, Top.trueBB, endBB),
                          curr_block, is_returned_record, endBB)
      /\ insert' = endBB /\ curr_block' = endBB
    BY DEF EndIf
<1>5. /\ endBB = Len(blocks) + 1
      /\ IfEnded(blocks, blocks', Top.orig_block, curr_block, is_returned_record, Top.label_now)
  <2>1. curr_block \in 1..Len(blocks) /\ is_returned_record \in BOOLEAN
      BY DEF TypeInv
  <2> QED
      BY <2>1, <1>3, <1>4, EndIfEffect DEF TypeInv
<1> HIDE DEF endBB
<1> QED
    BY <1>1, <1>2, <1>3, <1>4, <1>5

LEMMA TypeEndIf ==
    ASSUME TypeInv, EndIf
    PROVE  TypeInv'
<1> DEFINE endBB == Len(blocks) + 1
<1>1. /\ frames' = Below /\ frames # <<>> /\ control = "back" /\ control' = control
      /\ Top.cond \in 0..MaxStatements
    BY EndIfStep
<1>2. insert' = endBB /\ curr_block' = endBB
    BY EndIfStep
<1>5. IfEnded(blocks, blocks', Top.orig_block, curr_block, is_returned_record, Top.label_now)
    BY EndIfStep
<1>6. /\ blocks' \in Seq(Block) /\ EdgesStay(blocks') /\ Len(blocks') = Len(blocks) + 1
    BY <1>5 DEF IfEnded, Grown
<1>7. Len(blocks) \in Nat /\ Len(blocks') \in Nat /\ Len(blocks) <= Len(blocks')
      /\ 1..Len(blocks) \subseteq 1..Len(blocks') /\ endBB \in 1..Len(blocks')
  <2>1. Len(blocks) \in Nat
      BY LenProperties DEF TypeInv
  <2> QED
      BY <2>1, <1>5, <1>6
<1>8. frames' \in Seq(Frame) /\ Len(frames') <= MaxFrames
      /\ \A i \in 1..Len(frames') : Keeps(frames'[i], Len(blocks'))
    BY <1>1, <1>7, BelowTop, KeepsMore, BoundsType, SMTT(40) DEF TypeInv
<1>9. {insert', curr_block', return_block'} \subseteq 1..Len(blocks')
    BY <1>2, <1>7 DEF TypeInv, EndIf
<1>10. exits' \subseteq 0..MaxStatements
    BY <1>1 DEF EndIf, TypeInv
<1>11. {is_returned', is_returned_record'} \subseteq BOOLEAN
    BY Zenon DEF EndIf, TypeInv
<1> QED
    BY <1>1, <1>6, <1>8, <1>9, <1>10, <1>11 DEF EndIf, TypeInv

LEMMA ElseStep ==
    ASSUME TypeInv, VisitElse
    PROVE  \E f \in Frame :
             /\ frames # <<>> /\ Top.kind = "then" /\ Top \in Frame /\ Keeps(Top, Len(blocks))
             /\ control = "back" /\ control' = "visit"
             /\ Top.label_now \in Nat /\ Top.cond \in 0..MaxStatements
             /\ Created(blocks, blocks', "selFalseBB", Top.label_now)
             /\ insert' = Len(blocks') /\ curr_block' = Len(blocks')
             /\ frames' = Append(Below, f) /\ f.kind = "else" /\ f.label_now = Top.label_now
             /\ f.trueBB = Top.trueBB /\ f.orig_block = Top.orig_block
             /\ f.falseBB = Len(blocks') /\ f.trueBB_location = curr_block
             /\ f.trueBB_returned = is_returned_record /\ f.trueExits = exits
<1>1. frames # <<>> /\ Top.kind = "then" /\ control = "back" /\ control' = "visit"
    BY DEF VisitElse, In
<1>2. Top \in Frame /\ Keeps(Top, Len(blocks))
    BY <1>1, BelowTop DEF TypeInv
<1>3. /\ Top.label_now \in Nat /\ Top.cond \in 0..MaxStatements
      /\ Top.trueBB \in Nat /\ Top.orig_block \in Nat
    BY <1>1, <1>2, FrameFields DEF Keeps
<1>4. blocks' = Create(blocks, "selFalseBB", Top.label_now)
    BY DEF VisitElse
<1>5. Created(blocks, blocks', "selFalseBB", Top.label_now)
    BY <1>3, <1>4, CreateEffect DEF TypeInv, Kinds
<1> DEFINE f == [kind |-> "else", label_now |-> Top.label_now, trueBB |-> Top.trueBB,
                 orig_block |-> Top.orig_block, falseBB |-> Len(blocks'),
                 trueBB_location |-> curr_block, trueBB_returned |-> is_returned_record,
                 trueExits |-> exits]
<1>6. /\ insert' = Len(blocks') /\ curr_block' = Len(blocks')
      /\ frames' = Append(Below, f)
    BY <1>4 DEF VisitElse
<1>7. f \in Frame
  <2>1. /\ curr_block \in Nat /\ exits \subseteq 0..MaxStatements /\ Len(blocks') \in Nat
      BY <1>5, LenProperties DEF TypeInv, Created
  <2>2. is_returned_record \in BOOLEAN
      BY DEF TypeInv
  <2> QED
      BY <1>3, <2>1, <2>2 DEF Frame, ElseFrame
<1>8. /\ f.kind = "else" /\ f.label_now = Top.label_now
      /\ f.trueBB = Top.trueBB /\ f.orig_block = Top.orig_block
      /\ f.falseBB = Len(blocks') /\ f.trueBB_location = curr_block
      /\ f.trueBB_returned = is_returned_record /\ f.trueExits = exits
    OBVIOUS
<1> HIDE DEF f
<1> QED
    BY <1>1, <1>2, <1>3, <1>5, <1>6, <1>7, <1>8

LEMMA TypeVisitElse ==
    ASSUME TypeInv, VisitElse
    PROVE  TypeInv'
<1>1. PICK f \in Frame :
        /\ frames # <<>> /\ Top.kind = "then" /\ Top \in Frame /\ Keeps(Top, Len(blocks))
        /\ control = "back" /\ control' = "visit"
        /\ Top.label_now \in Nat /\ Top.cond \in 0..MaxStatements
        /\ Created(blocks, blocks', "selFalseBB", Top.label_now)
        /\ insert' = Len(blocks') /\ curr_block' = Len(blocks')
        /\ frames' = Append(Below, f) /\ f.kind = "else" /\ f.label_now = Top.label_now
        /\ f.trueBB = Top.trueBB /\ f.orig_block = Top.orig_block
        /\ f.falseBB = Len(blocks') /\ f.trueBB_location = curr_block
        /\ f.trueBB_returned = is_returned_record
    BY ElseStep
<1>6. /\ blocks' \in Seq(Block) /\ EdgesStay(blocks') /\ Len(blocks') = Len(blocks) + 1
    BY <1>1 DEF Created
<1>7. Len(blocks) \in Nat /\ Len(blocks') \in Nat /\ Len(blocks) <= Len(blocks')
      /\ 1..Len(blocks) \subseteq 1..Len(blocks') /\ Len(blocks') \in 1..Len(blocks')
  <2>1. Len(blocks) \in Nat
      BY LenProperties DEF TypeInv
  <2> QED
      BY <2>1, <1>6
<1>8. Keeps(f, Len(blocks'))
    BY <1>1, <1>7 DEF Keeps, TypeInv
<1>9. frames' \in Seq(Frame) /\ frames' # <<>> /\ Len(frames') <= MaxFrames
      /\ \A i \in 1..Len(frames') : Keeps(frames'[i], Len(blocks'))
  <2>1. /\ Below \in Seq(Frame) /\ Len(Below) = Len(frames) - 1 /\ Len(frames) \in Nat
        /\ \A i \in 1..Len(Below) : i \in 1..Len(frames) /\ Below[i] = frames[i]
      BY <1>1, BelowTop DEF TypeInv
  <2>2. /\ frames' \in Seq(Frame) /\ frames' # <<>>
        /\ Len(frames') = Len(Below) + 1
        /\ \A i \in 1..Len(Below) : frames'[i] = Below[i]
        /\ frames'[Len(Below) + 1] = f
        /\ \A i \in 1..Len(frames') : i \in 1..Len(Below) \/ i = Len(Below) + 1
      BY <1>1, <2>1, Pushed
  <2>3. \A i \in 1..Len(frames) : Keeps(frames[i], Len(blocks'))
      BY <1>7, KeepsMore DEF TypeInv
  <2>4. Len(frames') <= MaxFrames
      BY <2>1, <2>2 DEF TypeInv
  <2> QED
      BY <2>1, <2>2, <2>3, <2>4, <1>8
<1>10. {insert', curr_block', return_block'} \subseteq 1..Len(blocks')
    BY <1>1, <1>7 DEF TypeInv, VisitElse
<1>11. exits' \subseteq 0..MaxStatements
    BY <1>1 DEF VisitElse
<1> QED
    BY <1>1, <1>6, <1>9, <1>10, <1>11 DEF VisitElse, TypeInv, flagVars

LEMMA EndElseStep ==
    ASSUME TypeInv, EndElse
    PROVE  /\ frames' = Below /\ frames # <<>> /\ Top.kind = "else" /\ Top \in Frame
           /\ control = "back" /\ control' = control
           /\ insert' = Len(blocks) + 1 /\ curr_block' = Len(blocks) + 1
           /\ Top.label_now \in Nat /\ Top.trueExits \subseteq 0..MaxStatements
           /\ Top.trueBB_returned \in BOOLEAN
           /\ {Top.orig_block, Top.trueBB_location} \subseteq 1..Len(blocks)
           /\ ElseEnded(blocks, blocks', Top, curr_block, is_returned_record)
<1>1. frames' = Below /\ frames # <<>> /\ Top.kind = "else" /\ control = "back"
      /\ control' = control
    BY DEF EndElse, In
<1>2. Top \in Frame /\ Keeps(Top, Len(blocks))
    BY <1>1, BelowTop DEF TypeInv
<1>3. /\ Top.label_now \in Nat /\ Top.trueExits \subseteq 0..MaxStatements
      /\ Top.trueBB_returned \in BOOLEAN
      /\ Top.orig_block \in 1..Len(blocks) /\ Top.trueBB \in 1..Len(blocks)
      /\ Top.falseBB \in 1..Len(blocks) /\ Top.trueBB_location \in 1..Len(blocks)
    BY <1>1, <1>2, FrameFields DEF Keeps
<1> DEFINE made == Create(blocks, "selEndBB", Top.label_now)
           endBB == Len(made)
           branched == CondBr(made, Top.orig_block, Top.trueBB, Top.falseBB)
           trueEnded == EndArm(branched, Top.trueBB_location, Top.trueBB_returned, endBB)
           falseEnded == EndArm(trueEnded, curr_block, is_returned_record, endBB)
<1>4. /\ blocks' = IF falseEnded[curr_block].instrs = <<>>
                   THEN Br(falseEnded, curr_block, endBB) ELSE falseEnded
      /\ insert' = endBB /\ curr_block' = endBB
    BY DEF EndElse
<1>5. /\ endBB = Len(blocks) + 1
      /\ ElseEnded(blocks, blocks', Top, curr_block, is_returned_record)
  <2>1. curr_block \in 1..Len(blocks) /\ is_returned_record \in BOOLEAN
      BY DEF TypeInv
  <2> DEFINE new == AfterElse(blocks, Top, curr_block, is_returned_record)
  <2>2. endBB = Len(blocks) + 1 /\ ElseEnded(blocks, new, Top, curr_block, is_returned_record)
      BY <2>1, <1>3, EndElseEffect DEF TypeInv
  <2>3. blocks' = new
      BY <1>4 DEF AfterElse, Filled
  <2> HIDE DEF made, endBB, branched, trueEnded, falseEnded, new
  <2> QED
      BY <2>2, <2>3
<1> HIDE DEF made, endBB, branched, trueEnded, falseEnded
<1> QED
    BY <1>1, <1>2, <1>3, <1>4, <1>5

LEMMA TypeEndElse ==
    ASSUME TypeInv, EndElse
    PROVE  TypeInv'
<1> DEFINE endBB == Len(blocks) + 1
<1>1. /\ frames' = Below /\ frames # <<>> /\ control = "back" /\ control' = control
      /\ Top.trueExits \subseteq 0..MaxStatements
    BY EndElseStep
<1>2. insert' = endBB /\ curr_block' = endBB
    BY EndElseStep
<1>5. ElseEnded(blocks, blocks', Top, curr_block, is_returned_record)
    BY EndElseStep
<1>6. /\ blocks' \in Seq(Block) /\ EdgesStay(blocks') /\ Len(blocks') = Len(blocks) + 1
    BY <1>5 DEF ElseEnded, Grown
<1>7. Len(blocks) \in Nat /\ Len(blocks') \in Nat /\ Len(blocks) <= Len(blocks')
      /\ 1..Len(blocks) \subseteq 1..Len(blocks') /\ endBB \in 1..Len(blocks')
  <2>1. Len(blocks) \in Nat
      BY LenProperties DEF TypeInv
  <2> QED
      BY <2>1, <1>5, <1>6
<1>8. frames' \in Seq(Frame) /\ Len(frames') <= MaxFrames
      /\ \A i \in 1..Len(frames') : Keeps(frames'[i], Len(blocks'))
    BY <1>1, <1>7, BelowTop, KeepsMore, BoundsType DEF TypeInv
<1>9. {insert', curr_block', return_block'} \subseteq 1..Len(blocks')
    BY <1>2, <1>7 DEF TypeInv, EndElse
<1>10. exits' \subseteq 0..MaxStatements
    BY <1>1 DEF EndElse, TypeInv
<1>11. {is_returned', is_returned_record'} \subseteq BOOLEAN
    BY Zenon DEF EndElse, TypeInv
<1> QED
    BY <1>1, <1>6, <1>8, <1>9, <1>10, <1>11 DEF EndElse, TypeInv

LEMMA IterationStep ==
    ASSUME TypeInv, VisitIteration
    PROVE  \E n \in Nat : \E e : \E f \in Frame :
             /\ IterationMade(blocks, insert, label_cnt, n, e, blocks')
             /\ n > 0 => "indexed condition" \in Features
             /\ label_cnt' = e.label_cnt
             /\ insert' = Len(blocks') /\ curr_block' = Len(blocks')
             /\ frames' = Append(frames, f) /\ f.kind = "body" /\ f.label_now = label_cnt + 1
             /\ f.startBB = Len(blocks) + 1 /\ f.bodyBB = Len(blocks')
<1>1. PICK n \in Accesses :
         LET startBB == Len(blocks) + 1
             entered == Br(Create(blocks, "loopStartBB", label_cnt + 1), insert, startBB)
             e == Evaluate(entered, startBB, label_cnt + 1, n, statements + 1, TRUE)
             bodyBB == Len(e.blocks) + 1
         IN  /\ n > 0 => "indexed condition" \in Features
             /\ blocks' = Create(e.blocks, "loopBodyBB", label_cnt + 1)
             /\ label_cnt' = e.label_cnt
             /\ frames' = Append(frames,
                    [kind |-> "body", label_now |-> label_cnt + 1, startBB |-> startBB,
                     bodyBB |-> bodyBB, cond |-> statements + 1])
             /\ insert' = bodyBB /\ curr_block' = bodyBB
    BY DEF VisitIteration
<1>2. statements + 1 \in 0..MaxStatements /\ n \in Nat
    BY TypeBegin DEF VisitIteration, Visits
<1> DEFINE startBB == Len(blocks) + 1
           entered == Br(Create(blocks, "loopStartBB", label_cnt + 1), insert, startBB)
           e == Evaluate(entered, startBB, label_cnt + 1, n, statements + 1, TRUE)
           bodyBB == Len(e.blocks) + 1
           f == [kind |-> "body", label_now |-> label_cnt + 1, startBB |-> startBB,
                 bodyBB |-> bodyBB, cond |-> statements + 1]
<1>3. IterationMade(blocks, insert, label_cnt, n, e,
                    Create(e.blocks, "loopBodyBB", label_cnt + 1))
    BY <1>2, IterationEffect DEF TypeInv
<1>4. /\ n > 0 => "indexed condition" \in Features
      /\ blocks' = Create(e.blocks, "loopBodyBB", label_cnt + 1)
      /\ label_cnt' = e.label_cnt
      /\ frames' = Append(frames, f)
      /\ insert' = bodyBB /\ curr_block' = bodyBB
    BY <1>1
<1> HIDE DEF e
<1>5. IterationMade(blocks, insert, label_cnt, n, e, blocks')
    BY <1>3, <1>4
<1>6. /\ bodyBB = Len(blocks') /\ bodyBB \in Nat /\ startBB \in Nat /\ label_cnt + 1 \in Nat
    BY <1>5, LenProperties DEF IterationMade, Grown, TypeInv
<1> HIDE DEF bodyBB, startBB
<1>7. f \in Frame
    BY <1>2, <1>6 DEF Frame, BodyFrame
<1>8. /\ f.kind = "body" /\ f.label_now = label_cnt + 1
      /\ f.startBB = Len(blocks) + 1 /\ f.bodyBB = Len(blocks')
    BY <1>6 DEF startBB
<1> HIDE DEF f
<1> QED
    BY <1>2, <1>4, <1>5, <1>6, <1>7, <1>8

LEMMA TypeVisitIteration ==
    ASSUME TypeInv, VisitIteration
    PROVE  TypeInv'
<1>1. PICK n \in Nat : \E e : \E f \in Frame :
        /\ IterationMade(blocks, insert, label_cnt, n, e, blocks')
        /\ n > 0 => "indexed condition" \in Features
        /\ label_cnt' = e.label_cnt
        /\ insert' = Len(blocks') /\ curr_block' = Len(blocks')
        /\ frames' = Append(frames, f) /\ f.kind = "body" /\ f.label_now = label_cnt + 1
        /\ f.startBB = Len(blocks) + 1 /\ f.bodyBB = Len(blocks')
    BY IterationStep
<1>2. /\ statements' \in 0..MaxStatements /\ statements + 1 \in 0..MaxStatements
      /\ statements' = statements + 1
      /\ flow \cup (exits \X {statements + 1}) \subseteq (0..MaxStatements) \X (-1..MaxStatements)
    BY TypeBegin DEF VisitIteration, Visits
<1>3. PICK e : \E f \in Frame :
        /\ IterationMade(blocks, insert, label_cnt, n, e, blocks')
        /\ n > 0 => "indexed condition" \in Features
        /\ label_cnt' = e.label_cnt
        /\ insert' = Len(blocks') /\ curr_block' = Len(blocks')
        /\ frames' = Append(frames, f) /\ f.kind = "body" /\ f.label_now = label_cnt + 1
        /\ f.startBB = Len(blocks) + 1 /\ f.bodyBB = Len(blocks')
    BY <1>1
<1>4. PICK f \in Frame :
        /\ IterationMade(blocks, insert, label_cnt, n, e, blocks')
        /\ n > 0 => "indexed condition" \in Features
        /\ label_cnt' = e.label_cnt
        /\ insert' = Len(blocks') /\ curr_block' = Len(blocks')
        /\ frames' = Append(frames, f) /\ f.kind = "body" /\ f.label_now = label_cnt + 1
        /\ f.startBB = Len(blocks) + 1 /\ f.bodyBB = Len(blocks')
    BY <1>3
<1>a. label_cnt' = e.label_cnt /\ insert' = Len(blocks') /\ curr_block' = Len(blocks')
      /\ frames' = Append(frames, f)
    BY <1>4
<1>5. /\ Grown(blocks, blocks', {insert}, n + n + 2,
               {"arr_neg", "arr_ok", "loopStartBB", "loopBodyBB"})
      /\ f.startBB \in 1..Len(blocks') /\ e.label_cnt = label_cnt + 1 + n
    BY <1>4 DEF IterationMade
<1>6. /\ blocks' \in Seq(Block) /\ EdgesStay(blocks') /\ Len(blocks') = Len(blocks) + (n + n + 2)
    BY <1>5 DEF Grown
<1>7. Len(blocks) \in Nat /\ Len(blocks') \in Nat /\ Len(blocks) <= Len(blocks')
      /\ 1..Len(blocks) \subseteq 1..Len(blocks') /\ Len(blocks') \in 1..Len(blocks')
      /\ label_cnt' \in Nat
  <2>1. Len(blocks) \in Nat /\ label_cnt \in Nat
      BY LenProperties DEF TypeInv
  <2> QED
      BY <2>1, <1>a, <1>5, <1>6
<1>8. Keeps(f, Len(blocks'))
    BY <1>4, <1>5, <1>7 DEF Keeps
<1>9. frames' \in Seq(Frame) /\ frames' # <<>> /\ Len(frames') <= MaxFrames
      /\ \A i \in 1..Len(frames') : Keeps(frames'[i], Len(blocks'))
  <2>1. /\ frames' \in Seq(Frame) /\ frames' # <<>>
        /\ Len(frames') = Len(frames) + 1 /\ Len(frames) \in Nat
        /\ \A i \in 1..Len(frames) : frames'[i] = frames[i]
        /\ frames'[Len(frames) + 1] = f
        /\ \A i \in 1..Len(frames') : i \in 1..Len(frames) \/ i = Len(frames) + 1
      BY <1>a, Pushed DEF TypeInv
  <2>2. \A i \in 1..Len(frames) : Keeps(frames[i], Len(blocks'))
      BY <1>7, KeepsMore DEF TypeInv
  <2>3. Len(frames) + 2 <= MaxFrames
      BY DEF VisitIteration
  <2> QED
      BY <2>1, <2>2, <2>3, <1>8, BoundsType
<1>10. {insert', curr_block', return_block'} \subseteq 1..Len(blocks')
    BY <1>a, <1>7 DEF TypeInv, VisitIteration
<1>11. exits' \subseteq 0..MaxStatements /\ flow' \subseteq (0..MaxStatements) \X (-1..MaxStatements)
    BY <1>2 DEF VisitIteration, Runs
<1> QED
    BY <1>2, <1>6, <1>7, <1>9, <1>10, <1>11 DEF VisitIteration, TypeInv, flagVars

LEMMA EndIterationStep ==
    ASSUME TypeInv, EndIteration
    PROVE  /\ frames' = Below /\ frames # <<>> /\ Top.kind = "body" /\ Top \in Frame
           /\ control = "back" /\ control' = control
           /\ insert' = Len(blocks) + 1 /\ curr_block' = Len(blocks) + 1
           /\ Top.label_now \in Nat /\ Top.cond \in 0..MaxStatements
           /\ Top.startBB \in 1..Len(blocks)
           /\ LoopEnded(blocks, blocks', insert, Top.startBB, is_returned_record, Top.label_now)
<1>1. frames' = Below /\ frames # <<>> /\ Top.kind = "body" /\ control = "back"
      /\ control' = control
    BY DEF EndIteration, In
<1>2. Top \in Frame /\ Keeps(Top, Len(blocks))
    BY <1>1, BelowTop DEF TypeInv
<1>3. /\ Top.label_now \in Nat /\ Top.cond \in 0..MaxStatements
      /\ Top.startBB \in 1..Len(blocks) /\ Top.bodyBB \in 1..Len(blocks)
    BY <1>1, <1>2, FrameFields DEF Keeps
<1> DEFINE ended == IF is_returned_record THEN blocks ELSE Br(blocks, insert, Top.startBB)
           made == Create(ended, "loopEndBB", Top.label_now)
           endBB == Len(made)
<1>4. /\ blocks' = CondBr(made, Top.startBB, Top.bodyBB, endBB)
      /\ insert' = endBB /\ curr_block' = endBB
    BY DEF EndIteration
<1>5. /\ endBB = Len(blocks) + 1
      /\ LoopEnded(blocks, blocks', insert, Top.startBB, is_returned_record, Top.label_now)
  <2>1. insert \in 1..Len(blocks) /\ is_returned_record \in BOOLEAN
      BY DEF TypeInv
  <2>2. blocks \in Seq(Block) /\ EdgesStay(blocks)
      BY DEF TypeInv
  <2>3. ended = EndArm(blocks, insert, is_returned_record, Top.startBB)
      BY DEF EndArm
  <2> HIDE DEF ended
  <2>4. /\ endBB = Len(blocks) + 1
        /\ LoopEnded(blocks, CondBr(made, Top.startBB, Top.bodyBB, endBB), insert,
                     Top.startBB, is_returned_record, Top.label_now)
      BY <2>1, <2>2, <2>3, <1>3, EndIterationEffect, SMTT(40)
  <2> QED
      BY <2>4, <1>4
<1> HIDE DEF ended, made, endBB
<1> QED
    BY <1>1, <1>2, <1>3, <1>4, <1>5

LEMMA TypeEndIteration ==
    ASSUME TypeInv, EndIteration
    PROVE  TypeInv'
<1> DEFINE endBB == Len(blocks) + 1
<1>1. frames' = Below /\ frames # <<>> /\ control = "back" /\ control' = control
    BY EndIterationStep
<1>3. Top.cond \in 0..MaxStatements
    BY EndIterationStep
<1>4. insert' = endBB /\ curr_block' = endBB
    BY EndIterationStep
<1>5. LoopEnded(blocks, blocks', insert, Top.startBB, is_returned_record, Top.label_now)
    BY EndIterationStep
<1>6. /\ blocks' \in Seq(Block) /\ EdgesStay(blocks') /\ Len(blocks') = Len(blocks) + 1
    BY <1>5 DEF LoopEnded, Grown
<1>7. Len(blocks) \in Nat /\ Len(blocks') \in Nat /\ Len(blocks) <= Len(blocks')
      /\ 1..Len(blocks) \subseteq 1..Len(blocks') /\ endBB \in 1..Len(blocks')
  <2>1. Len(blocks) \in Nat
      BY LenProperties DEF TypeInv
  <2> QED
      BY <2>1, <1>5, <1>6
<1>8. frames' \in Seq(Frame) /\ Len(frames') <= MaxFrames
      /\ \A i \in 1..Len(frames') : Keeps(frames'[i], Len(blocks'))
    BY <1>1, <1>7, BelowTop, KeepsMore, BoundsType DEF TypeInv
<1>9. {insert', curr_block', return_block'} \subseteq 1..Len(blocks')
    BY <1>4, <1>7 DEF TypeInv, EndIteration
<1>10. exits' \subseteq 0..MaxStatements
    BY <1>3 DEF EndIteration
<1>11. flow' \subseteq (0..MaxStatements) \X (-1..MaxStatements)
  <2>1. exits \X {Top.cond} \subseteq (0..MaxStatements) \X (-1..MaxStatements)
    <3>1. Top.cond \in -1..MaxStatements
        BY <1>3
    <3> QED
        BY <3>1 DEF TypeInv
  <2> QED
      BY <2>1 DEF EndIteration, Runs, TypeInv
<1>12. {is_returned', is_returned_record'} \subseteq BOOLEAN
    BY Zenon DEF EndIteration, TypeInv
<1> QED
    BY <1>1, <1>6, <1>8, <1>9, <1>10, <1>11, <1>12 DEF EndIteration, TypeInv

LEMMA EndFunctionStep ==
    ASSUME TypeInv, EndFunction
    PROVE  \E falls \in BOOLEAN :
             /\ FunctionEnded(blocks, blocks', curr_block, return_block, falls)
             /\ insert' = IF falls THEN curr_block ELSE return_block
<1> DEFINE returns == AddInstr(blocks, return_block, "ret", Return)
           falls == returns[curr_block].instrs = <<>>
<1>1. /\ blocks' = IF falls THEN Br(returns, curr_block, return_block) ELSE returns
      /\ insert' = IF falls THEN curr_block ELSE return_block
    BY DEF EndFunction
<1>2. FunctionEnded(blocks, blocks', curr_block, return_block, falls)
    BY <1>1, EndFunctionEffect DEF TypeInv
<1>3. falls \in BOOLEAN
    OBVIOUS
<1> HIDE DEF returns, falls
<1> QED
    BY <1>1, <1>2, <1>3

LEMMA TypeEndFunction ==
    ASSUME TypeInv, EndFunction
    PROVE  TypeInv'
<1>2. PICK falls \in BOOLEAN :
        /\ FunctionEnded(blocks, blocks', curr_block, return_block, falls)
        /\ insert' = IF falls THEN curr_block ELSE return_block
    BY EndFunctionStep
<1>3. blocks' \in Seq(Block) /\ EdgesStay(blocks') /\ Len(blocks') = Len(blocks)
  <2>1. Len(blocks) \in Nat
      BY LenProperties DEF TypeInv
  <2> QED
      BY <2>1, <1>2 DEF FunctionEnded, Grown
<1>4. {insert', curr_block', return_block'} \subseteq 1..Len(blocks')
    BY <1>2, <1>3 DEF TypeInv, EndFunction
<1>5. exits \X {Return} \subseteq (0..MaxStatements) \X (-1..MaxStatements)
  <2>1. Return \in -1..MaxStatements
      BY BoundsType DEF Return
  <2> QED
      BY <2>1 DEF TypeInv
<1> QED
    BY <1>3, <1>4, <1>5 DEF EndFunction, TypeInv, flagVars

LEMMA TypeStep ==
    ASSUME TypeInv, [Next]_vars
    PROVE  TypeInv'
<1>1. CASE UNCHANGED vars
    BY <1>1 DEF vars, codeVars, flagVars, specVars, TypeInv
<1> QED
    BY <1>1, TypeVisitCompound, TypeNextStatement, TypeLeaveCompound, TypeVisitExpression,
       TypeVisitReturn, TypeVisitSelection, TypeEndIf, TypeVisitElse, TypeEndElse,
       TypeVisitIteration, TypeEndIteration, TypeEndFunction DEF Next, Done

LEMMA TypeInvIsInvariant == Spec => []TypeInv
<1>1. Init => TypeInv
    BY TypeInit
<1>2. TypeInv /\ [Next]_vars => TypeInv'
    BY TypeStep
<1> QED
    BY <1>1, <1>2, PTL DEF Spec

\* The dead ends are blocks, which only become more.
DeadEndInv == dead_ends \subseteq 1..Len(blocks)

LEMMA BlocksGrow ==
    ASSUME TypeInv, [Next]_vars
    PROVE  Len(blocks) \in Nat /\ Len(blocks') \in Nat /\ Len(blocks) <= Len(blocks')
<1>1. Len(blocks) \in Nat
    BY LenProperties DEF TypeInv
<1>2. CASE VisitCompound
  <2>1. blocks' = blocks \/ blocks' = AddOp(blocks, insert, 0)
      BY <1>2 DEF VisitCompound
  <2>2. insert \in 1..Len(blocks) /\ 0 \in 0..MaxStatements
      BY BoundsType DEF TypeInv
  <2>3. Fills(blocks, AddOp(blocks, insert, 0), insert)
      BY <2>2, AddOpEffect DEF TypeInv
  <2> QED
      BY <1>1, <2>1, <2>3 DEF Fills, Touches, Rewrites
<1>3. CASE UNCHANGED vars \/ NextStatement \/ LeaveCompound
    BY <1>1, <1>3 DEF vars, codeVars, NextStatement, LeaveCompound
<1>4. CASE VisitExpression
  <2>1. PICK n \in Nat : \E e : /\ ExpressionMade(blocks, insert, label_cnt, n, e)
                                /\ blocks' = e.blocks
      BY <1>4, ExpressionStep
  <2> QED
      BY <1>1, <2>1 DEF ExpressionMade, Grown
<1>5. CASE VisitReturn
  <2>1. PICK n \in Nat : \E e : ReturnMade(blocks, insert, label_cnt, n, e, blocks')
      BY <1>5, ReturnStep
  <2> QED
      BY <1>1, <2>1 DEF ReturnMade, Grown
<1>6. CASE VisitSelection
  <2>1. PICK n \in Nat : \E e : SelectionMade(blocks, insert, label_cnt, n, e, blocks')
      BY <1>6, SelectionStep
  <2> QED
      BY <1>1, <2>1 DEF SelectionMade, Grown
<1>7. CASE EndIf
    BY <1>1, <1>7, EndIfStep DEF IfEnded, Grown
<1>8. CASE VisitElse
  <2>1. PICK f \in Frame : Created(blocks, blocks', "selFalseBB", Top.label_now)
      BY <1>8, ElseStep
  <2> QED
      BY <1>1, <2>1 DEF Created
<1>9. CASE EndElse
    BY <1>1, <1>9, EndElseStep DEF ElseEnded, Grown
<1>10. CASE VisitIteration
  <2>1. PICK n \in Nat : \E e : IterationMade(blocks, insert, label_cnt, n, e, blocks')
      BY <1>10, IterationStep
  <2> QED
      BY <1>1, <2>1 DEF IterationMade, Grown
<1>11. CASE EndIteration
    BY <1>1, <1>11, EndIterationStep DEF LoopEnded, Grown
<1>12. CASE EndFunction
  <2>1. PICK falls \in BOOLEAN :
          FunctionEnded(blocks, blocks', curr_block, return_block, falls)
      BY <1>12, EndFunctionStep
  <2> QED
      BY <1>1, <2>1 DEF FunctionEnded, Grown
<1> QED
    BY <1>2, <1>3, <1>4, <1>5, <1>6, <1>7, <1>8, <1>9, <1>10, <1>11, <1>12 DEF Next, Done

LEMMA DeadEndStep ==
    ASSUME TypeInv, DeadEndInv, [Next]_vars
    PROVE  DeadEndInv'
<1>1. 1..Len(blocks) \subseteq 1..Len(blocks')
    BY BlocksGrow
<1>2. CASE EndElse
  <2>1. insert' \in 1..Len(blocks') /\ dead_ends' \subseteq dead_ends \cup {insert'}
      BY <1>2, TypeEndElse DEF TypeInv, EndElse
  <2> QED
      BY <1>1, <2>1 DEF DeadEndInv
<1>3. CASE ~EndElse
  <2>1. dead_ends' = dead_ends
      BY <1>3 DEF Next, Done, vars, specVars, VisitCompound, NextStatement, LeaveCompound,
                  VisitExpression, VisitReturn, VisitSelection, EndIf, VisitElse,
                  VisitIteration, EndIteration, EndFunction
  <2> QED
      BY <1>1, <2>1 DEF DeadEndInv
<1> QED
    BY <1>2, <1>3

LEMMA DeadEndInvIsInvariant == Spec => []DeadEndInv
<1>1. Init => DeadEndInv
    BY DEF Init, DeadEndInv
<1>2. TypeInv /\ DeadEndInv /\ [Next]_vars => DeadEndInv'
    BY DeadEndStep
<1> QED
    BY <1>1, <1>2, TypeInvIsInvariant, PTL DEF Spec

\* The blocks, the visitors and the history are what they are declared to be.
THEOREM TypeCorrect == Spec => []TypeOK
<1>1. ASSUME TypeInv, DeadEndInv PROVE TypeOK
  <2>1. BlockIndex = 1..Len(blocks)
      BY <1>1, LenProperties DEF BlockIndex, TypeInv
  <2>2. \A b \in BlockIndex :
          /\ blocks[b].label \in Kinds \X Nat
          /\ blocks[b].instrs \in Seq(Instrs)
          /\ blocks[b].succ \subseteq BlockIndex /\ blocks[b].pre \subseteq BlockIndex
      BY <1>1, <2>1, BlockAt DEF TypeInv, EdgesStay
  <2>3. \A i \in 1..Len(frames) : frames[i].kind \in {"compound", "then", "else", "body"}
      BY <1>1, ElementOfSeq, FrameFields DEF TypeInv
  <2> QED
      BY <1>1, <2>1, <2>2, <2>3 DEF TypeOK, TypeInv, DeadEndInv
<1> QED
    BY <1>1, TypeInvIsInvariant, DeadEndInvIsInvariant, PTL

\* Where instructions are inserted is where the visitors think they are.
THEOREM InsertPointIsCurrBlock == Spec => []InsertsIntoCurrBlock
<1>1. Init => InsertsIntoCurrBlock
    BY DEF Init, InsertsIntoCurrBlock
<1>2. TypeInv /\ InsertsIntoCurrBlock /\ [Next]_vars => InsertsIntoCurrBlock'
  <2> SUFFICES ASSUME TypeInv, InsertsIntoCurrBlock, [Next]_vars PROVE InsertsIntoCurrBlock'
      OBVIOUS
  <2>1. ASSUME VisitExpression \/ VisitReturn PROVE InsertsIntoCurrBlock'
    <3>1. insert = curr_block
        BY <2>1 DEF VisitExpression, VisitReturn, Visits, InsertsIntoCurrBlock
    <3>2. CASE VisitExpression
      <4>1. PICK n \in Nat : \E e : /\ ExpressionMade(blocks, insert, label_cnt, n, e)
                                    /\ insert' = e.at
                                    /\ curr_block' = IF n > 0 THEN e.at ELSE curr_block
          BY <3>2, ExpressionStep
      <4> QED
          BY <3>1, <4>1 DEF ExpressionMade, InsertsIntoCurrBlock
    <3>3. CASE VisitReturn
      <4>1. PICK n \in Nat : \E e : /\ n = 0 => e.at = insert
                                    /\ insert' = e.at
                                    /\ curr_block' = IF n > 0 THEN e.at ELSE curr_block
          BY <3>3, ReturnStep
      <4> QED
          BY <3>1, <4>1 DEF InsertsIntoCurrBlock
    <3> QED
        BY <2>1, <3>2, <3>3
  <2>2. CASE UNCHANGED vars \/ VisitCompound \/ NextStatement \/ LeaveCompound
      BY <2>2 DEF InsertsIntoCurrBlock, vars, codeVars, VisitCompound, NextStatement,
                  LeaveCompound, In
  <2>3. CASE VisitSelection
      BY <2>3 DEF InsertsIntoCurrBlock, VisitSelection
  <2>4. CASE VisitIteration
      BY <2>4 DEF InsertsIntoCurrBlock, VisitIteration
  <2>5. CASE EndIf \/ VisitElse \/ EndElse \/ EndIteration
      BY <2>5 DEF InsertsIntoCurrBlock, EndIf, VisitElse, EndElse, EndIteration
  <2>6. CASE EndFunction
      BY <2>6 DEF InsertsIntoCurrBlock, EndFunction
  <2> QED
      BY <2>1, <2>2, <2>3, <2>4, <2>5, <2>6 DEF Next, Done
<1> QED
    BY <1>1, <1>2, TypeInvIsInvariant, PTL DEF Spec

-----------------------------------------------------------------------------
(***************************************************************************)
(* The labels.                                                             *)
(***************************************************************************)
LateKinds == {"selFalseBB", "selEndBB", "loopEndBB"}

LEMMA ToMakeIsLate ==
    ASSUME NEW f \in Frame
    PROVE  ToMake(f) \subseteq LateKinds
    BY FrameFields DEF ToMake, LateKinds

\* What a visitor is yet to use is not used up by blocks of other kinds, nor by
\* a block of another number.
LEMMA UnusedGrown ==
    ASSUME NEW bs \in Seq(Block), NEW new, NEW C, NEW m \in Nat, NEW K, Grown(bs, new, C, m, K),
           K \cap LateKinds = {}, NEW f \in Frame, Unused(bs, f)
    PROVE  Unused(new, f)
<1>1. Len(bs) \in Nat /\ Len(new) = Len(bs) + m
    BY LenProperties DEF Grown
<1>2. ASSUME NEW i \in 1..Len(new), NEW k \in ToMake(f) PROVE new[i].label # <<k, f.label_now>>
  <2>1. CASE i \in 1..Len(bs)
    <3>1. new[i].label = bs[i].label
        BY <2>1 DEF Grown
    <3> QED
        BY <3>1, <2>1 DEF Unused
  <2>2. CASE i \notin 1..Len(bs)
    <3>1. i \in (Len(bs) + 1)..Len(new)
        BY <2>2, <1>1
    <3>2. new[i].label[1] \in K /\ k \in LateKinds
        BY <3>1, ToMakeIsLate DEF Grown
    <3>3. new[i].label[1] # k
        BY <3>2
    <3> QED
        BY <3>3
  <2> QED
      BY <2>1, <2>2
<1> QED
    BY <1>2 DEF Unused

LEMMA UnusedOther ==
    ASSUME NEW bs \in Seq(Block), NEW new, Len(new) = Len(bs) + 1,
           \A i \in 1..Len(bs) : new[i].label = bs[i].label,
           NEW kind, NEW n, new[Len(bs) + 1].label = <<kind, n>>,
           NEW f, f.label_now # n, Unused(bs, f)
    PROVE  Unused(new, f)
<1>1. Len(bs) \in Nat
    BY LenProperties
<1>2. ASSUME NEW i \in 1..Len(new), NEW k \in ToMake(f) PROVE new[i].label # <<k, f.label_now>>
  <2>1. CASE i \in 1..Len(bs)
      BY <2>1 DEF Unused
  <2>2. CASE i \notin 1..Len(bs)
    <3>1. i = Len(bs) + 1
        BY <2>2, <1>1
    <3>2. new[i].label[2] # f.label_now
        BY <3>1
    <3> QED
        BY <3>2
  <2> QED
      BY <2>1, <2>2
<1> QED
    BY <1>2 DEF Unused

\* The visitors' labels as visitors are left and entered and blocks are made.
LEMMA FrameLabelsGrown ==
    ASSUME NEW bs \in Seq(Block), NEW new, NEW C, NEW m \in Nat, NEW K, Grown(bs, new, C, m, K),
           K \cap LateKinds = {}, NEW s \in Seq(Frame), NEW n \in Nat, NEW k \in Nat, n <= k,
           FrameLabels(bs, s, n)
    PROVE  FrameLabels(new, s, k)
<1>1. ASSUME NEW i \in 1..Len(s), s[i].kind # "compound"
      PROVE  s[i].label_now <= k /\ Unused(new, s[i])
  <2>1. s[i] \in Frame /\ s[i].label_now \in Nat
      BY <1>1, ElementOfSeq, FrameFields
  <2>2. s[i].label_now <= n /\ Unused(bs, s[i])
      BY <1>1 DEF FrameLabels
  <2> QED
      BY <2>1, <2>2, UnusedGrown
<1> QED
    BY <1>1 DEF FrameLabels

LEMMA FrameLabelsBelow ==
    ASSUME NEW bs, NEW s \in Seq(Frame), s # <<>>, NEW n, FrameLabels(bs, s, n)
    PROVE  FrameLabels(bs, Front(s), n)
<1>1. Len(Front(s)) = Len(s) - 1 /\ Len(s) \in Nat /\ \A i \in 1..Len(s) - 1 : Front(s)[i] = s[i]
    BY FrontLast
<1>2. \A i \in 1..Len(Front(s)) : i \in 1..Len(s) /\ Front(s)[i] = s[i]
    BY <1>1
<1> QED
    BY <1>2 DEF FrameLabels

LEMMA FrameLabelsPush ==
    ASSUME NEW bs, NEW s \in Seq(Frame), NEW n, FrameLabels(bs, s, n), NEW f \in Frame,
           f.kind # "compound" =>
               /\ f.label_now <= n /\ Unused(bs, f)
               /\ \A j \in 1..Len(s) : s[j].kind # "compound" => s[j].label_now # f.label_now
    PROVE  FrameLabels(bs, Append(s, f), n)
<1> DEFINE t == Append(s, f)
<1>1. /\ \A i \in 1..Len(s) : t[i] = s[i] /\ i # Len(s) + 1
      /\ t[Len(s) + 1] = f
      /\ \A i \in 1..Len(t) : i \in 1..Len(s) \/ i = Len(s) + 1
    BY Pushed
<1> HIDE DEF t
<1>2. ASSUME NEW i \in 1..Len(t), t[i].kind # "compound"
      PROVE  /\ t[i].label_now <= n /\ Unused(bs, t[i])
             /\ \A j \in 1..Len(t) :
                  t[j].kind # "compound" /\ j # i => t[j].label_now # t[i].label_now
    BY <1>1, <1>2 DEF FrameLabels
<1> QED
    BY <1>2 DEF FrameLabels, t

LEMMA LabelInit ==
    ASSUME Init
    PROVE  LabelInv
<1>4. Len(blocks) = 2 /\ blocks[1].label = <<"entry", 0>> /\ blocks[2].label = <<"returnBB", 0>>
    BY InitBlocks
<1>5. Labelled(blocks, 0)
    BY <1>4 DEF Labelled
<1>6. label_cnt = 0 /\ Len(frames) = 1 /\ frames[1].kind = "compound"
    BY DEF Init
<1>7. FrameLabels(blocks, frames, label_cnt)
    BY <1>6 DEF FrameLabels
<1> QED
    BY <1>5, <1>6, <1>7 DEF LabelInv

\* A visitor that takes a number no label has yet.
LEMMA LabelsEntered ==
    ASSUME NEW bs \in Seq(Block), NEW s \in Seq(Frame), NEW n \in Nat,
           Labelled(bs, n), FrameLabels(bs, s, n),
           NEW new, NEW C, NEW m \in Nat, NEW K, Grown(bs, new, C, m, K), K \cap LateKinds = {},
           NEW f \in Frame, f.kind # "compound", n < f.label_now,
           NEW k \in Nat, f.label_now <= k
    PROVE  FrameLabels(new, Append(s, f), k)
<1>1. f.label_now \in Nat /\ n <= k
    BY FrameFields
<1>2. Unused(new, f)
  <2>1. ASSUME NEW i \in 1..Len(bs), NEW kind PROVE bs[i].label # <<kind, f.label_now>>
    <3>1. bs[i].label[2] # f.label_now
        BY <1>1, LabelType DEF Labelled
    <3> QED
        BY <3>1
  <2>2. Unused(bs, f)
      BY <2>1 DEF Unused
  <2> QED
      BY <2>2, UnusedGrown
<1>3. FrameLabels(new, s, k)
    BY <1>1, FrameLabelsGrown
<1>4. ASSUME NEW j \in 1..Len(s), s[j].kind # "compound" PROVE s[j].label_now # f.label_now
  <2>1. s[j].label_now \in Nat /\ s[j].label_now <= n
      BY <1>4, ElementOfSeq, FrameFields DEF FrameLabels
  <2> QED
      BY <2>1, <1>1
<1> QED
    BY <1>2, <1>3, <1>4, FrameLabelsPush

\* The innermost visitor makes a block it was yet to make.
LEMMA LabelUsed ==
    ASSUME NEW bs \in Seq(Block), NEW new \in Seq(Block), NEW n \in Nat, NEW s \in Seq(Frame),
           Labelled(bs, n), FrameLabels(bs, s, n),
           NEW f \in Frame, f.kind # "compound", f.label_now <= n, Unused(bs, f),
           \A i \in 1..Len(s) : s[i].kind # "compound" => s[i].label_now # f.label_now,
           NEW kind \in ToMake(f), Len(new) = Len(bs) + 1,
           \A i \in 1..Len(bs) : new[i].label = bs[i].label,
           new[Len(bs) + 1].label = <<kind, f.label_now>>
    PROVE  Labelled(new, n) /\ FrameLabels(new, s, n)
<1>1. f.label_now \in Nat
    BY FrameFields
<1>2. \A i \in 1..Len(bs) : bs[i].label # <<kind, f.label_now>>
    BY DEF Unused
<1>3. Labelled(new, n)
  <2>1. Len(bs) + 1 = Len(new) /\ n <= n
      BY LenProperties
  <2>2. new[Len(new)].label[2] <= n
        /\ \A i \in 1..Len(bs) : bs[i].label # new[Len(new)].label
      BY <1>1, <1>2, <2>1
  <2> QED
      BY <2>1, <2>2, LabelledNew
<1>4. ASSUME NEW i \in 1..Len(s), s[i].kind # "compound"
      PROVE  s[i].label_now <= n /\ Unused(new, s[i])
  <2>1. s[i].label_now <= n /\ Unused(bs, s[i]) /\ s[i].label_now # f.label_now
      BY <1>4 DEF FrameLabels
  <2> QED
      BY <2>1, UnusedOther
<1>5. FrameLabels(new, s, n)
    BY <1>4 DEF FrameLabels
<1> QED
    BY <1>3, <1>5

LEMMA LabelStep ==
    ASSUME TypeInv, TypeInv', LabelInv, [Next]_vars
    PROVE  LabelInv'
<1>0. /\ blocks \in Seq(Block) /\ EdgesStay(blocks) /\ Len(blocks) \in Nat /\ label_cnt \in Nat
      /\ insert \in 1..Len(blocks) /\ frames \in Seq(Frame)
      /\ {curr_block, return_block} \subseteq 1..Len(blocks)
      /\ Labelled(blocks, label_cnt) /\ FrameLabels(blocks, frames, label_cnt)
    BY LenProperties DEF TypeInv, LabelInv
<1>a. blocks' \in Seq(Block)
    BY DEF TypeInv
<1>b. ASSUME NEW n \in Nat, n > label_cnt, NEW i \in 1..Len(blocks)
      PROVE  blocks[i].label[2] # n
    BY <1>0, <1>b, LabelType DEF Labelled
<1>c. ASSUME frames # <<>>
      PROVE  /\ Below \in Seq(Frame) /\ Top \in Frame
             /\ FrameLabels(blocks, Below, label_cnt)
             /\ Top.kind # "compound" =>
                  /\ Top.label_now <= label_cnt /\ Unused(blocks, Top)
                  /\ \A i \in 1..Len(Below) :
                       Below[i].kind # "compound" => Below[i].label_now # Top.label_now
  <2>1. /\ Below \in Seq(Frame) /\ Top \in Frame /\ Top = frames[Len(frames)]
        /\ Len(frames) \in 1..Len(frames)
        /\ \A i \in 1..Len(Below) : i \in 1..Len(frames) /\ i # Len(frames)
                                    /\ Below[i] = frames[i]
      BY <1>0, <1>c, BelowTop
  <2>2. FrameLabels(blocks, Below, label_cnt)
      BY <1>0, <1>c, FrameLabelsBelow DEF Below
  <2>3. ASSUME Top.kind # "compound"
        PROVE  /\ Top.label_now <= label_cnt /\ Unused(blocks, Top)
               /\ \A j \in 1..Len(frames) :
                    frames[j].kind # "compound" /\ j # Len(frames) =>
                        frames[j].label_now # Top.label_now
      BY <1>0, <2>1, <2>3 DEF FrameLabels
  <2> QED
      BY <2>1, <2>2, <2>3
<1>1. CASE UNCHANGED vars \/ NextStatement
    BY <1>1 DEF vars, codeVars, NextStatement, LabelInv
<1>2. CASE VisitCompound
  <2>1. /\ blocks' = blocks \/ Fills(blocks, blocks', insert)
    <3>1. 0 \in 0..MaxStatements
        BY BoundsType
    <3> QED
        BY <1>0, <1>2, <3>1, AddOpEffect DEF VisitCompound
  <2>2. Grown(blocks, blocks', {insert}, 0, {})
    <3>1. \A i \in (Len(blocks) + 1)..Len(blocks) : FALSE
        BY <1>0
    <3> QED
        BY <2>1, <3>1, <1>0 DEF Fills, Touches, Rewrites, Grown
  <2>3. Labelled(blocks', label_cnt)
      BY <2>2, <1>0, LabelledSame DEF Grown
  <2>4. FrameLabels(blocks', frames, label_cnt)
      BY <2>2, <1>0, FrameLabelsGrown
  <2> DEFINE f == [kind |-> "compound"]
  <2>5. f \in Frame /\ f.kind = "compound"
      BY DEF Frame, CompoundFrame
  <2>6. frames' = Append(frames, f) /\ label_cnt' = label_cnt
      BY <1>2 DEF VisitCompound
  <2> HIDE DEF f
  <2>7. FrameLabels(blocks', Append(frames, f), label_cnt)
      BY <2>4, <2>5, <1>0, FrameLabelsPush
  <2> QED
      BY <2>3, <2>6, <2>7 DEF LabelInv
<1>3. CASE LeaveCompound
    BY <1>0, <1>3, <1>c DEF LeaveCompound, In, codeVars, LabelInv
<1>4. CASE VisitExpression \/ VisitReturn
  <2>1. PICK n \in Nat :
          /\ Grown(blocks, blocks', {insert}, n + n, {"arr_neg", "arr_ok"})
          /\ label_cnt' = label_cnt + n /\ Labelled(blocks', label_cnt')
    <3>1. CASE VisitExpression
      <4>1. PICK n \in Nat : \E e : /\ ExpressionMade(blocks, insert, label_cnt, n, e)
                                    /\ blocks' = e.blocks /\ label_cnt' = e.label_cnt
          BY <3>1, ExpressionStep
      <4> QED
          BY <4>1, <1>0 DEF ExpressionMade
    <3>2. CASE VisitReturn
      <4>1. PICK n \in Nat : \E e : /\ ReturnMade(blocks, insert, label_cnt, n, e, blocks')
                                    /\ label_cnt' = e.label_cnt /\ e.label_cnt = label_cnt + n
          BY <3>2, ReturnStep
      <4> QED
          BY <4>1, <1>0 DEF ReturnMade
    <3> QED
        BY <1>4, <3>1, <3>2
  <2>2. FrameLabels(blocks', frames, label_cnt')
    <3>1. n + n \in Nat /\ label_cnt' \in Nat /\ label_cnt <= label_cnt'
          /\ {"arr_neg", "arr_ok"} \cap LateKinds = {}
        BY <1>0, <2>1 DEF LateKinds
    <3> QED
        BY <3>1, <2>1, <1>0, FrameLabelsGrown
  <2> QED
      BY <2>1, <2>2, <1>4 DEF LabelInv, VisitExpression, VisitReturn
<1>5. CASE VisitSelection
  <2>1. PICK n \in Nat : \E e : \E f \in Frame :
          /\ SelectionMade(blocks, insert, label_cnt, n, e, blocks')
          /\ label_cnt' = e.label_cnt + 1
          /\ frames' = Append(frames, f) /\ f.kind = "then" /\ f.label_now = label_cnt'
      BY <1>5, SelectionStep
  <2>2. PICK f \in Frame :
          /\ Grown(blocks, blocks', {insert}, n + n + 1, {"arr_neg", "arr_ok", "selTrueBB"})
          /\ label_cnt' = label_cnt + n + 1 /\ Labelled(blocks', label_cnt')
          /\ frames' = Append(frames, f) /\ f.kind = "then" /\ f.label_now = label_cnt'
      BY <2>1, <1>0 DEF SelectionMade
  <2>3. n + n + 1 \in Nat /\ label_cnt' \in Nat /\ label_cnt < f.label_now
        /\ f.label_now <= label_cnt'
        /\ {"arr_neg", "arr_ok", "selTrueBB"} \cap LateKinds = {}
      BY <1>0, <2>2 DEF LateKinds
  <2>4. FrameLabels(blocks', Append(frames, f), label_cnt')
      BY <1>0, <2>2, <2>3, LabelsEntered
  <2> QED
      BY <2>2, <2>4 DEF LabelInv
<1>6. CASE VisitIteration
  <2>1. PICK n \in Nat : \E e : \E f \in Frame :
          /\ IterationMade(blocks, insert, label_cnt, n, e, blocks')
          /\ label_cnt' = e.label_cnt
          /\ frames' = Append(frames, f) /\ f.kind = "body" /\ f.label_now = label_cnt + 1
      BY <1>6, IterationStep
  <2>2. PICK f \in Frame :
          /\ Grown(blocks, blocks', {insert}, n + n + 2,
                   {"arr_neg", "arr_ok", "loopStartBB", "loopBodyBB"})
          /\ label_cnt' = label_cnt + 1 + n /\ Labelled(blocks', label_cnt')
          /\ frames' = Append(frames, f) /\ f.kind = "body" /\ f.label_now = label_cnt + 1
      BY <2>1, <1>0 DEF IterationMade
  <2>3. n + n + 2 \in Nat /\ label_cnt' \in Nat /\ label_cnt < f.label_now
        /\ f.label_now <= label_cnt'
        /\ {"arr_neg", "arr_ok", "loopStartBB", "loopBodyBB"} \cap LateKinds = {}
      BY <1>0, <2>2 DEF LateKinds
  <2>4. FrameLabels(blocks', Append(frames, f), label_cnt')
      BY <1>0, <2>2, <2>3, LabelsEntered
  <2> QED
      BY <2>2, <2>4 DEF LabelInv
<1>7. CASE EndIf \/ EndElse \/ EndIteration
  <2>1. PICK kind \in ToMake(Top) :
          /\ frames' = Below /\ frames # <<>> /\ Top.kind # "compound" /\ label_cnt' = label_cnt
          /\ Len(blocks') = Len(blocks) + 1
          /\ blocks'[Len(blocks) + 1].label = <<kind, Top.label_now>>
          /\ \A i \in 1..Len(blocks) : blocks'[i].label = blocks[i].label
    <3>1. CASE EndIf
      <4>1. "selEndBB" \in ToMake(Top) /\ frames' = Below /\ frames # <<>> /\ Top.kind = "then"
            /\ IfEnded(blocks, blocks', Top.orig_block, curr_block, is_returned_record,
                       Top.label_now)
          BY <3>1, EndIfStep DEF ToMake
      <4>2. label_cnt' = label_cnt
          BY <3>1 DEF EndIf
      <4> QED
          BY <4>1, <4>2 DEF IfEnded, Grown
    <3>2. CASE EndElse
      <4>1. "selEndBB" \in ToMake(Top) /\ frames' = Below /\ frames # <<>> /\ Top.kind = "else"
            /\ ElseEnded(blocks, blocks', Top, curr_block, is_returned_record)
          BY <3>2, EndElseStep DEF ToMake
      <4>2. label_cnt' = label_cnt
          BY <3>2 DEF EndElse
      <4> QED
          BY <4>1, <4>2 DEF ElseEnded, Grown
    <3>3. CASE EndIteration
      <4>1. "loopEndBB" \in ToMake(Top) /\ frames' = Below /\ frames # <<>> /\ Top.kind = "body"
            /\ LoopEnded(blocks, blocks', insert, Top.startBB, is_returned_record, Top.label_now)
          BY <3>3, EndIterationStep DEF ToMake
      <4>2. label_cnt' = label_cnt
          BY <3>3 DEF EndIteration
      <4> QED
          BY <4>1, <4>2 DEF LoopEnded, Grown
    <3> QED
        BY <1>7, <3>1, <3>2, <3>3
  <2>2. Labelled(blocks', label_cnt) /\ FrameLabels(blocks', Below, label_cnt)
      BY <1>0, <1>a, <1>c, <2>1, LabelUsed
  <2> QED
      BY <2>1, <2>2 DEF LabelInv
<1>8. CASE VisitElse
  <2>1. PICK f \in Frame :
          /\ frames # <<>> /\ Top.kind = "then" /\ Top.label_now \in Nat
          /\ Created(blocks, blocks', "selFalseBB", Top.label_now)
          /\ frames' = Append(Below, f) /\ f.kind = "else" /\ f.label_now = Top.label_now
      BY <1>8, ElseStep
  <2>2. /\ Len(blocks') = Len(blocks) + 1
        /\ \A i \in 1..Len(blocks) : blocks'[i] = blocks[i]
        /\ blocks'[Len(blocks) + 1].label = <<"selFalseBB", Top.label_now>>
      BY <2>1 DEF Created
  <2>3. "selFalseBB" \in ToMake(Top) /\ "selEndBB" \in ToMake(Top) /\ ToMake(f) = {"selEndBB"}
        /\ Top.kind # "compound"
      BY <2>1 DEF ToMake
  <2>4. Labelled(blocks', label_cnt) /\ FrameLabels(blocks', Below, label_cnt)
      BY <1>0, <1>a, <1>c, <2>1, <2>2, <2>3, LabelUsed
  <2>5. Unused(blocks', f)
    <3>1. ASSUME NEW i \in 1..Len(blocks') PROVE blocks'[i].label # <<"selEndBB", f.label_now>>
      <4>1. CASE i \in 1..Len(blocks)
          BY <4>1, <1>c, <2>1, <2>2, <2>3 DEF Unused
      <4>2. CASE i = Len(blocks) + 1
        <5>1. blocks'[i].label[1] # "selEndBB"
            BY <4>2, <2>2
        <5> QED
            BY <5>1
      <4> QED
          BY <4>1, <4>2, <1>0, <2>2
    <3> QED
        BY <3>1, <2>3 DEF Unused
  <2>6. FrameLabels(blocks', Append(Below, f), label_cnt)
      BY <1>c, <2>1, <2>3, <2>4, <2>5, FrameLabelsPush
  <2>7. label_cnt' = label_cnt
      BY <1>8 DEF VisitElse
  <2> QED
      BY <2>1, <2>4, <2>6, <2>7 DEF LabelInv
<1>9. CASE EndFunction
  <2>1. PICK falls \in BOOLEAN : FunctionEnded(blocks, blocks', curr_block, return_block, falls)
      BY <1>9, EndFunctionStep
  <2>2. Grown(blocks, blocks', {curr_block, return_block}, 0, {})
      BY <2>1 DEF FunctionEnded
  <2>3. Labelled(blocks', label_cnt)
      BY <2>2, <1>0, LabelledSame DEF Grown
  <2>4. FrameLabels(blocks', frames, label_cnt)
      BY <2>2, <1>0, FrameLabelsGrown
  <2> QED
      BY <2>3, <2>4, <1>9 DEF EndFunction, LabelInv
<1> QED
    BY <1>1, <1>2, <1>3, <1>4, <1>5, <1>6, <1>7, <1>8, <1>9 DEF Next, Done

\* No two blocks of a function get the same label, although a visitor takes the
\* number of its later blocks before its parts take theirs.
THEOREM LabelsDistinct == Spec => []LabelsAreUnique
<1>1. Init => LabelInv
    BY LabelInit
<1>2. TypeInv /\ TypeInv' /\ LabelInv /\ [Next]_vars => LabelInv'
    BY LabelStep
<1>3. TypeInv /\ LabelInv => LabelsAreUnique
  <2> SUFFICES ASSUME TypeInv, LabelInv PROVE LabelsAreUnique
      OBVIOUS
  <2>1. BlockIndex = 1..Len(blocks)
      BY LenProperties DEF BlockIndex, TypeInv
  <2> QED
      BY <2>1 DEF LabelsAreUnique, LabelInv, Labelled
<1> QED
    BY <1>1, <1>2, <1>3, TypeInvIsInvariant, PTL DEF Spec

-----------------------------------------------------------------------------
(***************************************************************************)
(* The terminators: nothing is put behind one.                             *)
(***************************************************************************)
LEMMA WaitsKept ==
    ASSUME NEW f \in Frame, NEW n, Keeps(f, n)
    PROVE  Waits(f) \subseteq 1..n
    BY FrameFields DEF Waits, Keeps

\* What the visitors wait for while blocks that are none of theirs change.
LEMMA ApartStays ==
    ASSUME NEW bs \in Seq(Block), NEW new, NEW C, NEW m \in Nat, NEW K, Grown(bs, new, C, m, K),
           NEW s \in Seq(Frame), NEW cur, NEW ret, Apart(bs, s, cur, ret),
           \A i \in 1..Len(s) : Keeps(s[i], Len(bs)) /\ Waits(s[i]) \cap C = {},
           NEW now, now \notin 1..Len(bs) \/ now = cur
    PROVE  Apart(new, s, now, ret)
<1>1. ASSUME NEW i \in 1..Len(s), NEW w \in Waits(s[i])
      PROVE  Open(new[w].instrs) /\ w # now /\ w # ret
  <2>1. w \in 1..Len(bs) /\ w \notin C
      BY ElementOfSeq, WaitsKept
  <2>2. new[w].instrs = bs[w].instrs
      BY <2>1 DEF Grown
  <2>3. Open(bs[w].instrs) /\ w # cur /\ w # ret
      BY DEF Apart
  <2> QED
      BY <2>1, <2>2, <2>3
<1> QED
    BY <1>1 DEF Apart

LEMMA ApartPush ==
    ASSUME NEW bs, NEW s \in Seq(Frame), NEW cur, NEW ret, Apart(bs, s, cur, ret),
           NEW f \in Frame,
           \A w \in Waits(f) : Open(bs[w].instrs) /\ w # cur /\ w # ret,
           \A i \in 1..Len(s) : Waits(s[i]) \cap Waits(f) = {}
    PROVE  Apart(bs, Append(s, f), cur, ret)
<1> DEFINE t == Append(s, f)
<1>1. /\ \A i \in 1..Len(s) : t[i] = s[i] /\ i # Len(s) + 1
      /\ t[Len(s) + 1] = f
      /\ \A i \in 1..Len(t) : i \in 1..Len(s) \/ i = Len(s) + 1
    BY Pushed
<1> HIDE DEF t
<1>2. ASSUME NEW i \in 1..Len(t), NEW w \in Waits(t[i])
      PROVE  Open(bs[w].instrs) /\ w # cur /\ w # ret
    BY <1>1 DEF Apart
<1>3. ASSUME NEW i \in 1..Len(t), NEW w \in Waits(t[i]), NEW j \in 1..Len(t), j # i
      PROVE  w \notin Waits(t[j])
  <2>1. CASE i \in 1..Len(s) /\ j \in 1..Len(s)
      BY <2>1, <1>1, <1>3 DEF Apart
  <2>2. CASE i = Len(s) + 1 /\ j \in 1..Len(s)
      BY <2>2, <1>1
  <2>3. CASE i \in 1..Len(s) /\ j = Len(s) + 1
      BY <2>3, <1>1
  <2> QED
      BY <2>1, <2>2, <2>3, <1>1, <1>3
<1> QED
    BY <1>2, <1>3 DEF Apart, t

LEMMA ShapePush ==
    ASSUME NEW s \in Seq(Frame), NEW f \in Frame, Arms(s), Nested(s),
           f.kind = "else" => f.trueBB_returned \/ f.orig_block # f.trueBB_location,
           f.kind = "compound" /\ s # <<>> => Last(s).kind # "compound"
    PROVE  Arms(Append(s, f)) /\ Nested(Append(s, f))
<1> DEFINE t == Append(s, f)
<1>1. /\ \A i \in 1..Len(s) : t[i] = s[i] /\ i # Len(s) + 1
      /\ t[Len(s) + 1] = f /\ Len(s) \in Nat
      /\ \A i \in 1..Len(t) : i \in 1..Len(s) \/ i = Len(s) + 1
    BY Pushed
<1> HIDE DEF t
<1>2. Arms(t)
    BY <1>1 DEF Arms
<1>3. ASSUME NEW i \in 1..Len(t), t[i].kind = "compound", i > 1
      PROVE  t[i - 1].kind # "compound"
  <2>1. CASE i \in 1..Len(s)
    <3>1. i - 1 \in 1..Len(s)
        BY <2>1, <1>1, <1>3
    <3> QED
        BY <2>1, <3>1, <1>1, <1>3 DEF Nested
  <2>2. CASE i = Len(s) + 1
    <3>1. i - 1 = Len(s) /\ Len(s) \in 1..Len(s)
        BY <2>2, <1>1, <1>3
    <3>2. s # <<>> /\ Last(s) = s[Len(s)]
        BY <3>1, EmptySeq DEF Last
    <3> QED
        BY <2>2, <3>1, <3>2, <1>1, <1>3
  <2> QED
      BY <2>1, <2>2, <1>1
<1> QED
    BY <1>2, <1>3 DEF Nested, t

\* What the innermost visitor waits for and what the others do.
LEMMA ApartBelow ==
    ASSUME TypeInv, OpenInv, frames # <<>>
    PROVE  /\ Below \in Seq(Frame) /\ Top \in Frame
           /\ \A i \in 1..Len(Below) : Keeps(Below[i], Len(blocks))
                                       /\ curr_block \notin Waits(Below[i])
                                       /\ Waits(Below[i]) \cap Waits(Top) = {}
           /\ Keeps(Top, Len(blocks))
           /\ \A w \in Waits(Top) : /\ w \in 1..Len(blocks) /\ Open(blocks[w].instrs)
                                    /\ w # curr_block /\ w # return_block
           /\ Apart(blocks, Below, curr_block, return_block)
           /\ Arms(Below) /\ Nested(Below)
           /\ Top.kind = "else" => Top.trueBB_returned \/ Top.orig_block # Top.trueBB_location
           /\ Top.kind = "compound" /\ Below # <<>> => Last(Below).kind # "compound"
<1>1. /\ Below \in Seq(Frame) /\ Len(Below) = Len(frames) - 1
      /\ Len(frames) \in Nat \ {0} /\ Len(Below) \in Nat
      /\ \A i \in 1..Len(Below) : i \in 1..Len(frames) /\ i # Len(frames)
                                  /\ Below[i] = frames[i]
      /\ Len(frames) \in 1..Len(frames)
      /\ Top = frames[Len(frames)] /\ Top \in Frame
    BY BelowTop DEF TypeInv
<1>2. /\ Apart(blocks, frames, curr_block, return_block) /\ Arms(frames) /\ Nested(frames)
      /\ \A i \in 1..Len(frames) : Keeps(frames[i], Len(blocks))
    BY DEF OpenInv, TypeInv
<1>3. \A w \in Waits(Top) : /\ w \in 1..Len(blocks) /\ Open(blocks[w].instrs)
                            /\ w # curr_block /\ w # return_block
    BY <1>1, <1>2, WaitsKept DEF Apart
<1>4. ASSUME NEW i \in 1..Len(Below)
      PROVE  Keeps(Below[i], Len(blocks)) /\ curr_block \notin Waits(Below[i])
             /\ Waits(Below[i]) \cap Waits(Top) = {}
    BY <1>1, <1>2 DEF Apart
<1>5. Apart(blocks, Below, curr_block, return_block)
    BY <1>1, <1>2 DEF Apart
<1>6. Arms(Below)
    BY <1>1, <1>2 DEF Arms
<1>7. Nested(Below)
  <2> SUFFICES ASSUME NEW i \in 1..Len(Below), Below[i].kind = "compound", i > 1
               PROVE  Below[i - 1].kind # "compound"
      BY DEF Nested
  <2>1. i - 1 \in 1..Len(Below)
      BY <1>1
  <2> QED
      BY <2>1, <1>1, <1>2 DEF Nested
<1>8. Top.kind = "else" => Top.trueBB_returned \/ Top.orig_block # Top.trueBB_location
    BY <1>1, <1>2 DEF Arms
<1>9. ASSUME Top.kind = "compound", Below # <<>> PROVE Last(Below).kind # "compound"
  <2>1. Len(Below) # 0
      BY <1>1, <1>9, EmptySeq
  <2>2. Len(frames) > 1 /\ Len(frames) - 1 \in 1..Len(Below)
      BY <2>1, <1>1
  <2>3. Last(Below) = frames[Len(frames) - 1]
      BY <2>2, <1>1 DEF Last
  <2> QED
      BY <2>2, <2>3, <1>1, <1>2, <1>9 DEF Nested
<1> QED
    BY <1>1, <1>2, <1>3, <1>4, <1>5, <1>6, <1>7, <1>8, <1>9

LEMMA OpenInit ==
    ASSUME Init
    PROVE  OpenInv
<1>1. Len(blocks) = 2 /\ Open(blocks[1].instrs) /\ blocks[2].instrs = <<>>
    BY InitBlocks
<1>2. \A b \in 1..Len(blocks) : Settled(blocks[b].instrs)
    BY <1>1, EmptyIsOpen DEF Settled
<1>3. Len(frames) = 1 /\ frames[1].kind = "compound" /\ curr_block = 1 /\ return_block = 2
    BY DEF Init
<1>4. Apart(blocks, frames, curr_block, return_block)
  <2>1. Waits(frames[1]) = {}
      BY <1>3 DEF Waits
  <2> QED
      BY <2>1, <1>3 DEF Apart
<1>5. Arms(frames) /\ Nested(frames)
    BY <1>3 DEF Arms, Nested
<1> QED
    BY <1>1, <1>2, <1>3, <1>4, <1>5 DEF OpenInv

\* A visitor that ends closes what waited for it, and goes on in a new block.
LEMMA OpenEnd ==
    ASSUME TypeInv, OpenInv, frames # <<>>, frames' = Below, control = "back",
           NEW K, Grown(blocks, blocks', Waits(Top) \cup {curr_block}, 1, K),
           curr_block' = Len(blocks) + 1, return_block' = return_block,
           blocks'[Len(blocks) + 1].instrs = <<>>,
           \A w \in Waits(Top) \cup {curr_block} : Settled(blocks'[w].instrs)
    PROVE  OpenInv'
<1> DEFINE m == Len(blocks)
<1>1. /\ m \in Nat /\ m + 1 \notin 1..m /\ Len(blocks') = m + 1
      /\ \A i \in 1..(m + 1) : i \in 1..m \/ i = m + 1
      /\ curr_block \in 1..m /\ return_block \in 1..m /\ blocks \in Seq(Block)
    BY LenProperties DEF TypeInv, Grown
<1>2. /\ Below \in Seq(Frame) /\ Arms(Below) /\ Nested(Below)
      /\ \A i \in 1..Len(Below) : Keeps(Below[i], Len(blocks))
                                  /\ curr_block \notin Waits(Below[i])
                                  /\ Waits(Below[i]) \cap Waits(Top) = {}
      /\ Apart(blocks, Below, curr_block, return_block)
      /\ return_block \notin Waits(Top)
    BY ApartBelow
<1>3. ASSUME NEW b \in 1..(m + 1) PROVE Settled(blocks'[b].instrs)
  <2>1. CASE b = m + 1
      BY <2>1, EmptyIsOpen DEF Settled
  <2>2. CASE b \in Waits(Top) \cup {curr_block}
      BY <2>2
  <2>3. CASE b \in 1..m /\ b \notin Waits(Top) \cup {curr_block}
    <3>1. blocks'[b].instrs = blocks[b].instrs
        BY <2>3 DEF Grown
    <3> QED
        BY <2>3, <3>1 DEF OpenInv
  <2> QED
      BY <1>1, <2>1, <2>2, <2>3
<1>4. Apart(blocks', Below, m + 1, return_block)
  <2>1. \A i \in 1..Len(Below) :
          Keeps(Below[i], Len(blocks)) /\ Waits(Below[i]) \cap (Waits(Top) \cup {curr_block}) = {}
      BY <1>2
  <2> QED
      BY <2>1, <1>1, <1>2, ApartStays
<1>5. blocks'[return_block].instrs = <<>>
  <2>1. return_block \notin Waits(Top) \cup {curr_block}
      BY <1>2 DEF OpenInv
  <2>2. blocks'[return_block].instrs = blocks[return_block].instrs
      BY <2>1, <1>1 DEF Grown
  <2> QED
      BY <2>2 DEF OpenInv
<1>6. curr_block' # return_block' /\ Open(blocks'[curr_block'].instrs)
    BY <1>1, EmptyIsOpen
<1> QED
    BY <1>1, <1>2, <1>3, <1>4, <1>5, <1>6 DEF OpenInv

\* What an expression, a condition or a return statement leaves open of the
\* blocks it adds to those there were: at most now and the one that waits.
LEMMA OpenVisit ==
    ASSUME TypeInv, OpenInv, control = "visit",
           NEW m \in Nat, NEW K, Grown(blocks, blocks', {curr_block}, m, K),
           \A b \in {curr_block} \cup ((Len(blocks) + 1)..Len(blocks')) :
               Settled(blocks'[b].instrs),
           curr_block' \notin 1..Len(blocks) \/ curr_block' = curr_block,
           return_block' = return_block
    PROVE  /\ \A b \in 1..Len(blocks') : Settled(blocks'[b].instrs)
           /\ Apart(blocks', frames, curr_block', return_block')
           /\ curr_block' # return_block' /\ blocks'[return_block'].instrs = <<>>
<1>1. Len(blocks) \in Nat /\ Len(blocks') = Len(blocks) + m /\ blocks \in Seq(Block)
      /\ frames \in Seq(Frame) /\ curr_block \in 1..Len(blocks) /\ return_block \in 1..Len(blocks)
    BY LenProperties DEF TypeInv, Grown
<1>2. ASSUME NEW b \in 1..Len(blocks') PROVE Settled(blocks'[b].instrs)
  <2>1. CASE b \in 1..Len(blocks) /\ b # curr_block
    <3>1. blocks'[b].instrs = blocks[b].instrs
        BY <2>1 DEF Grown
    <3> QED
        BY <2>1, <3>1 DEF OpenInv
  <2>2. CASE b = curr_block \/ b \notin 1..Len(blocks)
      BY <2>2, <1>1
  <2> QED
      BY <2>1, <2>2
<1>3. Apart(blocks', frames, curr_block', return_block)
  <2>1. Apart(blocks, frames, curr_block, return_block)
      BY DEF OpenInv
  <2>2. \A i \in 1..Len(frames) :
          Keeps(frames[i], Len(blocks)) /\ Waits(frames[i]) \cap {curr_block} = {}
      BY <2>1 DEF TypeInv, Apart
  <2> QED
      BY <1>1, <2>1, <2>2, ApartStays
<1>4. curr_block' # return_block /\ blocks'[return_block].instrs = blocks[return_block].instrs
    BY <1>1 DEF OpenInv, Grown
<1> QED
    BY <1>2, <1>3, <1>4 DEF OpenInv

LEMMA OpenStep ==
    ASSUME WithoutInnerOrIndexed,
           TypeInv, TypeInv', InsertsIntoCurrBlock, OpenInv, [Next]_vars
    PROVE  OpenInv'
<1>0. /\ blocks \in Seq(Block) /\ EdgesStay(blocks) /\ Len(blocks) \in Nat
      /\ curr_block \in 1..Len(blocks) /\ return_block \in 1..Len(blocks)
      /\ frames \in Seq(Frame) /\ curr_block # return_block
      /\ Arms(frames) /\ Nested(frames)
      /\ control = "visit" => Open(blocks[curr_block].instrs) /\ insert = curr_block
      /\ control = "back" => insert = curr_block
    BY LenProperties DEF TypeInv, OpenInv, InsertsIntoCurrBlock, HasReturned
<1>1. CASE UNCHANGED vars
    BY <1>1 DEF vars, codeVars, flagVars, OpenInv, HasReturned, Top
<1>2. CASE NextStatement
  <2>1. ~HasReturned
      BY <1>2 DEF NextStatement, In, HasReturned
  <2> QED
      BY <1>2, <2>1 DEF NextStatement, In, codeVars, OpenInv
<1>3. CASE LeaveCompound
  <2>1. /\ frames # <<>> /\ Top.kind = "compound" /\ frames' = Below /\ control = "back"
        /\ control' = control /\ is_returned_record' = is_returned
      BY <1>3 DEF LeaveCompound, In
  <2>2. /\ Apart(blocks, Below, curr_block, return_block) /\ Arms(Below) /\ Nested(Below)
        /\ Below # <<>> => Last(Below).kind # "compound"
      BY <2>1, ApartBelow
  <2>3. HasReturned' <=> HasReturned
    <3>1. HasReturned <=> is_returned
        BY <2>1 DEF HasReturned
    <3>2. HasReturned' <=> is_returned_record'
        BY <2>1, <2>2 DEF HasReturned, Top
    <3> QED
        BY <2>1, <3>1, <3>2
  <2> QED
      BY <1>3, <2>1, <2>2, <2>3 DEF LeaveCompound, codeVars, OpenInv
<1>4. CASE VisitCompound
  <2>1. control = "visit" /\ Top.kind # "compound" /\ control' = "back" /\ is_returned' = FALSE
        /\ return_block' = return_block /\ curr_block' = curr_block
      BY <1>4 DEF VisitCompound, WithoutInnerOrIndexed
  <2>2. blocks' = blocks \/ Fills(blocks, blocks', curr_block)
    <3>1. 0 \in 0..MaxStatements
        BY BoundsType
    <3> QED
        BY <1>0, <1>4, <2>1, <3>1, AddOpEffect DEF VisitCompound
  <2>3. Grown(blocks, blocks', {curr_block}, 0, {}) /\ Open(blocks'[curr_block].instrs)
    <3>1. \A i \in (Len(blocks) + 1)..Len(blocks) : FALSE
        BY <1>0
    <3> QED
        BY <2>1, <2>2, <3>1, <1>0 DEF Fills, Touches, Rewrites, Grown
  <2>4. \A b \in {curr_block} \cup ((Len(blocks) + 1)..Len(blocks')) : Settled(blocks'[b].instrs)
      BY <1>0, <2>3 DEF Settled, Grown
  <2>5. /\ \A b \in 1..Len(blocks') : Settled(blocks'[b].instrs)
        /\ Apart(blocks', frames, curr_block', return_block')
        /\ curr_block' # return_block' /\ blocks'[return_block'].instrs = <<>>
      BY <2>1, <2>3, <2>4, OpenVisit
  <2> DEFINE f == [kind |-> "compound"]
  <2>6. f \in Frame /\ f.kind = "compound" /\ Waits(f) = {} /\ frames' = Append(frames, f)
      BY <1>4 DEF Frame, CompoundFrame, Waits, VisitCompound
  <2> HIDE DEF f
  <2>7. Apart(blocks', frames', curr_block', return_block')
      BY <1>0, <2>5, <2>6, ApartPush
  <2>8. Arms(frames') /\ Nested(frames')
      BY <1>0, <2>1, <2>6, ShapePush DEF Top
  <2> QED
      BY <2>1, <2>3, <2>5, <2>7, <2>8 DEF OpenInv
<1>5. CASE VisitExpression
  <2>1. control = "visit" /\ return_block' = return_block /\ frames' = frames
      BY <1>5 DEF VisitExpression, Visits, flagVars
  <2>2. PICK n \in Nat : \E e :
          /\ ExpressionMade(blocks, insert, label_cnt, n, e)
          /\ blocks' = e.blocks
          /\ insert' = e.at /\ curr_block' = IF n > 0 THEN e.at ELSE curr_block
      BY <1>5, ExpressionStep
  <2>3. PICK e :
          /\ ExpressionMade(blocks, insert, label_cnt, n, e)
          /\ blocks' = e.blocks
          /\ insert' = e.at /\ curr_block' = IF n > 0 THEN e.at ELSE curr_block
      BY <2>2
  <2>4. /\ Grown(blocks, blocks', {curr_block}, n + n, {"arr_neg", "arr_ok"})
        /\ curr_block' = e.at /\ (e.at \notin 1..Len(blocks) \/ e.at = curr_block)
        /\ Open(blocks'[e.at].instrs)
        /\ \A i \in {curr_block} \cup ((Len(blocks) + 1)..Len(blocks')) :
             i # e.at => Closed(blocks'[i].instrs)
      BY <1>0, <2>1, <2>3 DEF ExpressionMade
  <2>5. \A b \in {curr_block} \cup ((Len(blocks) + 1)..Len(blocks')) : Settled(blocks'[b].instrs)
      BY <2>4 DEF Settled
  <2>6. n + n \in Nat
      OBVIOUS
  <2>7. /\ \A b \in 1..Len(blocks') : Settled(blocks'[b].instrs)
        /\ Apart(blocks', frames, curr_block', return_block')
        /\ curr_block' # return_block' /\ blocks'[return_block'].instrs = <<>>
      BY <2>1, <2>4, <2>5, <2>6, OpenVisit
  <2> QED
      BY <1>0, <2>1, <2>4, <2>7 DEF OpenInv
<1>6. CASE VisitReturn
  <2>1. control = "visit" /\ return_block' = return_block /\ frames' = frames
        /\ control' = "back" /\ is_returned' = TRUE /\ is_returned_record' = TRUE
      BY <1>6 DEF VisitReturn, Visits
  <2>2. PICK n \in Nat : \E e :
          /\ ReturnMade(blocks, insert, label_cnt, n, e, blocks')
          /\ n > 0 => e.at \notin 1..Len(blocks)
          /\ curr_block' = IF n > 0 THEN e.at ELSE curr_block
      BY <1>6, ReturnStep
  <2>3. /\ Grown(blocks, blocks', {curr_block}, n + n, {"arr_neg", "arr_ok"})
        /\ curr_block' \notin 1..Len(blocks) \/ curr_block' = curr_block
        /\ \A i \in {curr_block} \cup ((Len(blocks) + 1)..Len(blocks')) :
             Closed(blocks'[i].instrs)
      BY <1>0, <2>1, <2>2 DEF ReturnMade
  <2>4. \A b \in {curr_block} \cup ((Len(blocks) + 1)..Len(blocks')) : Settled(blocks'[b].instrs)
      BY <2>3 DEF Settled
  <2>5. n + n \in Nat
      OBVIOUS
  <2>6. /\ \A b \in 1..Len(blocks') : Settled(blocks'[b].instrs)
        /\ Apart(blocks', frames, curr_block', return_block')
        /\ curr_block' # return_block' /\ blocks'[return_block'].instrs = <<>>
      BY <2>1, <2>3, <2>4, <2>5, OpenVisit
  <2>7. HasReturned'
      BY <2>1 DEF HasReturned
  <2> QED
      BY <1>0, <2>1, <2>6, <2>7 DEF OpenInv
<1>7. CASE VisitSelection
  <2>1. control = "visit" /\ return_block' = return_block
      BY <1>7 DEF VisitSelection, Visits
  <2>2. PICK n \in Nat : \E e : \E f \in Frame :
          /\ SelectionMade(blocks, insert, label_cnt, n, e, blocks')
          /\ curr_block' = Len(blocks')
          /\ frames' = Append(frames, f) /\ f.kind = "then"
          /\ f.orig_block = IF n > 0 THEN e.at ELSE curr_block
      BY <1>7, SelectionStep
  <2>2a. PICK e : \E f \in Frame :
          /\ SelectionMade(blocks, insert, label_cnt, n, e, blocks')
          /\ curr_block' = Len(blocks')
          /\ frames' = Append(frames, f) /\ f.kind = "then"
          /\ f.orig_block = IF n > 0 THEN e.at ELSE curr_block
      BY <2>2
  <2>2b. PICK f \in Frame :
          /\ SelectionMade(blocks, insert, label_cnt, n, e, blocks')
          /\ curr_block' = Len(blocks')
          /\ frames' = Append(frames, f) /\ f.kind = "then"
          /\ f.orig_block = IF n > 0 THEN e.at ELSE curr_block
      BY <2>2a
  <2>2c. f.orig_block = e.at /\ insert = curr_block /\ Open(blocks[curr_block].instrs)
      BY <1>0, <2>1, <2>2b DEF SelectionMade
  <2>3. /\ Grown(blocks, blocks', {curr_block}, n + n + 1, {"arr_neg", "arr_ok", "selTrueBB"})
        /\ curr_block' \notin 1..Len(blocks) /\ frames' = Append(frames, f) /\ f.kind = "then"
        /\ f.orig_block \notin 1..Len(blocks) \/ f.orig_block = curr_block
        /\ f.orig_block # curr_block'
        /\ Open(blocks'[f.orig_block].instrs) /\ blocks'[curr_block'].instrs = <<>>
        /\ \A i \in {curr_block} \cup ((Len(blocks) + 1)..Len(blocks')) :
             i \notin {f.orig_block, curr_block'} => Closed(blocks'[i].instrs)
      BY <2>2b, <2>2c DEF SelectionMade
  <2>4. \A b \in {curr_block} \cup ((Len(blocks) + 1)..Len(blocks')) : Settled(blocks'[b].instrs)
      BY <2>3, EmptyIsOpen DEF Settled
  <2>5. n + n + 1 \in Nat
      OBVIOUS
  <2>6. /\ \A b \in 1..Len(blocks') : Settled(blocks'[b].instrs)
        /\ Apart(blocks', frames, curr_block', return_block')
        /\ curr_block' # return_block' /\ blocks'[return_block'].instrs = <<>>
      BY <2>1, <2>3, <2>4, <2>5, OpenVisit
  <2>7. Waits(f) = {f.orig_block}
      BY <2>3 DEF Waits
  <2>8. \A i \in 1..Len(frames) : Waits(frames[i]) \cap Waits(f) = {}
    <3>1. \A i \in 1..Len(frames) : Waits(frames[i]) \subseteq 1..Len(blocks)
                                    /\ curr_block \notin Waits(frames[i])
        BY <1>0, ElementOfSeq, WaitsKept DEF TypeInv, OpenInv, Apart
    <3> QED
        BY <2>3, <2>7, <3>1
  <2>9. Apart(blocks', frames', curr_block', return_block')
    <3>1. \A w \in Waits(f) :
            Open(blocks'[w].instrs) /\ w # curr_block' /\ w # return_block'
        BY <1>0, <2>1, <2>3, <2>7
    <3> QED
        BY <3>1, <1>0, <2>3, <2>6, <2>8, ApartPush
  <2>10. Arms(frames') /\ Nested(frames')
      BY <1>0, <2>3, ShapePush
  <2> QED
      BY <2>3, <2>6, <2>9, <2>10, EmptyIsOpen DEF OpenInv
<1>8. CASE VisitIteration
  <2>1. control = "visit" /\ return_block' = return_block
      BY <1>8 DEF VisitIteration, Visits
  <2>2. PICK n \in Nat : \E e : \E f \in Frame :
          /\ IterationMade(blocks, insert, label_cnt, n, e, blocks')
          /\ n > 0 => "indexed condition" \in Features
          /\ curr_block' = Len(blocks')
          /\ frames' = Append(frames, f) /\ f.kind = "body" /\ f.startBB = Len(blocks) + 1
      BY <1>8, IterationStep
  <2>3. n = 0
    <3>1. ~(n > 0)
        BY <2>2, Zenon DEF WithoutInnerOrIndexed
    <3> QED
        BY <3>1
  <2>4. PICK f \in Frame :
          /\ Grown(blocks, blocks', {curr_block}, n + n + 2,
                   {"arr_neg", "arr_ok", "loopStartBB", "loopBodyBB"})
          /\ curr_block' \notin 1..Len(blocks) /\ curr_block' = Len(blocks')
          /\ frames' = Append(frames, f) /\ f.kind = "body"
          /\ f.startBB = Len(blocks) + 1 /\ f.startBB # curr_block'
          /\ Open(blocks'[f.startBB].instrs) /\ blocks'[curr_block'].instrs = <<>>
          /\ Closed(blocks'[curr_block].instrs)
      BY <1>0, <2>1, <2>2, <2>3 DEF IterationMade
  <2>5. \A b \in {curr_block} \cup ((Len(blocks) + 1)..Len(blocks')) : Settled(blocks'[b].instrs)
    <3>1. Len(blocks') = Len(blocks) + 2
        BY <2>3, <2>4 DEF Grown
    <3>2. \A b \in (Len(blocks) + 1)..Len(blocks') : b = f.startBB \/ b = curr_block'
      <4>1. Len(blocks) \in Nat
          BY <1>0
      <4> QED
          BY <4>1, <2>4, <3>1
    <3> QED
        BY <2>4, <3>2, EmptyIsOpen DEF Settled
  <2>6. n + n + 2 \in Nat
      OBVIOUS
  <2>7. /\ \A b \in 1..Len(blocks') : Settled(blocks'[b].instrs)
        /\ Apart(blocks', frames, curr_block', return_block')
        /\ curr_block' # return_block' /\ blocks'[return_block'].instrs = <<>>
      BY <2>1, <2>4, <2>5, <2>6, OpenVisit
  <2>8. Waits(f) = {f.startBB} /\ f.startBB \notin 1..Len(blocks)
      BY <1>0, <2>4 DEF Waits
  <2>9. \A i \in 1..Len(frames) : Waits(frames[i]) \cap Waits(f) = {}
    <3>1. \A i \in 1..Len(frames) : Waits(frames[i]) \subseteq 1..Len(blocks)
        BY <1>0, ElementOfSeq, WaitsKept DEF TypeInv
    <3> QED
        BY <2>8, <3>1
  <2>10. Apart(blocks', frames', curr_block', return_block')
    <3>1. \A w \in Waits(f) :
            Open(blocks'[w].instrs) /\ w # curr_block' /\ w # return_block'
        BY <1>0, <2>1, <2>4, <2>8
    <3> QED
        BY <3>1, <1>0, <2>4, <2>7, <2>9, ApartPush
  <2>11. Arms(frames') /\ Nested(frames')
      BY <1>0, <2>4, ShapePush
  <2> QED
      BY <2>4, <2>7, <2>10, <2>11, EmptyIsOpen DEF OpenInv
<1>9. CASE EndIf
  <2>1. /\ frames' = Below /\ frames # <<>> /\ Top.kind = "then" /\ control = "back"
        /\ curr_block' = Len(blocks) + 1
        /\ IfEnded(blocks, blocks', Top.orig_block, curr_block, is_returned_record, Top.label_now)
      BY <1>9, EndIfStep
  <2>2. return_block' = return_block
      BY <1>9 DEF EndIf
  <2>3. Waits(Top) = {Top.orig_block} /\ {Top.orig_block, curr_block} = Waits(Top) \cup {curr_block}
      BY <2>1 DEF Waits
  <2>4. Top.orig_block # curr_block /\ Open(blocks[Top.orig_block].instrs)
      BY <2>1, <2>3, ApartBelow
  <2>5. /\ Settled(blocks[curr_block].instrs)
        /\ ~is_returned_record => Open(blocks[curr_block].instrs)
      BY <1>0, <2>1 DEF OpenInv, HasReturned
  <2>6. \A w \in Waits(Top) \cup {curr_block} : Settled(blocks'[w].instrs)
      BY <2>1, <2>3, <2>4, <2>5 DEF IfEnded, Settled
  <2>7. /\ Grown(blocks, blocks', Waits(Top) \cup {curr_block}, 1, {"selEndBB"})
        /\ blocks'[Len(blocks) + 1].instrs = <<>>
      BY <2>1, <2>3 DEF IfEnded
  <2> QED
      BY <2>1, <2>2, <2>6, <2>7, OpenEnd
<1>10. CASE EndIteration
  <2>1. /\ frames' = Below /\ frames # <<>> /\ Top.kind = "body" /\ control = "back"
        /\ curr_block' = Len(blocks) + 1
        /\ LoopEnded(blocks, blocks', curr_block, Top.startBB, is_returned_record, Top.label_now)
      BY <1>0, <1>10, EndIterationStep
  <2>2. return_block' = return_block
      BY <1>10 DEF EndIteration
  <2>3. Waits(Top) = {Top.startBB} /\ {curr_block, Top.startBB} = Waits(Top) \cup {curr_block}
      BY <2>1 DEF Waits
  <2>4. Top.startBB # curr_block /\ Open(blocks[Top.startBB].instrs)
      BY <2>1, <2>3, ApartBelow
  <2>5. /\ Settled(blocks[curr_block].instrs)
        /\ ~is_returned_record => Open(blocks[curr_block].instrs)
      BY <1>0, <2>1 DEF OpenInv, HasReturned
  <2>6. \A w \in Waits(Top) \cup {curr_block} : Settled(blocks'[w].instrs)
      BY <2>1, <2>3, <2>4, <2>5 DEF LoopEnded, Settled
  <2>7. /\ Grown(blocks, blocks', Waits(Top) \cup {curr_block}, 1, {"loopEndBB"})
        /\ blocks'[Len(blocks) + 1].instrs = <<>>
      BY <2>1, <2>3 DEF LoopEnded
  <2> QED
      BY <2>1, <2>2, <2>6, <2>7, OpenEnd
<1>11. CASE EndElse
  <2>1. /\ frames' = Below /\ frames # <<>> /\ Top.kind = "else" /\ control = "back"
        /\ curr_block' = Len(blocks) + 1 /\ Top.trueBB_returned \in BOOLEAN
        /\ ElseEnded(blocks, blocks', Top, curr_block, is_returned_record)
      BY <1>11, EndElseStep
  <2>2. return_block' = return_block
      BY <1>11 DEF EndElse
  <2> DEFINE loc == IF Top.trueBB_returned THEN {} ELSE {Top.trueBB_location}
  <2>3. Waits(Top) = {Top.orig_block} \cup loc
      BY <2>1 DEF Waits
  <2>4. /\ Top.orig_block # curr_block /\ Open(blocks[Top.orig_block].instrs)
        /\ Top.trueBB_returned \/ Top.trueBB_location \notin {Top.orig_block, curr_block}
        /\ Top.trueBB_returned \/ Open(blocks[Top.trueBB_location].instrs)
      BY <2>1, <2>3, ApartBelow
  <2>5. /\ Settled(blocks[curr_block].instrs)
        /\ ~is_returned_record => Open(blocks[curr_block].instrs)
      BY <1>0, <2>1 DEF OpenInv, HasReturned
  <2>6. /\ Closed(blocks'[Top.orig_block].instrs)
        /\ ~Top.trueBB_returned => Closed(blocks'[Top.trueBB_location].instrs)
        /\ Settled(blocks'[curr_block].instrs)
      BY <2>1, <2>4, <2>5 DEF ElseEnded, Settled
  <2>7. \A w \in Waits(Top) \cup {curr_block} : Settled(blocks'[w].instrs)
      BY <2>3, <2>6 DEF Settled
  <2>8. {Top.orig_block, curr_block} \cup loc = Waits(Top) \cup {curr_block}
      BY <2>3
  <2>9. /\ Grown(blocks, blocks', Waits(Top) \cup {curr_block}, 1, {"selEndBB"})
        /\ blocks'[Len(blocks) + 1].instrs = <<>>
      BY <2>1, <2>8 DEF ElseEnded
  <2> QED
      BY <2>1, <2>2, <2>7, <2>9, OpenEnd
<1>12. CASE VisitElse
  <2>1. PICK f \in Frame :
          /\ frames # <<>> /\ Top.kind = "then" /\ control = "back"
          /\ Created(blocks, blocks', "selFalseBB", Top.label_now)
          /\ curr_block' = Len(blocks')
          /\ frames' = Append(Below, f) /\ f.kind = "else"
          /\ f.orig_block = Top.orig_block /\ f.trueBB_location = curr_block
          /\ f.trueBB_returned = is_returned_record
      BY <1>12, ElseStep
  <2>2. return_block' = return_block
      BY <1>12 DEF VisitElse
  <2>3. /\ blocks' \in Seq(Block) /\ EdgesStay(blocks') /\ Len(blocks') = Len(blocks) + 1
        /\ \A i \in 1..Len(blocks) : blocks'[i] = blocks[i]
        /\ blocks'[Len(blocks) + 1].instrs = <<>>
        /\ blocks'[Len(blocks) + 1].label[1] = "selFalseBB"
      BY <2>1 DEF Created
  <2>4. /\ curr_block' \notin 1..Len(blocks)
        /\ \A i \in 1..Len(blocks') : i \in 1..Len(blocks) \/ i = Len(blocks) + 1
    <3>1. Len(blocks) \in Nat
        BY <1>0
    <3> QED
        BY <3>1, <2>1, <2>3
  <2>5. \A b \in 1..Len(blocks') : Settled(blocks'[b].instrs)
      BY <2>3, <2>4, EmptyIsOpen DEF OpenInv, Settled
  <2>6. Waits(Top) = {Top.orig_block}
        /\ Waits(f) = {Top.orig_block} \cup (IF is_returned_record THEN {} ELSE {curr_block})
      BY <2>1 DEF Waits
  <2>7. /\ Below \in Seq(Frame) /\ Arms(Below) /\ Nested(Below)
        /\ \A i \in 1..Len(Below) : Keeps(Below[i], Len(blocks))
                                    /\ curr_block \notin Waits(Below[i])
                                    /\ Waits(Below[i]) \cap Waits(Top) = {}
        /\ \A w \in Waits(Top) : /\ w \in 1..Len(blocks) /\ Open(blocks[w].instrs)
                                 /\ w # curr_block /\ w # return_block
        /\ Apart(blocks, Below, curr_block, return_block)
      BY <2>1, ApartBelow
  <2>8. ~is_returned_record => Open(blocks[curr_block].instrs)
      BY <2>1 DEF OpenInv, HasReturned
  <2>9. Apart(blocks', Below, curr_block', return_block)
    <3>1. Grown(blocks, blocks', {}, 1, {"selFalseBB"})
      <4>1. \A i \in (Len(blocks) + 1)..Len(blocks') : i = Len(blocks) + 1
          BY <1>0, <2>3
      <4> QED
          BY <2>3, <4>1 DEF Grown
    <3>2. \A i \in 1..Len(Below) : Keeps(Below[i], Len(blocks)) /\ Waits(Below[i]) \cap {} = {}
        BY <2>7
    <3> QED
        BY <1>0, <2>4, <2>7, <3>1, <3>2, ApartStays
  <2>10. Apart(blocks', frames', curr_block', return_block')
    <3>1. \A w \in Waits(f) : Open(blocks'[w].instrs) /\ w # curr_block' /\ w # return_block
        BY <1>0, <2>3, <2>4, <2>6, <2>7, <2>8
    <3>2. \A i \in 1..Len(Below) : Waits(Below[i]) \cap Waits(f) = {}
        BY <2>6, <2>7
    <3> QED
        BY <3>1, <3>2, <2>1, <2>2, <2>7, <2>9, ApartPush
  <2>11. Arms(frames') /\ Nested(frames')
    <3>1. f.trueBB_returned \/ f.orig_block # f.trueBB_location
        BY <2>1, <2>6, <2>7
    <3> QED
        BY <3>1, <2>1, <2>7, ShapePush
  <2>12. curr_block' # return_block' /\ blocks'[return_block'].instrs = <<>>
      BY <1>0, <2>1, <2>2, <2>3, <2>4 DEF OpenInv
  <2> QED
      BY <2>1, <2>3, <2>5, <2>10, <2>11, <2>12, EmptyIsOpen DEF OpenInv
<1>13. CASE EndFunction
  <2>1. control = "back" /\ frames = <<>> /\ control' = "end" /\ frames' = frames
        /\ curr_block' = curr_block /\ return_block' = return_block
      BY <1>13 DEF EndFunction
  <2>2. PICK falls \in BOOLEAN : FunctionEnded(blocks, blocks', curr_block, return_block, falls)
      BY <1>13, EndFunctionStep
  <2>3. /\ Grown(blocks, blocks', {curr_block, return_block}, 0, {})
        /\ falls => Closed(blocks'[curr_block].instrs)
        /\ ~falls => blocks'[curr_block].instrs = blocks[curr_block].instrs
        /\ Closed(blocks'[return_block].instrs)
      BY <1>0, <2>1, <2>2 DEF FunctionEnded, OpenInv
  <2>4. \A b \in 1..Len(blocks') : Settled(blocks'[b].instrs)
    <3>1. Len(blocks') = Len(blocks)
        BY <1>0, <2>3 DEF Grown
    <3>2. Settled(blocks'[curr_block].instrs) /\ Settled(blocks'[return_block].instrs)
        BY <1>0, <2>3 DEF OpenInv, Settled
    <3>3. \A b \in 1..Len(blocks) : b \notin {curr_block, return_block} =>
            blocks'[b].instrs = blocks[b].instrs
        BY <2>3 DEF Grown
    <3> QED
        BY <3>1, <3>2, <3>3 DEF OpenInv
  <2>5. Apart(blocks', frames, curr_block, return_block)
    <3>1. Len(frames) = 0
        BY <2>1
    <3> QED
        BY <3>1 DEF Apart
  <2> QED
      BY <1>0, <2>1, <2>4, <2>5 DEF OpenInv
<1> QED
    BY <1>1, <1>2, <1>3, <1>4, <1>5, <1>6, <1>7, <1>8, <1>9, <1>10, <1>11, <1>12, <1>13
       DEF Next, Done

LEMMA OpenInvIsInvariant ==
    ASSUME WithoutInnerOrIndexed
    PROVE  Spec => []OpenInv
<1>1. Init => OpenInv
    BY OpenInit
<1>2. TypeInv /\ TypeInv' /\ InsertsIntoCurrBlock /\ OpenInv /\ [Next]_vars => OpenInv'
    BY OpenStep
<1> QED
    BY <1>1, <1>2, TypeInvIsInvariant, InsertPointIsCurrBlock, PTL DEF Spec

\* No visitor goes on in a block another has closed, nor does it close one a
\* second time. An inner block forgets a return, and the branch of a loop whose
\* condition accesses an array is put into the wrong block: without the two.
THEOREM NothingBehindTerminators ==
    ASSUME WithoutInnerOrIndexed
    PROVE  Spec => []NothingAfterTerminator
<1>1. TypeInv /\ OpenInv => NothingAfterTerminator
  <2> SUFFICES ASSUME TypeInv, OpenInv, NEW b \in BlockIndex,
                      NEW i \in 1..(Len(blocks[b].instrs) - 1)
               PROVE  ~IsTerminator(blocks[b].instrs[i])
      BY DEF NothingAfterTerminator
  <2>1. b \in 1..Len(blocks)
      BY LenProperties DEF BlockIndex, TypeInv
  <2>2. blocks[b].instrs \in Seq(Instrs)
      BY <2>1, BlockAt DEF TypeInv
  <2>3. i \in 1..Len(blocks[b].instrs)
      BY <2>2, LenProperties
  <2>4. Open(blocks[b].instrs) \/ Closed(blocks[b].instrs)
      BY <2>1 DEF OpenInv, Settled
  <2> QED
      BY <2>3, <2>4 DEF Open, Closed
<1> QED
    BY <1>1, TypeInvIsInvariant, OpenInvIsInvariant, PTL

-----------------------------------------------------------------------------
(***************************************************************************)
(* The terminators: every block gets one.                                  *)
(***************************************************************************)
LEMMA WaitingPush ==
    ASSUME NEW s \in Seq(Frame), NEW f \in Frame
    PROVE  Waiting(Append(s, f)) = Waiting(s) \cup Waits(f)
<1> DEFINE t == Append(s, f)
<1>1. /\ \A i \in 1..Len(s) : t[i] = s[i] /\ i \in 1..Len(t)
      /\ t[Len(s) + 1] = f /\ Len(s) + 1 \in 1..Len(t)
      /\ \A i \in 1..Len(t) : i \in 1..Len(s) \/ i = Len(s) + 1
  <2>1. /\ Len(t) = Len(s) + 1 /\ Len(s) \in Nat
        /\ \A i \in 1..Len(s) : t[i] = s[i]
        /\ t[Len(s) + 1] = f
        /\ \A i \in 1..Len(t) : i \in 1..Len(s) \/ i = Len(s) + 1
      BY Pushed
  <2> HIDE DEF t
  <2> QED
      BY <2>1
<1> HIDE DEF t
<1> QED
    BY <1>1 DEF Waiting, t

LEMMA WaitingBelow ==
    ASSUME frames \in Seq(Frame), frames # <<>>
    PROVE  Waiting(frames) = Waiting(Below) \cup Waits(Top)
<1>1. /\ Len(Below) = Len(frames) - 1 /\ Len(frames) \in Nat \ {0}
      /\ \A i \in 1..Len(Below) : i \in 1..Len(frames) /\ Below[i] = frames[i]
      /\ Len(frames) \in 1..Len(frames) /\ Top = frames[Len(frames)]
    BY BelowTop
<1>2. \A i \in 1..Len(frames) : i \in 1..Len(Below) \/ i = Len(frames)
    BY <1>1
<1> QED
    BY <1>1, <1>2 DEF Waiting

LEMMA AlternatingPush ==
    ASSUME NEW s \in Seq(Frame), NEW f \in Frame, Alternating(s),
           f.kind = "compound" <=> s = <<>> \/ Last(s).kind # "compound"
    PROVE  Alternating(Append(s, f))
<1> DEFINE t == Append(s, f)
<1>1. /\ \A i \in 1..Len(s) : t[i] = s[i]
      /\ t[Len(s) + 1] = f /\ Len(s) \in Nat
      /\ \A i \in 1..Len(t) : i \in 1..Len(s) \/ i = Len(s) + 1
    BY Pushed
<1>2. f.kind = "compound" <=> (Len(s) + 1) % 2 = 1
  <2>1. CASE s = <<>>
    <3>1. Len(s) = 0
        BY <2>1
    <3> QED
        BY <2>1, <3>1
  <2>2. CASE s # <<>>
    <3>1. Len(s) \in 1..Len(s) /\ Last(s) = s[Len(s)]
        BY <2>2, <1>1, EmptySeq DEF Last
    <3>2. Last(s).kind = "compound" <=> Len(s) % 2 = 1
        BY <3>1 DEF Alternating
    <3>3. (Len(s) + 1) % 2 = 1 <=> ~(Len(s) % 2 = 1)
        BY <1>1
    <3> QED
        BY <2>2, <3>2, <3>3
  <2> QED
      BY <2>1, <2>2
<1> HIDE DEF t
<1> QED
    BY <1>1, <1>2 DEF Alternating, t

LEMMA AlternatingBelow ==
    ASSUME frames \in Seq(Frame), frames # <<>>, Alternating(frames)
    PROVE  /\ Alternating(Below)
           /\ Top.kind = "compound" <=> Below = <<>> \/ Last(Below).kind # "compound"
<1> DEFINE n == Len(frames)
<1>1. /\ Below \in Seq(Frame) /\ Len(Below) = n - 1 /\ n \in Nat \ {0}
      /\ \A i \in 1..Len(Below) : i \in 1..n /\ Below[i] = frames[i]
      /\ n \in 1..n /\ Top = frames[n]
    BY BelowTop
<1> HIDE DEF n
<1>2. Alternating(Below)
    BY <1>1 DEF Alternating, n
<1>3. Top.kind = "compound" <=> n % 2 = 1
    BY <1>1 DEF Alternating, n
<1>4. CASE Below = <<>>
  <2>1. n = 1
      BY <1>1, <1>4, EmptySeq
  <2> QED
      BY <2>1, <1>2, <1>3, <1>4
<1>5. CASE Below # <<>>
  <2>1. n - 1 \in 1..Len(Below) /\ Last(Below) = Below[n - 1]
      BY <1>1, <1>5, EmptySeq DEF Last
  <2>2. Last(Below).kind = "compound" <=> (n - 1) % 2 = 1
      BY <2>1, <1>2 DEF Alternating
  <2>3. (n - 1) % 2 = 1 <=> ~(n % 2 = 1)
      BY <1>1
  <2> QED
      BY <2>2, <2>3, <1>2, <1>3, <1>5
<1> QED
    BY <1>4, <1>5

\* Every block stays covered if the ones that change, and the new ones, are.
LEMMA CoveredGrown ==
    ASSUME NEW bs \in Seq(Block), NEW new, NEW C, NEW m \in Nat, NEW K, Grown(bs, new, C, m, K),
           NEW W, NEW cur, NEW ret, Covered(bs, W, cur, ret),
           NEW V, NEW now, W \ C \subseteq V, cur \in C \cup {now},
           \A b \in C \cup ((Len(bs) + 1)..Len(new)) :
               Closed(new[b].instrs) \/ b = now \/ b \in V
    PROVE  Covered(new, V, now, ret)
<1> SUFFICES ASSUME NEW b \in 1..Len(new)
             PROVE  Closed(new[b].instrs) \/ b \in {now, ret} \/ b \in V
    BY DEF Covered
<1>1. Len(bs) \in Nat /\ Len(new) = Len(bs) + m
    BY LenProperties DEF Grown
<1>2. CASE b \in C \/ b \notin 1..Len(bs)
    BY <1>1, <1>2
<1>3. CASE b \in 1..Len(bs) /\ b \notin C
  <2>1. new[b].instrs = bs[b].instrs
      BY <1>3 DEF Grown
  <2> QED
      BY <1>3, <2>1 DEF Covered
<1> QED
    BY <1>2, <1>3

\* The choices the plain programs leave.
LEMMA PlainVisits ==
    ASSUME Plain
    PROVE  /\ WithoutInnerOrIndexed
           /\ MayBeBare => Top.kind = "compound"
           /\ VisitCompound => Top.kind # "compound"
<1>1. WithoutInnerOrIndexed
    BY Zenon DEF Plain, WithoutInnerOrIndexed
<1>2. MayBeBare => Top.kind = "compound"
    BY Zenon DEF Plain, MayBeBare
<1>3. VisitCompound => Top.kind # "compound"
    BY Zenon DEF Plain, VisitCompound
<1> QED
    BY <1>1, <1>2, <1>3

LEMMA ClosedInit ==
    ASSUME Init
    PROVE  ClosedInv
<1>1. Len(blocks) = 2
    BY InitBlocks
<1>2. /\ Len(frames) = 1 /\ frames[1].kind = "compound" /\ curr_block = 1 /\ return_block = 2
      /\ frames # <<>> /\ control = "back" /\ is_returned = FALSE /\ exits # {}
    BY DEF Init
<1>3. Top.kind = "compound"
    BY <1>2 DEF Top, Last
<1>4. Alternating(frames)
    BY <1>2 DEF Alternating
<1>5. Covered(blocks, Waiting(frames), curr_block, return_block)
    BY <1>1, <1>2 DEF Covered
<1> QED
    BY <1>2, <1>3, <1>4, <1>5 DEF ClosedInv, HasReturned

\* A visitor that ends has closed what waited for it and where it was.
LEMMA ClosedEnd ==
    ASSUME TypeInv, ClosedInv, frames # <<>>, Top.kind # "compound", frames' = Below,
           control = "back", control' = control, is_returned' = FALSE,
           NEW K, Grown(blocks, blocks', Waits(Top) \cup {curr_block}, 1, K),
           curr_block' = Len(blocks) + 1, return_block' = return_block,
           blocks'[Len(blocks) + 1].instrs = <<>>,
           \A w \in Waits(Top) \cup {curr_block} : Closed(blocks'[w].instrs)
    PROVE  ClosedInv'
<1> DEFINE now == Len(blocks) + 1
<1>1. Alternating(Below) /\ Below # <<>> /\ Last(Below).kind = "compound"
    BY AlternatingBelow DEF TypeInv, ClosedInv
<1>2. Covered(blocks', Waiting(Below), now, return_block)
  <2>1. blocks \in Seq(Block) /\ Len(blocks) \in Nat /\ Len(blocks') = now
      BY LenProperties DEF TypeInv, Grown
  <2>2. Covered(blocks, Waiting(frames), curr_block, return_block)
      BY DEF ClosedInv
  <2>3. Waiting(frames) \ (Waits(Top) \cup {curr_block}) \subseteq Waiting(Below)
      BY WaitingBelow DEF TypeInv
  <2>4. \A b \in (Len(blocks) + 1)..Len(blocks') : b = now
      BY <2>1
  <2>5. \A b \in (Waits(Top) \cup {curr_block}) \cup ((Len(blocks) + 1)..Len(blocks')) :
          Closed(blocks'[b].instrs) \/ b = now \/ b \in Waiting(Below)
      BY <2>4
  <2> HIDE DEF now
  <2> QED
      BY <2>1, <2>2, <2>3, <2>5, CoveredGrown
<1>3. ~HasReturned'
    BY <1>1 DEF HasReturned, Top
<1> QED
    BY <1>1, <1>2, <1>3 DEF ClosedInv, Top

LEMMA ClosedStep ==
    ASSUME Plain, TypeInv, TypeInv', InsertsIntoCurrBlock, OpenInv, ClosedInv, [Next]_vars
    PROVE  ClosedInv'
<1>0. /\ blocks \in Seq(Block) /\ Len(blocks) \in Nat
      /\ curr_block \in 1..Len(blocks) /\ return_block \in 1..Len(blocks)
      /\ frames \in Seq(Frame) /\ Alternating(frames)
      /\ Covered(blocks, Waiting(frames), curr_block, return_block)
      /\ control = "visit" => /\ Open(blocks[curr_block].instrs) /\ insert = curr_block
                              /\ frames # <<>> /\ ~is_returned
                              /\ Top.kind # "compound" => exits # {}
      /\ control = "back" => insert = curr_block
    BY LenProperties DEF TypeInv, OpenInv, ClosedInv, InsertsIntoCurrBlock, HasReturned
<1>1. CASE UNCHANGED vars
    BY <1>1 DEF vars, codeVars, flagVars, specVars, ClosedInv, HasReturned, Top, Cut,
                RunsOffItsEnd
<1>2. CASE NextStatement
    BY <1>2 DEF NextStatement, In, codeVars, flagVars, specVars, ClosedInv, HasReturned, Top
<1>3. CASE LeaveCompound
  <2>1. /\ frames # <<>> /\ Top.kind = "compound" /\ frames' = Below /\ control = "back"
        /\ control' = control /\ is_returned_record' = is_returned /\ is_returned' = FALSE
        /\ UNCHANGED codeVars /\ exits' = exits
      BY <1>3 DEF LeaveCompound, In, specVars
  <2>2. Alternating(Below) /\ (Below # <<>> => Last(Below).kind # "compound")
      BY <1>0, <2>1, AlternatingBelow
  <2>3. Waiting(Below) = Waiting(frames)
      BY <1>0, <2>1, WaitingBelow DEF Waits
  <2>4. HasReturned' <=> HasReturned
      BY <2>1, <2>2 DEF HasReturned, Top
  <2> QED
      BY <1>0, <2>1, <2>2, <2>3, <2>4 DEF ClosedInv, codeVars
<1>4. CASE VisitCompound
  <2>1. /\ control = "visit" /\ Top.kind # "compound" /\ control' = "back"
        /\ is_returned' = FALSE /\ exits' = exits /\ exits # {}
        /\ return_block' = return_block /\ curr_block' = curr_block
      BY <1>0, <1>4, PlainVisits DEF VisitCompound, specVars
  <2>2. blocks' = blocks \/ Fills(blocks, blocks', curr_block)
    <3>1. 0 \in 0..MaxStatements
        BY BoundsType
    <3> QED
        BY <1>0, <1>4, <2>1, <3>1, AddOpEffect DEF VisitCompound, TypeInv
  <2>3. Grown(blocks, blocks', {curr_block}, 0, {}) /\ Len(blocks') = Len(blocks)
    <3>1. \A i \in (Len(blocks) + 1)..Len(blocks) : FALSE
        BY <1>0
    <3>2. EdgesStay(blocks)
        BY DEF TypeInv
    <3> QED
        BY <2>1, <2>2, <3>1, <3>2, <1>0 DEF Fills, Touches, Rewrites, Grown
  <2> DEFINE f == [kind |-> "compound"]
  <2>4. f \in Frame /\ f.kind = "compound" /\ Waits(f) = {} /\ frames' = Append(frames, f)
      BY <1>4 DEF Frame, CompoundFrame, Waits, VisitCompound
  <2> HIDE DEF f
  <2>5. Waiting(frames') = Waiting(frames) /\ Alternating(frames')
      BY <1>0, <2>1, <2>4, WaitingPush, AlternatingPush DEF Top
  <2>6. Covered(blocks', Waiting(frames), curr_block, return_block)
    <3>1. \A b \in {curr_block} \cup ((Len(blocks) + 1)..Len(blocks')) : b = curr_block
        BY <1>0, <2>3
    <3>2. 0 \in Nat /\ Waiting(frames) \ {curr_block} \subseteq Waiting(frames)
        OBVIOUS
    <3> QED
        BY <1>0, <2>3, <3>1, <3>2, CoveredGrown
  <2>7. Top'.kind = "compound" /\ frames' # <<>>
      BY <1>0, <2>4, Pushed DEF Top
  <2>8. ~HasReturned'
      BY <2>1, <2>7 DEF HasReturned
  <2> QED
      BY <2>1, <2>5, <2>6, <2>7, <2>8 DEF ClosedInv
<1>5. CASE VisitExpression
  <2>1. /\ control = "visit" /\ return_block' = return_block /\ frames' = frames
        /\ Top.kind = "compound" /\ control' = "back" /\ exits' # {}
        /\ is_returned' = FALSE
    <3>1. is_returned' = is_returned /\ is_returned \in BOOLEAN
        BY <1>5 DEF VisitExpression, flagVars, TypeInv
    <3> QED
        BY <1>0, <1>5, <3>1, PlainVisits DEF VisitExpression, Visits
  <2>2. PICK n \in Nat : \E e :
          /\ ExpressionMade(blocks, insert, label_cnt, n, e)
          /\ blocks' = e.blocks
          /\ insert' = e.at /\ curr_block' = IF n > 0 THEN e.at ELSE curr_block
      BY <1>5, ExpressionStep
  <2>3. PICK e :
          /\ ExpressionMade(blocks, insert, label_cnt, n, e)
          /\ blocks' = e.blocks
          /\ insert' = e.at /\ curr_block' = IF n > 0 THEN e.at ELSE curr_block
      BY <2>2
  <2>4. /\ Grown(blocks, blocks', {curr_block}, n + n, {"arr_neg", "arr_ok"})
        /\ \A i \in {curr_block} \cup ((Len(blocks) + 1)..Len(blocks')) :
             i # curr_block' => Closed(blocks'[i].instrs)
      BY <1>0, <2>1, <2>3 DEF ExpressionMade
  <2>5. Covered(blocks', Waiting(frames), curr_block', return_block)
    <3>1. n + n \in Nat /\ Waiting(frames) \ {curr_block} \subseteq Waiting(frames)
        OBVIOUS
    <3> QED
        BY <1>0, <2>4, <3>1, CoveredGrown
  <2>6. Top' = Top /\ frames' # <<>>
      BY <1>0, <2>1 DEF Top
  <2>7. ~HasReturned'
      BY <2>1, <2>6 DEF HasReturned
  <2> QED
      BY <1>0, <2>1, <2>5, <2>6, <2>7 DEF ClosedInv
<1>6. CASE VisitReturn
  <2>1. /\ control = "visit" /\ return_block' = return_block /\ frames' = frames
        /\ Top.kind = "compound" /\ control' = "back"
      BY <1>6, PlainVisits DEF VisitReturn, Visits
  <2>2. PICK n \in Nat : \E e :
          /\ ReturnMade(blocks, insert, label_cnt, n, e, blocks')
          /\ e.at \in 1..Len(blocks')
          /\ n > 0 => e.at \notin 1..Len(blocks)
          /\ curr_block' = IF n > 0 THEN e.at ELSE curr_block
      BY <1>6, ReturnStep
  <2>3. /\ Grown(blocks, blocks', {curr_block}, n + n, {"arr_neg", "arr_ok"})
        /\ \A i \in {curr_block} \cup ((Len(blocks) + 1)..Len(blocks')) :
             Closed(blocks'[i].instrs)
      BY <1>0, <2>1, <2>2 DEF ReturnMade
  <2>4. curr_block' \in {curr_block} \cup ((Len(blocks) + 1)..Len(blocks'))
    <3>1. Len(blocks') \in Nat
        BY LenProperties DEF TypeInv
    <3> QED
        BY <1>0, <2>2, <3>1
  <2>5. Closed(blocks'[curr_block'].instrs) /\ ~Open(blocks'[curr_block'].instrs)
    <3>1. curr_block' \in 1..Len(blocks') /\ blocks' \in Seq(Block)
        BY DEF TypeInv
    <3>2. blocks'[curr_block'].instrs \in Seq(Instrs)
        BY <3>1, BlockAt
    <3> QED
        BY <2>3, <2>4, <3>2, NotBoth
  <2>6. Covered(blocks', Waiting(frames), curr_block', return_block)
    <3>1. n + n \in Nat /\ Waiting(frames) \ {curr_block} \subseteq Waiting(frames)
        OBVIOUS
    <3> QED
        BY <1>0, <2>3, <3>1, CoveredGrown
  <2>7. Top' = Top /\ frames' # <<>>
      BY <1>0, <2>1 DEF Top
  <2> QED
      BY <1>0, <2>1, <2>5, <2>6, <2>7 DEF ClosedInv
<1>7. CASE VisitSelection
  <2>1. /\ control = "visit" /\ return_block' = return_block
        /\ Top.kind = "compound" /\ control' = "visit" /\ exits' # {}
        /\ is_returned' = is_returned
      BY <1>7, PlainVisits DEF VisitSelection, Visits, flagVars
  <2>2. PICK n \in Nat : \E e : \E f \in Frame :
          /\ SelectionMade(blocks, insert, label_cnt, n, e, blocks')
          /\ curr_block' = Len(blocks')
          /\ frames' = Append(frames, f) /\ f.kind = "then"
          /\ f.orig_block = IF n > 0 THEN e.at ELSE curr_block
      BY <1>7, SelectionStep
  <2>2a. PICK e : \E f \in Frame :
          /\ SelectionMade(blocks, insert, label_cnt, n, e, blocks')
          /\ curr_block' = Len(blocks')
          /\ frames' = Append(frames, f) /\ f.kind = "then"
          /\ f.orig_block = IF n > 0 THEN e.at ELSE curr_block
      BY <2>2
  <2>2b. PICK f \in Frame :
          /\ SelectionMade(blocks, insert, label_cnt, n, e, blocks')
          /\ curr_block' = Len(blocks')
          /\ frames' = Append(frames, f) /\ f.kind = "then"
          /\ f.orig_block = IF n > 0 THEN e.at ELSE curr_block
      BY <2>2a
  <2>2c. f.orig_block = e.at /\ insert = curr_block /\ Open(blocks[curr_block].instrs)
      BY <1>0, <2>1, <2>2b DEF SelectionMade
  <2>3. /\ Grown(blocks, blocks', {curr_block}, n + n + 1, {"arr_neg", "arr_ok", "selTrueBB"})
        /\ frames' = Append(frames, f) /\ f.kind = "then"
        /\ \A i \in {curr_block} \cup ((Len(blocks) + 1)..Len(blocks')) :
             i \notin {f.orig_block, curr_block'} => Closed(blocks'[i].instrs)
      BY <2>2b, <2>2c DEF SelectionMade
  <2>4. Waiting(frames') = Waiting(frames) \cup {f.orig_block} /\ Alternating(frames')
    <3>1. Waits(f) = {f.orig_block}
        BY <2>3 DEF Waits
    <3> QED
        BY <1>0, <2>1, <2>3, <3>1, WaitingPush, AlternatingPush DEF Top
  <2>5. Covered(blocks', Waiting(frames'), curr_block', return_block)
    <3>1. n + n + 1 \in Nat /\ Waiting(frames) \ {curr_block} \subseteq Waiting(frames')
        BY <2>4
    <3>2. \A b \in {curr_block} \cup ((Len(blocks) + 1)..Len(blocks')) :
            Closed(blocks'[b].instrs) \/ b = curr_block' \/ b \in Waiting(frames')
        BY <2>3, <2>4
    <3> QED
        BY <1>0, <2>3, <3>1, <3>2, CoveredGrown
  <2>6. ~HasReturned'
      BY <2>1 DEF HasReturned
  <2> QED
      BY <1>0, <2>1, <2>4, <2>5, <2>6 DEF ClosedInv
<1>8. CASE VisitIteration
  <2>1. /\ control = "visit" /\ return_block' = return_block
        /\ Top.kind = "compound" /\ control' = "visit" /\ exits' # {}
        /\ is_returned' = is_returned
      BY <1>8, PlainVisits DEF VisitIteration, Visits, flagVars
  <2>2. PICK n \in Nat : \E e : \E f \in Frame :
          /\ IterationMade(blocks, insert, label_cnt, n, e, blocks')
          /\ n > 0 => "indexed condition" \in Features
          /\ curr_block' = Len(blocks')
          /\ frames' = Append(frames, f) /\ f.kind = "body" /\ f.startBB = Len(blocks) + 1
      BY <1>8, IterationStep
  <2>3. n = 0
    <3>1. ~(n > 0)
        BY <2>2, Zenon DEF Plain
    <3> QED
        BY <3>1
  <2>4. PICK f \in Frame :
          /\ Grown(blocks, blocks', {curr_block}, n + n + 2,
                   {"arr_neg", "arr_ok", "loopStartBB", "loopBodyBB"})
          /\ curr_block' = Len(blocks')
          /\ frames' = Append(frames, f) /\ f.kind = "body"
          /\ f.startBB = Len(blocks) + 1
          /\ Closed(blocks'[curr_block].instrs)
      BY <1>0, <2>1, <2>2, <2>3 DEF IterationMade
  <2>5. Waiting(frames') = Waiting(frames) \cup {f.startBB} /\ Alternating(frames')
    <3>1. Waits(f) = {f.startBB}
        BY <2>4 DEF Waits
    <3> QED
        BY <1>0, <2>1, <2>4, <3>1, WaitingPush, AlternatingPush DEF Top
  <2>6. Covered(blocks', Waiting(frames'), curr_block', return_block)
    <3>1. n + n + 2 \in Nat /\ Waiting(frames) \ {curr_block} \subseteq Waiting(frames')
        BY <2>5
    <3>2. \A b \in (Len(blocks) + 1)..Len(blocks') : b = f.startBB \/ b = curr_block'
      <4>1. Len(blocks') = Len(blocks) + 2
          BY <2>3, <2>4 DEF Grown
      <4>2. Len(blocks) \in Nat
          BY <1>0
      <4> QED
          BY <4>1, <4>2, <2>4
    <3>3. \A b \in {curr_block} \cup ((Len(blocks) + 1)..Len(blocks')) :
            Closed(blocks'[b].instrs) \/ b = curr_block' \/ b \in Waiting(frames')
        BY <3>2, <2>4, <2>5
    <3> QED
        BY <1>0, <2>4, <3>1, <3>3, CoveredGrown
  <2>7. ~HasReturned'
      BY <2>1 DEF HasReturned
  <2> QED
      BY <1>0, <2>1, <2>5, <2>6, <2>7 DEF ClosedInv
<1>9. CASE EndIf
  <2>1. /\ frames' = Below /\ frames # <<>> /\ Top.kind = "then" /\ control = "back"
        /\ control' = control /\ curr_block' = Len(blocks) + 1
        /\ IfEnded(blocks, blocks', Top.orig_block, curr_block, is_returned_record, Top.label_now)
      BY <1>9, EndIfStep
  <2>2. return_block' = return_block /\ is_returned' = FALSE
      BY <1>9 DEF EndIf
  <2>3. Waits(Top) = {Top.orig_block} /\ {Top.orig_block, curr_block} = Waits(Top) \cup {curr_block}
      BY <2>1 DEF Waits
  <2>4. Top.orig_block # curr_block /\ Open(blocks[Top.orig_block].instrs)
      BY <2>1, <2>3, ApartBelow
  <2>5. /\ is_returned_record => Closed(blocks[curr_block].instrs)
        /\ ~is_returned_record => Open(blocks[curr_block].instrs)
      BY <1>0, <2>1 DEF OpenInv, ClosedInv, HasReturned
  <2>6. \A w \in Waits(Top) \cup {curr_block} : Closed(blocks'[w].instrs)
      BY <2>1, <2>3, <2>4, <2>5 DEF IfEnded
  <2>7. /\ Grown(blocks, blocks', Waits(Top) \cup {curr_block}, 1, {"selEndBB"})
        /\ blocks'[Len(blocks) + 1].instrs = <<>>
      BY <2>1, <2>3 DEF IfEnded
  <2> QED
      BY <2>1, <2>2, <2>6, <2>7, ClosedEnd
<1>10. CASE EndIteration
  <2>1. /\ frames' = Below /\ frames # <<>> /\ Top.kind = "body" /\ control = "back"
        /\ control' = control /\ curr_block' = Len(blocks) + 1
        /\ LoopEnded(blocks, blocks', curr_block, Top.startBB, is_returned_record, Top.label_now)
      BY <1>0, <1>10, EndIterationStep
  <2>2. return_block' = return_block /\ is_returned' = FALSE
      BY <1>10 DEF EndIteration
  <2>3. Waits(Top) = {Top.startBB} /\ {curr_block, Top.startBB} = Waits(Top) \cup {curr_block}
      BY <2>1 DEF Waits
  <2>4. Top.startBB # curr_block /\ Open(blocks[Top.startBB].instrs)
      BY <2>1, <2>3, ApartBelow
  <2>5. /\ is_returned_record => Closed(blocks[curr_block].instrs)
        /\ ~is_returned_record => Open(blocks[curr_block].instrs)
      BY <1>0, <2>1 DEF OpenInv, ClosedInv, HasReturned
  <2>6. \A w \in Waits(Top) \cup {curr_block} : Closed(blocks'[w].instrs)
      BY <2>1, <2>3, <2>4, <2>5 DEF LoopEnded
  <2>7. /\ Grown(blocks, blocks', Waits(Top) \cup {curr_block}, 1, {"loopEndBB"})
        /\ blocks'[Len(blocks) + 1].instrs = <<>>
      BY <2>1, <2>3 DEF LoopEnded
  <2> QED
      BY <2>1, <2>2, <2>6, <2>7, ClosedEnd
<1>11. CASE EndElse
  <2>1. /\ frames' = Below /\ frames # <<>> /\ Top.kind = "else" /\ control = "back"
        /\ control' = control
        /\ curr_block' = Len(blocks) + 1 /\ Top.trueBB_returned \in BOOLEAN
        /\ ElseEnded(blocks, blocks', Top, curr_block, is_returned_record)
      BY <1>11, EndElseStep
  <2>2. return_block' = return_block /\ is_returned' = FALSE
      BY <1>11 DEF EndElse
  <2> DEFINE loc == IF Top.trueBB_returned THEN {} ELSE {Top.trueBB_location}
  <2>3. Waits(Top) = {Top.orig_block} \cup loc
      BY <2>1 DEF Waits
  <2>4. /\ Top.orig_block # curr_block /\ Open(blocks[Top.orig_block].instrs)
        /\ Top.trueBB_returned \/ Top.trueBB_location \notin {Top.orig_block, curr_block}
        /\ Top.trueBB_returned \/ Open(blocks[Top.trueBB_location].instrs)
      BY <2>1, <2>3, ApartBelow
  <2>5. /\ is_returned_record => Closed(blocks[curr_block].instrs)
        /\ ~is_returned_record => Open(blocks[curr_block].instrs)
      BY <1>0, <2>1 DEF OpenInv, ClosedInv, HasReturned
  <2>6. /\ Closed(blocks'[Top.orig_block].instrs)
        /\ ~Top.trueBB_returned => Closed(blocks'[Top.trueBB_location].instrs)
        /\ Closed(blocks'[curr_block].instrs)
      BY <2>1, <2>4, <2>5 DEF ElseEnded
  <2>7. \A w \in Waits(Top) \cup {curr_block} : Closed(blocks'[w].instrs)
      BY <2>3, <2>6
  <2>8. {Top.orig_block, curr_block} \cup loc = Waits(Top) \cup {curr_block}
      BY <2>3
  <2>9. /\ Grown(blocks, blocks', Waits(Top) \cup {curr_block}, 1, {"selEndBB"})
        /\ blocks'[Len(blocks) + 1].instrs = <<>>
      BY <2>1, <2>8 DEF ElseEnded
  <2> QED
      BY <2>1, <2>2, <2>7, <2>9, ClosedEnd
<1>12. CASE VisitElse
  <2>1. PICK f \in Frame :
          /\ frames # <<>> /\ Top.kind = "then" /\ control = "back" /\ control' = "visit"
          /\ Created(blocks, blocks', "selFalseBB", Top.label_now)
          /\ curr_block' = Len(blocks')
          /\ frames' = Append(Below, f) /\ f.kind = "else"
          /\ f.orig_block = Top.orig_block /\ f.trueBB_location = curr_block
          /\ f.trueBB_returned = is_returned_record
      BY <1>12, ElseStep
  <2>2. return_block' = return_block /\ exits' = {Top.cond} /\ ~is_returned'
    <3>1. is_returned' = is_returned
        BY <1>12 DEF VisitElse, flagVars
    <3> QED
        BY <1>12, <2>1, <3>1 DEF VisitElse, ClosedInv
  <2>3. /\ blocks' \in Seq(Block) /\ EdgesStay(blocks') /\ Len(blocks') = Len(blocks) + 1
        /\ \A i \in 1..Len(blocks) : blocks'[i] = blocks[i]
        /\ blocks'[Len(blocks) + 1].label[1] = "selFalseBB"
      BY <2>1 DEF Created
  <2>4. \A i \in (Len(blocks) + 1)..Len(blocks') : i = Len(blocks) + 1
      BY <1>0, <2>3
  <2>5. Grown(blocks, blocks', {curr_block}, 1, {"selFalseBB"})
      BY <2>3, <2>4 DEF Grown
  <2>6. /\ Alternating(Below) /\ Below \in Seq(Frame)
        /\ Below # <<>> /\ Last(Below).kind = "compound"
      BY <1>0, <2>1, AlternatingBelow, BelowTop
  <2>7. Alternating(frames') /\ Waiting(frames') = Waiting(Below) \cup Waits(f)
      BY <2>1, <2>6, WaitingPush, AlternatingPush
  <2>8. /\ Waits(f) = {Top.orig_block} \cup (IF is_returned_record THEN {} ELSE {curr_block})
        /\ Waiting(frames) = Waiting(Below) \cup {Top.orig_block}
    <3>1. Waits(Top) = {Top.orig_block}
        BY <2>1 DEF Waits
    <3>2. Waits(f) = {Top.orig_block} \cup (IF is_returned_record THEN {} ELSE {curr_block})
        BY <2>1 DEF Waits
    <3> QED
        BY <1>0, <2>1, <3>1, <3>2, WaitingBelow
  <2>9. is_returned_record => Closed(blocks[curr_block].instrs)
      BY <2>1 DEF ClosedInv, HasReturned
  <2>10. Covered(blocks', Waiting(frames'), curr_block', return_block)
    <3>1. \A b \in {curr_block} \cup ((Len(blocks) + 1)..Len(blocks')) :
            Closed(blocks'[b].instrs) \/ b = curr_block' \/ b \in Waiting(frames')
        BY <1>0, <2>1, <2>3, <2>4, <2>7, <2>8, <2>9
    <3>2. 1 \in Nat /\ Waiting(frames) \ {curr_block} \subseteq Waiting(frames')
        BY <2>7, <2>8
    <3> QED
        BY <1>0, <2>5, <3>1, <3>2, CoveredGrown
  <2>11. ~HasReturned'
      BY <2>1 DEF HasReturned
  <2> QED
      BY <2>1, <2>2, <2>7, <2>10, <2>11 DEF ClosedInv
<1>13. CASE EndFunction
  <2>1. /\ control = "back" /\ frames = <<>> /\ control' = "end" /\ frames' = frames
        /\ curr_block' = curr_block /\ return_block' = return_block /\ exits' = exits
      BY <1>13 DEF EndFunction
  <2>2. PICK falls \in BOOLEAN :
          /\ FunctionEnded(blocks, blocks', curr_block, return_block, falls)
          /\ insert' = IF falls THEN curr_block ELSE return_block
      BY <1>13, EndFunctionStep
  <2>3. /\ Grown(blocks, blocks', {curr_block, return_block}, 0, {})
        /\ falls <=> blocks[curr_block].instrs = <<>>
        /\ falls => Closed(blocks'[curr_block].instrs)
        /\ ~falls => blocks'[curr_block].instrs = blocks[curr_block].instrs
        /\ Closed(blocks'[return_block].instrs)
      BY <1>0, <2>1, <2>2 DEF FunctionEnded, OpenInv
  <2>4. Waiting(frames) = {}
    <3>1. Len(frames) = 0
        BY <2>1
    <3> QED
        BY <3>1 DEF Waiting
  <2>5. Covered(blocks', Waiting(frames), curr_block, return_block)
    <3>1. \A b \in (Len(blocks) + 1)..Len(blocks') : FALSE
        BY <1>0, <2>3 DEF Grown
    <3> QED
        BY <1>0, <2>3, <2>4, <3>1 DEF Covered, Grown
  <2>6. Cut(curr_block)' \/ Closed(blocks'[curr_block].instrs)
    <3>1. CASE falls \/ Closed(blocks[curr_block].instrs)
        BY <2>3, <3>1
    <3>2. CASE ~falls /\ Open(blocks[curr_block].instrs)
      <4>1. exits # {}
          BY <2>3, <3>2 DEF ClosedInv
      <4> QED
          BY <2>1, <2>2, <3>2, <4>1 DEF Cut, RunsOffItsEnd
    <3> QED
        BY <1>0, <3>1, <3>2 DEF OpenInv, Settled
  <2>7. exits' = {} /\ Open(blocks'[curr_block].instrs) => blocks'[curr_block].instrs = <<>>
    <3>1. CASE falls
      <4>1. curr_block \in 1..Len(blocks') /\ blocks' \in Seq(Block)
          BY <2>1 DEF TypeInv
      <4>2. blocks'[curr_block].instrs \in Seq(Instrs)
          BY <4>1, BlockAt
      <4> QED
          BY <2>3, <3>1, <4>2, NotBoth
    <3>2. CASE ~falls
        BY <2>1, <2>3, <3>2 DEF ClosedInv
    <3> QED
        BY <3>1, <3>2
  <2>8. ~HasReturned'
      BY <2>1 DEF HasReturned
  <2>9. (Cut(curr_block) \/ Closed(blocks[curr_block].instrs))'
      BY <2>1, <2>6 DEF Cut, RunsOffItsEnd
  <2> QED
      BY <1>0, <2>1, <2>3, <2>5, <2>7, <2>8, <2>9 DEF ClosedInv
<1> QED
    BY <1>1, <1>2, <1>3, <1>4, <1>5, <1>6, <1>7, <1>8, <1>9, <1>10, <1>11, <1>12, <1>13
       DEF Next, Done

\* Each block is given its terminator by the visitor that is to give it, however
\* the statements are nested; in programs without the three, whose blocks may
\* end up with none or two.
THEOREM EveryBlockGetsATerminator ==
    ASSUME Plain
    PROVE  Spec => []EveryBlockIsClosed
<1>1. Init => ClosedInv
    BY ClosedInit
<1>2. TypeInv /\ TypeInv' /\ InsertsIntoCurrBlock /\ OpenInv /\ ClosedInv /\ [Next]_vars
      => ClosedInv'
    BY ClosedStep
<1>3. TypeInv /\ ClosedInv => EveryBlockIsClosed
  <2> SUFFICES ASSUME TypeInv, ClosedInv, control = "end", NEW b \in BlockIndex, ~Cut(b)
               PROVE  blocks[b].instrs # <<>> /\ IsTerminator(Last(blocks[b].instrs))
      BY DEF EveryBlockIsClosed
  <2>1. b \in 1..Len(blocks)
      BY LenProperties DEF BlockIndex, TypeInv
  <2>2. Waiting(frames) = {}
    <3>1. Len(frames) = 0
        BY DEF ClosedInv
    <3> QED
        BY <3>1 DEF Waiting
  <2>3. Closed(blocks[b].instrs)
      BY <2>1, <2>2 DEF ClosedInv, Covered
  <2> QED
      BY <2>3 DEF Closed, Last
<1>4. WithoutInnerOrIndexed
    BY PlainVisits
<1> QED
    BY <1>1, <1>2, <1>3, <1>4, TypeInvIsInvariant, InsertPointIsCurrBlock, OpenInvIsInvariant, PTL
       DEF Spec

-----------------------------------------------------------------------------
(***************************************************************************)
(* Returns.  Where every body has its braces, is_returned_record at the    *)
(* end of an arm tells that control does not go on behind it.              *)
(***************************************************************************)
\* The frame a visitor is in, as the innermost of those left.
LEMMA UnderTop ==
    ASSUME frames \in Seq(Frame), frames # <<>>, FramesRight(frames)
    PROVE  /\ FramesRight(Below)
           /\ Top.kind # "compound" /\ Below # <<>> => Last(Below).kind = "compound"
<1>1. /\ Below \in Seq(Frame) /\ Len(Below) = Len(frames) - 1 /\ Len(Below) \in Nat
      /\ \A i \in 1..Len(Below) : i \in 1..Len(frames) /\ Below[i] = frames[i]
      /\ Top = frames[Len(frames)] /\ Len(frames) \in 1..Len(frames)
    BY BelowTop
<1>2. FramesRight(Below)
  <2> SUFFICES ASSUME NEW i \in 1..Len(Below)
               PROVE  /\ Below[i].kind # "compound" /\ i > 1 => Below[i - 1].kind = "compound"
                      /\ Below[i].kind = "else" /\ Below[i].trueBB_returned =>
                           Below[i].trueExits = {}
      BY DEF FramesRight
  <2>1. i \in 1..Len(frames) /\ Below[i] = frames[i]
        /\ (i > 1 => i - 1 \in 1..Len(Below) /\ Below[i - 1] = frames[i - 1])
      BY <1>1
  <2> QED
      BY <2>1 DEF FramesRight
<1>3. ASSUME Top.kind # "compound", Below # <<>> PROVE Last(Below).kind = "compound"
  <2>1. Last(Below) = Below[Len(Below)] /\ Len(Below) \in Nat \ {0}
      BY <1>1, <1>3, FrontLast
  <2>2. Last(Below) = frames[Len(frames) - 1] /\ Len(frames) > 1
      BY <1>1, <2>1
  <2> QED
      BY <1>1, <1>3, <2>2 DEF FramesRight
<1> QED
    BY <1>2, <1>3

LEMMA RightPush ==
    ASSUME NEW s \in Seq(Frame), FramesRight(s), NEW f \in Frame,
           f.kind # "compound" /\ s # <<>> => Last(s).kind = "compound",
           f.kind = "else" /\ f.trueBB_returned => f.trueExits = {}
    PROVE  FramesRight(Append(s, f))
<1> DEFINE t == Append(s, f)
<1>1. /\ Len(t) = Len(s) + 1 /\ Len(s) \in Nat /\ t[Len(s) + 1] = f
      /\ \A i \in 1..Len(s) : t[i] = s[i]
      /\ \A i \in 1..Len(t) : i \in 1..Len(s) \/ i = Len(s) + 1
    BY Pushed
<1>2. s # <<>> => Last(s) = s[Len(s)] /\ Len(s) \in Nat \ {0}
    BY FrontLast
<1>3. s = <<>> => Len(s) = 0
    OBVIOUS
<1> HIDE DEF t
<1> SUFFICES ASSUME NEW i \in 1..Len(t)
             PROVE  /\ t[i].kind # "compound" /\ i > 1 => t[i - 1].kind = "compound"
                    /\ t[i].kind = "else" /\ t[i].trueBB_returned => t[i].trueExits = {}
    BY DEF FramesRight, t
<1>4. CASE i \in 1..Len(s)
  <2>1. t[i] = s[i] /\ (i > 1 => i - 1 \in 1..Len(s) /\ t[i - 1] = s[i - 1])
      BY <1>1, <1>4
  <2> QED
      BY <1>4, <2>1 DEF FramesRight
<1>5. CASE i = Len(s) + 1
  <2>1. t[i] = f
      BY <1>1, <1>5
  <2>2. ASSUME i > 1, f.kind # "compound" PROVE t[i - 1].kind = "compound"
    <3>1. s # <<>>
        BY <1>3, <1>5, <2>2
    <3>2. t[i - 1] = Last(s)
        BY <1>1, <1>2, <1>5, <3>1
    <3> QED
        BY <2>2, <3>1, <3>2
  <2> QED
      BY <2>1, <2>2
<1> QED
    BY <1>1, <1>4, <1>5

\* A visitor is entered.
LEMMA ReturnEnter ==
    ASSUME TypeInv, ReturnInv, NEW f \in Frame, NEW s \in Seq(Frame), FramesRight(s),
           frames' = Append(s, f), ~is_returned', control' = "visit" \/ f.kind = "compound",
           f.kind # "compound" /\ s # <<>> => Last(s).kind = "compound",
           f.kind = "else" /\ f.trueBB_returned => f.trueExits = {}
    PROVE  ReturnInv'
<1>1. FramesRight(frames')
    BY RightPush
<1>2. Top' = f
    BY Pushed DEF Top
<1> QED
    BY <1>1, <1>2 DEF ReturnInv

\* An if or while is left, for the compound statement around it.
LEMMA ReturnLeave ==
    ASSUME TypeInv, ReturnInv, frames # <<>>, Top.kind # "compound",
           frames' = Below, ~is_returned'
    PROVE  ReturnInv'
<1>1. FramesRight(Below) /\ (Below # <<>> => Last(Below).kind = "compound")
    BY UnderTop DEF TypeInv, ReturnInv
<1>2. frames' # <<>> => Top'.kind = "compound"
    BY <1>1 DEF Top
<1> QED
    BY <1>1, <1>2 DEF ReturnInv

LEMMA ReturnInvStep ==
    ASSUME Braced, TypeInv, ReturnInv, [Next]_vars
    PROVE  ReturnInv'
<1>0. MayBeBare => Top.kind = "compound"
    BY Zenon DEF MayBeBare, Braced
<1>1. CASE VisitCompound
  <2> DEFINE f == [kind |-> "compound"]
  <2>1. f \in Frame /\ f.kind = "compound"
      BY DEF Frame, CompoundFrame
  <2>2. frames' = Append(frames, f) /\ ~is_returned'
      BY <1>1 DEF VisitCompound
  <2> HIDE DEF f
  <2> QED
      BY <2>1, <2>2, ReturnEnter DEF TypeInv, ReturnInv
<1>2. CASE NextStatement
    BY <1>2 DEF NextStatement, In, ReturnInv, Top, flagVars, specVars
<1>3. CASE LeaveCompound
  <2>1. /\ frames # <<>> /\ Top.kind = "compound" /\ frames' = Below /\ ~is_returned'
        /\ (is_returned_record' <=> is_returned) /\ exits' = exits
      BY <1>3, Zenon DEF LeaveCompound, In, specVars
  <2>2. FramesRight(frames')
      BY <2>1, UnderTop DEF TypeInv, ReturnInv
  <2> QED
      BY <2>1, <2>2 DEF ReturnInv
<1>4. CASE VisitExpression
  <2>1. /\ frames' = frames /\ control = "visit" /\ Top.kind = "compound"
        /\ is_returned' = is_returned
      BY <1>0, <1>4 DEF VisitExpression, Visits, flagVars
  <2> QED
      BY <2>1 DEF ReturnInv, Top
<1>5. CASE VisitReturn
  <2>1. /\ frames' = frames /\ control = "visit" /\ control' = "back"
        /\ Top.kind = "compound" /\ exits' = {}
      BY <1>0, <1>5 DEF VisitReturn, Visits
  <2> QED
      BY <2>1 DEF ReturnInv, TypeInv, Top
<1>6. CASE VisitSelection
  <2>1. PICK f \in Frame : frames' = Append(frames, f) /\ f.kind = "then"
      BY <1>6, SelectionStep
  <2>2. control = "visit" /\ control' = "visit" /\ is_returned' = is_returned
        /\ Last(frames).kind = "compound"
      BY <1>0, <1>6 DEF VisitSelection, Visits, flagVars, Top
  <2> QED
      BY <2>1, <2>2, ReturnEnter DEF TypeInv, ReturnInv
<1>7. CASE EndIf
  <2>1. frames # <<>> /\ Top.kind = "then" /\ frames' = Below /\ ~is_returned'
      BY <1>7 DEF EndIf, In
  <2> QED
      BY <2>1, ReturnLeave
<1>8. CASE VisitElse
  <2>1. PICK f \in Frame :
          /\ frames # <<>> /\ Top.kind = "then" /\ control = "back" /\ control' = "visit"
          /\ frames' = Append(Below, f) /\ f.kind = "else"
          /\ f.trueBB_returned = is_returned_record /\ f.trueExits = exits
      BY <1>8, ElseStep
  <2>2. is_returned' = is_returned
      BY <1>8 DEF VisitElse, flagVars
  <2>3. ~is_returned' /\ (is_returned_record => exits = {})
      BY <2>1, <2>2 DEF ReturnInv
  <2>4. /\ Below \in Seq(Frame) /\ FramesRight(Below)
        /\ Below # <<>> => Last(Below).kind = "compound"
      BY <2>1, UnderTop, BelowTop DEF TypeInv, ReturnInv
  <2>5. f.trueBB_returned => f.trueExits = {}
      BY <2>1, <2>3
  <2> QED
      BY <2>1, <2>3, <2>4, <2>5, ReturnEnter
<1>9. CASE EndElse
  <2>1. frames # <<>> /\ Top.kind = "else" /\ frames' = Below /\ ~is_returned'
      BY <1>9 DEF EndElse, In
  <2> QED
      BY <2>1, ReturnLeave
<1>10. CASE VisitIteration
  <2>1. PICK f \in Frame : frames' = Append(frames, f) /\ f.kind = "body"
      BY <1>10, IterationStep
  <2>2. control = "visit" /\ control' = "visit" /\ is_returned' = is_returned
        /\ Last(frames).kind = "compound"
      BY <1>0, <1>10 DEF VisitIteration, Visits, flagVars, Top
  <2> QED
      BY <2>1, <2>2, ReturnEnter DEF TypeInv, ReturnInv
<1>11. CASE EndIteration
  <2>1. frames # <<>> /\ Top.kind = "body" /\ frames' = Below /\ ~is_returned'
      BY <1>11 DEF EndIteration, In
  <2> QED
      BY <2>1, ReturnLeave
<1>12. CASE EndFunction
    BY <1>12 DEF EndFunction, ReturnInv, flagVars
<1>13. CASE UNCHANGED vars
    BY <1>13 DEF vars, flagVars, specVars, ReturnInv, Top
<1> QED
    BY <1>1, <1>2, <1>3, <1>4, <1>5, <1>6, <1>7, <1>8, <1>9, <1>10, <1>11, <1>12, <1>13
       DEF Next, Done

LEMMA ReturnInvIsInvariant ==
    ASSUME Braced
    PROVE  Spec => []ReturnInv
<1>1. Init => ReturnInv
  <2> SUFFICES ASSUME Init PROVE ReturnInv
      OBVIOUS
  <2>1. frames = <<[kind |-> "compound"]>> /\ is_returned = FALSE
      BY DEF Init
  <2>2. frames # <<>> /\ Len(frames) = 1 /\ frames[1].kind = "compound" /\ Top = frames[1]
      BY <2>1 DEF Top, Last
  <2>3. FramesRight(frames)
      BY <2>2 DEF FramesRight
  <2>4. Top.kind = "compound" /\ ~is_returned
      BY <2>1, <2>2
  <2> QED
      BY <2>2, <2>3, <2>4, Zenon DEF ReturnInv
<1>2. TypeInv /\ ReturnInv /\ [Next]_vars => ReturnInv'
    BY ReturnInvStep
<1> QED
    BY <1>1, <1>2, TypeInvIsInvariant, PTL DEF Spec

-----------------------------------------------------------------------------
(***************************************************************************)
(* Dead code.  Blocks are made in such an order that a branch into a block *)
(* comes from one made before it, but for those back to the start of a     *)
(* loop and those to returnBB.                                             *)
(***************************************************************************)
\* A branch from a block made before b leads to b.
LinkedTo(bs, b) == \E p \in bs[b].pre : p \in 1..(b - 1) /\ p # 2 /\ b \in bs[p].succ

\* Each block has such a branch, or is in W, the blocks whose visitors are yet to
\* branch to them, or is in D and has none; those in S have it already.
Links(bs, W, S, D) ==
    /\ bs \in Seq(Block) /\ EdgesStay(bs) /\ Len(bs) >= 2
    /\ bs[2].pre # {} => \E p \in 1..Len(bs) : p # 2 /\ 2 \in bs[p].succ
    /\ \A b \in 1..Len(bs) :
         \/ b = 2 \/ b \in W
         \/ LinkedTo(bs, b)
         \/ bs[b].pre = {} /\ b \in D
    /\ \A b \in S : b \in 1..Len(bs) /\ LinkedTo(bs, b)

\* The blocks a visitor has made and not branched to, and the one it will
\* branch back to.
Makes(f) == CASE f.kind = "then" -> {f.trueBB}
              [] f.kind = "else" -> {f.trueBB, f.falseBB}
              [] f.kind = "body" -> {f.bodyBB}
              [] OTHER -> {}
Returns(f) == IF f.kind = "body" THEN {f.startBB} ELSE {}

Pending(s) == UNION {Makes(s[i]) : i \in 1..Len(s)}
Starts(s) == UNION {Returns(s[i]) : i \in 1..Len(s)}

\* The blocks it will branch from are made before those.
Ahead(f) ==
    /\ f.kind = "then" => f.orig_block # 2 /\ f.trueBB # 2 /\ f.orig_block < f.trueBB
    /\ f.kind = "else" =>
         /\ 2 \notin {f.orig_block, f.trueBB, f.falseBB, f.trueBB_location}
         /\ f.orig_block < f.trueBB /\ f.orig_block < f.falseBB
    /\ f.kind = "body" => f.startBB # 2 /\ f.bodyBB # 2 /\ f.startBB < f.bodyBB

\* A branch from b to t leads to a block made later.
Forward(bs, b, t) == {b, t} \subseteq 1..Len(bs) /\ b < t /\ b # 2 /\ t # 2

\* The blocks that may have none: the entry and the ends of returning ifs.
Colds == {1} \cup dead_ends

LinkInv ==
    /\ Links(blocks, Pending(frames), Starts(frames), Colds)
    /\ \A i \in 1..Len(frames) : Ahead(frames[i])
    /\ return_block = 2
    /\ control # "end" => insert # 2 /\ curr_block # 2
    /\ control = "end" => frames = <<>>

\* new is bs with edges from b to T, and other instructions perhaps.
Edges(bs, new, b, T) ==
    /\ new \in Seq(Block) /\ EdgesStay(new) /\ Len(new) = Len(bs)
    /\ \A i \in 1..Len(bs) :
         /\ new[i].label = bs[i].label
         /\ new[i].pre = IF i \in T THEN bs[i].pre \cup {b} ELSE bs[i].pre
         /\ new[i].succ = IF i = b THEN bs[i].succ \cup T ELSE bs[i].succ

\* An instruction adds no edge.
LEMMA AddInstrEdges ==
    ASSUME NEW bs \in Seq(Block), EdgesStay(bs), NEW b \in 1..Len(bs),
           NEW op \in {"op", "br", "cond_br", "ret"}, NEW s \in -1..MaxStatements
    PROVE  Edges(bs, AddInstr(bs, b, op, s), b, {})
<1> DEFINE new == AddInstr(bs, b, op, s)
           x == [bs[b] EXCEPT !.instrs = Append(@, [op |-> op, of |-> s])]
<1>1. new \in Seq(Block) /\ EdgesStay(new) /\ Len(new) = Len(bs)
      /\ \A i \in 1..Len(bs) : new[i].label = bs[i].label
    BY AddInstrEffect, ZenonT(40) DEF Rewrites
<1>2. bs[b] \in Block
    BY BlockAt
<1>3. DOMAIN bs = 1..Len(bs) /\ new = [bs EXCEPT ![b] = x]
    BY LenProperties DEF AddInstr
<1>4. x.pre = bs[b].pre /\ x.succ = bs[b].succ
    BY <1>2 DEF Block
<1> HIDE DEF x
<1>5. \A i \in 1..Len(bs) : new[i] = IF i = b THEN x ELSE bs[i]
    BY <1>3
<1>6. \A i \in 1..Len(bs) : new[i].pre = bs[i].pre /\ new[i].succ = bs[i].succ
    BY <1>4, <1>5
<1> HIDE DEF new
<1> QED
    BY <1>1, <1>6 DEF Edges, new

\* Nor do instructions.
LEMMA AddOpEdges ==
    ASSUME NEW bs \in Seq(Block), EdgesStay(bs), NEW b \in 1..Len(bs), NEW s \in 0..MaxStatements
    PROVE  Edges(bs, AddOp(bs, b, s), b, {})
<1>1. s \in -1..MaxStatements
    BY BoundsType
<1>2. Edges(bs, AddInstr(bs, b, "op", s), b, {})
    BY <1>1, AddInstrEdges
<1>3. Edges(bs, bs, b, {})
    BY DEF Edges
<1> QED
    BY <1>2, <1>3 DEF AddOp

\* A branch adds those to its targets.
LEMMA BranchEdges ==
    ASSUME NEW bs \in Seq(Block), EdgesStay(bs), NEW b \in 1..Len(bs),
           NEW targets \in SUBSET (1..Len(bs)),
           NEW op \in {"br", "cond_br", "ret"}, NEW s \in -1..MaxStatements
    PROVE  Edges(bs, AddInstr(AddEdges(bs, b, targets), b, op, s), b, targets)
<1> DEFINE mid == AddEdges(bs, b, targets)
           new == AddInstr(mid, b, op, s)
           x(i) == [bs[i] EXCEPT !.pre = IF i \in targets THEN @ \cup {b} ELSE @,
                                 !.succ = IF i = b THEN @ \cup targets ELSE @]
<1>1. mid \in Seq(Block) /\ EdgesStay(mid) /\ Len(mid) = Len(bs)
      /\ \A i \in 1..Len(bs) : mid[i].label = bs[i].label
    BY AddEdgesEffect DEF Rewrites
<1>2. ASSUME NEW i \in 1..Len(bs)
      PROVE  /\ mid[i].pre = IF i \in targets THEN bs[i].pre \cup {b} ELSE bs[i].pre
             /\ mid[i].succ = IF i = b THEN bs[i].succ \cup targets ELSE bs[i].succ
  <2>1. bs[i] \in Block /\ DOMAIN bs = 1..Len(bs)
      BY BlockAt, LenProperties
  <2>2. mid[i] = x(i)
      BY <2>1 DEF AddEdges
  <2> HIDE DEF mid
  <2> QED
      BY <2>1, <2>2 DEF Block
<1> HIDE DEF mid
<1>3. Edges(mid, new, b, {})
    BY <1>1, AddInstrEdges
<1> HIDE DEF new
<1> QED
    BY <1>1, <1>2, <1>3 DEF Edges, new, mid

\* Edges to blocks made later, back to a loop and to returnBB keep the links.
LEMMA LinksEdges ==
    ASSUME NEW bs, NEW W, NEW S, NEW D, Links(bs, W, S, D),
           NEW b \in 1..Len(bs), NEW T \in SUBSET (1..Len(bs)), NEW new, Edges(bs, new, b, T),
           T # {} => b # 2, \A t \in T : t = 2 \/ t > b \/ t \in S,
           NEW V, \A w \in W : w \in V \/ (w \in T /\ w > b /\ w # 2)
    PROVE  Links(new, V, S, D)
<1>1. /\ bs \in Seq(Block) /\ Len(bs) \in Nat /\ Len(new) = Len(bs) /\ Len(bs) >= 2
      /\ new \in Seq(Block) /\ EdgesStay(new)
    BY LenProperties DEF Links, Edges
<1>2. ASSUME NEW c \in 1..Len(bs), LinkedTo(bs, c) PROVE LinkedTo(new, c)
  <2>1. PICK p \in bs[c].pre : p \in 1..(c - 1) /\ p # 2 /\ c \in bs[p].succ
      BY <1>2 DEF LinkedTo
  <2>2. p \in 1..Len(bs)
      BY <2>1, <1>1
  <2>3. p \in new[c].pre /\ c \in new[p].succ
      BY <2>1, <2>2 DEF Edges
  <2> QED
      BY <2>1, <2>3 DEF LinkedTo
<1>3. ASSUME NEW t \in T, t > b PROVE LinkedTo(new, t)
  <2>1. b \in new[t].pre /\ t \in new[b].succ
      BY <1>3 DEF Edges
  <2>2. b \in 1..(t - 1) /\ b # 2
      BY <1>1, <1>3
  <2> QED
      BY <2>1, <2>2 DEF LinkedTo
<1>4. new[2].pre # {} => \E p \in 1..Len(new) : p # 2 /\ 2 \in new[p].succ
  <2> SUFFICES ASSUME new[2].pre # {} PROVE \E p \in 1..Len(new) : p # 2 /\ 2 \in new[p].succ
      OBVIOUS
  <2>0. 2 \in 1..Len(bs)
      BY <1>1
  <2>1. CASE 2 \in T
    <3>1. b # 2 /\ 2 \in new[b].succ
        BY <2>1 DEF Edges
    <3> QED
        BY <3>1, <1>1
  <2>2. CASE 2 \notin T
    <3>1. bs[2].pre # {}
        BY <2>0, <2>2 DEF Edges
    <3>2. PICK p \in 1..Len(bs) : p # 2 /\ 2 \in bs[p].succ
        BY <3>1 DEF Links
    <3>3. 2 \in new[p].succ
        BY <3>2 DEF Edges
    <3> QED
        BY <3>2, <3>3, <1>1
  <2> QED
      BY <2>1, <2>2
<1>5. ASSUME NEW c \in 1..Len(new), c # 2, c \notin V
      PROVE  LinkedTo(new, c) \/ (new[c].pre = {} /\ c \in D)
  <2>1. CASE c \in T
    <3>1. CASE c > b
        BY <2>1, <3>1, <1>3
    <3>2. CASE c \in S
      <4>1. c \in 1..Len(bs) /\ LinkedTo(bs, c)
          BY <3>2 DEF Links
      <4> QED
          BY <4>1, <1>2
    <3> QED
        BY <2>1, <3>1, <3>2, <1>5
  <2>2. CASE c \notin T
    <3>1. c \in 1..Len(bs) /\ c \notin W
        BY <2>2, <1>1, <1>5
    <3>2. LinkedTo(bs, c) \/ (bs[c].pre = {} /\ c \in D)
        BY <3>1, <1>5 DEF Links
    <3>3. new[c].pre = bs[c].pre 
        BY <2>2, <3>1 DEF Edges
    <3> QED
        BY <3>1, <3>2, <3>3, <1>2
  <2> QED
      BY <2>1, <2>2
<1>6. \A c \in S : c \in 1..Len(new) /\ LinkedTo(new, c)
    BY <1>1, <1>2 DEF Links
<1> QED
    BY <1>1, <1>4, <1>5, <1>6 DEF Links

\* So do instructions,
LEMMA LinksAddOp ==
    ASSUME NEW bs, NEW W, NEW S, NEW D, Links(bs, W, S, D), NEW b \in 1..Len(bs), NEW s \in 0..MaxStatements
    PROVE  Links(AddOp(bs, b, s), W, S, D) /\ Len(AddOp(bs, b, s)) = Len(bs)
<1>1. bs \in Seq(Block) /\ EdgesStay(bs)
    BY DEF Links
<1>2. Edges(bs, AddOp(bs, b, s), b, {})
    BY <1>1, AddOpEdges
<1>3. Links(AddOp(bs, b, s), W, S, D)
    BY <1>2, LinksEdges
<1> QED
    BY <1>2, <1>3 DEF Edges

\* and a block that is yet to be branched to, or that starts without a branch.
LEMMA LinksCreate ==
    ASSUME NEW bs, NEW W, NEW S, NEW D, Links(bs, W, S, D), NEW kind \in Kinds, NEW n \in Nat,
           NEW V, W \subseteq V, Len(bs) + 1 \in V \cup D
    PROVE  Links(Create(bs, kind, n), V, S, D) /\ Len(Create(bs, kind, n)) = Len(bs) + 1
<1> DEFINE new == Create(bs, kind, n)
<1>1. bs \in Seq(Block) /\ EdgesStay(bs) /\ Len(bs) \in Nat /\ Len(bs) >= 2
    BY LenProperties DEF Links
<1>2. Created(bs, new, kind, n)
    BY <1>1, CreateEffect
<1>3. new[Len(bs) + 1].pre = {}
  <2>1. NewBlock(kind, n) \in Block
    <3>1. <<>> \in Seq(Instrs)
        BY EmptySeq
    <3> QED
        BY <3>1 DEF NewBlock, Block
  <2>2. new[Len(bs) + 1] = NewBlock(kind, n)
      BY <2>1, <1>1, AppendProperties DEF Create
  <2> QED
      BY <2>2 DEF NewBlock
<1> HIDE DEF new
<1>4. /\ new \in Seq(Block) /\ EdgesStay(new) /\ Len(new) = Len(bs) + 1
      /\ \A i \in 1..Len(bs) : new[i] = bs[i]
      /\ new[Len(bs) + 1].label = <<kind, n>>
    BY <1>2 DEF Created
<1>5. ASSUME NEW c \in 1..Len(bs), LinkedTo(bs, c) PROVE LinkedTo(new, c)
  <2>1. PICK p \in bs[c].pre : p \in 1..(c - 1) /\ p # 2 /\ c \in bs[p].succ
      BY <1>5 DEF LinkedTo
  <2>2. p \in 1..Len(bs)
      BY <2>1, <1>1
  <2> QED
      BY <2>1, <2>2, <1>4 DEF LinkedTo
<1>6. 2 \in 1..Len(bs) /\ 1..Len(bs) \subseteq 1..Len(new)
    BY <1>1, <1>4
<1>7. new[2].pre # {} => \E p \in 1..Len(new) : p # 2 /\ 2 \in new[p].succ
  <2>1. new[2] = bs[2]
      BY <1>4, <1>6
  <2>2. bs[2].pre # {} => \E p \in 1..Len(bs) : p # 2 /\ 2 \in bs[p].succ
      BY DEF Links
  <2> QED
      BY <2>1, <2>2, <1>4, <1>6
<1>8. ASSUME NEW c \in 1..Len(new), c # 2, c \notin V
      PROVE  LinkedTo(new, c) \/ (new[c].pre = {} /\ c \in D)
  <2>1. CASE c = Len(bs) + 1
      BY <2>1, <1>3, <1>4, <1>8
  <2>2. CASE c # Len(bs) + 1
    <3>1. c \in 1..Len(bs) /\ c \notin W
        BY <2>2, <1>1, <1>4, <1>8
    <3>2. LinkedTo(bs, c) \/ (bs[c].pre = {} /\ c \in D)
        BY <3>1, <1>8 DEF Links
    <3> QED
        BY <3>1, <3>2, <1>4, <1>5
  <2> QED
      BY <2>1, <2>2
<1>9. \A c \in S : c \in 1..Len(new) /\ LinkedTo(new, c)
    BY <1>5, <1>6 DEF Links
<1>10. Len(new) >= 2
    BY <1>1, <1>4
<1> QED
    BY <1>4, <1>7, <1>8, <1>9, <1>10 DEF Links, new

\* A branch forward, after which its target is linked.
LEMMA LinksBr ==
    ASSUME NEW bs, NEW W, NEW S, NEW D, Links(bs, W, S, D), NEW b, NEW t, Forward(bs, b, t)
    PROVE  Links(Br(bs, b, t), W \ {t}, S \cup {t}, D) /\ Len(Br(bs, b, t)) = Len(bs)
<1> USE DEF Forward
<1> DEFINE new == Br(bs, b, t)
<1>1. bs \in Seq(Block) /\ EdgesStay(bs) /\ Len(bs) \in Nat
    BY LenProperties DEF Links
<1>2. 0 \in -1..MaxStatements
    BY BoundsType
<1>3. Edges(bs, new, b, {t})
    BY <1>1, <1>2, BranchEdges DEF Br
<1> HIDE DEF new
<1>4. Links(new, W \ {t}, S, D)
    BY <1>3, LinksEdges
<1>5. LinkedTo(new, t) /\ t \in 1..Len(new)
  <2>1. b \in new[t].pre /\ t \in new[b].succ /\ Len(new) = Len(bs)
      BY <1>3 DEF Edges
  <2>2. b \in 1..(t - 1)
      BY <1>1
  <2> QED
      BY <2>1, <2>2 DEF LinkedTo
<1> QED
    BY <1>3, <1>4, <1>5 DEF Links, Edges, new

\* A branch back to a loop, or to returnBB.
LEMMA LinksBack ==
    ASSUME NEW bs, NEW W, NEW S, NEW D, Links(bs, W, S, D), NEW b \in 1..Len(bs), b # 2,
           NEW t \in 1..Len(bs), t = 2 \/ t \in S
    PROVE  Links(Br(bs, b, t), W, S, D) /\ Len(Br(bs, b, t)) = Len(bs)
<1> DEFINE new == Br(bs, b, t)
<1>1. bs \in Seq(Block) /\ EdgesStay(bs)
    BY DEF Links
<1>2. 0 \in -1..MaxStatements
    BY BoundsType
<1>3. Edges(bs, new, b, {t})
    BY <1>1, <1>2, BranchEdges DEF Br
<1> HIDE DEF new
<1>4. Links(new, W, S, D)
    BY <1>3, LinksEdges
<1> QED
    BY <1>3, <1>4 DEF Edges, new

\* A conditional branch goes forward.
LEMMA LinksCondBr ==
    ASSUME NEW bs, NEW W, NEW S, NEW D, Links(bs, W, S, D), NEW b, NEW t, NEW e,
           Forward(bs, b, t), Forward(bs, b, e)
    PROVE  Links(CondBr(bs, b, t, e), W \ {t, e}, S, D) /\ Len(CondBr(bs, b, t, e)) = Len(bs)
<1> USE DEF Forward
<1> DEFINE new == CondBr(bs, b, t, e)
<1>1. bs \in Seq(Block) /\ EdgesStay(bs)
    BY DEF Links
<1>2. 0 \in -1..MaxStatements
    BY BoundsType
<1>3. Edges(bs, new, b, {t, e})
    BY <1>1, <1>2, BranchEdges DEF CondBr
<1> HIDE DEF new
<1>4. Links(new, W \ {t, e}, S, D)
    BY <1>3, LinksEdges
<1> QED
    BY <1>3, <1>4 DEF Edges, new

\* Links that ask for less.
LEMMA LinksLess ==
    ASSUME NEW bs, NEW W, NEW S, NEW D, Links(bs, W, S, D), NEW V, W \subseteq V,
           NEW R, R \subseteq S, NEW E, D \subseteq E
    PROVE  Links(bs, V, R, E)
    BY Zenon DEF Links
\* An index check branches forward twice, to the blocks it makes.
LEMMA LinksCheck ==
    ASSUME NEW c, NEW W, NEW S, NEW D, Links(c.blocks, W, S, D), c.at \in 1..Len(c.blocks), c.at # 2,
           c.label_cnt \in Nat
    PROVE  LET d == IndexCheck(c)
           IN  /\ Links(d.blocks, W, S, D) /\ Len(d.blocks) = Len(c.blocks) + 2
               /\ d.at = Len(c.blocks) + 2 /\ d.label_cnt = c.label_cnt + 1
<1> DEFINE bs == c.blocks
           at == c.at
           neg == Len(bs) + 1
           ok == neg + 1
           n == c.label_cnt + 1
           b1 == AddOp(bs, at, 0)
           b2 == Create(b1, "arr_neg", n)
           b3 == Create(b2, "arr_ok", n)
           b4 == CondBr(b3, at, neg, ok)
           b5 == AddOp(b4, neg, 0)
           b6 == Br(b5, neg, ok)
<1>1. Links(bs, W, S, D) /\ at \in 1..Len(bs) /\ at # 2 /\ n \in Nat /\ Len(bs) \in Nat /\ Len(bs) >= 2
      /\ "arr_neg" \in Kinds /\ "arr_ok" \in Kinds /\ 0 \in 0..MaxStatements
    BY LenProperties, BoundsType DEF Links, Kinds
<1>2. Links(b1, W, S, D) /\ Len(b1) = Len(bs)
    BY <1>1, LinksAddOp
<1>3. neg # 2 /\ ok # 2 /\ neg > at /\ ok > at /\ ok > neg /\ neg = Len(bs) + 1 /\ ok = Len(bs) + 2
      /\ neg \in 1..ok /\ ok \in 1..ok /\ at \in 1..ok
    BY <1>1
<1> DEFINE old == b1
           made == Links(b3, W \cup {neg, ok}, S, D) /\ Len(b3) = ok
<1>4. made
  <2> HIDE DEF b1, n, bs
  <2>1. Links(b2, W \cup {neg}, S, D) /\ Len(b2) = neg
      BY <1>1, <1>2, LinksCreate
  <2> HIDE DEF b2
  <2>2. Links(b3, W \cup {neg, ok}, S, D) /\ Len(b3) = ok
    <3>1. W \cup {neg} \subseteq W \cup {neg, ok} /\ Len(b2) + 1 = ok
        BY <2>1
    <3> HIDE DEF neg, ok
    <3> QED
        BY <2>1, <3>1, <1>1, LinksCreate
  <2> QED
      BY <2>2
<1>5. Links(b4, W, S, D) /\ Len(b4) = ok
  <2>0. Forward(b3, at, neg) /\ Forward(b3, at, ok)
      BY <1>1, <1>3, <1>4 DEF Forward
  <2> DEFINE V == W \cup {neg, ok}
  <2> HIDE DEF b3, neg, ok, at
  <2>3. Links(b3, V, S, D) /\ Len(b3) = ok
      BY <1>4
  <2> HIDE DEF V
  <2>1. Links(b4, V \ {neg, ok}, S, D) /\ Len(b4) = ok
      BY <2>0, <2>3, LinksCondBr
  <2>2. V \ {neg, ok} \subseteq W
      BY DEF V
  <2> HIDE DEF b4
  <2> QED
      BY <2>1, <2>2, LinksLess
<1>6. Links(b5, W, S, D) /\ Len(b5) = ok
  <2>1. neg \in 1..Len(b4) /\ 0 \in 0..MaxStatements
      BY <1>1, <1>3, <1>5
  <2> HIDE DEF b4, neg, ok
  <2> QED
      BY <2>1, <1>5, LinksAddOp
<1>7. Links(b6, W, S, D) /\ Len(b6) = ok
  <2>0. Forward(b5, neg, ok)
      BY <1>3, <1>6 DEF Forward
  <2> HIDE DEF b5, neg, ok
  <2>1. Links(b6, W \ {ok}, S \cup {ok}, D) /\ Len(b6) = ok
      BY <2>0, <1>6, LinksBr
  <2> HIDE DEF b6
  <2> QED
      BY <2>1, LinksLess
<1>8. IndexCheck(c) = [blocks |-> b6, at |-> ok, label_cnt |-> n]
    BY DEF IndexCheck
<1>9. IndexCheck(c).blocks = b6 /\ IndexCheck(c).at = ok /\ IndexCheck(c).label_cnt = n
    BY <1>8
<1> HIDE DEF b6
<1> QED
    BY <1>3, <1>7, <1>9

\* An expression keeps the links.
LEMMA LinksEvaluate ==
    ASSUME NEW bs, NEW W, NEW S, NEW D, Links(bs, W, S, D), NEW b \in 1..Len(bs), b # 2, NEW count \in Nat,
           NEW n \in Nat, NEW s \in 0..MaxStatements, NEW emits \in BOOLEAN
    PROVE  LET e == Evaluate(bs, b, count, n, s, emits)
           IN  /\ Links(e.blocks, W, S, D) /\ Len(e.blocks) >= Len(bs)
               /\ e.at \in 1..Len(e.blocks) /\ e.at # 2 /\ e.label_cnt \in Nat
<1> DEFINE c0 == [blocks |-> bs, at |-> b, label_cnt |-> count]
           f == CHOOSE f : f = [k \in 0..n |-> IF k = 0 THEN c0 ELSE IndexCheck(f[k - 1])]
           e == f[n]
           d == [e EXCEPT !.blocks = IF emits THEN AddOp(@, e.at, s) ELSE @]
<1>1. Evaluate(bs, b, count, n, s, emits) = d
    BY DEF Evaluate
<1>2. f = [k \in 0..n |-> IF k = 0 THEN c0 ELSE IndexCheck(f[k - 1])]
  <2> HIDE DEF c0
  <2>1. \E g : g = [k \in 0..n |-> IF k = 0 THEN c0 ELSE IndexCheck(g[k - 1])]
      BY ChecksExist, ZenonT(40)
  <2> QED
      BY <2>1
<1> HIDE DEF f
<1>3. \A k \in 0..n : f[k] = IF k = 0 THEN c0 ELSE IndexCheck(f[k - 1])
  <2> HIDE DEF c0
  <2> QED
      BY <1>2
<1> DEFINE Good(c) == /\ Links(c.blocks, W, S, D) /\ Len(c.blocks) >= Len(bs)
                      /\ c.at \in 1..Len(c.blocks) /\ c.at # 2 /\ c.label_cnt \in Nat
           Rec == [blocks : Seq(Block), at : Nat, label_cnt : Nat]
           Z == {k \in 0..n : Good(f[k]) /\ f[k] \in Rec}
<1>4. 0 \in Z
  <2>1. f[0] = c0
      BY <1>3
  <2>2. c0.blocks = bs /\ c0.at = b /\ c0.label_cnt = count
      OBVIOUS
  <2>3. Len(bs) \in Nat /\ c0 \in Rec
      BY LenProperties DEF Links
  <2> HIDE DEF c0
  <2> QED
      BY <2>1, <2>2, <2>3
<1>5. ASSUME NEW k \in 1..n, k - 1 \in Z PROVE k \in Z
  <2> DEFINE c == f[k - 1]
  <2>1. Good(c) /\ f[k] = IndexCheck(c)
      BY <1>3, <1>5
  <2> HIDE DEF c
  <2>2. LET r == IndexCheck(c)
        IN  /\ Links(r.blocks, W, S, D) /\ Len(r.blocks) = Len(c.blocks) + 2
            /\ r.at = Len(c.blocks) + 2 /\ r.label_cnt = c.label_cnt + 1
      BY <2>1, LinksCheck
  <2>3. /\ Links(f[k].blocks, W, S, D) /\ Len(f[k].blocks) = Len(c.blocks) + 2
        /\ f[k].at = Len(c.blocks) + 2 /\ f[k].label_cnt = c.label_cnt + 1
      BY <2>1, <2>2
  <2>4. Len(c.blocks) \in Nat /\ Len(bs) \in Nat /\ Len(c.blocks) >= Len(bs) /\ Len(c.blocks) >= 2
        /\ c.label_cnt \in Nat
      BY <2>1, LenProperties DEF Links
  <2>5. f[k] = [blocks |-> f[k].blocks, at |-> f[k].at, label_cnt |-> f[k].label_cnt]
      BY <2>1 DEF IndexCheck
  <2>6. f[k].blocks \in Seq(Block) /\ f[k].at \in Nat /\ f[k].label_cnt \in Nat
      BY <2>3, <2>4 DEF Links
  <2>7. f[k] \in Rec
      BY <2>5, <2>6
  <2>8. Good(f[k])
      BY <2>3, <2>4
  <2> QED
      BY <2>7, <2>8
<1>6. n \in Z
  <2> HIDE DEF Z
  <2>1. 0..n \subseteq Z
      BY <1>4, <1>5, UpTo
  <2> QED
      BY <2>1
<1>7. Good(e) /\ e \in Rec
    BY <1>6
<1> HIDE DEF e, Z
<1>8. CASE emits
  <2>1. d.blocks = AddOp(e.blocks, e.at, s) /\ d.at = e.at /\ d.label_cnt = e.label_cnt
      BY <1>7, <1>8
  <2> HIDE DEF d
  <2>2. Links(AddOp(e.blocks, e.at, s), W, S, D) /\ Len(AddOp(e.blocks, e.at, s)) = Len(e.blocks)
      BY <1>7, LinksAddOp
  <2>3. Good(d)
      BY <2>1, <2>2, <1>7
  <2> QED
      BY <2>3, <1>1
<1>9. CASE ~emits
  <2>1. d = e
      BY <1>7, <1>9
  <2> HIDE DEF d
  <2> QED
      BY <2>1, <1>1, <1>7
<1> QED
    BY <1>8, <1>9

\* What is pending when a visitor is entered,
LEMMA PendingPush ==
    ASSUME NEW s \in Seq(Frame), NEW f \in Frame
    PROVE  /\ Pending(Append(s, f)) = Pending(s) \cup Makes(f)
           /\ Starts(Append(s, f)) = Starts(s) \cup Returns(f)
           /\ (\A i \in 1..Len(s) : Ahead(s[i])) /\ Ahead(f) =>
                \A i \in 1..Len(Append(s, f)) : Ahead(Append(s, f)[i])
<1> DEFINE t == Append(s, f)
<1>1. /\ \A i \in 1..Len(s) : t[i] = s[i] /\ i \in 1..Len(t)
      /\ t[Len(s) + 1] = f /\ Len(s) + 1 \in 1..Len(t)
      /\ \A i \in 1..Len(t) : i \in 1..Len(s) \/ i = Len(s) + 1
  <2>1. /\ Len(t) = Len(s) + 1 /\ Len(s) \in Nat
        /\ \A i \in 1..Len(s) : t[i] = s[i]
        /\ t[Len(s) + 1] = f
        /\ \A i \in 1..Len(t) : i \in 1..Len(s) \/ i = Len(s) + 1
      BY Pushed
  <2> HIDE DEF t
  <2> QED
      BY <2>1
<1> HIDE DEF t
<1>2. Pending(t) = Pending(s) \cup Makes(f)
    BY <1>1 DEF Pending
<1>3. Starts(t) = Starts(s) \cup Returns(f)
    BY <1>1 DEF Starts
<1> QED
    BY <1>1, <1>2, <1>3 DEF t

\* and when it has returned.
LEMMA PendingBelow ==
    ASSUME frames \in Seq(Frame), frames # <<>>
    PROVE  /\ Below \in Seq(Frame)
           /\ Pending(frames) = Pending(Below) \cup Makes(Top)
           /\ Starts(frames) = Starts(Below) \cup Returns(Top)
           /\ (\A i \in 1..Len(frames) : Ahead(frames[i])) =>
                Ahead(Top) /\ \A i \in 1..Len(Below) : Ahead(Below[i])
<1>1. /\ Len(Below) = Len(frames) - 1 /\ Len(frames) \in Nat \ {0} /\ Below \in Seq(Frame)
      /\ \A i \in 1..Len(Below) : i \in 1..Len(frames) /\ Below[i] = frames[i]
      /\ Len(frames) \in 1..Len(frames) /\ Top = frames[Len(frames)]
    BY BelowTop
<1>2. \A i \in 1..Len(frames) : i \in 1..Len(Below) \/ i = Len(frames)
    BY <1>1
<1>3. Pending(frames) = Pending(Below) \cup Makes(Top)
    BY <1>1, <1>2 DEF Pending
<1>4. Starts(frames) = Starts(Below) \cup Returns(Top)
    BY <1>1, <1>2 DEF Starts
<1> QED
    BY <1>1, <1>3, <1>4
\* The branch an arm ends with.
LEMMA LinksArm ==
    ASSUME NEW bs, NEW W, NEW S, NEW D, Links(bs, W, S, D), NEW location, NEW returned, NEW t,
           ~returned => Forward(bs, location, t)
    PROVE  /\ Links(EndArm(bs, location, returned, t), W, S, D)
           /\ ~returned => Links(EndArm(bs, location, returned, t), W \ {t}, S, D)
           /\ Len(EndArm(bs, location, returned, t)) = Len(bs)
<1>1. CASE returned
    BY <1>1 DEF EndArm
<1>2. CASE ~returned
  <2>1. Links(Br(bs, location, t), W \ {t}, S \cup {t}, D) /\ Len(Br(bs, location, t)) = Len(bs)
      BY <1>2, LinksBr
  <2>2. Links(Br(bs, location, t), W, S, D) /\ Links(Br(bs, location, t), W \ {t}, S, D)
      BY <2>1, LinksLess
  <2> QED
      BY <1>2, <2>1, <2>2 DEF EndArm
<1> QED
    BY <1>1, <1>2

\* Where branches come from and lead to, in more blocks.
LEMMA ForwardMore ==
    ASSUME NEW bs, NEW new, NEW b, NEW t, Forward(bs, b, t), Len(bs) \in Nat, Len(new) \in Nat,
           Len(bs) <= Len(new)
    PROVE  Forward(new, b, t)
    BY DEF Forward

\* The blocks a function begins with have no branch yet.
LEMMA LinkInit ==
    ASSUME Init
    PROVE  LinkInv
<1>1. PICK allocas \in BOOLEAN :
        blocks = IF allocas THEN AddOp(Create(<<NewBlock("entry", 0)>>, "returnBB", 0), 1, 0)
                 ELSE Create(<<NewBlock("entry", 0)>>, "returnBB", 0)
    BY DEF Init
<1> DEFINE x == NewBlock("entry", 0)
           y == NewBlock("returnBB", 0)
           b0 == <<x>>
           b1 == Create(b0, "returnBB", 0)
<1>2. x \in Block /\ y \in Block
  <2>1. <<>> \in Seq(Instrs) /\ <<"entry", 0>> \in Kinds \X Nat /\ <<"returnBB", 0>> \in Kinds \X Nat
      BY EmptySeq DEF Kinds
  <2> QED
      BY <2>1 DEF NewBlock, Block
<1>3. x.pre = {} /\ x.succ = {} /\ x.label = <<"entry", 0>>
      /\ y.pre = {} /\ y.succ = {} /\ y.label = <<"returnBB", 0>>
    BY DEF NewBlock
<1>4. b1 \in Seq(Block) /\ Len(b1) = 2 /\ b1[1] = x /\ b1[2] = y
  <2>1. b1 = Append(b0, y)
      BY DEF Create
  <2> HIDE DEF x, y, b1
  <2>2. b0 \in Seq(Block) /\ Len(b0) = 1 /\ b0[1] = x
      BY <1>2
  <2> HIDE DEF b0
  <2> QED
      BY <1>2, <2>1, <2>2, AppendProperties
<1> HIDE DEF b1, x, y
<1>5. Links(b1, {}, {}, Colds)
  <2>1. b1[1].pre = {} /\ b1[2].pre = {} /\ 1 \in Colds
      BY <1>3, <1>4 DEF Colds
  <2>2. EdgesStay(b1)
      BY <1>3, <1>4 DEF EdgesStay
  <2> QED
      BY <1>4, <2>1, <2>2 DEF Links
<1>6. Links(blocks, {}, {}, Colds)
  <2>1. 1 \in 1..Len(b1) /\ 0 \in 0..MaxStatements
      BY <1>4, BoundsType
  <2>2. Links(AddOp(b1, 1, 0), {}, {}, Colds)
      BY <1>5, <2>1, LinksAddOp
  <2>3. blocks = AddOp(b1, 1, 0) \/ blocks = b1
      BY <1>1 DEF b1, x
  <2> QED
      BY <1>5, <2>2, <2>3
<1>7. Len(frames) = 1 /\ frames[1].kind = "compound"
    BY DEF Init
<1>8. Pending(frames) = {} /\ Starts(frames) = {} /\ \A i \in 1..Len(frames) : Ahead(frames[i])
    BY <1>7 DEF Pending, Starts, Makes, Returns, Ahead
<1>9. return_block = 2 /\ insert # 2 /\ curr_block # 2 /\ control # "end"
    BY DEF Init
<1> QED
    BY <1>6, <1>8, <1>9 DEF LinkInv

\* A visitor is entered on top of s,
LEMMA LinkEnter ==
    ASSUME NEW s \in Seq(Frame), \A i \in 1..Len(s) : Ahead(s[i]),
           NEW f \in Frame, Ahead(f), frames' = Append(s, f),
           Links(blocks', Pending(s) \cup Makes(f), Starts(s) \cup Returns(f), Colds),
           dead_ends' = dead_ends, return_block' = 2, insert' # 2, curr_block' # 2, control' # "end"
    PROVE  LinkInv'
<1>1. /\ Pending(frames') = Pending(s) \cup Makes(f)
      /\ Starts(frames') = Starts(s) \cup Returns(f)
      /\ \A i \in 1..Len(frames') : Ahead(frames'[i])
    BY PendingPush
<1> QED
    BY <1>1 DEF LinkInv, Colds

\* the visitors stay,
LEMMA LinkStay ==
    ASSUME LinkInv, frames' = frames, Links(blocks', Pending(frames), Starts(frames), Colds),
           dead_ends' = dead_ends, return_block' = 2, insert' # 2, curr_block' # 2, control' # "end"
    PROVE  LinkInv'
    BY DEF LinkInv, Colds

\* and the innermost one returns.
LEMMA LinkLeave ==
    ASSUME TypeInv, LinkInv, frames # <<>>, frames' = Below,
           Links(blocks', Pending(Below), Starts(Below), Colds),
           dead_ends' = dead_ends, return_block' = 2, insert' # 2, curr_block' # 2, control' # "end"
    PROVE  LinkInv'
<1>1. \A i \in 1..Len(Below) : Ahead(Below[i])
    BY PendingBelow DEF TypeInv, LinkInv
<1> QED
    BY <1>1 DEF LinkInv, Colds
\* What the innermost visitor keeps.
LEMMA TopLinks ==
    ASSUME TypeInv, LinkInv, frames # <<>>
    PROVE  /\ Links(blocks, Pending(Below) \cup Makes(Top), Starts(Below) \cup Returns(Top), Colds)
           /\ Ahead(Top) /\ Keeps(Top, Len(blocks)) /\ Top \in Frame /\ Below \in Seq(Frame)
           /\ \A i \in 1..Len(Below) : Ahead(Below[i])
           /\ Len(blocks) \in Nat /\ Len(blocks) >= 2
           /\ curr_block \in 1..Len(blocks) /\ insert \in 1..Len(blocks)
<1>1. /\ Pending(frames) = Pending(Below) \cup Makes(Top)
      /\ Starts(frames) = Starts(Below) \cup Returns(Top)
      /\ Ahead(Top) /\ \A i \in 1..Len(Below) : Ahead(Below[i])
    BY PendingBelow DEF TypeInv, LinkInv
<1>2. Links(blocks, Pending(frames), Starts(frames), Colds)
    BY DEF LinkInv
<1>3. Keeps(Top, Len(blocks)) /\ Top \in Frame /\ Below \in Seq(Frame)
    BY BelowTop DEF TypeInv
<1>4. Len(blocks) \in Nat /\ Len(blocks) >= 2
    BY <1>2, LenProperties DEF Links
<1>5. curr_block \in 1..Len(blocks) /\ insert \in 1..Len(blocks)
    BY DEF TypeInv
<1> QED
    BY <1>1, <1>2, <1>3, <1>4, <1>5

\* An inner compound statement makes no block.
LEMMA LinkVisitCompound ==
    ASSUME TypeInv, LinkInv, VisitCompound
    PROVE  LinkInv'
<1> DEFINE f == [kind |-> "compound"]
<1>1. f \in Frame /\ f.kind = "compound"
    BY DEF Frame, CompoundFrame
<1>2. /\ \E allocas \in BOOLEAN :
           blocks' = IF allocas THEN AddOp(blocks, insert, 0) ELSE blocks
      /\ frames' = Append(frames, f) /\ control = "visit" /\ control' = "back"
      /\ insert' = insert /\ curr_block' = curr_block /\ return_block' = return_block
    BY Zenon DEF VisitCompound
<1> HIDE DEF f
<1>3. Links(blocks, Pending(frames), Starts(frames), Colds) /\ insert \in 1..Len(blocks)
      /\ 0 \in 0..MaxStatements
    BY BoundsType DEF LinkInv, TypeInv
<1>4. Links(AddOp(blocks, insert, 0), Pending(frames), Starts(frames), Colds)
    BY <1>3, LinksAddOp
<1>5. Links(blocks', Pending(frames), Starts(frames), Colds)
    BY <1>2, <1>3, <1>4
<1>6. return_block' = 2 /\ insert' # 2 /\ curr_block' # 2 /\ control' # "end"
    BY <1>2 DEF LinkInv
<1>7. Ahead(f) /\ Makes(f) = {} /\ Returns(f) = {}
    BY <1>1 DEF Ahead, Makes, Returns
<1>8. Links(blocks', Pending(frames) \cup Makes(f), Starts(frames) \cup Returns(f), Colds)
    BY <1>5, <1>7
<1>9. dead_ends' = dead_ends
    BY DEF VisitCompound, specVars
<1> QED
    BY <1>1, <1>2, <1>6, <1>7, <1>8, <1>9, LinkEnter DEF TypeInv, LinkInv

\* It leaves none behind.
LEMMA LinkLeaveCompound ==
    ASSUME TypeInv, LinkInv, LeaveCompound
    PROVE  LinkInv'
<1>1. frames # <<>> /\ Top.kind = "compound" /\ control = "back" /\ frames' = Below
      /\ blocks' = blocks
    BY DEF LeaveCompound, In, codeVars
<1>2. Links(blocks', Pending(Below), Starts(Below), Colds)
    BY <1>1, TopLinks DEF Makes, Returns
<1>3. return_block' = 2 /\ insert' # 2 /\ curr_block' # 2 /\ control' # "end"
    BY <1>1 DEF LeaveCompound, LinkInv, codeVars
<1>4. dead_ends' = dead_ends
    BY DEF LeaveCompound, specVars
<1> QED
    BY <1>1, <1>2, <1>3, <1>4, LinkLeave

\* An expression is evaluated where the insert point is.
LEMMA LinkVisitExpression ==
    ASSUME TypeInv, LinkInv, VisitExpression
    PROVE  LinkInv'
<1>1. PICK n \in Accesses :
        LET e == Evaluate(blocks, insert, label_cnt, n, statements + 1, TRUE)
        IN  /\ blocks' = e.blocks
            /\ insert' = e.at
            /\ curr_block' = IF n > 0 THEN e.at ELSE curr_block
    BY DEF VisitExpression
<1> DEFINE e == Evaluate(blocks, insert, label_cnt, n, statements + 1, TRUE)
<1>2. statements + 1 \in 0..MaxStatements /\ n \in Nat
    BY TypeBegin DEF VisitExpression, Visits
<1>3. /\ Links(blocks, Pending(frames), Starts(frames), Colds) /\ insert # 2 /\ curr_block # 2
      /\ insert \in 1..Len(blocks) /\ label_cnt \in Nat
    BY DEF LinkInv, TypeInv, VisitExpression, Visits
<1>4. Links(e.blocks, Pending(frames), Starts(frames), Colds) /\ e.at # 2
    BY <1>2, <1>3, LinksEvaluate
<1> HIDE DEF e
<1>5. blocks' = e.blocks /\ insert' = e.at /\ curr_block' = IF n > 0 THEN e.at ELSE curr_block
    BY <1>1 DEF e
<1>6. Links(blocks', Pending(frames), Starts(frames), Colds) /\ insert' # 2 /\ curr_block' # 2
    BY <1>3, <1>4, <1>5
<1>7. frames' = frames /\ return_block' = 2 /\ control' # "end"
    BY DEF VisitExpression, LinkInv
<1>8. dead_ends' = dead_ends
    BY DEF VisitExpression
<1> QED
    BY <1>6, <1>7, <1>8, LinkStay

\* A return branches to returnBB.
LEMMA LinkVisitReturn ==
    ASSUME TypeInv, LinkInv, VisitReturn
    PROVE  LinkInv'
<1>1. PICK n \in Accesses : \E emits \in BOOLEAN :
        LET e == Evaluate(blocks, insert, label_cnt, n, statements + 1, emits)
        IN  /\ blocks' = Br(e.blocks, e.at, return_block)
            /\ insert' = e.at
            /\ curr_block' = IF n > 0 THEN e.at ELSE curr_block
    BY DEF VisitReturn
<1>2. PICK emits \in BOOLEAN :
        LET e == Evaluate(blocks, insert, label_cnt, n, statements + 1, emits)
        IN  /\ blocks' = Br(e.blocks, e.at, return_block)
            /\ insert' = e.at
            /\ curr_block' = IF n > 0 THEN e.at ELSE curr_block
    BY <1>1
<1> DEFINE e == Evaluate(blocks, insert, label_cnt, n, statements + 1, emits)
<1>3. statements + 1 \in 0..MaxStatements /\ n \in Nat
    BY TypeBegin DEF VisitReturn, Visits
<1>4. /\ Links(blocks, Pending(frames), Starts(frames), Colds) /\ insert # 2 /\ curr_block # 2
      /\ insert \in 1..Len(blocks) /\ label_cnt \in Nat /\ return_block = 2
    BY DEF LinkInv, TypeInv, VisitReturn, Visits
<1>5. Links(e.blocks, Pending(frames), Starts(frames), Colds) /\ e.at # 2 /\ e.at \in 1..Len(e.blocks)
    BY <1>3, <1>4, LinksEvaluate
<1> HIDE DEF e
<1>6. /\ blocks' = Br(e.blocks, e.at, 2) /\ insert' = e.at
      /\ curr_block' = IF n > 0 THEN e.at ELSE curr_block
    BY <1>2, <1>4 DEF e
<1>7. 2 \in 1..Len(e.blocks)
    BY <1>5, LenProperties DEF Links
<1>8. Links(Br(e.blocks, e.at, 2), Pending(frames), Starts(frames), Colds)
    BY <1>5, <1>7, LinksBack
<1>9. Links(blocks', Pending(frames), Starts(frames), Colds) /\ insert' # 2 /\ curr_block' # 2
    BY <1>4, <1>5, <1>6, <1>8
<1>10. frames' = frames /\ return_block' = 2 /\ control' # "end"
    BY <1>4 DEF VisitReturn
<1>11. dead_ends' = dead_ends
    BY DEF VisitReturn
<1> QED
    BY <1>9, <1>10, <1>11, LinkStay

\* An if makes trueBB, and branches to it when it ends:
LEMMA LinkVisitSelection ==
    ASSUME TypeInv, LinkInv, VisitSelection
    PROVE  LinkInv'
<1>1. PICK n \in Accesses :
         LET e == Evaluate(blocks, insert, label_cnt, n, statements + 1, TRUE)
             trueBB == Len(e.blocks) + 1
         IN  /\ blocks' = Create(e.blocks, "selTrueBB", e.label_cnt + 1)
             /\ label_cnt' = e.label_cnt + 1
             /\ frames' = Append(frames,
                    [kind |-> "then", label_now |-> label_cnt', trueBB |-> trueBB,
                     orig_block |-> IF n > 0 THEN e.at ELSE curr_block,
                     cond |-> statements + 1])
             /\ insert' = trueBB /\ curr_block' = trueBB
    BY DEF VisitSelection
<1> DEFINE e == Evaluate(blocks, insert, label_cnt, n, statements + 1, TRUE)
           trueBB == Len(e.blocks) + 1
           orig == IF n > 0 THEN e.at ELSE curr_block
           f == [kind |-> "then", label_now |-> label_cnt', trueBB |-> trueBB,
                 orig_block |-> orig, cond |-> statements + 1]
<1>2. statements + 1 \in 0..MaxStatements /\ n \in Nat
    BY TypeBegin DEF VisitSelection, Visits
<1>3. /\ Links(blocks, Pending(frames), Starts(frames), Colds) /\ insert # 2 /\ curr_block # 2
      /\ insert \in 1..Len(blocks) /\ label_cnt \in Nat /\ return_block = 2
      /\ curr_block \in 1..Len(blocks)
    BY DEF LinkInv, TypeInv, VisitSelection, Visits
<1>4. /\ Links(e.blocks, Pending(frames), Starts(frames), Colds) /\ Len(e.blocks) >= Len(blocks)
      /\ e.at \in 1..Len(e.blocks) /\ e.at # 2 /\ e.label_cnt \in Nat
    BY <1>2, <1>3, LinksEvaluate
<1>5. /\ blocks' = Create(e.blocks, "selTrueBB", e.label_cnt + 1)
      /\ label_cnt' = e.label_cnt + 1
      /\ frames' = Append(frames, f)
      /\ insert' = trueBB /\ curr_block' = trueBB
    BY <1>1
<1> HIDE DEF e
<1>6. Len(e.blocks) \in Nat /\ Len(e.blocks) >= 2 /\ Len(blocks) \in Nat
  <2>1. e.blocks \in Seq(Block) /\ Len(e.blocks) >= 2
      BY <1>4 DEF Links
  <2>2. blocks \in Seq(Block)
      BY DEF TypeInv
  <2> QED
      BY <2>1, <2>2, LenProperties
<1>7. trueBB \in Nat /\ trueBB # 2 /\ orig \in Nat /\ orig # 2 /\ orig < trueBB
    BY <1>3, <1>4, <1>6
<1> DEFINE V == Pending(frames) \cup {trueBB}
<1>8. Links(blocks', V, Starts(frames), Colds)
  <2>1. e.label_cnt + 1 \in Nat /\ "selTrueBB" \in Kinds
      BY <1>4 DEF Kinds
  <2>2. Len(e.blocks) + 1 \in V /\ Pending(frames) \subseteq V
      OBVIOUS
  <2> HIDE DEF V, trueBB, orig
  <2> QED
      BY <1>4, <1>5, <2>1, <2>2, LinksCreate
<1> HIDE DEF trueBB, orig
<1>9. f \in Frame /\ Ahead(f) /\ Makes(f) = {trueBB} /\ Returns(f) = {}
  <2>1. label_cnt' \in Nat
      BY <1>4, <1>5
  <2>2. f \in Frame
      BY <1>2, <1>7, <2>1 DEF Frame, ThenFrame
  <2>3. f.kind = "then" /\ f.trueBB = trueBB /\ f.orig_block = orig
      OBVIOUS
  <2> HIDE DEF f
  <2> QED
      BY <1>7, <2>2, <2>3 DEF Ahead, Makes, Returns
<1>10. frames' = Append(frames, f) /\ insert' # 2 /\ curr_block' # 2
       /\ return_block' = 2 /\ control' # "end"
    BY <1>3, <1>5, <1>7 DEF VisitSelection
<1> HIDE DEF f
<1>11. Links(blocks', Pending(frames) \cup Makes(f), Starts(frames) \cup Returns(f), Colds)
    BY <1>8, <1>9
<1>12. dead_ends' = dead_ends
    BY DEF VisitSelection
<1> QED
    BY <1>9, <1>10, <1>11, <1>12, LinkEnter DEF TypeInv, LinkInv
\* without else, to endBB as well;
LEMMA LinkEndIf ==
    ASSUME TypeInv, LinkInv, EndIf
    PROVE  LinkInv'
<1> DEFINE made == Create(blocks, "selEndBB", Top.label_now)
           endBB == Len(made)
           branched == CondBr(made, Top.orig_block, Top.trueBB, endBB)
           W == Pending(Below) \cup {Top.trueBB, endBB}
<1>1. /\ frames # <<>> /\ Top.kind = "then" /\ control = "back" /\ control' = control
      /\ frames' = Below /\ return_block' = return_block
      /\ blocks' = EndArm(branched, curr_block, is_returned_record, endBB)
      /\ insert' = endBB /\ curr_block' = endBB
    BY DEF EndIf, In
<1>2. /\ Links(blocks, Pending(Below) \cup {Top.trueBB}, Starts(Below), Colds)
      /\ Top.orig_block # 2 /\ Top.trueBB # 2 /\ Top.orig_block < Top.trueBB
      /\ {Top.trueBB, Top.orig_block, curr_block} \subseteq 1..Len(blocks)
      /\ Len(blocks) \in Nat /\ Len(blocks) >= 2 /\ curr_block # 2 /\ return_block = 2
  <2>1. /\ Links(blocks, Pending(Below) \cup Makes(Top), Starts(Below) \cup Returns(Top), Colds)
        /\ Ahead(Top) /\ Keeps(Top, Len(blocks)) /\ Len(blocks) \in Nat /\ Len(blocks) >= 2
        /\ curr_block \in 1..Len(blocks)
      BY <1>1, TopLinks
  <2>2. Makes(Top) = {Top.trueBB} /\ Returns(Top) = {}
      BY <1>1 DEF Makes, Returns
  <2>3. Links(blocks, Pending(Below) \cup {Top.trueBB}, Starts(Below), Colds)
      BY <2>1, <2>2
  <2>4. curr_block # 2 /\ return_block = 2
      BY <1>1 DEF LinkInv
  <2> QED
      BY <1>1, <2>1, <2>3, <2>4 DEF Ahead, Keeps
<1>3. Top.label_now \in Nat /\ "selEndBB" \in Kinds
    BY <1>1, TopLinks, FrameFields DEF Kinds
<1>4. Links(made, W, Starts(Below), Colds) /\ endBB = Len(blocks) + 1
  <2>0. endBB = Len(blocks) + 1
      BY <1>2, <1>3, CreateEffect DEF Links, Created
  <2>1. Pending(Below) \cup {Top.trueBB} \subseteq W /\ Len(blocks) + 1 \in W
      BY <2>0
  <2> HIDE DEF W
  <2> QED
      BY <1>2, <1>3, <2>1, LinksCreate
<1>5. /\ Forward(made, Top.orig_block, Top.trueBB) /\ Forward(made, Top.orig_block, endBB)
      /\ Forward(made, curr_block, endBB) /\ endBB # 2
  <2> HIDE DEF made
  <2> QED
      BY <1>2, <1>4 DEF Forward
<1> HIDE DEF made
<1>6. Links(branched, Pending(Below), Starts(Below), Colds) /\ Len(branched) = Len(made)
  <2>1. W \ {Top.trueBB, endBB} \subseteq Pending(Below)
      OBVIOUS
  <2>3. Links(made, W, Starts(Below), Colds)
      BY <1>4
  <2>4. Forward(made, Top.orig_block, Top.trueBB) /\ Forward(made, Top.orig_block, endBB)
      BY <1>5
  <2> HIDE DEF W, endBB
  <2>2. Links(branched, W \ {Top.trueBB, endBB}, Starts(Below), Colds) /\ Len(branched) = Len(made)
      BY <2>3, <2>4, LinksCondBr
  <2> HIDE DEF branched
  <2> QED
      BY <2>1, <2>2, LinksLess
<1>7. Forward(branched, curr_block, endBB)
    BY <1>5, <1>6 DEF Forward
<1> HIDE DEF branched, endBB
<1>8. Links(blocks', Pending(Below), Starts(Below), Colds)
    BY <1>1, <1>6, <1>7, LinksArm
<1>9. return_block' = 2 /\ insert' # 2 /\ curr_block' # 2 /\ control' # "end"
    BY <1>1, <1>2, <1>5
<1>10. dead_ends' = dead_ends
    BY DEF EndIf
<1> QED
    BY <1>1, <1>8, <1>9, <1>10, LinkLeave

\* with one, falseBB is made,
LEMMA LinkVisitElse ==
    ASSUME TypeInv, LinkInv, VisitElse
    PROVE  LinkInv'
<1>1. PICK f \in Frame :
        /\ frames # <<>> /\ Top.kind = "then" /\ control = "back" /\ control' = "visit"
        /\ Top.label_now \in Nat
        /\ insert' = Len(blocks') /\ curr_block' = Len(blocks')
        /\ frames' = Append(Below, f) /\ f.kind = "else"
        /\ f.trueBB = Top.trueBB /\ f.orig_block = Top.orig_block
        /\ f.falseBB = Len(blocks') /\ f.trueBB_location = curr_block
    BY ElseStep
<1>2. blocks' = Create(blocks, "selFalseBB", Top.label_now) /\ return_block' = return_block
      /\ "selFalseBB" \in Kinds
    BY DEF VisitElse, Kinds
<1>3. /\ Links(blocks, Pending(Below) \cup Makes(Top), Starts(Below) \cup Returns(Top), Colds)
      /\ Ahead(Top) /\ Keeps(Top, Len(blocks)) /\ Len(blocks) \in Nat /\ Len(blocks) >= 2
      /\ Below \in Seq(Frame) /\ \A i \in 1..Len(Below) : Ahead(Below[i])
    BY <1>1, TopLinks
<1>4. Makes(Top) = {Top.trueBB} /\ Returns(Top) = {}
    BY <1>1 DEF Makes, Returns
<1>5. Makes(f) = {Top.trueBB, Len(blocks')} /\ Returns(f) = {}
    BY <1>1 DEF Makes, Returns
<1> DEFINE V == Pending(Below) \cup {Top.trueBB, Len(blocks) + 1}
<1>6. Links(blocks', V, Starts(Below), Colds) /\ Len(blocks') = Len(blocks) + 1
  <2>1. Links(blocks, Pending(Below) \cup {Top.trueBB}, Starts(Below), Colds)
      BY <1>3, <1>4
  <2>2. Pending(Below) \cup {Top.trueBB} \subseteq V /\ Len(blocks) + 1 \in V
      OBVIOUS
  <2> HIDE DEF V
  <2> QED
      BY <1>1, <1>2, <2>1, <2>2, LinksCreate, ZenonT(40)
<1>7. Links(blocks', Pending(Below) \cup Makes(f), Starts(Below) \cup Returns(f), Colds)
    BY <1>5, <1>6
<1>8. curr_block # 2 /\ return_block = 2
    BY <1>1 DEF LinkInv
<1>9. /\ Top.orig_block # 2 /\ Top.trueBB # 2 /\ Top.orig_block < Top.trueBB
      /\ Top.orig_block \in 1..Len(blocks)
    BY <1>1, <1>3 DEF Ahead, Keeps
<1>10. Top.orig_block < Len(blocks') /\ Len(blocks') # 2
    BY <1>3, <1>6, <1>9
<1>11. Ahead(f)
    BY <1>1, <1>8, <1>9, <1>10 DEF Ahead
<1>12. return_block' = 2 /\ insert' # 2 /\ curr_block' # 2 /\ control' # "end"
    BY <1>1, <1>2, <1>8, <1>10
<1>13. dead_ends' = dead_ends
    BY DEF VisitElse
<1> QED
    BY <1>1, <1>3, <1>7, <1>11, <1>12, <1>13, LinkEnter

\* and endBB is branched to by the arms that have not returned.
LEMMA LinkEndElse ==
    ASSUME TypeInv, LinkInv, ReturnInv, EndElse
    PROVE  LinkInv'
<1> DEFINE made == Create(blocks, "selEndBB", Top.label_now)
           endBB == Len(made)
           branched == CondBr(made, Top.orig_block, Top.trueBB, Top.falseBB)
           trueEnded == EndArm(branched, Top.trueBB_location, Top.trueBB_returned, endBB)
           falseEnded == EndArm(trueEnded, curr_block, is_returned_record, endBB)
           W == Pending(Below) \cup {Top.trueBB, Top.falseBB}
           waits == IF Top.trueBB_returned /\ is_returned_record THEN {} ELSE {endBB}
           V == W \cup waits
           U == Pending(Below) \cup waits
           cold == {1} \cup dead_ends'
<1>1. /\ frames # <<>> /\ Top.kind = "else" /\ control = "back" /\ control' = control
      /\ frames' = Below /\ return_block' = return_block
      /\ blocks' = IF falseEnded[curr_block].instrs = <<>>
                   THEN Br(falseEnded, curr_block, endBB) ELSE falseEnded
      /\ insert' = endBB /\ curr_block' = endBB
      /\ dead_ends' = IF exits' = {} THEN dead_ends \cup {insert'} ELSE dead_ends
      /\ exits' = exits \cup Top.trueExits
    BY DEF EndElse, In
<1>2. /\ Links(blocks, W, Starts(Below), Colds)
      /\ 2 \notin {Top.orig_block, Top.trueBB, Top.falseBB, Top.trueBB_location, curr_block}
      /\ Top.orig_block < Top.trueBB /\ Top.orig_block < Top.falseBB
      /\ {Top.trueBB, Top.orig_block, Top.falseBB, Top.trueBB_location, curr_block}
           \subseteq 1..Len(blocks)
      /\ Len(blocks) \in Nat /\ Len(blocks) >= 2 /\ return_block = 2
  <2>1. /\ Links(blocks, Pending(Below) \cup Makes(Top), Starts(Below) \cup Returns(Top), Colds)
        /\ Ahead(Top) /\ Keeps(Top, Len(blocks)) /\ Len(blocks) \in Nat /\ Len(blocks) >= 2
        /\ curr_block \in 1..Len(blocks)
      BY <1>1, TopLinks
  <2>2. Makes(Top) = {Top.trueBB, Top.falseBB} /\ Returns(Top) = {}
      BY <1>1 DEF Makes, Returns
  <2>3. Links(blocks, W, Starts(Below), Colds)
      BY <2>1, <2>2
  <2>4. curr_block # 2 /\ return_block = 2
      BY <1>1 DEF LinkInv
  <2> QED
      BY <1>1, <2>1, <2>3, <2>4 DEF Ahead, Keeps
<1>3. Top.label_now \in Nat /\ "selEndBB" \in Kinds
    BY <1>1, TopLinks, FrameFields DEF Kinds
<1>4. endBB = Len(blocks) + 1
    BY <1>2, <1>3, CreateEffect DEF Links, Created
<1>5. waits = {endBB} \/ endBB \in cold
  <2> SUFFICES ASSUME Top.trueBB_returned, is_returned_record PROVE exits' = {}
      BY <1>1
  <2>1. exits = {}
      BY <1>1 DEF ReturnInv
  <2>2. Top.trueExits = {}
      BY <1>1, BelowTop DEF ReturnInv, FramesRight, TypeInv
  <2> QED
      BY <1>1, <2>1, <2>2
<1>6. Colds \subseteq cold
    BY <1>1 DEF Colds
<1> HIDE DEF cold
<1>7. Links(made, V, Starts(Below), cold)
  <2>1. W \subseteq V /\ Len(blocks) + 1 \in V \cup cold
      BY <1>4, <1>5
  <2> HIDE DEF V, W, made
  <2>2. Links(blocks, W, Starts(Below), cold)
      BY <1>2, <1>6, LinksLess
  <2> QED
      BY <1>3, <2>1, <2>2, LinksCreate DEF made
<1>8. /\ Forward(made, Top.orig_block, Top.trueBB) /\ Forward(made, Top.orig_block, Top.falseBB)
      /\ Forward(made, Top.trueBB_location, endBB) /\ Forward(made, curr_block, endBB)
      /\ endBB # 2
  <2> HIDE DEF made
  <2> QED
      BY <1>2, <1>4 DEF Forward
<1>9. /\ V \ {Top.trueBB, Top.falseBB} \subseteq U /\ U \ {endBB} \subseteq Pending(Below)
      /\ Top.trueBB_returned /\ is_returned_record => U \subseteq Pending(Below)
    OBVIOUS
<1> HIDE DEF made, V, U
<1>10. Links(branched, U, Starts(Below), cold) /\ Len(branched) = Len(made)
  <2>1. Links(branched, V \ {Top.trueBB, Top.falseBB}, Starts(Below), cold)
        /\ Len(branched) = Len(made)
      BY <1>7, <1>8, LinksCondBr
  <2> HIDE DEF branched
  <2> QED
      BY <1>9, <2>1, LinksLess
<1>11. /\ Forward(branched, Top.trueBB_location, endBB) /\ Forward(branched, curr_block, endBB)
    BY <1>8, <1>10 DEF Forward
<1> HIDE DEF branched, endBB, waits
<1>12. /\ Links(trueEnded, U, Starts(Below), cold) /\ Len(trueEnded) = Len(branched)
       /\ ~Top.trueBB_returned => Links(trueEnded, Pending(Below), Starts(Below), cold)
  <2>1. /\ Links(trueEnded, U, Starts(Below), cold) /\ Len(trueEnded) = Len(branched)
        /\ ~Top.trueBB_returned => Links(trueEnded, U \ {endBB}, Starts(Below), cold)
      BY <1>10, <1>11, LinksArm
  <2> HIDE DEF trueEnded
  <2> QED
      BY <1>9, <2>1, LinksLess
<1>13. Forward(trueEnded, curr_block, endBB)
    BY <1>11, <1>12 DEF Forward
<1> HIDE DEF trueEnded
<1>14. Links(falseEnded, Pending(Below), Starts(Below), cold) /\ Len(falseEnded) = Len(trueEnded)
  <2>1. CASE ~is_returned_record
    <3>1. Links(falseEnded, U \ {endBB}, Starts(Below), cold) /\ Len(falseEnded) = Len(trueEnded)
        BY <1>12, <1>13, <2>1, LinksArm
    <3> HIDE DEF falseEnded
    <3> QED
        BY <1>9, <3>1, LinksLess
  <2>2. CASE is_returned_record
    <3>1. Links(trueEnded, Pending(Below), Starts(Below), cold)
        BY <1>9, <1>12, <2>2, LinksLess
    <3> QED
        BY <1>13, <3>1, LinksArm
  <2> QED
      BY <2>1, <2>2
<1>15. Forward(falseEnded, curr_block, endBB)
    BY <1>13, <1>14 DEF Forward
<1>16. blocks' = EndArm(falseEnded, curr_block, falseEnded[curr_block].instrs # <<>>, endBB)
    BY <1>1 DEF EndArm
<1> HIDE DEF falseEnded
<1>17. Links(blocks', Pending(Below), Starts(Below), cold)
    BY <1>14, <1>15, <1>16, LinksArm
<1>18. return_block' = 2 /\ insert' # 2 /\ curr_block' # 2 /\ control' # "end" /\ cold = Colds'
    BY <1>1, <1>2, <1>8 DEF cold, Colds
<1>19. \A i \in 1..Len(Below) : Ahead(Below[i])
    BY <1>1, TopLinks
<1> QED
    BY <1>1, <1>17, <1>18, <1>19 DEF LinkInv

\* A loop branches to its start at once, and makes its body,
LEMMA LinkVisitIteration ==
    ASSUME TypeInv, LinkInv, VisitIteration
    PROVE  LinkInv'
<1>1. PICK n \in Accesses :
         LET startBB == Len(blocks) + 1
             entered == Br(Create(blocks, "loopStartBB", label_cnt + 1), insert, startBB)
             e == Evaluate(entered, startBB, label_cnt + 1, n, statements + 1, TRUE)
             bodyBB == Len(e.blocks) + 1
         IN  /\ blocks' = Create(e.blocks, "loopBodyBB", label_cnt + 1)
             /\ frames' = Append(frames,
                    [kind |-> "body", label_now |-> label_cnt + 1, startBB |-> startBB,
                     bodyBB |-> bodyBB, cond |-> statements + 1])
             /\ insert' = bodyBB /\ curr_block' = bodyBB
    BY Zenon DEF VisitIteration
<1>0. control = "visit" /\ control' = "visit" /\ return_block' = return_block /\ MayVisit /\ Begin
    BY Zenon DEF VisitIteration, Visits
<1> DEFINE startBB == Len(blocks) + 1
           made == Create(blocks, "loopStartBB", label_cnt + 1)
           entered == Br(made, insert, startBB)
           e == Evaluate(entered, startBB, label_cnt + 1, n, statements + 1, TRUE)
           bodyBB == Len(e.blocks) + 1
           f == [kind |-> "body", label_now |-> label_cnt + 1, startBB |-> startBB,
                 bodyBB |-> bodyBB, cond |-> statements + 1]
           P == Pending(frames)
           S == Starts(frames)
<1>2. /\ blocks' = Create(e.blocks, "loopBodyBB", label_cnt + 1)
      /\ frames' = Append(frames, f)
      /\ insert' = bodyBB /\ curr_block' = bodyBB
    BY <1>1
<1>3. statements + 1 \in 0..MaxStatements /\ n \in Nat
    BY <1>0, TypeBegin
<1>4. /\ Links(blocks, P, S, Colds) /\ insert # 2 /\ return_block = 2
      /\ insert \in 1..Len(blocks) /\ label_cnt + 1 \in Nat
      /\ "loopStartBB" \in Kinds /\ "loopBodyBB" \in Kinds
    BY <1>0 DEF LinkInv, TypeInv, Kinds
<1>5. Len(blocks) \in Nat /\ Len(blocks) >= 2
    BY <1>4, LenProperties DEF Links
<1>6. startBB \in Nat /\ startBB > 2 /\ insert < startBB
    BY <1>4, <1>5
<1> HIDE DEF P, S
<1>7. Links(made, P \cup {startBB}, S, Colds) /\ Len(made) = startBB
  <2> DEFINE V == P \cup {startBB}
  <2>1. P \subseteq V /\ Len(blocks) + 1 \in V
      OBVIOUS
  <2> HIDE DEF V
  <2>2. Links(made, V, S, Colds) /\ Len(made) = Len(blocks) + 1
      BY <1>4, <2>1, LinksCreate, Zenon
  <2> QED
      BY <2>2 DEF V
<1> HIDE DEF made
<1>8. Links(entered, P, S \cup {startBB}, Colds) /\ Len(entered) = startBB
  <2>1. Forward(made, insert, startBB)
      BY <1>4, <1>5, <1>6, <1>7 DEF Forward
  <2> DEFINE V == P \cup {startBB}
             R == S \cup {startBB}
  <2>2. V \ {startBB} \subseteq P /\ Links(made, V, S, Colds)
      BY <1>7
  <2> HIDE DEF V, startBB
  <2>3. Links(entered, V \ {startBB}, R, Colds) /\ Len(entered) = Len(made)
      BY <2>1, <2>2, LinksBr
  <2> HIDE DEF R, entered
  <2>4. Links(entered, P, R, Colds)
      BY <2>2, <2>3, LinksLess
  <2> QED
      BY <1>7, <2>3, <2>4 DEF R
<1> HIDE DEF entered
<1>9. /\ Links(e.blocks, P, S \cup {startBB}, Colds) /\ Len(e.blocks) >= startBB
  <2>1. startBB \in 1..Len(entered) /\ startBB # 2
      BY <1>6, <1>8
  <2> DEFINE R == S \cup {startBB}
  <2>2. Links(entered, P, R, Colds)
      BY <1>8
  <2> HIDE DEF startBB, R
  <2>3. Links(e.blocks, P, R, Colds) /\ Len(e.blocks) >= Len(entered)
      BY <1>3, <1>4, <2>1, <2>2, LinksEvaluate
  <2> HIDE DEF e
  <2> QED
      BY <1>8, <2>3 DEF R
<1> HIDE DEF e
<1>10. Len(e.blocks) \in Nat
  <2>1. e.blocks \in Seq(Block)
      BY <1>9 DEF Links
  <2> QED
      BY <2>1, LenProperties
<1>11. bodyBB \in Nat /\ bodyBB # 2 /\ startBB < bodyBB
    BY <1>6, <1>9, <1>10
<1>12. Links(blocks', P \cup {bodyBB}, S \cup {startBB}, Colds)
  <2> DEFINE V == P \cup {bodyBB}
             R == S \cup {startBB}
  <2>1. P \subseteq V /\ Len(e.blocks) + 1 \in V /\ Links(e.blocks, P, R, Colds)
      BY <1>9
  <2> HIDE DEF V, R
  <2>2. Links(Create(e.blocks, "loopBodyBB", label_cnt + 1), V, R, Colds)
      BY <1>4, <2>1, LinksCreate, Zenon
  <2> QED
      BY <1>2, <2>2 DEF V, R
<1> HIDE DEF startBB, bodyBB
<1>13. f \in Frame
    BY <1>3, <1>4, <1>6, <1>11 DEF Frame, BodyFrame
<1>14. f.kind = "body" /\ f.startBB = startBB /\ f.bodyBB = bodyBB
    OBVIOUS
<1> HIDE DEF f
<1>15. Makes(f) = {bodyBB} /\ Returns(f) = {startBB} /\ Ahead(f)
    BY <1>6, <1>11, <1>14 DEF Makes, Returns, Ahead
<1>16. Links(blocks', Pending(frames) \cup Makes(f), Starts(frames) \cup Returns(f), Colds)
    BY <1>12, <1>15 DEF P, S
<1>17. insert' # 2 /\ curr_block' # 2 /\ return_block' = 2 /\ control' # "end"
    BY <1>0, <1>2, <1>4, <1>11
<1>18. dead_ends' = dead_ends
    BY DEF VisitIteration
<1> QED
    BY <1>2, <1>13, <1>15, <1>16, <1>17, <1>18, LinkEnter DEF TypeInv, LinkInv

\* to which its start branches when it ends, and the body back.
LEMMA LinkEndIteration ==
    ASSUME TypeInv, LinkInv, EndIteration
    PROVE  LinkInv'
<1> DEFINE ended == IF is_returned_record THEN blocks ELSE Br(blocks, insert, Top.startBB)
           made == Create(ended, "loopEndBB", Top.label_now)
           endBB == Len(made)
           W == Pending(Below) \cup {Top.bodyBB}
           S == Starts(Below) \cup {Top.startBB}
           V == W \cup {endBB}
<1>1. /\ frames # <<>> /\ Top.kind = "body" /\ control = "back" /\ control' = control
      /\ frames' = Below /\ return_block' = return_block
      /\ blocks' = CondBr(made, Top.startBB, Top.bodyBB, endBB)
      /\ insert' = endBB /\ curr_block' = endBB
    BY DEF EndIteration, In
<1>2. /\ Links(blocks, W, S, Colds)
      /\ 2 \notin {Top.startBB, Top.bodyBB, insert} /\ Top.startBB < Top.bodyBB
      /\ {Top.startBB, Top.bodyBB, insert} \subseteq 1..Len(blocks)
      /\ Len(blocks) \in Nat /\ Len(blocks) >= 2 /\ return_block = 2
  <2>1. /\ Links(blocks, Pending(Below) \cup Makes(Top), Starts(Below) \cup Returns(Top), Colds)
        /\ Ahead(Top) /\ Keeps(Top, Len(blocks)) /\ Len(blocks) \in Nat /\ Len(blocks) >= 2
        /\ insert \in 1..Len(blocks)
      BY <1>1, TopLinks
  <2>2. Makes(Top) = {Top.bodyBB} /\ Returns(Top) = {Top.startBB}
      BY <1>1 DEF Makes, Returns
  <2>3. Links(blocks, W, S, Colds)
      BY <2>1, <2>2
  <2>4. insert # 2 /\ return_block = 2
      BY <1>1 DEF LinkInv
  <2> QED
      BY <1>1, <2>1, <2>3, <2>4 DEF Ahead, Keeps
<1>3. Top.label_now \in Nat /\ "loopEndBB" \in Kinds /\ Top.startBB \in S
    BY <1>1, TopLinks, FrameFields DEF Kinds
<1>10. W \subseteq V /\ endBB \in V /\ V \ {Top.bodyBB, endBB} \subseteq Pending(Below)
      /\ Starts(Below) \subseteq S
    OBVIOUS
<1> HIDE DEF W, S
<1>4. Links(ended, W, S, Colds) /\ Len(ended) = Len(blocks)
  <2>1. Links(Br(blocks, insert, Top.startBB), W, S, Colds)
        /\ Len(Br(blocks, insert, Top.startBB)) = Len(blocks)
      BY <1>2, <1>3, LinksBack
  <2> QED
      BY <1>2, <2>1
<1> HIDE DEF ended
<1>5. Links(made, V, S, Colds) /\ endBB = Len(blocks) + 1
  <2>1. Len(made) = Len(ended) + 1
    <3>1. Links(made, W \cup {Len(ended) + 1}, S, Colds) /\ Len(made) = Len(ended) + 1
      <4> DEFINE U == W \cup {Len(ended) + 1}
      <4>1. W \subseteq U /\ Len(ended) + 1 \in U
          OBVIOUS
      <4> HIDE DEF U
      <4>2. Links(made, U, S, Colds) /\ Len(made) = Len(ended) + 1
          BY <1>3, <1>4, <4>1, LinksCreate, Zenon
      <4> HIDE DEF made
      <4> QED
          BY <4>2 DEF U
    <3> QED
        BY <3>1
  <2>2. W \subseteq V /\ Len(ended) + 1 \in V
      BY <2>1
  <2> HIDE DEF V, endBB
  <2>3. Links(made, V, S, Colds)
      BY <1>3, <1>4, <2>2, LinksCreate, Zenon
  <2> QED
      BY <1>4, <2>1, <2>3 DEF endBB
<1> HIDE DEF made, V
<1>6. Forward(made, Top.startBB, Top.bodyBB) /\ Forward(made, Top.startBB, endBB) /\ endBB # 2
    BY <1>2, <1>5 DEF Forward
<1> HIDE DEF endBB
<1>7. Links(blocks', V \ {Top.bodyBB, endBB}, S, Colds)
  <2>1. Links(made, V, S, Colds)
      BY <1>5
  <2>2. Forward(made, Top.startBB, Top.bodyBB) /\ Forward(made, Top.startBB, endBB)
      BY <1>6
  <2>3. Links(CondBr(made, Top.startBB, Top.bodyBB, endBB), V \ {Top.bodyBB, endBB}, S, Colds)
      BY <2>1, <2>2, LinksCondBr
  <2> QED
      BY <1>1, <2>3
<1>8. Links(blocks', Pending(Below), Starts(Below), Colds)
    BY <1>7, <1>10, LinksLess
<1>9. return_block' = 2 /\ insert' # 2 /\ curr_block' # 2 /\ control' # "end"
    BY <1>1, <1>2, <1>6
<1>11. dead_ends' = dead_ends
    BY DEF EndIteration
<1> QED
    BY <1>1, <1>8, <1>9, <1>11, LinkLeave

\* The end of the function branches to returnBB at most.
LEMMA LinkEndFunction ==
    ASSUME TypeInv, LinkInv, EndFunction
    PROVE  LinkInv'
<1> DEFINE returns == AddInstr(blocks, return_block, "ret", Return)
<1>1. /\ frames = <<>> /\ control = "back" /\ control' = "end" /\ frames' = frames
      /\ return_block' = return_block /\ dead_ends' = dead_ends
      /\ blocks' = IF returns[curr_block].instrs = <<>>
                   THEN Br(returns, curr_block, return_block) ELSE returns
    BY DEF EndFunction
<1>2. /\ Links(blocks, Pending(frames), Starts(frames), Colds) /\ return_block = 2 /\ curr_block # 2
      /\ \A i \in 1..Len(frames) : Ahead(frames[i])
    BY <1>1 DEF LinkInv
<1>3. /\ return_block \in 1..Len(blocks) /\ curr_block \in 1..Len(blocks)
      /\ blocks \in Seq(Block) /\ EdgesStay(blocks) /\ Return \in -1..MaxStatements
    BY BoundsType DEF TypeInv, Return
<1>4. Edges(blocks, returns, return_block, {})
    BY <1>3, AddInstrEdges
<1> HIDE DEF returns
<1>5. Links(returns, Pending(frames), Starts(frames), Colds) /\ Len(returns) = Len(blocks)
  <2>1. Links(returns, Pending(frames), Starts(frames), Colds)
      BY <1>2, <1>3, <1>4, LinksEdges
  <2> QED
      BY <2>1, <1>4 DEF Edges
<1>6. Links(Br(returns, curr_block, return_block), Pending(frames), Starts(frames), Colds)
    BY <1>2, <1>3, <1>5, LinksBack
<1>7. Links(blocks', Pending(frames), Starts(frames), Colds)
    BY <1>1, <1>5, <1>6
<1> QED
    BY <1>1, <1>2, <1>7 DEF LinkInv, Colds

\* So every step keeps the links.
LEMMA LinkStep ==
    ASSUME TypeInv, LinkInv, ReturnInv, [Next]_vars
    PROVE  LinkInv'
<1>1. CASE NextStatement
  <2>1. /\ blocks' = blocks /\ insert' = insert /\ curr_block' = curr_block
        /\ return_block' = return_block /\ frames' = frames /\ control = "back" /\ control' = "visit"
        /\ dead_ends' = dead_ends
      BY <1>1 DEF NextStatement, In, codeVars, specVars
  <2> QED
      BY <2>1 DEF LinkInv, Colds
<1>2. CASE UNCHANGED vars
  <2>1. /\ blocks' = blocks /\ insert' = insert /\ curr_block' = curr_block
        /\ return_block' = return_block /\ frames' = frames /\ control' = control
        /\ dead_ends' = dead_ends
      BY <1>2 DEF vars, codeVars, specVars
  <2> QED
      BY <2>1 DEF LinkInv, Colds
<1> QED
    BY <1>1, <1>2, LinkVisitCompound, LinkLeaveCompound, LinkVisitExpression, LinkVisitReturn,
       LinkVisitSelection, LinkEndIf, LinkVisitElse, LinkEndElse, LinkVisitIteration,
       LinkEndIteration, LinkEndFunction DEF Next, Done

\* LinkInv holds throughout.
LEMMA LinkInvIsInvariant ==
    ASSUME Braced
    PROVE  Spec => []LinkInv
<1>1. Init => LinkInv
    BY LinkInit
<1>2. TypeInv /\ ReturnInv /\ LinkInv /\ [Next]_vars => LinkInv'
    BY LinkStep
<1> QED
    BY <1>1, <1>2, TypeInvIsInvariant, ReturnInvIsInvariant, PTL DEF Spec

\* ReachedFrom, step by step.
GatherAt(g, S, b) == S \cup UNION {g[a].succ : a \in S}

Gathering == INSTANCE Folding WITH Op <- GatherAt

Gathered(g, base0, s) == FoldLeft(LAMBDA S, b : S \cup UNION {g[a].succ : a \in S}, base0, s)

Gathers(g, base0, s, n) ==
    \E h : /\ h[0] = base0
           /\ \A k \in 1..n : h[k] = GatherAt(g, h[k - 1], s[k])
           /\ h[n] = Gathered(g, base0, s)

\* The fold goes through these steps.
LEMMA GatherSteps ==
    ASSUME NEW g, NEW base0, NEW s, NEW n \in Nat, DOMAIN s = 1..n
    PROVE  Gathers(g, base0, s, n)
<1> DEFINE I == CHOOSE iter : Gathering!IsIter(g, base0, s, n, iter)
           top(t) == CHOOSE x \in t : \A y \in t : x >= y
           J(T) == CHOOSE iter : iter = [t \in SUBSET T |->
                     IF t = {} THEN base0
                     ELSE iter[t \ {top(t)}] \cup UNION {g[a].succ : a \in iter[t \ {top(t)}]}]
<1>1. Gathered(g, base0, s) = J(DOMAIN s)[DOMAIN s]
    BY DEF Gathered, FoldLeft, MapThenFoldSet, Max
<1>2. I = J(1..n)
    BY DEF Gathering!IsIter, Gathering!Top, GatherAt
<1>3. Gathering!IsIter(g, base0, s, n, I)
    BY Gathering!FoldExists, LeastNumber DEF Gathering!HasLeast
<1> HIDE DEF I, J
<1>4. PICK h : Gathering!IsSteps(g, base0, s, n, h) /\ h[n] = I[1..n]
    BY <1>3, Gathering!FoldSteps, LeastNumber DEF Gathering!HasLeast
<1>5. \A k \in 0..n : h[k] = IF k = 0 THEN base0 ELSE GatherAt(g, h[k - 1], s[k])
    BY <1>4 DEF Gathering!IsSteps
<1>6. h[0] = base0 /\ \A k \in 1..n : h[k] = GatherAt(g, h[k - 1], s[k])
  <2>1. 0 \in 0..n /\ \A k \in 1..n : k \in 0..n /\ k # 0
      OBVIOUS
  <2> QED
      BY <1>5, <2>1
<1>7. h[n] = Gathered(g, base0, s)
    BY <1>1, <1>2, <1>4, Zenon
<1> QED
    BY <1>6, <1>7 DEF Gathers

\* All blocks are reached from those without predecessors, when each has a
\* branch from one made before it: returnBB after the others.
LEMMA AllReached ==
    ASSUME NEW bs, NEW D, Links(bs, {}, {}, D), NEW n, n = Len(bs), NEW h,
           h[0] = {b \in 1..n : bs[b].pre = {}},
           \A k \in 1..n : h[k] = GatherAt(bs, h[k - 1], k)
    PROVE  h[n] = 1..n
<1> DEFINE Z == {k \in 0..n : h[k] \subseteq 1..n /\ h[0] \subseteq h[k]
                             /\ \A b \in 1..n : b <= k + 1 /\ b # 2 => b \in h[k]}
<1>1. n \in Nat /\ n >= 2 /\ \A b \in 1..n : bs[b].succ \subseteq 1..n
    BY LenProperties DEF Links, EdgesStay
<1>2. ASSUME NEW b \in 1..n, b # 2, b \notin h[0]
      PROVE  \E p \in 1..(b - 1) : p # 2 /\ b \in bs[p].succ
  <2>1. bs[b].pre # {}
      BY <1>2
  <2>2. LinkedTo(bs, b)
      BY <1>2, <2>1 DEF Links
  <2> QED
      BY <2>2 DEF LinkedTo
<1>3. 0 \in Z
  <2>1. h[0] \subseteq 1..n
      OBVIOUS
  <2>2. ASSUME NEW b \in 1..n, b <= 0 + 1, b # 2 PROVE b \in h[0]
    <3>1. b = 1
        BY <2>2
    <3>2. 1..(b - 1) = {}
        BY <3>1
    <3> QED
        BY <2>2, <3>2, <1>2
  <2> QED
      BY <1>1, <2>1, <2>2
<1>4. ASSUME NEW k \in 1..n, k - 1 \in Z PROVE k \in Z
  <2>1. h[k] = h[k - 1] \cup UNION {bs[a].succ : a \in h[k - 1]}
      BY DEF GatherAt
  <2>2. h[k - 1] \subseteq 1..n /\ h[0] \subseteq h[k - 1] /\ k \in 0..n
        /\ \A b \in 1..n : b <= k /\ b # 2 => b \in h[k - 1]
    <3>1. (k - 1) + 1 = k /\ k \in 0..n
        BY <1>1
    <3> QED
        BY <1>4, <3>1
  <2>3. h[k] \subseteq 1..n /\ h[0] \subseteq h[k]
      BY <1>1, <2>1, <2>2
  <2>4. ASSUME NEW b \in 1..n, b <= k + 1, b # 2 PROVE b \in h[k]
    <3>1. CASE b \in h[0]
        BY <3>1, <2>3
    <3>2. CASE b \notin h[0]
      <4>1. PICK p \in 1..(b - 1) : p # 2 /\ b \in bs[p].succ
          BY <2>4, <3>2, <1>2
      <4>2. p \in 1..n /\ p <= k
          BY <1>1, <2>4
      <4>3. p \in h[k - 1]
          BY <2>2, <4>1, <4>2
      <4> QED
          BY <2>1, <4>1, <4>3
    <3> QED
        BY <3>1, <3>2
  <2> QED
      BY <2>2, <2>3, <2>4
<1>5. n - 1 \in Z /\ n \in Z
  <2> HIDE DEF Z
  <2>1. 0..n \subseteq Z
      BY <1>1, <1>3, <1>4, UpTo
  <2> QED
      BY <1>1, <2>1
<1>6. h[n] \subseteq 1..n /\ \A b \in 1..n : b # 2 => b \in h[n]
    BY <1>1, <1>5
<1>7. 2 \in h[n]
  <2>1. CASE bs[2].pre = {}
      BY <2>1, <1>1, <1>5
  <2>2. CASE bs[2].pre # {}
    <3>1. PICK p \in 1..n : p # 2 /\ 2 \in bs[p].succ
        BY <2>2 DEF Links
    <3>2. p \in h[n - 1]
        BY <1>1, <1>5, <3>1
    <3>3. h[n] = h[n - 1] \cup UNION {bs[a].succ : a \in h[n - 1]}
        BY <1>1 DEF GatherAt
    <3> QED
        BY <3>1, <3>2, <3>3
  <2> QED
      BY <2>1, <2>2
<1> HIDE DEF Z
<1> QED
    BY <1>1, <1>6, <1>7

\* Where every body has its braces, the only blocks nothing branches to are the
\* entry, a returnBB without a return statement and the end of an if both of
\* whose arms return; what is not reached from the entry is reached from those.
\* A body without braces may be taken for one that has returned (MCCodeGenBare).
THEOREM DeadCodeBehindReturningIf ==
    ASSUME Braced
    PROVE  Spec => []DeadCodeIsBehindReturningIf
<1>1. TypeInv /\ LinkInv => DeadCodeIsBehindReturningIf
  <2> SUFFICES ASSUME TypeInv, LinkInv, control = "end" PROVE DeadCodeIsBehindReturningIf
      BY DEF DeadCodeIsBehindReturningIf
  <2> DEFINE cold == {b \in BlockIndex : blocks[b].pre = {}}
             n == Len(blocks)
             s == [b \in BlockIndex |-> b]
  <2>1. BlockIndex = 1..n /\ n \in Nat
      BY LenProperties DEF BlockIndex, TypeInv
  <2>2. Links(blocks, {}, {}, Colds)
    <3>1. Len(frames) = 0 /\ 1..Len(frames) = {}
      <4>1. frames = <<>>
          BY DEF LinkInv
      <4> QED
          BY <4>1
    <3>2. Pending(frames) = {} /\ Starts(frames) = {}
        BY <3>1 DEF Pending, Starts
    <3>3. Links(blocks, Pending(frames), Starts(frames), Colds)
        BY Zenon DEF LinkInv
    <3> QED
        BY <3>2, <3>3
  <2>3. ASSUME NEW b \in cold PROVE b \in {1, return_block} \cup dead_ends
    <3>1. b \in 1..n /\ blocks[b].pre = {}
        BY <2>1
    <3>2. ~LinkedTo(blocks, b)
        BY <3>1 DEF LinkedTo
    <3>3. CASE b = 2
        BY <3>3 DEF LinkInv
    <3>4. CASE b # 2
        BY <2>2, <3>1, <3>2, <3>4 DEF Links, Colds
    <3> QED
        BY <3>3, <3>4
  <2>4. ReachedFrom(cold) = BlockIndex
    <3>1. DOMAIN s = 1..n /\ \A k \in 1..n : s[k] = k
        BY <2>1
    <3>2. ReachedFrom(cold) = Gathered(blocks, cold, s)
        BY Zenon DEF ReachedFrom, Gathered
    <3>3. cold = {b \in 1..n : blocks[b].pre = {}}
        BY <2>1
    <3> HIDE DEF s, cold, n
    <3>4. Gathers(blocks, cold, s, n)
        BY <2>1, <3>1, GatherSteps
    <3>5. PICK h : /\ h[0] = cold
                   /\ \A k \in 1..n : h[k] = GatherAt(blocks, h[k - 1], s[k])
                   /\ h[n] = Gathered(blocks, cold, s)
        BY <3>4 DEF Gathers
    <3>6. h[0] = {b \in 1..n : blocks[b].pre = {}}
          /\ \A k \in 1..n : h[k] = GatherAt(blocks, h[k - 1], k)
        BY <3>1, <3>3, <3>5
    <3>7. h[n] = 1..n
        BY <2>2, <3>6, AllReached, ZenonT(40) DEF n
    <3> QED
        BY <2>1, <3>2, <3>5, <3>7
  <2> QED
      BY <2>3, <2>4 DEF DeadCodeIsBehindReturningIf
<1> QED
    BY <1>1, TypeInvIsInvariant, LinkInvIsInvariant, PTL
=============================================================================
