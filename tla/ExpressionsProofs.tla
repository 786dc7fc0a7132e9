------------------------- MODULE ExpressionsProofs -------------------------
(***************************************************************************)
(* Proof about Expressions: whatever the programs and their ASTs are, in a *)
(* body whose types are what the language asks for the operands of every   *)
(* instruction have exactly the types it needs, but for the i1 in an int   *)
(* element or for an int parameter of a body that puts a comparison there  *)
(* (OperandsFit).                                                          *)
(*                                                                         *)
(* A visitor only sees the value its child left, so the invariant          *)
(* ExpressionInv is about the whole stack of visitors.  The code is sound  *)
(* (Sound); what a visitor keeps is a value of the type it needs           *)
(* (KeepsValues); the class of the node above is that of the child it      *)
(* waits for (AcceptedBy), so the value that comes back is of that class   *)
(* (IsOf), an i1 from a truth value only; and a variable visited for a     *)
(* STORE finds what it may store in expression (Begins).                   *)
(***************************************************************************)
EXTENDS Expressions, SequenceTheorems, TLAPS

IsSeq(s) == \E S : s \in Seq(S)

LEMMA SeqAppend ==
    ASSUME NEW s, IsSeq(s), NEW e
    PROVE  /\ IsSeq(Append(s, e)) /\ Len(s) \in Nat /\ DOMAIN s = 1..Len(s)
           /\ Len(Append(s, e)) = Len(s) + 1
           /\ Append(s, e)[Len(s) + 1] = e
           /\ \A n \in 1..Len(s) : Append(s, e)[n] = s[n]
<1>1. PICK S : s \in Seq(S)
    BY DEF IsSeq
<1>2. s \in Seq(S \cup {e}) /\ e \in S \cup {e}
  <2>1. Len(s) \in Nat /\ \A n \in 1..Len(s) : s[n] \in S \cup {e}
      BY <1>1, ElementOfSeq
  <2> QED
      BY <1>1, <2>1
<1> QED
    BY <1>2, AppendProperties DEF IsSeq

LEMMA TypesDiffer ==
    /\ I1 # I32 /\ I1 # Float /\ I32 # Float /\ Void \notin {I1, I32, Float}
    /\ Numeric # Truth /\ NumberClasses \cap {I1, I32, Float, Void} = {}
    /\ \A ty : PointerTo(ty) \notin {I1, I32, Float, Void} \cup NumberClasses
    /\ \A t, u : PointerTo(t) = PointerTo(u) => t = u
    BY DEF I1, I32, Float, Void, Numeric, Truth, NumberClasses, PointerTo
-----------------------------------------------------------------------------
\* A value that an instruction of the code c, or none, has made.
Fine(c, v) == v[1] \in {"const", "fp", "alloca", "return_alloca"} \/ (v[1] = "i" /\ v[2] \in DOMAIN c)

\* The operands whose types an instruction depends on.
Operands(i) == IF i.op \in Binary \cup ICmp \cup FCmp \cup {"store"} THEN {1, 2}
               ELSE IF i.op = "gep" THEN {1, Len(i.args)}
               ELSE IF i.op = "call" THEN {n + 1 : n \in DOMAIN Named(i.args[1][2]).params}
               ELSE {1}

\* The nodes of the body that store a truth value in an int element, or pass one for an int.
Takers == TakeTruthForInt(BodyNodes)

Fits(c, i) == OperandsFitIn(c, i, Takers) /\ \A n \in Operands(i) : Fine(c, i.args[n])

Ops == Binary \cup ICmp \cup FCmp \cup Casts \cup {"store", "load", "check", "gep", "call"}

Sound(c) == IsSeq(c) /\ \A n \in 1..Len(c) : c[n].op \in Ops /\ Fits(c, c[n])

\* What is a value in c has the same type in d.
Extends(c, d) == \A v : Fine(c, v) => Fine(d, v) /\ TypeOf(d, v) = TypeOf(c, v)

LEMMA ExtendsAgain ==
    ASSUME NEW c, NEW d, NEW e, Extends(c, d), Extends(d, e)
    PROVE  Extends(c, e)
    BY Zenon DEF Extends

LEMMA ExtendsSelf ==
    ASSUME NEW c PROVE Extends(c, c)
    BY Zenon DEF Extends

LEMMA AppendExtends ==
    ASSUME NEW c, IsSeq(c), NEW i
    PROVE  Extends(c, Append(c, i))
<1> SUFFICES ASSUME NEW v, Fine(c, v)
             PROVE  Fine(Append(c, i), v) /\ TypeOf(Append(c, i), v) = TypeOf(c, v)
    BY Zenon DEF Extends
<1> DEFINE d == Append(c, i)
<1>1. \A n \in DOMAIN c : n \in DOMAIN d /\ d[n] = c[n]
    BY SeqAppend
<1> HIDE DEF d
<1>2. CASE v[1] = "i"
    BY <1>1, <1>2 DEF Fine, TypeOf, d
<1>3. CASE v[1] \in {"const", "fp", "alloca", "return_alloca"}
    BY <1>3 DEF Fine, TypeOf, d
<1> QED
    BY <1>2, <1>3 DEF Fine

LEMMA FitsExtends ==
    ASSUME NEW c, NEW d, Extends(c, d), NEW i, i.op \in Ops, Fits(c, i)
    PROVE  Fits(d, i)
<1>1. \A n \in Operands(i) : Fine(d, i.args[n]) /\ TypeOf(d, i.args[n]) = TypeOf(c, i.args[n])
    BY DEF Extends, Fits
<1>2. OperandsFitIn(c, i, Takers)
    BY DEF Fits
<1>3. OperandsFitIn(d, i, Takers)
  <2>1. CASE i.op \in Binary \cup ICmp \cup FCmp
      BY <2>1, <1>1, <1>2 DEF Operands, OperandsFitIn, Binary, ICmp, FCmp
  <2>2. CASE i.op \in Casts \cup {"load", "check"}
      BY <2>2, <1>1, <1>2 DEF Operands, OperandsFitIn, Binary, ICmp, FCmp, Casts
  <2>3. CASE i.op = "store"
      BY <2>3, <1>1, <1>2 DEF Operands, OperandsFitIn, Binary, ICmp, FCmp
  <2>4. CASE i.op = "gep"
      BY <2>4, <1>1, <1>2 DEF Operands, OperandsFitIn, Binary, ICmp, FCmp
  <2>5. CASE i.op = "call"
      BY <2>5, <1>1, <1>2 DEF Operands, OperandsFitIn, Binary, ICmp, FCmp
  <2> QED
      BY <2>1, <2>2, <2>3, <2>4, <2>5 DEF Ops
<1> QED
    BY <1>1, <1>3 DEF Fits

\* e continues c, and its value has type ty.
Yields(c, e, ty) ==
    /\ Sound(e.code) /\ Extends(c, e.code)
    /\ Fine(e.code, e.value) /\ TypeOf(e.code, e.value) = ty

LEMMA MakeYields ==
    ASSUME NEW c, Sound(c), NEW op \in Ops, NEW args, NEW ty,
           Fits(c, [op |-> op, args |-> args, ty |-> ty])
    PROVE  Yields(c, Make(c, op, args, ty), ty)
<1> DEFINE i == [op |-> op, args |-> args, ty |-> ty]
           d == Append(c, i)
<1>1. /\ IsSeq(d) /\ Len(c) \in Nat /\ Len(d) = Len(c) + 1 /\ d[Len(c) + 1] = i
      /\ \A n \in 1..Len(c) : d[n] = c[n]
      /\ DOMAIN d = 1..Len(d)
    BY SeqAppend DEF Sound
<1>2. Extends(c, d)
    BY AppendExtends DEF Sound
<1>3. i.op = op /\ i.ty = ty
    OBVIOUS
<1>4. Make(c, op, args, ty).code = d /\ Make(c, op, args, ty).value = <<"i", Len(c) + 1>>
    BY DEF Make
<1> HIDE DEF i, d
<1>5. ASSUME NEW n \in 1..Len(d) PROVE d[n].op \in Ops /\ Fits(d, d[n])
  <2>1. CASE n \in 1..Len(c)
      BY <2>1, <1>1, <1>2, FitsExtends DEF Sound
  <2>2. CASE n = Len(c) + 1
    <3>1. Fits(c, i)
        BY DEF i
    <3> QED
        BY <2>2, <3>1, <1>1, <1>2, <1>3, FitsExtends
  <2> QED
      BY <2>1, <2>2, <1>1
<1>6. Sound(d)
    BY <1>1, <1>5 DEF Sound
<1>7. Fine(d, <<"i", Len(c) + 1>>) /\ TypeOf(d, <<"i", Len(c) + 1>>) = ty
    BY <1>1, <1>3 DEF Fine, TypeOf
<1> QED
    BY <1>2, <1>4, <1>6, <1>7 DEF Yields

LEMMA MadeIs ==
    ASSUME NEW c, NEW op, NEW args, NEW ty
    PROVE  Make(c, op, args, ty).value[1] = "i"
    BY DEF Make
-----------------------------------------------------------------------------
\* What each conversion and each group of instructions yields.
Numbers == {I1, I32, Float}

LEMMA CastYields ==
    ASSUME NEW c, Sound(c), NEW v, Fine(c, v)
    PROVE  /\ TypeOf(c, v) = I1 => Yields(c, Make(c, "zext", <<v>>, I32), I32)
           /\ TypeOf(c, v) \in {I1, I32} => Yields(c, Make(c, "sitofp", <<v>>, Float), Float)
           /\ TypeOf(c, v) = Float => Yields(c, Make(c, "fptosi", <<v>>, I32), I32)
           /\ TypeOf(c, v) = I32 => Yields(c, Make(c, "check", <<v>>, I32), I32)
<1> DEFINE made(op, ty) == [op |-> op, args |-> <<v>>, ty |-> ty]
<1>1. \A op \in Casts \cup {"check"} : \A ty : op \in Ops /\ Operands(made(op, ty)) = {1}
    BY DEF Ops, Operands, Casts, Binary, ICmp, FCmp
<1>2. \A op, ty : made(op, ty).args[1] = v
    OBVIOUS
<1>3. \A op \in Casts \cup {"check"} : \A ty :
         OperandsFitIn(c, made(op, ty), Takers) => Yields(c, Make(c, op, <<v>>, ty), ty)
    BY <1>1, <1>2, MakeYields DEF Fits
<1>4. TypeOf(c, v) = I1 => OperandsFitIn(c, made("zext", I32), Takers)
    BY DEF OperandsFitIn, Binary, ICmp, FCmp
<1>5. TypeOf(c, v) \in {I1, I32} => OperandsFitIn(c, made("sitofp", Float), Takers)
    BY DEF OperandsFitIn, Binary, ICmp, FCmp
<1>6. TypeOf(c, v) = Float => OperandsFitIn(c, made("fptosi", I32), Takers)
    BY DEF OperandsFitIn, Binary, ICmp, FCmp
<1>7. TypeOf(c, v) = I32 => OperandsFitIn(c, made("check", I32), Takers)
    BY DEF OperandsFitIn, Binary, ICmp, FCmp
<1>8. {"zext", "sitofp", "fptosi"} \subseteq Casts
    BY DEF Casts
<1> QED
    BY <1>3, <1>4, <1>5, <1>6, <1>7, <1>8

\* A load of a value of type ty.
LEMMA LoadYields ==
    ASSUME NEW c, Sound(c), NEW v, Fine(c, v), NEW ty, TypeOf(c, v) = PointerTo(ty)
    PROVE  Yields(c, Make(c, "load", <<v>>, ty), ty)
<1> DEFINE i == [op |-> "load", args |-> <<v>>, ty |-> ty]
<1>1. "load" \in Ops /\ Operands(i) = {1}
    BY DEF Ops, Operands, Binary, ICmp, FCmp
<1>2. OperandsFitIn(c, i, Takers)
    BY DEF OperandsFitIn, Binary, ICmp, FCmp
<1>3. Fits(c, i)
    BY <1>1, <1>2 DEF Fits
<1> QED
    BY <1>1, <1>3, MakeYields

\* A store of a value where values of its type are, or of an i1 in an element where that may be.
LEMMA StoreYields ==
    ASSUME NEW c, Sound(c), NEW v, Fine(c, v), NEW w, Fine(c, w), NEW ty \in ElementTypes,
           TypeOf(c, w) = PointerTo(ty),
           TypeOf(c, v) = ty \/ (Takers # {} /\ TypeOf(c, v) = I1 /\ ty = I32 /\ w[1] = "i")
    PROVE  Yields(c, Make(c, "store", <<v, w>>, Void), Void)
<1> DEFINE i == [op |-> "store", args |-> <<v, w>>, ty |-> Void]
<1>1. "store" \in Ops /\ Operands(i) = {1, 2}
    BY DEF Ops, Operands, Binary, ICmp, FCmp
<1>2. OperandsFitIn(c, i, Takers)
    BY DEF OperandsFitIn, Binary, ICmp, FCmp
<1>3. Fits(c, i)
    BY <1>1, <1>2 DEF Fits
<1> QED
    BY <1>1, <1>3, MakeYields

\* The address of an element: of an array, or of what a pointer points to.
LEMMA GepYields ==
    ASSUME NEW c, Sound(c), NEW v, Fine(c, v), NEW n, Fine(c, n), TypeOf(c, n) = I32,
           NEW elem \in ElementTypes
    PROVE  /\ TypeOf(c, v) = PointerTo(<<"array", elem>>) =>
                Yields(c, Make(c, "gep", <<v, Const(0), n>>, PointerTo(elem)), PointerTo(elem))
           /\ TypeOf(c, v) = PointerTo(elem) =>
                Yields(c, Make(c, "gep", <<v, n>>, PointerTo(elem)), PointerTo(elem))
<1> DEFINE i == [op |-> "gep", args |-> <<v, Const(0), n>>, ty |-> PointerTo(elem)]
           j == [op |-> "gep", args |-> <<v, n>>, ty |-> PointerTo(elem)]
<1>1. "gep" \in Ops /\ Operands(i) = {1, 3} /\ Operands(j) = {1, 2}
    BY DEF Ops, Operands, Binary, ICmp, FCmp
<1>2. ASSUME TypeOf(c, v) = PointerTo(<<"array", elem>>) PROVE OperandsFitIn(c, i, Takers)
    BY <1>2 DEF OperandsFitIn, Binary, ICmp, FCmp
<1>3. ASSUME TypeOf(c, v) = PointerTo(elem) PROVE OperandsFitIn(c, j, Takers)
    BY <1>3 DEF OperandsFitIn, Binary, ICmp, FCmp
<1>4. TypeOf(c, v) = PointerTo(<<"array", elem>>) => Fits(c, i)
    BY <1>1, <1>2 DEF Fits
<1>5. TypeOf(c, v) = PointerTo(elem) => Fits(c, j)
    BY <1>1, <1>3 DEF Fits
<1> QED
    BY <1>1, <1>4, <1>5, MakeYields

\* An operation of two numbers of one type.
LEMMA OperationYields ==
    ASSUME NEW c, Sound(c), NEW v, Fine(c, v), NEW w, Fine(c, w), NEW ty \in ElementTypes,
           TypeOf(c, v) = ty, TypeOf(c, w) = ty, NEW op
    PROVE  /\ op \in Binary => Yields(c, Make(c, op, <<v, w>>, ty), ty)
           /\ op \in (IF ty = I32 THEN ICmp ELSE FCmp) => Yields(c, Make(c, op, <<v, w>>, I1), I1)
<1> DEFINE i(t) == [op |-> op, args |-> <<v, w>>, ty |-> t]
<1>1. \A t : op \in Binary \cup ICmp \cup FCmp => Operands(i(t)) = {1, 2} /\ op \in Ops
    BY DEF Ops, Operands
<1>2. op \in Binary => OperandsFitIn(c, i(ty), Takers)
    BY DEF OperandsFitIn, Binary, ICmp, FCmp
<1>3. op \in ICmp /\ ty = I32 => OperandsFitIn(c, i(I1), Takers)
    BY DEF OperandsFitIn, Binary, ICmp, FCmp
<1>4. op \in FCmp /\ ty = Float => OperandsFitIn(c, i(I1), Takers)
    BY DEF OperandsFitIn, Binary, ICmp, FCmp
<1>5. ty = I32 \/ (ty # I32 /\ ty = Float)
    BY TypesDiffer DEF ElementTypes
<1>6. op \in Binary => Fits(c, i(ty))
    BY <1>1, <1>2 DEF Fits
<1>7. op \in (IF ty = I32 THEN ICmp ELSE FCmp) => Fits(c, i(I1))
    BY <1>1, <1>3, <1>4, <1>5 DEF Fits
<1> HIDE DEF i
<1>8. i(ty) = [op |-> op, args |-> <<v, w>>, ty |-> ty] /\ i(I1) = [op |-> op, args |-> <<v, w>>, ty |-> I1]
    BY DEF i
<1> QED
    BY <1>1, <1>6, <1>7, <1>8, MakeYields

LEMMA SameYields ==
    ASSUME NEW e, Sound(e.code), Fine(e.code, e.value)
    PROVE  Yields(e.code, e, Type(e))
    BY ExtendsSelf DEF Yields, Type

LEMMA HaveIs ==
    ASSUME NEW c, NEW v
    PROVE  Have(c, v).code = c /\ Have(c, v).value = v /\ Type(Have(c, v)) = TypeOf(c, v)
    BY DEF Have, Type

LEMMA WidenedYields ==
    ASSUME NEW e, Sound(e.code), Fine(e.code, e.value)
    PROVE  Yields(e.code, Widened(e), IF Type(e) = I1 THEN I32 ELSE Type(e))
    BY CastYields, SameYields DEF Widened, Type

LEMMA AsIndexYields ==
    ASSUME NEW e, Sound(e.code), Fine(e.code, e.value), Type(e) \in ElementTypes
    PROVE  Yields(e.code, AsIndex(e), I32)
    BY CastYields, SameYields DEF AsIndex, Type, ElementTypes

\* A number that is converted to a number's type has that type, or stays an i1.
LEMMA ConvertedYields ==
    ASSUME NEW e, Sound(e.code), Fine(e.code, e.value), NEW ty
    PROVE  /\ Type(e) \in Numbers /\ ty \in ElementTypes =>
                Yields(e.code, Converted(e, ty), IF Type(e) = I1 /\ ty = I32 THEN I1 ELSE ty)
           /\ Type(e) \notin Numbers => Converted(e, ty) = e
<1>1. ASSUME ty # I32, Type(e) \in {I1, I32}
      PROVE  Converted(e, ty) = Make(e.code, "sitofp", <<e.value>>, Float)
    BY <1>1, TypesDiffer DEF Converted
<1>2. ASSUME ty # Float, Type(e) = Float
      PROVE  Converted(e, ty) = Make(e.code, "fptosi", <<e.value>>, I32)
    BY <1>2, TypesDiffer DEF Converted
<1>3. ASSUME ~(ty # I32 /\ Type(e) \in {I1, I32}), ~(ty # Float /\ Type(e) = Float)
      PROVE  Converted(e, ty) = e
    BY <1>3 DEF Converted
<1>4. ASSUME Type(e) \in Numbers, ty \in ElementTypes
      PROVE  Yields(e.code, Converted(e, ty), IF Type(e) = I1 /\ ty = I32 THEN I1 ELSE ty)
  <2>1. Yields(e.code, e, Type(e)) /\ Type(e) = TypeOf(e.code, e.value)
      BY SameYields DEF Type
  <2>2. CASE ty = I32
      BY <2>1, <2>2, <1>2, <1>3, <1>4, TypesDiffer, CastYields DEF Numbers
  <2>3. CASE ty = Float
      BY <2>1, <2>3, <1>1, <1>3, <1>4, TypesDiffer, CastYields DEF Numbers
  <2> QED
      BY <2>2, <2>3, <1>4 DEF ElementTypes
<1>5. ASSUME Type(e) \notin Numbers
      PROVE  Converted(e, ty) = e
    BY <1>3, <1>5 DEF Numbers
<1> QED
    BY <1>4, <1>5

\* The same value in what continues the code.
LEMMA StillYields ==
    ASSUME NEW c, NEW e, NEW ty, Yields(c, e, ty), NEW v, Fine(c, v)
    PROVE  Fine(e.code, v) /\ TypeOf(e.code, v) = TypeOf(c, v)
    BY Zenon DEF Yields, Extends

LEMMA ThenYields ==
    ASSUME NEW c, NEW e, NEW ty, Yields(c, e, ty), NEW f, NEW u, Yields(e.code, f, u)
    PROVE  Yields(c, f, u)
    BY ExtendsAgain, Zenon DEF Yields

\* A value of the code c that is a number.
IsNumber(c, v) == Fine(c, v) /\ TypeOf(c, v) \in Numbers

\* The two sides of an operation become numbers of one type.
LEMMA SidesMatch ==
    ASSUME Sound(code), IsNumber(code, Saved[1]), IsNumber(code, expression)
    PROVE  \E v, w : /\ Sides.args = <<v, w>> /\ Sides.ty \in ElementTypes
                     /\ Sound(Sides.code) /\ Extends(code, Sides.code)
                     /\ Fine(Sides.code, v) /\ TypeOf(Sides.code, v) = Sides.ty
                     /\ Fine(Sides.code, w) /\ TypeOf(Sides.code, w) = Sides.ty
<1> DEFINE l == Widened(Have(code, Saved[1]))
           r == Widened(Have(l.code, expression))
           lf == Converted(Have(r.code, l.value), Float)
           rf == Converted(Have(lf.code, r.value), Float)
           asInts == Type(l) = I32 /\ Type(r) = I32
<1>1. PICK t \in ElementTypes : Yields(code, l, t)
    BY WidenedYields, HaveIs DEF IsNumber, Numbers, ElementTypes
<1>2. PICK u \in ElementTypes : Yields(l.code, r, u)
  <2>1. IsNumber(l.code, expression) /\ Sound(l.code)
      BY <1>1, StillYields DEF IsNumber, Yields
  <2> HIDE DEF l
  <2> QED
      BY <2>1, WidenedYields, HaveIs DEF IsNumber, Numbers, ElementTypes
<1> HIDE DEF l, r
<1>3. Yields(code, r, u) /\ Fine(r.code, l.value) /\ TypeOf(r.code, l.value) = t
  <2>1. Fine(l.code, l.value) /\ TypeOf(l.code, l.value) = t
      BY <1>1 DEF Yields
  <2> QED
      BY <2>1, <1>1, <1>2, StillYields, ThenYields
<1>4. Type(l) = t /\ Type(r) = u /\ Fine(r.code, r.value) /\ TypeOf(r.code, r.value) = u /\ Sound(r.code)
    BY <1>1, <1>2 DEF Yields, Type
<1>5. CASE asInts
  <2>1. Sides = [code |-> r.code, args |-> <<l.value, r.value>>, ty |-> I32]
      BY <1>5 DEF Sides, l, r
  <2>2. Sides.code = r.code /\ Sides.args = <<l.value, r.value>> /\ Sides.ty = I32
      BY <2>1
  <2> QED
      BY <2>2, <1>3, <1>4, <1>5 DEF ElementTypes, Yields
<1>6. CASE ~asInts
  <2>1. Sides = [code |-> rf.code, args |-> <<lf.value, rf.value>>, ty |-> Float]
      BY <1>6 DEF Sides, l, r
  <2>2. Yields(r.code, lf, Float)
      BY <1>3, <1>4, ConvertedYields, HaveIs, TypesDiffer DEF Numbers, ElementTypes
  <2>3. Fine(lf.code, r.value) /\ TypeOf(lf.code, r.value) = u /\ Sound(lf.code)
      BY <2>2, <1>4, StillYields DEF Yields
  <2> HIDE DEF lf
  <2>4. Yields(lf.code, rf, Float)
      BY <2>3, ConvertedYields, HaveIs, TypesDiffer DEF Numbers, ElementTypes
  <2>5. Yields(code, rf, Float)
      BY <1>3, <2>2, <2>4, ThenYields
  <2>6. Fine(rf.code, lf.value) /\ TypeOf(rf.code, lf.value) = Float
      BY <2>2, <2>4, StillYields DEF Yields
  <2> HIDE DEF rf
  <2>7. Sides.code = rf.code /\ Sides.args = <<lf.value, rf.value>> /\ Sides.ty = Float
      BY <2>1
  <2> QED
      BY <2>5, <2>6, <2>7 DEF ElementTypes, Yields
<1> QED
    BY <1>5, <1>6

\* What the memory of a variable is.
LEMMA AllocaIs ==
    ASSUME NEW c, NEW k
    PROVE  Fine(c, Alloca(k)) /\ TypeOf(c, Alloca(k)) = PointerTo(Held(decls[k]))
    BY DEF Fine, TypeOf, Alloca

LEMMA HeldIs ==
    ASSUME NEW d
    PROVE  /\ d.shape = "scalar" => Held(d) = d.elem
           /\ d.shape = "array" => Held(d) = <<"array", d.elem>>
           /\ d.shape = "pointer" => Held(d) = PointerTo(d.elem)
    BY DEF Held

\* The address of an element, by way of a check of the index.
LEMMA ElementYields ==
    ASSUME NEW e, Sound(e.code), Fine(e.code, e.value), Type(e) \in ElementTypes,
           IsVariable(Node.id), Named(Node.id).shape # "scalar"
    PROVE  Yields(e.code, Element(e), PointerTo(Named(Node.id).elem)) /\ Element(e).value[1] = "i"
<1> DEFINE k == Find(Node.id)
           d == decls[k]
           i == AsIndex(e)
           checked == Make(i.code, "check", <<i.value>>, I32)
           loaded == Make(checked.code, "load", <<Alloca(k)>>, Held(d))
           again(c) == AsIndex(Have(c, e.value))
<1>1. d.elem \in ElementTypes /\ d = Named(Node.id) /\ d.shape \in {"array", "pointer"}
    BY DEF IsVariable, Named
<1>2. Yields(e.code, i, I32)
    BY AsIndexYields
<1> HIDE DEF i
<1>3. Yields(i.code, checked, I32)
    BY <1>2, CastYields DEF Yields
<1> HIDE DEF checked
<1>4. Yields(e.code, checked, I32)
    BY <1>2, <1>3, ThenYields
<1>5. CASE d.shape = "array"
  <2> DEFINE at == again(checked.code)
  <2>1. Yields(checked.code, at, I32)
    <3>1. Fine(checked.code, e.value) /\ TypeOf(checked.code, e.value) = Type(e) /\ Sound(checked.code)
        BY <1>4, StillYields DEF Type, Yields
    <3> QED
        BY <3>1, AsIndexYields, HaveIs
  <2> HIDE DEF at
  <2>2. Element(e) = Make(at.code, "gep", <<Alloca(k), Const(0), at.value>>, PointerTo(d.elem))
      BY <1>5 DEF Element, at, i, checked
  <2>3. /\ Yields(at.code, Element(e), PointerTo(d.elem)) /\ Element(e).value[1] = "i"
    <3>1. /\ Sound(at.code) /\ Fine(at.code, at.value) /\ TypeOf(at.code, at.value) = I32
          /\ Fine(at.code, Alloca(k)) /\ TypeOf(at.code, Alloca(k)) = PointerTo(<<"array", d.elem>>)
        BY <2>1, <1>5, AllocaIs, HeldIs DEF Yields
    <3> HIDE DEF k, d
    <3>2. Yields(at.code, Make(at.code, "gep", <<Alloca(k), Const(0), at.value>>, PointerTo(d.elem)),
                 PointerTo(d.elem))
        BY <3>1, <1>1, GepYields
    <3> QED
        BY <3>2, <2>2, MadeIs
  <2> QED
      BY <2>1, <2>3, <1>1, <1>4, ThenYields
<1>6. CASE d.shape = "pointer"
  <2> DEFINE at == again(loaded.code)
  <2>1. Yields(checked.code, loaded, PointerTo(d.elem))
      BY <1>3, <1>6, AllocaIs, HeldIs, LoadYields DEF Yields
  <2> HIDE DEF loaded
  <2>2. Yields(e.code, loaded, PointerTo(d.elem))
      BY <2>1, <1>4, ThenYields
  <2>3. Yields(loaded.code, at, I32)
    <3>1. Fine(loaded.code, e.value) /\ TypeOf(loaded.code, e.value) = Type(e) /\ Sound(loaded.code)
        BY <2>2, StillYields DEF Type, Yields
    <3> QED
        BY <3>1, AsIndexYields, HaveIs
  <2> HIDE DEF at
  <2>4. Fine(at.code, loaded.value) /\ TypeOf(at.code, loaded.value) = PointerTo(d.elem)
      BY <2>1, <2>3, StillYields DEF Yields
  <2>5. Element(e) = Make(at.code, "gep", <<loaded.value, at.value>>, PointerTo(d.elem))
      BY <1>6 DEF Element, at, i, checked, loaded
  <2>6. /\ Yields(at.code, Element(e), PointerTo(d.elem)) /\ Element(e).value[1] = "i"
    <3>1. Sound(at.code) /\ Fine(at.code, at.value) /\ TypeOf(at.code, at.value) = I32
        BY <2>3 DEF Yields
    <3> HIDE DEF k, d
    <3>2. Yields(at.code, Make(at.code, "gep", <<loaded.value, at.value>>, PointerTo(d.elem)),
                 PointerTo(d.elem))
        BY <3>1, <2>4, <1>1, GepYields
    <3> QED
        BY <3>2, <2>5, MadeIs
  <2> QED
      BY <2>2, <2>3, <2>6, <1>1, ThenYields
<1> QED
    BY <1>1, <1>5, <1>6
-----------------------------------------------------------------------------
(***************************************************************************)
(* The call stack of visitors.                                             *)
(***************************************************************************)
\* The child a visitor waits for, and its class; Void when it takes any.
Child(f) == IF f.node.kind = "call" THEN f.node.args[Len(f.saved) + 1]
            ELSE IF f.node.kind = "assign" THEN f.node.right
            ELSE IF f.node.kind = "var" THEN f.node.index
            ELSE IF f.node.kind = "return" THEN f.node.expr
            ELSE IF f.saved = <<>> THEN f.node.left ELSE f.node.right

Awaited(f) == IF f.node.kind = "stmt" THEN Void ELSE Class(Child(f))

\* A visitor that may have accepted a child.
Waits(f) == /\ f.node.kind \notin {"num", "single"}
            /\ f.node.kind = "call" => Len(f.saved) + 1 \in DOMAIN Named(f.node.id).params
            /\ f.node.kind = "var" => f.node.index # None
            /\ f.node.kind \in {"stmt", "return"} => f.node.expr # None

\* An argument as it is passed for a parameter of type ty.
IsPassed(c, v, ty) ==
    Fine(c, v) /\ (TypeOf(c, v) = ty \/ (Takers # {} /\ TypeOf(c, v) = I1 /\ ty = I32))

\* A value to store in a variable: no i1 for an int, but where such an i1 may be.
IsToStore(c, v, d) == IsNumber(c, v) /\ (TypeOf(c, v) = I1 /\ d.elem = I32 => Takers # {})

KeepsValues(c, f) ==
    /\ f.node.kind \in Operations =>
         f.saved = <<>> \/ \E v : f.saved = <<v>> /\ IsNumber(c, v)
    /\ f.node.kind = "var" =>
         f.saved = <<>> \/ \E v : f.saved = <<v>> /\ IsToStore(c, v, Named(f.node.id))
    /\ f.node.kind = "call" =>
         /\ IsSeq(f.saved)
         /\ \A m \in 1..Len(f.saved) : IsPassed(c, f.saved[m], Named(f.node.id).params[m])

\* A value that is what a node of this class leaves.
IsOf(c, v, class) ==
    class = Void \/ (Fine(c, v) /\ IF class = Numeric THEN TypeOf(c, v) \in ElementTypes
                                   ELSE TypeOf(c, v) = IF class = Truth THEN I1 ELSE class)

FrameFits(nodes, c, f) ==
    f = [node |-> f.node, saved |-> f.saved] /\ f.node \in nodes /\ KeepsValues(c, f)

\* The visitor of f accepted the node of g.
AcceptedBy(f, g) == Waits(f) /\ Awaited(f) \in {Void, Class(g.node)}

StackFits(nodes, c, fs) ==
    /\ IsSeq(fs) /\ fs # <<>>
    /\ \A k \in 1..Len(fs) : FrameFits(nodes, c, fs[k])
    /\ \A k \in 1..Len(fs) - 1 : AcceptedBy(fs[k], fs[k + 1])

\* The top visitor begins; that of a variable to store in has the value to store.
Begins(c, f, v, op) ==
    /\ f.saved = <<>>
    /\ f.node.kind = "var" /\ op = STORE =>
         /\ f.node.index = None => IsNumber(c, v) /\ Named(f.node.id).shape = "scalar"
         /\ f.node.index # None => IsToStore(c, v, Named(f.node.id))

FitsWith(nodes, c, fs, ctl, v, op) ==
    /\ Sound(c) /\ op \in {LOAD, STORE}
    /\ ctl \in {"visit", "back"} => StackFits(nodes, c, fs)
    /\ ctl = "visit" => Begins(c, fs[Len(fs)], v, op)
    /\ ctl = "back" => Waits(fs[Len(fs)]) /\ IsOf(c, v, Awaited(fs[Len(fs)]))

ExpressionInv ==
    /\ position \in Nat
    /\ control = "compound" => code = <<>>
    /\ curr_op \in {LOAD, STORE}
    /\ InBody /\ AreTyped(BodyNodes) => FitsWith(BodyNodes, code, frames, control, expression, curr_op)
-----------------------------------------------------------------------------
\* What is in sight, and what the body is, stays.
SameBody == decls' = decls /\ inner' = inner /\ ast' = ast /\ place' = place

LEMMA SameNames ==
    ASSUME SameBody
    PROVE  /\ \A id : Find(id)' = Find(id) /\ Named(id)' = Named(id)
           /\ ReturnType' = ReturnType /\ Statements' = Statements
<1>1. \A id : Find(id)' = Find(id)
    BY DEF Find, SameBody
<1>2. \A id : Named(id)' = Named(id)
    BY <1>1 DEF Named, SameBody
<1>3. ReturnType' = ReturnType /\ Statements' = Statements
    BY DEF ReturnType, Statements, Declaration, SameBody
<1> QED
    BY <1>1, <1>2, <1>3

LEMMA SameTypes ==
    ASSUME SameBody
    PROVE  \A c, v : TypeOf(c, v)' = TypeOf(c, v)
    BY SameNames DEF TypeOf, SameBody

LEMMA SameClass ==
    ASSUME SameBody
    PROVE  \A n : Class(n)' = Class(n)
    BY SameNames DEF Class

LEMMA SameTakers ==
    ASSUME SameBody
    PROVE  BodyNodes' = BodyNodes /\ Takers' = Takers
<1>1. BodyNodes' = BodyNodes
    BY SameNames DEF BodyNodes
<1>2. \A nodes : TakeTruthForInt(nodes)' = TakeTruthForInt(nodes)
    BY SameNames, SameClass DEF TakeTruthForInt
<1> QED
    BY <1>1, <1>2 DEF Takers

LEMMA SameSound ==
    ASSUME SameBody
    PROVE  \A c : Sound(c)' <=> Sound(c)
<1>1. ASSUME NEW c, NEW i, i.op \in Ops
      PROVE  OperandsFitIn(c, i, Takers)' <=> OperandsFitIn(c, i, Takers)
  <2>1. CASE i.op \in Binary \cup ICmp \cup FCmp
      BY <2>1, SameTypes, SameTakers DEF OperandsFitIn, Binary, ICmp, FCmp
  <2>2. CASE i.op \in Casts \cup {"load", "check"}
      BY <2>2, SameTypes, SameTakers DEF OperandsFitIn, Binary, ICmp, FCmp, Casts
  <2>3. CASE i.op = "store"
      BY <2>3, SameTypes, SameTakers DEF OperandsFitIn, Binary, ICmp, FCmp
  <2>4. CASE i.op = "gep"
      BY <2>4, SameTypes, SameTakers DEF OperandsFitIn, Binary, ICmp, FCmp
  <2>5. CASE i.op = "call"
      BY <2>5, SameTypes, SameTakers, SameNames DEF OperandsFitIn, Binary, ICmp, FCmp
  <2> QED
      BY <1>1, <2>1, <2>2, <2>3, <2>4, <2>5 DEF Ops
<1>2. \A i : Operands(i)' = Operands(i)
    BY SameNames DEF Operands
<1>3. \A c, i : i.op \in Ops => (Fits(c, i)' <=> Fits(c, i))
    BY <1>1, <1>2 DEF Fits
<1> QED
    BY <1>3 DEF Sound

LEMMA SameTyping ==
    ASSUME SameBody
    PROVE  \A nodes : AreTyped(nodes)' <=> AreTyped(nodes)
<1>1. \A id : (IsVariable(id)' <=> IsVariable(id)) /\ (IsFunction(id)' <=> IsFunction(id))
    BY SameNames DEF IsVariable, IsFunction, SameBody
<1>2. \A n : TypedVar(n)' <=> TypedVar(n)
    BY <1>1, SameNames, SameClass DEF TypedVar
<1>3. \A n, ty : IsArgument(n, ty)' <=> IsArgument(n, ty)
    BY SameClass DEF IsArgument
<1>4. \A n : TypedCall(n)' <=> TypedCall(n)
    BY <1>1, <1>3, SameNames DEF TypedCall
<1>5. \A n : IsTyped(n)' <=> IsTyped(n)
    BY <1>2, <1>4, SameNames, SameClass DEF IsTyped
<1> QED
    BY <1>5, SameNames DEF AreTyped

LEMMA SameFits ==
    ASSUME SameBody
    PROVE  \A nodes, c, fs, ctl, v, op :
              FitsWith(nodes, c, fs, ctl, v, op)' <=> FitsWith(nodes, c, fs, ctl, v, op)
<1>1. \A f : Awaited(f)' = Awaited(f) /\ (Waits(f)' <=> Waits(f))
    BY SameNames, SameClass DEF Awaited, Child, Waits
<1>2. \A c, v : IsNumber(c, v)' <=> IsNumber(c, v)
    BY SameTypes DEF IsNumber
<1>3. \A c, v, ty : IsPassed(c, v, ty)' <=> IsPassed(c, v, ty)
    BY SameTypes, SameTakers DEF IsPassed
<1>4. /\ \A c, v, d : IsToStore(c, v, d)' <=> IsToStore(c, v, d)
      /\ \A c, f : KeepsValues(c, f)' <=> KeepsValues(c, f)
  <2>1. \A c, v, d : IsToStore(c, v, d)' <=> IsToStore(c, v, d)
      BY <1>2, SameTypes, SameTakers DEF IsToStore
  <2> QED
      BY <2>1, <1>2, <1>3, SameNames DEF KeepsValues
<1>5. \A c, v, class : IsOf(c, v, class)' <=> IsOf(c, v, class)
    BY SameTypes DEF IsOf
<1>6. \A nodes, c, f : FrameFits(nodes, c, f)' <=> FrameFits(nodes, c, f)
    BY <1>4 DEF FrameFits
<1>7. \A f, g : AcceptedBy(f, g)' <=> AcceptedBy(f, g)
    BY <1>1, SameClass DEF AcceptedBy
<1>8. \A nodes, c, fs : StackFits(nodes, c, fs)' <=> StackFits(nodes, c, fs)
    BY <1>6, <1>7 DEF StackFits
<1>9. \A c, f, v, op : Begins(c, f, v, op)' <=> Begins(c, f, v, op)
    BY <1>2, <1>4, SameNames DEF Begins
<1> QED
    BY <1>1, <1>5, <1>8, <1>9, SameSound DEF FitsWith
-----------------------------------------------------------------------------
(***************************************************************************)
(* What the stack is after a visitor returns, accepts a child, or hands    *)
(* over to it.                                                             *)
(***************************************************************************)
LEMMA FrontIs ==
    ASSUME NEW s, IsSeq(s), s # <<>>
    PROVE  /\ IsSeq(Front(s)) /\ Len(s) \in Nat \ {0} /\ Len(Front(s)) = Len(s) - 1
           /\ \A k \in 1..Len(s) - 1 : Front(s)[k] = s[k]
           /\ Last(s) = s[Len(s)]
<1>1. PICK S : s \in Seq(S)
    BY DEF IsSeq
<1> DEFINE n == Len(s) - 1
<1>2. Len(s) \in Nat \ {0} /\ n \in Nat
    BY <1>1, EmptySeq
<1>3. \A k \in 1..n : s[k] \in S
    BY <1>1, <1>2, ElementOfSeq
<1>4. /\ SubSeq(s, 1, n) \in Seq(S)
      /\ Len(SubSeq(s, 1, n)) = IF 1 <= n THEN n - 1 + 1 ELSE 0
      /\ \A k \in 1..n - 1 + 1 : SubSeq(s, 1, n)[k] = s[1 + k - 1]
  <2> HIDE DEF n
  <2> QED
      BY <1>2, <1>3, SubSeqProperties
<1>5. n - 1 + 1 = n /\ \A k \in Int : 1 + k - 1 = k
    BY <1>2
<1>6. Len(SubSeq(s, 1, n)) = n /\ \A k \in 1..n : SubSeq(s, 1, n)[k] = s[k]
    BY <1>2, <1>4, <1>5
<1> QED
    BY <1>2, <1>4, <1>6 DEF Front, Last, IsSeq

LEMMA ConcatIs ==
    ASSUME NEW s, IsSeq(s), NEW t, IsSeq(t)
    PROVE  /\ IsSeq(s \o t) /\ Len(s) \in Nat /\ Len(t) \in Nat
           /\ Len(s \o t) = Len(s) + Len(t)
           /\ \A k \in 1..Len(s) : (s \o t)[k] = s[k]
           /\ \A k \in 1..Len(t) : (s \o t)[Len(s) + k] = t[k]
<1>1. PICK S : s \in Seq(S)
    BY DEF IsSeq
<1>2. PICK T : t \in Seq(T)
    BY DEF IsSeq
<1>3. s \in Seq(S \cup T) /\ t \in Seq(S \cup T)
  <2>1. /\ Len(s) \in Nat /\ \A n \in 1..Len(s) : s[n] \in S \cup T
        /\ Len(t) \in Nat /\ \A n \in 1..Len(t) : t[n] \in S \cup T
      BY <1>1, <1>2, ElementOfSeq
  <2> QED
      BY <1>1, <1>2, <2>1
<1>4. /\ s \o t \in Seq(S \cup T) /\ Len(s \o t) = Len(s) + Len(t) /\ Len(s) \in Nat /\ Len(t) \in Nat
      /\ \A k \in 1..Len(s) + Len(t) : (s \o t)[k] = IF k <= Len(s) THEN s[k] ELSE t[k - Len(s)]
    BY <1>3, ConcatProperties
<1> QED
    BY <1>4 DEF IsSeq

LEMMA OneIs ==
    ASSUME NEW x
    PROVE  IsSeq(<<x>>) /\ Len(<<x>>) = 1 /\ <<x>>[1] = x
<1>1. <<x>> \in Seq({x})
    OBVIOUS
<1> QED
    BY <1>1 DEF IsSeq

LEMMA EmptyIs ==
    IsSeq(<<>>) /\ Len(<<>>) = 0
<1>1. <<>> \in Seq({})
    OBVIOUS
<1> QED
    BY <1>1 DEF IsSeq

LEMMA FrameFitsExtends ==
    ASSUME NEW nodes, NEW c, NEW d, Extends(c, d), NEW f, FrameFits(nodes, c, f)
    PROVE  FrameFits(nodes, d, f)
<1>1. \A v : IsNumber(c, v) => IsNumber(d, v)
    BY DEF IsNumber, Extends
<1>2. \A v, ty : IsPassed(c, v, ty) => IsPassed(d, v, ty)
    BY DEF IsPassed, Extends
<1>3. \A v, o : IsToStore(c, v, o) => IsToStore(d, v, o)
    BY DEF IsToStore, IsNumber, Extends
<1> QED
    BY <1>1, <1>2, <1>3 DEF FrameFits, KeepsValues

LEMMA IsOfExtends ==
    ASSUME NEW c, NEW d, Extends(c, d), NEW v, NEW class, IsOf(c, v, class)
    PROVE  IsOf(d, v, class)
    BY DEF IsOf, Extends

\* A visitor that just got its node.
LEMMA NewFrameFits ==
    ASSUME NEW nodes, NEW c, NEW n \in nodes
    PROVE  FrameFits(nodes, c, Frame(n)) /\ Frame(n).node = n /\ Frame(n).saved = <<>>
<1>1. Frame(n).node = n /\ Frame(n).saved = <<>>
    BY DEF Frame
<1>2. KeepsValues(c, Frame(n))
    BY <1>1, EmptyIs DEF KeepsValues
<1> QED
    BY <1>1, <1>2 DEF FrameFits, Frame

LEMMA LeaveFits ==
    ASSUME NEW nodes, NEW c, NEW fs, StackFits(nodes, c, fs), NEW d, Sound(d), Extends(c, d),
           NEW v, IsOf(d, v, Class(fs[Len(fs)].node)), NEW op \in {LOAD, STORE},
           NEW ctl, ctl # "visit", ctl = "back" => Len(fs) > 1
    PROVE  FitsWith(nodes, d, Front(fs), ctl, v, op)
<1>1. /\ IsSeq(fs) /\ Len(fs) \in Nat \ {0} /\ IsSeq(Front(fs)) /\ Len(Front(fs)) = Len(fs) - 1
      /\ \A k \in 1..Len(fs) - 1 : Front(fs)[k] = fs[k]
    BY FrontIs DEF StackFits
<1>2. CASE ctl = "back"
  <2>1. Len(fs) > 1
      BY <1>2
  <2>2. Front(fs) # <<>>
      BY <1>1, <2>1, EmptyIs
  <2>3. \A k \in 1..Len(Front(fs)) : FrameFits(nodes, d, Front(fs)[k])
      BY <1>1, FrameFitsExtends DEF StackFits
  <2>4. \A k \in 1..Len(Front(fs)) - 1 : AcceptedBy(Front(fs)[k], Front(fs)[k + 1])
    <3> SUFFICES ASSUME NEW k \in 1..Len(Front(fs)) - 1
                 PROVE  AcceptedBy(Front(fs)[k], Front(fs)[k + 1])
        OBVIOUS
    <3>1. k \in 1..Len(fs) - 1 /\ k + 1 \in 1..Len(fs) - 1
        BY <1>1
    <3>2. AcceptedBy(fs[k], fs[k + 1])
        BY <3>1 DEF StackFits
    <3> QED
        BY <3>1, <3>2, <1>1
  <2>5. StackFits(nodes, d, Front(fs))
      BY <1>1, <2>2, <2>3, <2>4 DEF StackFits
  <2> DEFINE k == Len(fs) - 1
  <2>6. k \in 1..Len(fs) - 1 /\ k + 1 = Len(fs) /\ Front(fs)[Len(Front(fs))] = fs[k]
      BY <1>1, <2>1
  <2>7. AcceptedBy(fs[k], fs[k + 1])
    <3> HIDE DEF k
    <3> QED
        BY <2>6 DEF StackFits
  <2>8. Waits(fs[k]) /\ Awaited(fs[k]) \in {Void, Class(fs[Len(fs)].node)}
      BY <2>6, <2>7 DEF AcceptedBy
  <2>9. IsOf(d, v, Awaited(fs[k]))
      BY <2>8 DEF IsOf
  <2> HIDE DEF k
  <2> QED
      BY <1>2, <2>5, <2>6, <2>8, <2>9 DEF FitsWith
<1>3. CASE ctl # "back"
    BY <1>3 DEF FitsWith
<1> QED
    BY <1>2, <1>3

\* The top of the stack replaced by a frame for a node of the same class.
LEMMA ReplacedFits ==
    ASSUME NEW nodes, NEW c, NEW fs, StackFits(nodes, c, fs), NEW d, Extends(c, d),
           NEW f, FrameFits(nodes, d, f), Class(f.node) = Class(fs[Len(fs)].node)
    PROVE  /\ StackFits(nodes, d, Append(Front(fs), f))
           /\ Len(Append(Front(fs), f)) = Len(fs) /\ Append(Front(fs), f)[Len(fs)] = f
<1> DEFINE gs == Append(Front(fs), f)
<1>1. /\ IsSeq(fs) /\ Len(fs) \in Nat \ {0} /\ IsSeq(Front(fs)) /\ Len(Front(fs)) = Len(fs) - 1
      /\ \A k \in 1..Len(fs) - 1 : Front(fs)[k] = fs[k]
    BY FrontIs DEF StackFits
<1>2. /\ IsSeq(gs) /\ Len(gs) = Len(fs) /\ gs[Len(fs)] = f
      /\ \A k \in 1..Len(fs) - 1 : gs[k] = fs[k]
    BY <1>1, SeqAppend
<1> HIDE DEF gs
<1>3. gs # <<>>
    BY <1>1, <1>2, EmptyIs
<1>4. \A k \in 1..Len(gs) : FrameFits(nodes, d, gs[k])
  <2> SUFFICES ASSUME NEW k \in 1..Len(gs) PROVE FrameFits(nodes, d, gs[k])
      OBVIOUS
  <2>1. CASE k = Len(fs)
      BY <2>1, <1>2
  <2>2. CASE k # Len(fs)
    <3>1. k \in 1..Len(fs) - 1 /\ k \in 1..Len(fs)
        BY <2>2, <1>1, <1>2
    <3> QED
        BY <3>1, <1>2, FrameFitsExtends DEF StackFits
  <2> QED
      BY <2>1, <2>2
<1>5. \A k \in 1..Len(gs) - 1 : AcceptedBy(gs[k], gs[k + 1])
  <2> SUFFICES ASSUME NEW k \in 1..Len(gs) - 1 PROVE AcceptedBy(gs[k], gs[k + 1])
      OBVIOUS
  <2>1. k \in 1..Len(fs) - 1 /\ gs[k] = fs[k] /\ AcceptedBy(fs[k], fs[k + 1])
      BY <1>2 DEF StackFits
  <2>2. Class(gs[k + 1].node) = Class(fs[k + 1].node)
    <3>1. CASE k + 1 = Len(fs)
        BY <3>1, <1>2
    <3>2. CASE k + 1 # Len(fs)
      <4>1. k + 1 \in 1..Len(fs) - 1
          BY <3>2, <2>1, <1>1
      <4> QED
          BY <4>1, <1>2
    <3> QED
        BY <3>1, <3>2
  <2> QED
      BY <2>1, <2>2 DEF AcceptedBy
<1>6. StackFits(nodes, d, gs)
    BY <1>2, <1>3, <1>4, <1>5 DEF StackFits
<1> QED
    BY <1>2, <1>6 DEF gs

\* The visitor of the top frame, which has become f, accepts a child.
LEMMA AcceptFits ==
    ASSUME NEW nodes, NEW c, NEW fs, StackFits(nodes, c, fs), NEW d, Sound(d), Extends(c, d),
           NEW f, FrameFits(nodes, d, f), f.node = fs[Len(fs)].node,
           NEW child \in nodes, Waits(f), Awaited(f) \in {Void, Class(child)},
           NEW v, NEW op \in {LOAD, STORE}, op = LOAD \/ child.kind # "var"
    PROVE  FitsWith(nodes, d, Append(Front(fs), f) \o <<Frame(child)>>, "visit", v, op)
<1> DEFINE gs == Append(Front(fs), f)
           hs == gs \o <<Frame(child)>>
<1>1. /\ StackFits(nodes, d, gs) /\ Len(gs) = Len(fs) /\ gs[Len(fs)] = f /\ Len(fs) \in Nat \ {0}
  <2>1. Class(f.node) = Class(fs[Len(fs)].node)
      OBVIOUS
  <2>2. StackFits(nodes, d, gs) /\ Len(gs) = Len(fs) /\ gs[Len(fs)] = f
      BY <2>1, ReplacedFits
  <2>3. IsSeq(fs) /\ fs # <<>>
      BY DEF StackFits
  <2> QED
      BY <2>2, <2>3, FrontIs
<1>2. FrameFits(nodes, d, Frame(child)) /\ Frame(child).node = child /\ Frame(child).saved = <<>>
    BY NewFrameFits
<1> HIDE DEF gs
<1>3. /\ IsSeq(hs) /\ Len(hs) = Len(fs) + 1 /\ hs[Len(fs) + 1] = Frame(child)
      /\ \A k \in 1..Len(fs) : hs[k] = gs[k]
  <2>1. IsSeq(gs) /\ IsSeq(<<Frame(child)>>) /\ Len(<<Frame(child)>>) = 1
        /\ <<Frame(child)>>[1] = Frame(child)
      BY <1>1, OneIs DEF StackFits
  <2> DEFINE one == <<Frame(child)>>
  <2>2. 1 \in 1..Len(one)
      BY <2>1
  <2> HIDE DEF one
  <2>3. /\ IsSeq(gs \o one) /\ Len(gs \o one) = Len(gs) + Len(one)
        /\ \A k \in 1..Len(gs) : (gs \o one)[k] = gs[k]
        /\ \A k \in 1..Len(one) : (gs \o one)[Len(gs) + k] = one[k]
      BY <2>1, ConcatIs DEF one
  <2>4. Len(one) = 1 /\ one[1] = Frame(child)
      BY <2>1 DEF one
  <2> QED
      BY <2>2, <2>3, <2>4, <1>1 DEF one
<1> HIDE DEF hs
<1>4. hs # <<>>
    BY <1>1, <1>3, EmptyIs
<1>5. \A k \in 1..Len(hs) : FrameFits(nodes, d, hs[k])
  <2> SUFFICES ASSUME NEW k \in 1..Len(hs) PROVE FrameFits(nodes, d, hs[k])
      OBVIOUS
  <2>1. CASE k = Len(fs) + 1
      BY <2>1, <1>2, <1>3
  <2>2. CASE k # Len(fs) + 1
    <3>1. k \in 1..Len(fs)
        BY <2>2, <1>1, <1>3
    <3> QED
        BY <3>1, <1>1, <1>3 DEF StackFits
  <2> QED
      BY <2>1, <2>2
<1>6. \A k \in 1..Len(hs) - 1 : AcceptedBy(hs[k], hs[k + 1])
  <2> SUFFICES ASSUME NEW k \in 1..Len(hs) - 1 PROVE AcceptedBy(hs[k], hs[k + 1])
      OBVIOUS
  <2>1. CASE k = Len(fs)
      BY <2>1, <1>1, <1>2, <1>3 DEF AcceptedBy
  <2>2. CASE k # Len(fs)
    <3>1. k \in 1..Len(fs) - 1 /\ k + 1 \in 1..Len(fs) /\ k \in 1..Len(fs)
        BY <2>2, <1>1, <1>3
    <3> QED
        BY <3>1, <1>1, <1>3 DEF StackFits
  <2> QED
      BY <2>1, <2>2
<1>7. StackFits(nodes, d, hs)
    BY <1>3, <1>4, <1>5, <1>6 DEF StackFits
<1>8. Begins(d, hs[Len(hs)], v, op)
  <2>1. LOAD # STORE
      BY DEF LOAD, STORE
  <2> QED
      BY <2>1, <1>2, <1>3 DEF Begins
<1>9. FitsWith(nodes, d, hs, "visit", v, op)
    BY <1>7, <1>8 DEF FitsWith
<1> QED
    BY <1>9 DEF gs, hs
-----------------------------------------------------------------------------
(***************************************************************************)
(* The actions, one by one.                                                *)
(***************************************************************************)
Ready(nodes) == /\ nodes = BodyNodes /\ AreTyped(nodes)
                /\ FitsWith(nodes, code, frames, control, expression, curr_op)
FitsNext(nodes) == FitsWith(nodes, code', frames', control', expression', curr_op')

LEMMA TopIs ==
    ASSUME NEW nodes, Ready(nodes), control \in {"visit", "back"}
    PROVE  /\ Sound(code) /\ curr_op \in {LOAD, STORE} /\ StackFits(nodes, code, frames)
           /\ Len(frames) \in Nat \ {0} /\ Last(frames) = frames[Len(frames)]
           /\ FrameFits(nodes, code, Last(frames))
           /\ Node \in nodes /\ IsTyped(Node) /\ Children(Node) \subseteq nodes
           /\ control = "visit" => Saved = <<>> /\ Begins(code, Last(frames), expression, curr_op)
           /\ control = "back" => Waits(Last(frames)) /\ IsOf(code, expression, Awaited(Last(frames)))
<1>1. Sound(code) /\ curr_op \in {LOAD, STORE} /\ StackFits(nodes, code, frames)
    BY DEF Ready, FitsWith
<1>2. Len(frames) \in Nat \ {0} /\ Last(frames) = frames[Len(frames)]
    BY <1>1, FrontIs DEF StackFits
<1>3. FrameFits(nodes, code, Last(frames))
    BY <1>1, <1>2 DEF StackFits
<1>4. Node \in nodes
    BY <1>3 DEF FrameFits, Node
<1>5. IsTyped(Node) /\ Children(Node) \subseteq nodes
    BY <1>4 DEF Ready, AreTyped
<1> QED
    BY <1>1, <1>2, <1>3, <1>4, <1>5 DEF Ready, FitsWith, Begins, Saved

LEMMA LeaveStep ==
    ASSUME NEW nodes, Ready(nodes), control \in {"visit", "back"}, NEW e, Leave(e), curr_op' = curr_op,
           Sound(e.code), Extends(code, e.code), IsOf(e.code, e.value, Class(Node))
    PROVE  FitsNext(nodes)
<1>1. /\ code' = e.code /\ expression' = e.value /\ frames' = Front(frames)
      /\ control' # "visit" /\ (control' = "back" => Len(frames) > 1)
    BY DEF Leave
<1>2. /\ StackFits(nodes, code, frames) /\ curr_op \in {LOAD, STORE}
      /\ frames[Len(frames)].node = Node
    BY TopIs DEF Node
<1> QED
    BY <1>1, <1>2, LeaveFits DEF FitsNext

LEMMA AcceptStep ==
    ASSUME NEW nodes, Ready(nodes), control \in {"visit", "back"},
           NEW child \in nodes, NEW saved, Accept(child, saved),
           Sound(code'), Extends(code, code'),
           KeepsValues(code', [node |-> Node, saved |-> saved]),
           Waits([node |-> Node, saved |-> saved]),
           Awaited([node |-> Node, saved |-> saved]) \in {Void, Class(child)},
           curr_op' \in {LOAD, STORE}, curr_op' = LOAD \/ child.kind # "var"
    PROVE  FitsNext(nodes)
<1> DEFINE f == [node |-> Node, saved |-> saved]
<1>1. /\ StackFits(nodes, code, frames) /\ Last(frames) = frames[Len(frames)]
      /\ FrameFits(nodes, code, Last(frames)) /\ Node \in nodes
    BY TopIs
<1>2. [Last(frames) EXCEPT !.saved = saved] = f /\ f.node = Node /\ f.saved = saved
    BY <1>1 DEF FrameFits, Node
<1> HIDE DEF f
<1>3. frames' = Append(Front(frames), f) \o <<Frame(child)>> /\ control' = "visit" /\ expression' = expression
    BY <1>2 DEF Accept
<1>4. f.node = frames[Len(frames)].node
    BY <1>1, <1>2 DEF Node
<1>5. KeepsValues(code', f) /\ Waits(f) /\ Awaited(f) \in {Void, Class(child)}
    BY DEF f
<1>6. FrameFits(nodes, code', f)
    BY <1>1, <1>2, <1>5 DEF FrameFits, f
<1>7. FitsWith(nodes, code', Append(Front(frames), f) \o <<Frame(child)>>, "visit", expression, curr_op')
    BY <1>1, <1>4, <1>5, <1>6, AcceptFits
<1> QED
    BY <1>3, <1>7 DEF FitsNext

\* The top visitor hands over to that of a node of its class.
LEMMA HandOverStep ==
    ASSUME NEW nodes, Ready(nodes), control \in {"visit", "back"},
           NEW n \in nodes, Class(n) = Class(Node),
           frames' = Append(Front(frames), Frame(n)), control' = "visit", code' = code,
           curr_op' \in {LOAD, STORE}, Begins(code, Frame(n), expression', curr_op')
    PROVE  FitsNext(nodes)
<1>1. /\ StackFits(nodes, code, frames) /\ Last(frames) = frames[Len(frames)] /\ Sound(code)
    BY TopIs
<1>2. FrameFits(nodes, code, Frame(n)) /\ Frame(n).node = n
    BY NewFrameFits
<1>3. Class(Frame(n).node) = Class(frames[Len(frames)].node)
    BY <1>1, <1>2 DEF Node
<1>4. /\ StackFits(nodes, code, frames')
      /\ Len(frames') = Len(frames) /\ frames'[Len(frames)] = Frame(n)
    BY <1>1, <1>2, <1>3, ExtendsSelf, ReplacedFits
<1> QED
    BY <1>1, <1>4 DEF FitsNext, FitsWith

LEMMA ClassIs ==
    ASSUME NEW n
    PROVE  /\ n.kind \in {"stmt", "return"} => Class(n) = Void
           /\ n.kind \in {"additive", "term", "num", "assign"} => Class(n) = Numeric
           /\ n.kind = "simple" => Class(n) = Truth
           /\ n.kind = "call" => Class(n) = IF Named(n.id).elem = Void THEN Void ELSE Numeric
           /\ n.kind = "var" =>
                Class(n) = IF n.index = None /\ Named(n.id).shape # "scalar"
                           THEN PointerTo(Named(n.id).elem) ELSE Numeric
<1>1. n.kind # "single" => Written(n) = n
    BY DEF Written
<1> QED
    BY <1>1 DEF Class, Operations

LEMMA ChildrenAre ==
    ASSUME NEW n
    PROVE  /\ n.kind = "single" => n.expr \in Children(n)
           /\ n.kind \in {"stmt", "return"} /\ n.expr # None => n.expr \in Children(n)
           /\ n.kind = "assign" => n.var \in Children(n) /\ n.right \in Children(n)
           /\ n.kind \in Operations => n.left \in Children(n) /\ n.right \in Children(n)
           /\ n.kind = "var" /\ n.index # None => n.index \in Children(n)
    BY DEF Children, Operations

\* A node of a number, or of a truth value, leaves such a value.
LEMMA IsOfNumber ==
    ASSUME NEW c, NEW v
    PROVE  /\ \A class \in NumberClasses : IsOf(c, v, class) => IsNumber(c, v)
           /\ IsOf(c, v, Numeric) <=> Fine(c, v) /\ TypeOf(c, v) \in ElementTypes
           /\ \A class \in NumberClasses : IsOf(c, v, class) /\ TypeOf(c, v) = I1 => class = Truth
    BY TypesDiffer DEF IsOf, IsNumber, Numbers, NumberClasses, ElementTypes
-----------------------------------------------------------------------------
LEMMA StepVisitNum ==
    ASSUME NEW nodes, Ready(nodes), VisitNum
    PROVE  FitsNext(nodes)
<1>1. control = "visit" /\ Node.kind = "num" /\ curr_op' = curr_op
    BY DEF VisitNum, Visited, At
<1> DEFINE v == IF Node.type = "TYPE_INT" THEN Const(Node.number) ELSE Fp(Node.number)
<1>2. Leave(Have(code, v))
    BY DEF VisitNum
<1>3. Fine(code, v) /\ TypeOf(code, v) \in ElementTypes
    BY DEF Fine, TypeOf, Const, Fp, ElementTypes
<1> HIDE DEF v
<1>4. Sound(code) /\ Extends(code, code) /\ IsOf(code, v, Class(Node))
    BY <1>1, <1>3, TopIs, ExtendsSelf, ClassIs, IsOfNumber
<1> QED
    BY <1>1, <1>2, <1>4, LeaveStep, HaveIs

LEMMA StepVisitSingle ==
    ASSUME NEW nodes, Ready(nodes), VisitSingle
    PROVE  FitsNext(nodes)
<1>1. /\ control = "visit" /\ Node.kind = "single" /\ curr_op' = LOAD
      /\ frames' = Append(Front(frames), Frame(Node.expr)) /\ control' = "visit" /\ code' = code
    BY DEF VisitSingle, Visited, At
<1>2. Node.expr \in nodes /\ Class(Node.expr) = Class(Node)
    BY <1>1, TopIs, ChildrenAre DEF IsTyped
<1>3. Begins(code, Frame(Node.expr), expression', LOAD)
    BY <1>2, NewFrameFits DEF Begins, LOAD, STORE
<1> QED
    BY <1>1, <1>2, <1>3, HandOverStep

\* A visitor that saves nothing, or one value, may wait for a child.
LEMMA KeepsNumbers ==
    ASSUME NEW n, n.kind \in Operations \cup {"assign", "var", "return"}, NEW c, NEW saved,
           saved = <<>> \/ \E v : saved = <<v>> /\ IsNumber(c, v)
                                 /\ (n.kind = "var" => IsToStore(c, v, Named(n.id))),
           n.kind = "var" => n.index # None, n.kind = "return" => n.expr # None
    PROVE  /\ KeepsValues(c, [node |-> n, saved |-> saved])
           /\ Waits([node |-> n, saved |-> saved])
           /\ Awaited([node |-> n, saved |-> saved]) = Class(Child([node |-> n, saved |-> saved]))
    BY DEF KeepsValues, Waits, Awaited, Operations

LEMMA StepVisitLeft ==
    ASSUME NEW nodes, Ready(nodes), VisitLeft
    PROVE  FitsNext(nodes)
<1>1. /\ control = "visit" /\ Node.kind \in Operations /\ curr_op' = LOAD
      /\ Accept(Node.left, <<>>) /\ code' = code
    BY DEF VisitLeft, Operations
<1>2. Node.left \in nodes /\ Sound(code)
    BY <1>1, TopIs, ChildrenAre
<1>3. /\ KeepsValues(code, [node |-> Node, saved |-> <<>>]) /\ Waits([node |-> Node, saved |-> <<>>])
      /\ Awaited([node |-> Node, saved |-> <<>>]) = Class(Node.left)
    BY <1>1, KeepsNumbers DEF Operations, Child
<1> QED
    BY <1>1, <1>2, <1>3, ExtendsSelf, AcceptStep

\* The value a visitor of these kinds gets from a child is a number.
LEMMA GetsNumber ==
    ASSUME NEW nodes, Ready(nodes), control = "back", Node.kind \in Operations \cup {"assign", "var", "return"}
    PROVE  IsNumber(code, expression)
<1> DEFINE f == Last(frames)
<1>1. f.node = Node /\ Waits(f) /\ IsTyped(Node) /\ IsOf(code, expression, Awaited(f))
    BY TopIs DEF Node
<1> HIDE DEF f
<1>2. Awaited(f) = Class(Child(f))
    BY <1>1 DEF Awaited, Operations
<1>3. Class(Child(f)) \in NumberClasses
    BY <1>1 DEF Child, Waits, Operations, IsTyped, TypedVar
<1> QED
    BY <1>1, <1>2, <1>3, IsOfNumber

LEMMA StepVisitRight ==
    ASSUME NEW nodes, Ready(nodes), VisitRight
    PROVE  FitsNext(nodes)
<1>1. /\ control = "back" /\ Node.kind \in Operations /\ curr_op' = LOAD
      /\ Accept(Node.right, <<expression>>) /\ code' = code
    BY DEF VisitRight, Operations
<1>2. Node.right \in nodes /\ Sound(code)
    BY <1>1, TopIs, ChildrenAre
<1>3. IsNumber(code, expression)
    BY <1>1, GetsNumber
<1>4. /\ KeepsValues(code, [node |-> Node, saved |-> <<expression>>])
      /\ Waits([node |-> Node, saved |-> <<expression>>])
      /\ Awaited([node |-> Node, saved |-> <<expression>>]) = Class(Node.right)
    BY <1>1, <1>3, KeepsNumbers DEF Operations, Child
<1> QED
    BY <1>1, <1>2, <1>4, ExtendsSelf, AcceptStep
-----------------------------------------------------------------------------
\* A visitor returns with a value of type ty.
LEMMA LeaveYields ==
    ASSUME NEW nodes, Ready(nodes), control \in {"visit", "back"}, NEW e, Leave(e), curr_op' = curr_op,
           NEW ty, Yields(code, e, ty),
           \/ Class(Node) = Void
           \/ Class(Node) = Numeric /\ ty \in ElementTypes
           \/ Class(Node) = Truth /\ ty = I1
           \/ Class(Node) = ty /\ ty \notin NumberClasses
    PROVE  FitsNext(nodes)
<1>1. Sound(e.code) /\ Extends(code, e.code) /\ IsOf(e.code, e.value, Class(Node))
    BY TypesDiffer DEF Yields, IsOf, NumberClasses
<1> QED
    BY <1>1, LeaveStep

\* A value that was there before the code went on.
LEMMA KeptYields ==
    ASSUME NEW c, NEW v, Fine(c, v), NEW f, NEW u, Yields(c, f, u)
    PROVE  Yields(c, Have(f.code, v), TypeOf(c, v))
<1>1. Fine(f.code, v) /\ TypeOf(f.code, v) = TypeOf(c, v)
    BY StillYields
<1> QED
    BY <1>1, HaveIs DEF Yields

LEMMA SavedNumber ==
    ASSUME NEW nodes, Ready(nodes), control = "back", Node.kind \in Operations \cup {"var"}, Saved # <<>>
    PROVE  IsNumber(code, Saved[1])
<1>1. KeepsValues(code, Last(frames))
    BY TopIs DEF FrameFits
<1>2. PICK v : Saved = <<v>> /\ IsNumber(code, v)
    BY <1>1 DEF KeepsValues, IsToStore, Node, Saved
<1> QED
    BY <1>2

\* An operation of the two sides.
LEMMA StepOperation ==
    ASSUME NEW nodes, Ready(nodes), control = "back", Node.kind \in Operations, Saved # <<>>,
           NEW op, NEW ty, Leave(Make(Sides.code, op, Sides.args, ty)), curr_op' = curr_op,
           \/ op \in Binary /\ ty = Sides.ty /\ Node.kind # "simple"
           \/ op \in (IF Sides.ty = I32 THEN ICmp ELSE FCmp) /\ ty = I1 /\ Node.kind = "simple"
    PROVE  FitsNext(nodes)
<1> DEFINE s == Sides
           made == Make(s.code, op, s.args, ty)
<1>1. Sound(code) /\ IsNumber(code, Saved[1]) /\ IsNumber(code, expression)
    BY TopIs, SavedNumber, GetsNumber
<1>2. PICK v, w : /\ s.args = <<v, w>> /\ s.ty \in ElementTypes
                  /\ Sound(s.code) /\ Extends(code, s.code)
                  /\ Fine(s.code, v) /\ TypeOf(s.code, v) = s.ty
                  /\ Fine(s.code, w) /\ TypeOf(s.code, w) = s.ty
    BY <1>1, SidesMatch
<1> HIDE DEF s
<1>3. Yields(s.code, made, ty) /\ IF Node.kind = "simple" THEN ty = I1 ELSE ty \in ElementTypes
  <2>1. \/ op \in Binary /\ ty = s.ty /\ Node.kind # "simple"
        \/ op \in (IF s.ty = I32 THEN ICmp ELSE FCmp) /\ ty = I1 /\ Node.kind = "simple"
      BY DEF s
  <2> QED
      BY <2>1, <1>2, OperationYields
<1> HIDE DEF made
<1>4. Yields(code, made, ty)
    BY <1>2, <1>3, ExtendsAgain DEF Yields
<1>5. Leave(made)
    BY DEF made, s
<1>6. Class(Node) = IF Node.kind = "simple" THEN Truth ELSE Numeric
    BY ClassIs DEF Operations
<1> QED
    BY <1>3, <1>4, <1>5, <1>6, LeaveYields

LEMMA StepBackSimple ==
    ASSUME NEW nodes, Ready(nodes), BackSimple
    PROVE  FitsNext(nodes)
<1> DEFINE op == Relations[Node.op][IF Sides.ty = I32 THEN 1 ELSE 2]
<1>1. /\ control = "back" /\ Node.kind = "simple" /\ Saved # <<>> /\ curr_op' = curr_op
      /\ Leave(Make(Sides.code, op, Sides.args, I1))
    BY DEF BackSimple, Back, At
<1>2. Node.op \in DOMAIN Relations
    BY <1>1, TopIs DEF IsTyped
<1>3. Relations[Node.op][1] \in ICmp /\ Relations[Node.op][2] \in FCmp
    BY <1>2 DEF Relations, ICmp, FCmp
<1>4. op \in (IF Sides.ty = I32 THEN ICmp ELSE FCmp)
    BY <1>3
<1> HIDE DEF op
<1> QED
    BY <1>1, <1>4, StepOperation DEF Operations

LEMMA StepBackArithmetic ==
    ASSUME NEW nodes, Ready(nodes), BackAdditive \/ BackTerm
    PROVE  FitsNext(nodes)
<1>1. /\ control = "back" /\ Node.kind \in {"additive", "term"} /\ Saved # <<>> /\ curr_op' = curr_op
      /\ Leave(Make(Sides.code, Node.op, Sides.args, Sides.ty))
    BY DEF BackAdditive, BackTerm, Back, At
<1>2. Node.op \in Binary
    BY <1>1, TopIs DEF IsTyped
<1> QED
    BY <1>1, <1>2, StepOperation DEF Operations
-----------------------------------------------------------------------------
LEMMA StepVisitAssign ==
    ASSUME NEW nodes, Ready(nodes), VisitAssign
    PROVE  FitsNext(nodes)
<1>1. /\ control = "visit" /\ Node.kind = "assign" /\ curr_op' = LOAD
      /\ Accept(Node.right, <<>>) /\ code' = code
    BY DEF VisitAssign, Visited, At
<1>2. Node.right \in nodes /\ Sound(code)
    BY <1>1, TopIs, ChildrenAre
<1>3. /\ KeepsValues(code, [node |-> Node, saved |-> <<>>]) /\ Waits([node |-> Node, saved |-> <<>>])
      /\ Awaited([node |-> Node, saved |-> <<>>]) = Class(Node.right)
    BY <1>1, KeepsNumbers DEF Child
<1> QED
    BY <1>1, <1>2, <1>3, ExtendsSelf, AcceptStep

LEMMA StepVisitTarget ==
    ASSUME NEW nodes, Ready(nodes), VisitTarget
    PROVE  FitsNext(nodes)
<1>1. /\ control = "back" /\ Node.kind = "assign" /\ curr_op' = STORE /\ expression' = expression
      /\ frames' = Append(Front(frames), Frame(Node.var)) /\ control' = "visit" /\ code' = code
    BY DEF VisitTarget, Back, At
<1>2. /\ Node.var \in nodes /\ Node.var.kind = "var"
      /\ Node.var.index = None => Named(Node.var.id).shape = "scalar"
    BY <1>1, TopIs, ChildrenAre DEF IsTyped
<1>3. Class(Node.var) = Class(Node)
    BY <1>1, <1>2, ClassIs
<1>4. IsNumber(code, expression)
    BY <1>1, GetsNumber
<1>5. ASSUME Node.var.index # None PROVE IsToStore(code, expression, Named(Node.var.id))
  <2>1. Class(Node.right) \in NumberClasses /\ Node \in BodyNodes
      BY <1>1, TopIs DEF IsTyped, Ready
  <2>2. IsOf(code, expression, Class(Node.right))
    <3>1. Awaited(Last(frames)) = Class(Node.right)
        BY <1>1 DEF Awaited, Child, Node
    <3> QED
        BY <1>1, <3>1, TopIs
  <2>3. ASSUME TypeOf(code, expression) = I1, Named(Node.var.id).elem = I32
        PROVE  Takers # {}
    <3>1. Class(Node.right) = Truth
        BY <2>1, <2>2, <2>3, IsOfNumber
    <3> QED
        BY <1>1, <1>5, <2>1, <2>3, <3>1 DEF Takers, TakeTruthForInt
  <2> QED
      BY <1>4, <2>3 DEF IsToStore
<1>6. Begins(code, Frame(Node.var), expression', STORE)
    BY <1>1, <1>2, <1>4, <1>5, NewFrameFits DEF Begins
<1> QED
    BY <1>1, <1>2, <1>3, <1>6, HandOverStep

LEMMA StepLoadScalar ==
    ASSUME NEW nodes, Ready(nodes), LoadScalar
    PROVE  FitsNext(nodes)
<1> DEFINE k == Find(Node.id)
           d == decls[k]
           loaded == Make(code, "load", <<Alloca(k)>>, Held(d))
           ofArray == Make(code, "gep", <<Alloca(k), Const(0), Const(0)>>, PointerTo(d.elem))
           ofPointer == Make(loaded.code, "gep", <<loaded.value, Const(0)>>, PointerTo(d.elem))
<1>1. control = "visit" /\ Node.kind = "var" /\ Node.index = None /\ curr_op' = curr_op
    BY DEF LoadScalar, Visited, At
<1>2. /\ Sound(code) /\ d = Named(Node.id)
      /\ d.elem \in ElementTypes /\ d.shape \in {"scalar", "array", "pointer"}
    BY <1>1, TopIs DEF IsTyped, TypedVar, IsVariable, Named
<1>3. Class(Node) = IF d.shape # "scalar" THEN PointerTo(d.elem) ELSE Numeric
    BY <1>1, <1>2, ClassIs
<1>4. Yields(code, loaded, Held(d))
    BY <1>2, AllocaIs, LoadYields
<1>5. \A c : Fine(c, Const(0)) /\ TypeOf(c, Const(0)) = I32
    BY DEF Fine, TypeOf, Const
<1>6. PointerTo(d.elem) \notin NumberClasses
    BY <1>2, TypesDiffer
<1>7. CASE d.shape = "scalar"
  <2>1. Leave(loaded)
      BY <1>7 DEF LoadScalar
  <2>2. Yields(code, loaded, d.elem)
      BY <1>4, <1>7, HeldIs
  <2> HIDE DEF loaded, d
  <2> QED
      BY <1>1, <1>2, <1>3, <1>7, <2>1, <2>2, LeaveYields DEF d
<1>8. CASE d.shape = "array"
  <2>1. Leave(ofArray)
      BY <1>8 DEF LoadScalar
  <2>2. TypeOf(code, Alloca(k)) = PointerTo(<<"array", d.elem>>) /\ Fine(code, Alloca(k))
      BY <1>8, AllocaIs, HeldIs
  <2>3. Yields(code, ofArray, PointerTo(d.elem))
    <3> HIDE DEF d, k
    <3> QED
        BY <1>2, <1>5, <2>2, GepYields
  <2> HIDE DEF ofArray, d
  <2> QED
      BY <1>1, <1>3, <1>6, <1>8, <2>1, <2>3, LeaveYields
<1>9. CASE d.shape = "pointer"
  <2>1. Leave(ofPointer)
      BY <1>9 DEF LoadScalar
  <2>2. Yields(code, loaded, PointerTo(d.elem))
      BY <1>4, <1>9, HeldIs
  <2> HIDE DEF loaded
  <2>3. Yields(loaded.code, ofPointer, PointerTo(d.elem))
    <3>1. /\ Sound(loaded.code) /\ Fine(loaded.code, loaded.value)
          /\ TypeOf(loaded.code, loaded.value) = PointerTo(d.elem)
        BY <2>2 DEF Yields
    <3> HIDE DEF d, k
    <3> QED
        BY <1>2, <1>5, <3>1, GepYields
  <2> HIDE DEF ofPointer, d
  <2>4. Yields(code, ofPointer, PointerTo(d.elem))
      BY <2>2, <2>3, ThenYields
  <2> QED
      BY <1>1, <1>3, <1>6, <1>9, <2>1, <2>4, LeaveYields
<1> QED
    BY <1>2, <1>7, <1>8, <1>9

LEMMA StepVisitIndex ==
    ASSUME NEW nodes, Ready(nodes), VisitIndex \/ VisitStoreIndex
    PROVE  FitsNext(nodes)
<1>1. /\ control = "visit" /\ Node.kind = "var" /\ Node.index # None /\ curr_op' = LOAD
      /\ code' = code
    BY DEF VisitIndex, VisitStoreIndex, Visited, At
<1>2. Node.index \in nodes /\ Sound(code)
    BY <1>1, TopIs, ChildrenAre
<1>3. PICK saved : /\ Accept(Node.index, saved)
                   /\ saved = <<>> \/ \E v : saved = <<v>> /\ IsToStore(code, v, Named(Node.id))
  <2>1. CASE VisitIndex
      BY <2>1 DEF VisitIndex
  <2>2. CASE VisitStoreIndex
    <3>1. IsToStore(code, expression, Named(Node.id))
        BY <2>2, <1>1, TopIs DEF Begins, VisitStoreIndex, Node
    <3> QED
        BY <2>2, <3>1 DEF VisitStoreIndex
  <2> QED
      BY <2>1, <2>2
<1>4. /\ KeepsValues(code, [node |-> Node, saved |-> saved]) /\ Waits([node |-> Node, saved |-> saved])
      /\ Awaited([node |-> Node, saved |-> saved]) = Class(Node.index)
    BY <1>1, <1>3, KeepsNumbers DEF Child, IsToStore
<1> QED
    BY <1>1, <1>2, <1>3, <1>4, ExtendsSelf, AcceptStep

LEMMA StepLoadElement ==
    ASSUME NEW nodes, Ready(nodes), LoadElement
    PROVE  FitsNext(nodes)
<1> DEFINE index == Widened(Here)
           e == Element(index)
           elem == decls[Find(Node.id)].elem
           made == Make(e.code, "load", <<e.value>>, elem)
<1>1. control = "back" /\ Node.kind = "var" /\ curr_op' = curr_op /\ Leave(made)
    BY DEF LoadElement, Back, At
<1>2. /\ Sound(code) /\ IsVariable(Node.id) /\ Node.index # None /\ Named(Node.id).shape # "scalar"
      /\ elem = Named(Node.id).elem /\ elem \in ElementTypes /\ IsNumber(code, expression)
    BY <1>1, TopIs, GetsNumber DEF IsTyped, TypedVar, IsVariable, Named, Waits, Node
<1>3. PICK t \in ElementTypes : Yields(code, index, t)
    BY <1>2, WidenedYields, HaveIs DEF Here, IsNumber, Numbers, ElementTypes
<1> HIDE DEF elem
<1>4. Yields(index.code, e, PointerTo(elem))
  <2>1. Sound(index.code) /\ Fine(index.code, index.value) /\ Type(index) = t
      BY <1>3 DEF Yields, Type
  <2> HIDE DEF index
  <2> QED
      BY <1>2, <2>1, ElementYields
<1> HIDE DEF e
<1>5. Yields(e.code, made, elem)
    BY <1>4, LoadYields DEF Yields
<1> HIDE DEF made, index
<1>6. Yields(code, made, elem)
    BY <1>3, <1>4, <1>5, ThenYields
<1>7. Class(Node) = Numeric
    BY <1>1, <1>2, ClassIs
<1> QED
    BY <1>1, <1>2, <1>6, <1>7, LeaveYields

\* A number that is widened, and converted to what a place of type ty holds.
LEMMA WidenedConvertedYields ==
    ASSUME NEW c, Sound(c), NEW v, IsNumber(c, v), NEW ty \in ElementTypes
    PROVE  Yields(c, Converted(Widened(Have(c, v)), ty), ty)
<1> DEFINE w == Widened(Have(c, v))
<1>1. PICK t \in ElementTypes : Yields(c, w, t)
    BY WidenedYields, HaveIs DEF IsNumber, Numbers, ElementTypes
<1> HIDE DEF w
<1>2. Sound(w.code) /\ Fine(w.code, w.value) /\ Type(w) = t
    BY <1>1 DEF Yields, Type
<1>3. Yields(w.code, Converted(w, ty), ty)
    BY <1>2, ConvertedYields, TypesDiffer DEF Numbers, ElementTypes
<1> QED
    BY <1>1, <1>3, ThenYields DEF w

LEMMA StepStoreScalar ==
    ASSUME NEW nodes, Ready(nodes), StoreScalar
    PROVE  FitsNext(nodes)
<1> DEFINE k == Find(Node.id)
           e == Converted(Widened(Here), decls[k].elem)
           stored == Make(e.code, "store", <<e.value, Alloca(k)>>, Void)
<1>1. /\ control = "visit" /\ Node.kind = "var" /\ curr_op = STORE /\ Node.index = None
      /\ curr_op' = curr_op /\ Leave(Have(stored.code, e.value))
    BY DEF StoreScalar, Visited, At
<1>2. /\ Sound(code) /\ decls[k].elem \in ElementTypes /\ decls[k] = Named(Node.id)
    BY <1>1, TopIs DEF IsTyped, TypedVar, IsVariable, Named
<1>3. IsNumber(code, expression) /\ decls[k].shape = "scalar"
    BY <1>1, <1>2, TopIs DEF Begins, Node
<1> DEFINE elem == decls[k].elem
<1>4. Yields(code, e, elem)
  <2> HIDE DEF k
  <2> QED
      BY <1>2, <1>3, WidenedConvertedYields DEF Here
<1>5. \A c : Fine(c, Alloca(k)) /\ TypeOf(c, Alloca(k)) = PointerTo(elem)
    BY <1>3, AllocaIs, HeldIs
<1>6. elem \in ElementTypes
    BY <1>2
<1> HIDE DEF e, elem, k
<1>7. /\ Sound(e.code) /\ Fine(e.code, e.value) /\ TypeOf(e.code, e.value) = elem
    BY <1>4 DEF Yields
<1>8. Yields(e.code, stored, Void)
    BY <1>5, <1>6, <1>7, StoreYields
<1> HIDE DEF stored
<1>9. Yields(e.code, Have(stored.code, e.value), elem)
    BY <1>7, <1>8, KeptYields
<1>10. Yields(code, Have(stored.code, e.value), elem)
    BY <1>4, <1>9, ThenYields
<1>11. Class(Node) = Numeric
    BY <1>1, <1>2, <1>3, ClassIs
<1> QED
    BY <1>1, <1>6, <1>10, <1>11, LeaveYields

LEMMA StepStoreElement ==
    ASSUME NEW nodes, Ready(nodes), StoreElement
    PROVE  FitsNext(nodes)
<1> DEFINE index == Widened(Here)
           elem == decls[Find(Node.id)].elem
           right == Converted(Have(index.code, Saved[1]), elem)
           e == Element(Have(right.code, index.value))
           stored == Make(e.code, "store", <<right.value, e.value>>, Void)
<1>1. /\ control = "back" /\ Node.kind = "var" /\ Saved # <<>> /\ curr_op' = curr_op
      /\ Leave(Have(stored.code, index.value))
    BY DEF StoreElement, Back, At
<1>2. /\ Sound(code) /\ IsVariable(Node.id) /\ Node.index # None /\ Named(Node.id).shape # "scalar"
      /\ elem = Named(Node.id).elem /\ elem \in ElementTypes
      /\ IsNumber(code, expression) /\ IsToStore(code, Saved[1], Named(Node.id))
  <2>1. /\ Sound(code) /\ IsVariable(Node.id) /\ Node.index # None /\ Named(Node.id).shape # "scalar"
        /\ elem = Named(Node.id).elem /\ elem \in ElementTypes /\ IsNumber(code, expression)
      BY <1>1, TopIs, GetsNumber DEF IsTyped, TypedVar, IsVariable, Named, Waits, Node
  <2>2. KeepsValues(code, Last(frames))
      BY <1>1, TopIs DEF FrameFits
  <2>3. PICK v : Saved = <<v>> /\ IsToStore(code, v, Named(Node.id))
      BY <1>1, <2>2 DEF KeepsValues, Node, Saved
  <2> QED
      BY <2>1, <2>3
<1>3. PICK t \in ElementTypes : Yields(code, index, t)
    BY <1>2, WidenedYields, HaveIs DEF Here, IsNumber, Numbers, ElementTypes
<1> HIDE DEF index, elem
<1>4. PICK u : Yields(index.code, right, u) /\ (u = elem \/ (Takers # {} /\ u = I1 /\ elem = I32))
  <2>1. /\ Sound(index.code) /\ Fine(index.code, Saved[1]) /\ TypeOf(index.code, Saved[1]) \in Numbers
        /\ TypeOf(index.code, Saved[1]) = I1 /\ elem = I32 => Takers # {}
      BY <1>2, <1>3, StillYields DEF IsToStore, IsNumber, Yields
  <2> QED
      BY <1>2, <2>1, ConvertedYields, HaveIs
<1> HIDE DEF right
<1>5. /\ Yields(code, right, u) /\ Sound(right.code) /\ Fine(right.code, right.value)
      /\ TypeOf(right.code, right.value) = u
    BY <1>3, <1>4, ThenYields DEF Yields
<1>6. Fine(right.code, index.value) /\ TypeOf(right.code, index.value) = t
    BY <1>3, <1>4, StillYields DEF Yields
<1> DEFINE at == Have(right.code, index.value)
<1>7. at.code = right.code /\ at.value = index.value /\ Type(at) = t
    BY <1>6, HaveIs
<1>8. Yields(right.code, e, PointerTo(elem)) /\ e.value[1] = "i"
  <2>1. e = Element(at)
      OBVIOUS
  <2> HIDE DEF at, e
  <2> QED
      BY <1>2, <1>5, <1>6, <1>7, <2>1, ElementYields
<1> HIDE DEF e, at
<1>9. /\ Sound(e.code) /\ Fine(e.code, e.value) /\ TypeOf(e.code, e.value) = PointerTo(elem)
      /\ Fine(e.code, right.value) /\ TypeOf(e.code, right.value) = u
      /\ Fine(e.code, index.value) /\ TypeOf(e.code, index.value) = t
    BY <1>5, <1>6, <1>8, StillYields DEF Yields
<1>10. Yields(e.code, stored, Void)
    BY <1>2, <1>4, <1>8, <1>9, StoreYields
<1> HIDE DEF stored
<1>11. Yields(e.code, Have(stored.code, index.value), t)
    BY <1>9, <1>10, KeptYields
<1>12. Yields(code, Have(stored.code, index.value), t)
    BY <1>5, <1>8, <1>11, ThenYields
<1>13. Class(Node) = Numeric
    BY <1>1, <1>2, ClassIs
<1> QED
    BY <1>1, <1>12, <1>13, LeaveYields
-----------------------------------------------------------------------------
LEMMA BehindOne ==
    ASSUME NEW x, NEW t, IsSeq(t)
    PROVE  /\ Len(<<x>> \o t) = Len(t) + 1 /\ (<<x>> \o t)[1] = x
           /\ \A k \in 1..Len(t) : (<<x>> \o t)[k + 1] = t[k]
<1> DEFINE s == <<x>>
<1>1. IsSeq(s) /\ Len(s) = 1 /\ s[1] = x
    BY OneIs
<1> HIDE DEF s
<1>2. IsSeq(s) /\ IsSeq(t)
    BY <1>1
<1>3. Len(s \o t) = Len(s) + Len(t) /\ Len(t) \in Nat
    BY <1>2, ConcatIs
<1>4. \A k \in 1..Len(s) : (s \o t)[k] = s[k]
    BY <1>2, ConcatIs
<1>5. \A k \in 1..Len(t) : (s \o t)[Len(s) + k] = t[k]
    BY <1>2, ConcatIs
<1>6. 1 \in 1..Len(s) /\ \A k \in 1..Len(t) : Len(s) + k = k + 1
    BY <1>1
<1>7. Len(s \o t) = Len(t) + 1 /\ (s \o t)[1] = x /\ \A k \in 1..Len(t) : (s \o t)[k + 1] = t[k]
    BY <1>1, <1>3, <1>4, <1>5, <1>6
<1> QED
    BY <1>7 DEF s

\* A call of a function with an argument for each parameter.
LEMMA CallYields ==
    ASSUME NEW c, Sound(c), IsFunction(Node.id), NEW args, IsSeq(args),
           Len(args) = Len(Named(Node.id).params),
           \A m \in 1..Len(args) : IsPassed(c, args[m], Named(Node.id).params[m])
    PROVE  Yields(c, Call(c, args), Named(Node.id).elem)
<1> DEFINE params == Named(Node.id).params
           head == <<"function", Node.id>>
           all == <<head>> \o args
           i == [op |-> "call", args |-> all, ty |-> Named(Node.id).elem]
<1>1. DOMAIN params = 1..Len(params) /\ Len(params) \in Nat
    BY DEF IsFunction
<1>2. Len(all) = Len(args) + 1 /\ all[1] = head /\ \A m \in 1..Len(args) : all[m + 1] = args[m]
    BY BehindOne
<1>3. Len(all) = Len(params) + 1 /\ all[1] = head /\ \A m \in 1..Len(params) : all[m + 1] = args[m]
    BY <1>2
<1>4. Call(c, args) = Make(c, "call", all, Named(Node.id).elem)
    BY DEF Call, Named
<1> HIDE DEF all
<1>5. i.args = all /\ i.op = "call" /\ i.ty = Named(Node.id).elem /\ i.args[1][2] = Node.id
    BY <1>3
<1>6. Operands(i) = {n + 1 : n \in DOMAIN params} /\ "call" \in Ops
    BY <1>5 DEF Operands, Ops, Binary, ICmp, FCmp
<1>7. \A n \in DOMAIN params :
         IsPassed(c, i.args[n + 1], params[n])
    BY <1>1, <1>3, <1>5
<1> HIDE DEF i
<1>8. OperandsFitIn(c, i, Takers)
  <2>1. /\ i.ty = Named(i.args[1][2]).elem /\ Len(i.args) = Len(Named(i.args[1][2]).params) + 1
        /\ \A n \in DOMAIN Named(i.args[1][2]).params :
              \/ TypeOf(c, i.args[n + 1]) = Named(i.args[1][2]).params[n]
              \/ /\ Takers # {} /\ TypeOf(c, i.args[n + 1]) = I1
                 /\ Named(i.args[1][2]).params[n] = I32
      BY <1>3, <1>5, <1>7 DEF IsPassed
  <2> QED
      BY <1>5, <2>1 DEF OperandsFitIn, Binary, ICmp, FCmp
<1>9. Fits(c, i)
    BY <1>6, <1>7, <1>8 DEF Fits, IsPassed
<1> QED
    BY <1>4, <1>6, <1>9, MakeYields DEF i

\* The call has every argument: it is made, and left.
LEMMA CallLeaves ==
    ASSUME NEW nodes, Ready(nodes), control \in {"visit", "back"}, Node.kind = "call",
           NEW c, Sound(c), Extends(code, c), NEW args, IsSeq(args), Len(args) = Len(Node.args),
           \A m \in 1..Len(args) : IsPassed(c, args[m], Named(Node.id).params[m]),
           Leave(Call(c, args)), curr_op' = curr_op
    PROVE  FitsNext(nodes)
<1> DEFINE elem == Named(Node.id).elem
           e == Call(c, args)
<1>1. IsFunction(Node.id) /\ Len(Node.args) = Len(Named(Node.id).params) /\ elem \in ElementTypes \cup {Void}
    BY TopIs DEF IsTyped, TypedCall, IsFunction
<1>2. Yields(c, e, elem)
    BY <1>1, CallYields
<1>3. Yields(code, e, elem)
    BY <1>2, ExtendsAgain DEF Yields
<1>4. Class(Node) = IF elem = Void THEN Void ELSE Numeric
    BY ClassIs
<1>5. Leave(e)
    OBVIOUS
<1> HIDE DEF e, elem
<1> QED
    BY <1>1, <1>3, <1>4, <1>5, LeaveYields

\* The call has an argument to go: its visitor accepts the next.
LEMMA CallAccepts ==
    ASSUME NEW nodes, Ready(nodes), control \in {"visit", "back"}, Node.kind = "call",
           Sound(code'), Extends(code, code'), NEW args, IsSeq(args),
           Len(args) + 1 \in DOMAIN Node.args,
           \A m \in 1..Len(args) : IsPassed(code', args[m], Named(Node.id).params[m]),
           Accept(Node.args[Len(args) + 1], args), curr_op' = curr_op
    PROVE  FitsNext(nodes)
<1> DEFINE k == Len(args) + 1
           child == Node.args[k]
           f == [node |-> Node, saved |-> args]
<1>1. /\ TypedCall(Node) /\ Children(Node) \subseteq nodes /\ curr_op \in {LOAD, STORE}
    BY TopIs DEF IsTyped
<1>2. child \in nodes /\ k \in DOMAIN Named(Node.id).params
    BY <1>1 DEF TypedCall, IsFunction
<1>3. child.kind # "var"
    BY <1>1, <1>2 DEF TypedCall, IsArgument
<1> HIDE DEF child, k
<1>4. f.node = Node /\ f.saved = args
    OBVIOUS
<1>5. child = Node.args[k] /\ k = Len(args) + 1
    BY DEF child, k
<1>6. Waits(f) /\ Awaited(f) = Class(child)
    BY <1>2, <1>4, <1>5 DEF Waits, Awaited, Child
<1>7. KeepsValues(code', f)
    BY <1>4 DEF KeepsValues, Operations
<1>8. Accept(child, args)
    BY DEF child, k
<1> HIDE DEF f
<1> QED
    BY <1>1, <1>2, <1>3, <1>6, <1>7, <1>8, AcceptStep DEF f

LEMMA StepVisitCall ==
    ASSUME NEW nodes, Ready(nodes), VisitCall
    PROVE  FitsNext(nodes)
<1>1. control = "visit" /\ Node.kind = "call" /\ curr_op' = curr_op
    BY DEF VisitCall, Visited, At
<1>2. Sound(code) /\ TypedCall(Node)
    BY <1>1, TopIs DEF IsTyped
<1>3. Node.args \in Seq(Children(Node))
    BY <1>2 DEF TypedCall
<1>4. CASE Node.args = <<>>
  <2>1. Leave(Call(code, <<>>))
      BY <1>4 DEF VisitCall
  <2>2. IsSeq(<<>>) /\ Len(<<>>) = Len(Node.args) /\ 1..Len(<<>>) = {}
      BY <1>4, EmptyIs
  <2> DEFINE args == <<>>
  <2>3. IsSeq(args) /\ Len(args) = Len(Node.args) /\ 1..Len(args) = {} /\ Leave(Call(code, args))
      BY <2>1, <2>2
  <2> HIDE DEF args
  <2> QED
      BY <1>1, <1>2, <2>3, ExtendsSelf, CallLeaves
<1>5. CASE Node.args # <<>>
  <2> DEFINE args == <<>>
  <2>1. IsSeq(args) /\ Len(args) = 0 /\ 1..Len(args) = {}
      BY EmptyIs
  <2>2. Accept(Head(Node.args), args) /\ code' = code
      BY <1>5 DEF VisitCall
  <2> HIDE DEF args
  <2>3. Head(Node.args) = Node.args[1] /\ 1 \in DOMAIN Node.args
      BY <1>3, <1>5, EmptySeq, HeadTailProperties
  <2>4. Len(args) + 1 \in DOMAIN Node.args /\ Accept(Node.args[Len(args) + 1], args)
      BY <2>1, <2>2, <2>3
  <2> QED
      BY <1>1, <1>2, <2>1, <2>2, <2>4, ExtendsSelf, CallAccepts
<1> QED
    BY <1>4, <1>5

\* An argument is converted to what is passed for a parameter of type ty.
LEMMA ArgumentIsPassed ==
    ASSUME NEW c, Sound(c), NEW ty \in ParamTypes, NEW v, NEW class, IsOf(c, v, class),
           class \in IF ty \in ElementTypes THEN NumberClasses ELSE {ty},
           class = Truth /\ ty = I32 => Takers # {}
    PROVE  LET e == Converted(Have(c, v), ty)
           IN  Sound(e.code) /\ Extends(c, e.code) /\ IsPassed(e.code, e.value, ty)
<1> DEFINE h == Have(c, v)
           e == Converted(h, ty)
<1>1. h.code = c /\ h.value = v /\ Type(h) = TypeOf(c, v)
    BY HaveIs
<1> HIDE DEF h
<1>2. CASE ty \in ElementTypes
  <2>1. /\ Fine(c, v) /\ TypeOf(c, v) \in Numbers
        /\ TypeOf(c, v) = I1 /\ ty = I32 => Takers # {}
      BY <1>2, IsOfNumber DEF IsNumber
  <2>2. Yields(c, e, IF Type(h) = I1 /\ ty = I32 THEN I1 ELSE ty)
      BY <1>1, <1>2, <2>1, ConvertedYields
  <2> HIDE DEF e
  <2> QED
      BY <1>1, <2>1, <2>2 DEF Yields, IsPassed, e, h
<1>3. CASE ty \notin ElementTypes
  <2>1. PICK t : ty = PointerTo(t)
      BY <1>3 DEF ParamTypes
  <2>2. ty \notin Numbers /\ ty # Void /\ ty \notin NumberClasses
      BY <2>1, TypesDiffer DEF Numbers
  <2>3. Fine(c, v) /\ TypeOf(c, v) = ty
      BY <1>3, <2>2 DEF IsOf, NumberClasses
  <2>4. e = h
      BY <1>1, <2>2, <2>3, ConvertedYields
  <2> HIDE DEF e
  <2>5. Sound(e.code) /\ Extends(c, e.code) /\ IsPassed(e.code, e.value, ty)
      BY <1>1, <2>3, <2>4, ExtendsSelf DEF IsPassed
  <2> QED
      BY <2>5 DEF e, h
<1> QED
    BY <1>2, <1>3

LEMMA StepBackFromArgument ==
    ASSUME NEW nodes, Ready(nodes), BackFromArgument
    PROVE  FitsNext(nodes)
<1> DEFINE params == Named(Node.id).params
           param == params[Len(Saved) + 1]
           child == Node.args[Len(Saved) + 1]
           e == Converted(Here, param)
           args == Append(Saved, e.value)
<1>1. control = "back" /\ Node.kind = "call" /\ curr_op' = curr_op
    BY DEF BackFromArgument, Back, At
<1>2. IF Len(args) = Len(Node.args) THEN Leave(Call(e.code, args))
      ELSE Accept(Node.args[Len(args) + 1], args) /\ code' = e.code
    BY DEF BackFromArgument, Named
<1>3. /\ Sound(code) /\ TypedCall(Node) /\ IsSeq(Saved) /\ Len(Saved) + 1 \in DOMAIN params
      /\ \A m \in 1..Len(Saved) : IsPassed(code, Saved[m], params[m])
      /\ IsOf(code, expression, Class(child)) /\ Node \in BodyNodes
    BY <1>1, TopIs DEF IsTyped, FrameFits, KeepsValues, Waits, Awaited, Child, Node, Saved, Ready
<1>4. /\ params \in Seq(ParamTypes) /\ Node.args \in Seq(Children(Node)) /\ Len(Node.args) = Len(params)
    BY <1>3 DEF TypedCall, IsFunction
<1>5. param \in ParamTypes /\ Len(Saved) \in Nat /\ Len(Saved) + 1 \in 1..Len(params)
    BY <1>3, <1>4, SeqAppend, ElementOfSeq
<1>6. Sound(e.code) /\ Extends(code, e.code) /\ IsPassed(e.code, e.value, param)
  <2>1. Class(child) \in IF param \in ElementTypes THEN NumberClasses ELSE {param}
      BY <1>3 DEF TypedCall, IsArgument
  <2>2. Len(Saved) + 1 \in DOMAIN Node.args
      BY <1>4, <1>5
  <2>3. Class(child) = Truth /\ param = I32 => Takers # {}
      BY <1>1, <1>3, <2>2 DEF Takers, TakeTruthForInt
  <2> HIDE DEF param, child
  <2> QED
      BY <1>3, <1>5, <2>1, <2>3, ArgumentIsPassed DEF Here
<1> HIDE DEF e
<1>7. /\ IsSeq(args) /\ Len(args) = Len(Saved) + 1 /\ args[Len(Saved) + 1] = e.value
      /\ \A m \in 1..Len(Saved) : args[m] = Saved[m]
    BY <1>3, SeqAppend
<1> HIDE DEF args
<1>8. \A m \in 1..Len(args) : IsPassed(e.code, args[m], params[m])
  <2> SUFFICES ASSUME NEW m \in 1..Len(args) PROVE IsPassed(e.code, args[m], params[m])
      OBVIOUS
  <2>1. CASE m \in 1..Len(Saved)
    <3>1. IsPassed(code, Saved[m], params[m])
        BY <2>1, <1>3
    <3>2. IsPassed(e.code, Saved[m], params[m])
        BY <3>1, <1>6 DEF IsPassed, Extends
    <3> QED
        BY <2>1, <3>2, <1>7
  <2>2. CASE m = Len(Saved) + 1
      BY <2>2, <1>6, <1>7
  <2> QED
      BY <2>1, <2>2, <1>5, <1>7
<1>9. CASE Len(args) = Len(Node.args)
    BY <1>1, <1>2, <1>6, <1>7, <1>8, <1>9, CallLeaves
<1>10. CASE Len(args) # Len(Node.args)
  <2>1. Accept(Node.args[Len(args) + 1], args) /\ code' = e.code
      BY <1>2, <1>10
  <2>2. Len(args) + 1 \in DOMAIN Node.args
    <3> HIDE DEF params
    <3> QED
        BY <1>4, <1>5, <1>7, <1>10
  <2> QED
      BY <1>1, <1>6, <1>7, <1>8, <2>1, <2>2, CallAccepts
<1> QED
    BY <1>9, <1>10
-----------------------------------------------------------------------------
LEMMA StepVisitStatement ==
    ASSUME NEW nodes, Ready(nodes), VisitStatement
    PROVE  FitsNext(nodes)
<1> DEFINE f == [node |-> Node, saved |-> <<>>]
<1>1. /\ control = "visit" /\ Node.kind \in {"stmt", "return"} /\ Node.expr # None
      /\ curr_op' = IF Node.kind = "return" THEN LOAD ELSE curr_op
      /\ Accept(Node.expr, <<>>) /\ code' = code
    BY DEF VisitStatement, Visited, At
<1>2. /\ Node.expr \in nodes /\ Sound(code) /\ IsTyped(Node) /\ curr_op \in {LOAD, STORE}
    BY <1>1, TopIs, ChildrenAre
<1>3. KeepsValues(code, f) /\ Waits(f) /\ Awaited(f) \in {Void, Class(Node.expr)}
    BY <1>1, <1>2 DEF KeepsValues, Waits, Awaited, Child, Operations, IsTyped
<1>4. curr_op' \in {LOAD, STORE} /\ (curr_op' = LOAD \/ Node.expr.kind # "var")
    BY <1>1, <1>2 DEF IsTyped
<1> HIDE DEF f
<1> QED
    BY <1>1, <1>2, <1>3, <1>4, ExtendsSelf, AcceptStep DEF f

LEMMA StepLeaveStatement ==
    ASSUME NEW nodes, Ready(nodes), BackToStatement \/ VisitBareReturn
    PROVE  FitsNext(nodes)
<1>1. /\ control \in {"visit", "back"} /\ Node.kind \in {"stmt", "return"} /\ curr_op' = curr_op
      /\ Leave(Here)
    BY DEF BackToStatement, VisitBareReturn, Back, Visited, At
<1>2. Class(Node) = Void /\ Sound(code) /\ Here.code = code /\ Here.value = expression
    BY <1>1, ClassIs, TopIs, HaveIs DEF Here
<1>3. IsOf(code, expression, Class(Node))
    BY <1>2 DEF IsOf
<1> QED
    BY <1>1, <1>2, <1>3, ExtendsSelf, LeaveStep

LEMMA StepBackToReturn ==
    ASSUME NEW nodes, Ready(nodes), BackToReturn
    PROVE  FitsNext(nodes)
<1> DEFINE ty == ReturnType
           e == Converted(Widened(Here), ty)
           stored == Make(e.code, "store", <<e.value, ReturnAlloca>>, Void)
           left == Have(stored.code, expression)
<1>1. control = "back" /\ Node.kind = "return" /\ curr_op' = curr_op /\ Leave(left)
    BY DEF BackToReturn, Back, At
<1>2. Sound(code) /\ Node.expr # None /\ IsTyped(Node)
    BY <1>1, TopIs DEF Waits, Node
<1>3. ty \in ElementTypes /\ IsNumber(code, expression)
    BY <1>1, <1>2, GetsNumber DEF IsTyped
<1>4. \A c : Fine(c, ReturnAlloca) /\ TypeOf(c, ReturnAlloca) = PointerTo(ty)
    BY DEF Fine, TypeOf, ReturnAlloca
<1> HIDE DEF ty
<1>5. Yields(code, e, ty)
    BY <1>2, <1>3, WidenedConvertedYields DEF Here
<1> HIDE DEF e
<1>6. Sound(e.code) /\ Fine(e.code, e.value) /\ TypeOf(e.code, e.value) = ty
    BY <1>5 DEF Yields
<1>7. Yields(e.code, stored, Void)
    BY <1>3, <1>4, <1>6, StoreYields
<1> HIDE DEF stored
<1>8. Yields(code, stored, Void)
    BY <1>5, <1>7, ThenYields
<1>9. Yields(code, left, TypeOf(code, expression))
    BY <1>3, <1>8, KeptYields DEF IsNumber
<1>10. Class(Node) = Void
    BY <1>1, ClassIs
<1> HIDE DEF left
<1> QED
    BY <1>1, <1>9, <1>10, LeaveYields

\* The visitor of a statement begins.
LEMMA StepNextStatement ==
    ASSUME NEW nodes, Ready(nodes), position \in Nat, NextStatement
    PROVE  FitsNext(nodes)
<1> DEFINE n == Statements[position + 1]
           f == Frame(n)
           fs == <<f>>
<1>1. /\ control = "statements" /\ position < Len(Statements)
      /\ frames' = fs /\ control' = "visit" /\ code' = code /\ curr_op' = curr_op
    BY DEF NextStatement, valueVars
<1>2. Sound(code) /\ curr_op \in {LOAD, STORE}
    BY <1>1 DEF Ready, FitsWith
<1>3. Statements \in Seq(nodes) /\ \A m \in ToSet(Statements) : m.kind \in {"stmt", "return"}
    BY DEF Ready, AreTyped
<1>4. position + 1 \in 1..Len(Statements) /\ n \in nodes
    BY <1>1, <1>3, ElementOfSeq
<1>5. n.kind \in {"stmt", "return"}
    BY <1>3, <1>4 DEF ToSet
<1> HIDE DEF n
<1>6. FrameFits(nodes, code, f) /\ f.node = n /\ f.saved = <<>>
    BY <1>4, NewFrameFits
<1> HIDE DEF f
<1>7. IsSeq(fs) /\ Len(fs) = 1 /\ fs[1] = f
    BY OneIs
<1> HIDE DEF fs
<1>8. fs # <<>>
    BY <1>7, EmptyIs
<1>9. StackFits(nodes, code, fs)
    BY <1>6, <1>7, <1>8 DEF StackFits
<1>10. Begins(code, fs[Len(fs)], expression', curr_op)
    BY <1>5, <1>6, <1>7 DEF Begins
<1> QED
    BY <1>1, <1>2, <1>9, <1>10 DEF FitsNext, FitsWith

LEMMA StepVisitEmpty ==
    ASSUME NEW nodes, Ready(nodes), VisitEmpty
    PROVE  FitsNext(nodes)
<1>1. control' = "crashed" /\ code' = code /\ curr_op' = curr_op
    BY DEF VisitEmpty, valueVars
<1> QED
    BY <1>1 DEF Ready, FitsWith, FitsNext
-----------------------------------------------------------------------------
(***************************************************************************)
(* The invariant.                                                          *)
(***************************************************************************)
\* A step within a body.
LEMMA BodyStep ==
    ASSUME ExpressionInv, InBody, InBody', SameBody, position' \in Nat, curr_op' \in {LOAD, STORE},
           \A nodes : Ready(nodes) => FitsNext(nodes)
    PROVE  ExpressionInv'
<1>1. ASSUME AreTyped(BodyNodes)'
      PROVE  FitsWith(BodyNodes, code, frames, control, expression, curr_op)'
  <2>1. PICK nodes : nodes = BodyNodes /\ nodes = BodyNodes'
      BY SameTakers
  <2>2. AreTyped(nodes)
      BY <1>1, <2>1, SameTyping
  <2>3. Ready(nodes)
      BY <2>1, <2>2 DEF ExpressionInv, Ready
  <2>4. FitsWith(nodes, code', frames', control', expression', curr_op')
      BY <2>3 DEF FitsNext
  <2> QED
      BY <2>1, <2>4, SameFits
<1>2. control' # "compound"
    BY DEF InBody
<1> QED
    BY <1>1, <1>2 DEF ExpressionInv

LEMMA VisitsKeep ==
    ASSUME ExpressionInv, Visits
    PROVE  ExpressionInv'
<1>1. /\ control = "visit" \/ control = "back"
      /\ control' \in {"visit", "back", "statements", "returned", "crashed"}
      /\ SameBody /\ position' = position /\ curr_op' \in {curr_op, LOAD, STORE}
    BY DEF Visits, VisitNum, VisitSingle, VisitLeft, VisitRight, VisitAssign, VisitTarget, VisitIndex,
           VisitStoreIndex, VisitCall, VisitStatement, VisitEmpty, Visited, Back, Accept, Leave,
           SameBody, treeVars, scopeVars, bodyVars, valueVars
<1>2. InBody /\ InBody' /\ position' \in Nat /\ curr_op' \in {LOAD, STORE}
    BY <1>1 DEF InBody, ExpressionInv
<1>3. \A nodes : Ready(nodes) => FitsNext(nodes)
    BY StepVisitNum, StepVisitSingle, StepVisitLeft, StepVisitRight, StepVisitAssign, StepVisitTarget,
       StepVisitIndex, StepVisitCall, StepVisitStatement, StepVisitEmpty DEF Visits
<1> QED
    BY <1>1, <1>2, <1>3, BodyStep

LEMMA ReturnsKeep ==
    ASSUME ExpressionInv, Returns
    PROVE  ExpressionInv'
<1>1. /\ control = "visit" \/ control = "back"
      /\ control' \in {"visit", "back", "statements", "returned"}
      /\ SameBody /\ position' = position /\ curr_op' = curr_op
  <2>1. CASE BackSimple \/ BackAdditive \/ BackTerm
      BY <2>1 DEF BackSimple, BackAdditive, BackTerm, Back, Leave, SameBody, treeVars, scopeVars
  <2>2. CASE LoadScalar
      BY <2>2 DEF LoadScalar, Visited, Leave, SameBody, treeVars, scopeVars
  <2>3. CASE LoadElement \/ StoreElement
      BY <2>3 DEF LoadElement, StoreElement, Back, Leave, SameBody, treeVars, scopeVars
  <2>4. CASE StoreScalar
      BY <2>4 DEF StoreScalar, Visited, Leave, SameBody, treeVars, scopeVars
  <2>5. CASE BackFromArgument
      BY <2>5 DEF BackFromArgument, Back, Accept, Leave, SameBody, treeVars, scopeVars
  <2>6. CASE BackToStatement \/ VisitBareReturn \/ BackToReturn
      BY <2>6 DEF BackToStatement, VisitBareReturn, BackToReturn, Back, Visited, Leave, SameBody,
                  treeVars, scopeVars
  <2> QED
      BY <2>1, <2>2, <2>3, <2>4, <2>5, <2>6 DEF Returns
<1>2. InBody /\ InBody' /\ position' \in Nat /\ curr_op' \in {LOAD, STORE}
    BY <1>1 DEF InBody, ExpressionInv
<1>3. \A nodes : Ready(nodes) => FitsNext(nodes)
    BY StepBackSimple, StepBackArithmetic, StepLoadScalar, StepLoadElement, StepStoreScalar, StepStoreElement,
       StepBackFromArgument, StepLeaveStatement, StepBackToReturn DEF Returns
<1> QED
    BY <1>1, <1>2, <1>3, BodyStep

LEMMA DeclaresKeep ==
    ASSUME ExpressionInv, Declares
    PROVE  ExpressionInv'
<1>1. position \in Nat /\ curr_op \in {LOAD, STORE}
    BY DEF ExpressionInv
<1>2. CASE BuildAST \/ VisitGlobal \/ LeaveFunction
  <2>1. position' = position /\ curr_op' = curr_op /\ control' \in {"declare"}
      BY <1>2 DEF BuildAST, VisitGlobal, LeaveFunction, DeclaresA, bodyVars, valueVars
  <2> QED
      BY <1>1, <2>1 DEF ExpressionInv, InBody
<1>3. CASE VisitFunction
  <2>1. position' = position /\ curr_op' = curr_op /\ control' = "compound" /\ code' = <<>>
      BY <1>3 DEF VisitFunction, bodyVars
  <2> QED
      BY <1>1, <2>1 DEF ExpressionInv, InBody
<1>4. CASE VisitCompound
  <2>1. position' = 0 /\ curr_op' = curr_op /\ control' = "statements" /\ code' = <<>>
      BY <1>4 DEF VisitCompound, valueVars, ExpressionInv
  <2>2. Sound(<<>>)'
      BY EmptyIs DEF Sound
  <2>3. Sound(code)'
      BY <2>1, <2>2
  <2>4. FitsWith(BodyNodes, code, frames, control, expression, curr_op)'
      BY <1>1, <2>1, <2>3 DEF FitsWith
  <2> QED
      BY <1>1, <2>1, <2>4 DEF ExpressionInv
<1>5. CASE NextStatement
  <2>1. /\ control = "statements" /\ control' = "visit" /\ SameBody /\ position' = position + 1
        /\ curr_op' = curr_op
      BY <1>5 DEF NextStatement, SameBody, treeVars, scopeVars, valueVars
  <2>2. InBody /\ InBody' /\ position' \in Nat
      BY <1>1, <2>1 DEF InBody
  <2>3. \A nodes : Ready(nodes) => FitsNext(nodes)
      BY <1>1, <1>5, StepNextStatement
  <2> QED
      BY <1>1, <2>1, <2>2, <2>3, BodyStep
<1> QED
    BY <1>2, <1>3, <1>4, <1>5 DEF Declares

LEMMA StutterKeeps ==
    ASSUME ExpressionInv, UNCHANGED vars
    PROVE  ExpressionInv'
<1>1. /\ SameBody /\ position' = position /\ control' = control /\ curr_op' = curr_op
      /\ code' = code /\ frames' = frames /\ expression' = expression
    BY DEF vars, treeVars, scopeVars, bodyVars, valueVars, SameBody
<1>2. CASE InBody
  <2>1. InBody' /\ position' \in Nat /\ curr_op' \in {LOAD, STORE}
      BY <1>1, <1>2 DEF InBody, ExpressionInv
  <2>2. \A nodes : Ready(nodes) => FitsNext(nodes)
      BY <1>1 DEF Ready, FitsNext
  <2> QED
      BY <1>1, <1>2, <2>1, <2>2, BodyStep
<1>3. CASE ~InBody
    BY <1>1, <1>3 DEF ExpressionInv, InBody
<1> QED
    BY <1>2, <1>3

LEMMA ExpressionInvHolds ==
    Spec => []ExpressionInv
<1>1. Init => ExpressionInv
    BY DEF Init, ExpressionInv, InBody
<1>2. ExpressionInv /\ [Next]_vars => ExpressionInv'
    BY VisitsKeep, ReturnsKeep, DeclaresKeep, StutterKeeps DEF Next, Done
<1> QED
    BY <1>1, <1>2, PTL DEF Spec

\* Whatever the programs and their ASTs are, and however deep: in a body whose types are what
\* the language asks for, every instruction the visitors make has operands of exactly the types
\* it needs, those of a call and of an address included.  If the body itself stores a comparison
\* in an int element, or passes one for an int parameter, an i1 may be stored in an int element
\* or passed for an int, and nothing else: where CminusfBuilder forgets to widen it.
THEOREM OperandsAlwaysFit ==
    Spec => []OperandsFit
<1>1. ExpressionInv => OperandsFit
  <2> SUFFICES ASSUME ExpressionInv, InBody, AreTyped(BodyNodes), NEW n \in DOMAIN code
               PROVE  OperandsFitIn(code, code[n], Takers)
      BY DEF OperandsFit, Takers
  <2>1. Sound(code)
      BY DEF ExpressionInv, FitsWith
  <2>2. DOMAIN code = 1..Len(code)
      BY <2>1, SeqAppend DEF Sound
  <2> QED
      BY <2>1, <2>2 DEF Sound, Fits
<1> QED
    BY <1>1, ExpressionInvHolds, PTL
=============================================================================
