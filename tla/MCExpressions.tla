--------------------------- MODULE MCExpressions ---------------------------
(* A program with one type of every kind, and a variable of most. *)
EXTENDS Statements

BaseStruct == 1
DerivedStruct == 2
BigStruct == 3
HolderStruct == 4
FarStruct == 5
MCStructs == 1..5
MCNone    == 0
MCExtends == [s \in MCStructs |-> CASE s = DerivedStruct -> BaseStruct
                                     [] s = FarStruct     -> DerivedStruct
                                     [] OTHER             -> MCNone]

I32 == SignedType(32)
U8  == UnsignedType(8)
U64 == UnsignedType(64)
F32 == FloatType(32)
P32 == PointerType(I32)
VoidPointer == PointerType(VoidType)
MaybeRef == SumType(<<RefType(I32), NoneType>>)
Choice   == SumType(<<I32, StructType(BaseStruct), NoneType>>)
Pair     == TupleType(<<I32, F32>>)
Numbers  == ArrayType(I32, 2)

\* A procedure type and the variadic one it equals, and a procedure that is
\* given the former.
Base == StructType(BaseStruct)
Unop == ProcedureType(<<RefType(Base)>>, I32, FALSE)
Log  == ProcedureType(<<RefType(Base)>>, I32, TRUE)
Apply == ProcedureType(<<Unop>>, I32, FALSE)

MCMembers == [s \in MCStructs |->
    CASE s = BaseStruct    -> <<I32>>
      [] s = DerivedStruct -> <<U8>>
      [] s = BigStruct     -> <<U64, Choice, P32, Unop>>
      [] s = HolderStruct  -> <<Numbers, RefType(I32)>>
    [] s = FarStruct     -> <<F32>>]

Derived == StructType(DerivedStruct)
Far  == StructType(FarStruct)
Big  == StructType(BigStruct)
Show == ProcedureType(<<Big>>, RefType(I32), FALSE)
Make3 == ProcedureType(<<F32>>, Big, TRUE)

\* Sums of structs and of what they extend, by value and by reference, of
\* five types, and of another sum.
MCSums ==
    {DeclaredSum(parts) : parts \in
        {<<Base, RefType(Derived), NoneType>>, <<RefType(Base), Derived, I32>>, <<Far, RefType(Derived)>>,
         <<RefType(Far), Derived, Base>>, <<I32, F32, CharType, BoolType, RefType(Derived)>>,
         <<RefType(Derived), NoneType>>, <<SumType(<<Base, NoneType>>), Derived>>,
         <<SumType(<<RefType(I32), CharType>>), I32>>, <<I32, Base, RefType(I32)>>,
         <<I32, F32>>, <<I32>>, <<Unop, NoneType>>, <<Unop, Log>>}} \ {NoType}

MCLeaves ==
    {Variable(t) : t \in MCSums} \cup
    {Variable(t) : t \in {I32, U8, F32, CharType, EnumType, P32, VoidPointer, Base, StructType(DerivedStruct),
                          Big, StructType(HolderStruct), RefType(I32), RefType(P32), Numbers, SliceType(I32),
                          DynamicArrayType(I32), MaybeRef, Choice, Pair, Unop, Log, BoolType}}
    \cup {ConstantNode(F32), ConstantNode(Base), ProcedureName(Unop), ProcedureName(Log), Literal(I32), Literal(BoolType),
          Nothing, Enumerator}

MCCastTypes == {I32, U8, F32, BoolType, CharType, P32, VoidPointer, MaybeRef, Choice, Numbers, Unop}
MCProcedures == {Unop, Show, Make3, Apply}
MCOverloads == [op \in {"+", "<", ">", "==", "!=", "[]"} |->
                  IF op = "+" THEN {ProcedureType(<<RefType(Base), I32>>, Base, FALSE)} ELSE {}]
MCAggregates == {Pair, TupleType(<<I32>>), TupleType(<<RefType(I32), F32>>), Numbers}

MCDeclared == {I32, F32, Base, P32, Numbers, MaybeRef, Choice, RefType(I32), RefType(U8), RefType(Base), BoolType, VoidType, Unop}
MCResults  == {I32, Unop, Big, Base, Numbers, RefType(I32), RefType(Base), MaybeRef, VoidType}
=============================================================================
