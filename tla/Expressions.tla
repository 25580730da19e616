---------------------------- MODULE Expressions ----------------------------
(***************************************************************************)
(* The expressions of a program: what semantic analysis accepts, the type  *)
(* it gives, the conversions it inserts (analyze, src/src/ASTNode.cpp),    *)
(* and the LLVM type of what code generation then returns for the value    *)
(* and for the address of each (generate, src/src/LLVMBackEnd.cpp).        *)
(*                                                                         *)
(* An expression is built bottom up: its operands lie on a stack, and an   *)
(* action per class of expression replaces them by the node they make.     *)
(* Nothing bounds how deep an expression gets.  Of a node is kept what its *)
(* parents look at:                                                        *)
(*   t    its type                                                         *)
(*   cls  the kind of node, as canBeLVal and delete tell them apart        *)
(*   cst  isConstant()                                                     *)
(*   av   the LLVM type of generate(getAddr = true)                        *)
(* generate(getAddr = false) of a node on the stack has the LLVM type      *)
(* Value(t): a node for which it has not is reported in gap instead.       *)
(***************************************************************************)
EXTENDS Sums

CONSTANTS
    Leaves,        \* the nodes without operands
    CastTypes,     \* the types written after "as", "new", "sizeof" and "[...]"
    Procedures,    \* the types of the procedures that are called
    Overloads,     \* Overloads[op]: the types of the procedures named op
    Aggregates     \* the types of the tuples and arrays written as literals

VARIABLES
    stack,         \* the operands analyzed so far
    gap            \* the expression that was accepted but has no sound code

vars == <<stack, gap>>

NoGap == [op |-> "none", on |-> <<>>, t |-> NoType, rv |-> LVoid]

Node(t, cls, cst, av) == [t |-> t, cls |-> cls, cst |-> cst, av |-> av]
PointerTo(t)  == LPointer(LLVM(UnRef(t)))
Temporary(t, cls) == Node(t, cls, FALSE, PointerTo(t))

\* An instruction on v is ill if v is.
On(v, result) == IF v = Ill THEN Ill ELSE result
Both(v, w, result) == On(v, On(w, result))
When(ok, v)   == IF ok THEN v ELSE Ill

-----------------------------------------------------------------------------
Room == Len(stack) < 2

Init == stack = <<>> /\ gap = NoGap

\* A leaf becomes an operand.
Leaf ==
    /\ gap = NoGap /\ Room
    /\ \E n \in Leaves : stack' = Append(stack, n)
    /\ UNCHANGED gap

\* The last k operands, and their types.
Top(k)   == SubSeq(stack, Len(stack) - k + 1, Len(stack))
Types(k) == [i \in 1..k |-> Top(k)[i].t]

\* The last k operands, with the types on, make a node n with the value rv.
Make(op, on, k, n, rv) ==
    /\ gap = NoGap
    /\ IF rv = Value(n.t)
       THEN /\ stack' = Append(SubSeq(stack, 1, Len(stack) - k), n)
            /\ UNCHANGED gap
       ELSE /\ stack' = <<>>
            /\ gap' = [op |-> op, on |-> on, t |-> n.t, rv |-> rv]

\* A statement leaves no operand.
Perform(op, on, k, rv) ==
    /\ gap = NoGap
    /\ IF rv = LVoid
       THEN stack' = SubSeq(stack, 1, Len(stack) - k) /\ UNCHANGED gap
       ELSE stack' = <<>> /\ gap' = [op |-> op, on |-> on, t |-> VoidType, rv |-> rv]

Drop == gap # NoGap /\ gap' = NoGap /\ UNCHANGED stack

\* The operand of a unary expression is R, those of a binary one L and R.
Unary  == Len(stack) > 0
Binary == Len(stack) = 2
L  == stack[Len(stack) - 1]
R  == stack[Len(stack)]
LT == UnRef(L.t)
RT == UnRef(R.t)

\* Expression::canBeLVal.
CanBeLVal(n) ==
    \/ IsRef(n.t)
    \/ ~IsArray(n.t) /\ n.cls \in {"var", "element", "access", "assign", "deref"}

-----------------------------------------------------------------------------
(* AsExpression::analyze: what may be cast, and what must not. *)
MayCast(lt, rt) ==
    /\ Equal(lt, rt) => IsPointer(rt)
    /\ \/ Converts(rt, lt)
       \/ IsPointer(lt) /\ rt.k \in {"pointer", "proc"}
       \/ IsArray(lt) /\ IsPointer(rt) /\ (Equal(Under(lt), Under(rt)) \/ IsVoid(Under(rt)))
       \/ Is(lt, "proc") /\ IsPointer(rt)
       \/ IsInt(lt) /\ IsPointer(rt) /\ IsVoid(Under(rt))
       \/ IsPointer(lt) /\ IsVoid(Under(lt)) /\ IsInt(rt)

Numbered(t) == IF Is(t, "enum") THEN UnsignedType(64) ELSE t

\* AsExpression::generate to a sum type: a sum of a reference and none is
\* the address itself, any other is a tag and the stored option.
SumCode(n, sum) ==
    LET option == OptionFor(sum, n.t) IN
    CASE OroRef(sum) # NoType ->
            IF Is(UnRef(n.t), "none") THEN LLVM(OroRef(sum)) ELSE n.av
      [] option = NoType -> Ill
      [] OTHER -> When((IF IsRef(option) THEN n.av ELSE Value(n.t)) = LLVM(option), LLVM(sum))

\* AsExpression::generate: the instruction depends on both types; the
\* declarator's own type is not stripped of a reference.
CastCode(n, d) ==
    LET lt == Numbered(UnRef(n.t))
        rt == Numbered(d)
        number == {"signed", "unsigned", "char"} IN
    CASE IsInt(lt) /\ rt.k \in number \cup {"float", "bool"}       -> LLVM(rt)
      [] Is(lt, "bool") /\ rt.k \in number                         -> LLVM(rt)
      [] Is(lt, "char") /\ (IsInt(rt) \/ rt.k \in {"bool", "float"}) -> LLVM(rt)
      [] IsFloat(lt) /\ (IsInt(rt) \/ IsFloat(rt))                 -> LLVM(rt)
      [] IsInt(lt) /\ IsPointer(rt) /\ IsVoid(Under(rt))           -> LLVM(rt)
      [] IsPointer(lt) /\ IsVoid(Under(lt)) /\ IsInt(rt)           -> LLVM(rt)
      [] Is(rt, "sum")                                             -> SumCode(n, rt)
      [] IsPointer(lt) /\ IsPointer(rt)                            -> LLVM(rt)
      [] IsPointer(lt) /\ IsVoid(Under(lt)) /\ Is(rt, "proc")      -> LLVM(rt)
      [] Is(lt, "proc") /\ IsPointer(rt) /\ IsVoid(Under(rt))      -> LLVM(rt)
      [] /\ IsArray(lt) /\ IsPointer(rt)
         /\ (Equal(Under(lt), Under(rt)) \/ IsVoid(Under(rt)))     -> LLVM(rt)
      [] OTHER -> Ill

\* What a cast leaves: only a sum that is not a pointer has an address.
Cast(n, d) ==
    Node(UnRef(d), "other", n.cst,
         IF Is(d, "sum") /\ OroRef(d) = NoType THEN PointerTo(d) ELSE CastCode(n, d))

AsExpression ==
    /\ Unary
    /\ \E d \in CastTypes :
          /\ MayCast(RT, UnRef(d))
          /\ Make("as", <<R.t, d>>, 1, Cast(R, d), CastCode(R, d))

\* emplaceConversion: the value of the operand n where the type d is wanted.
\* The cast it inserts is analyzed like one the program wrote.
Fits(n, d) == \/ IsRef(d) /\ Converts(d, n.t)
              \/ IsRef(n.t) /\ Equal(d, UnRef(n.t))
Converted(n, d) ==
    CASE Fits(n, d)                        -> Value(n.t)
      [] ~MayCast(UnRef(n.t), UnRef(d))    -> Ill
      [] OTHER                             -> CastCode(n, d)

\* convertOperands converts an operand whose type is not d's.
Operand(n, d) == IF Equal(UnRef(n.t), d) THEN Value(n.t) ELSE Converted(n, d)

-----------------------------------------------------------------------------
(* Arithmetic.  The class decides the type of the result from those of the *)
(* operands without references; numbers are converted to it.               *)
IsNumber(t) == IsInt(t) \/ IsFloat(t)
Number(lt, rt) == IF IsNumber(lt) /\ IsNumber(rt) THEN Conv(lt, rt) ELSE NoType

AddType(lt, rt) ==
    CASE IsInt(lt) /\ IsPointer(rt) -> rt
      [] IsPointer(lt) /\ IsInt(rt) -> lt
      [] OTHER                      -> Number(lt, rt)
SubType(lt, rt) ==
    CASE IsPointer(lt) /\ IsInt(rt)                         -> lt
      [] IsPointer(lt) /\ IsPointer(rt) /\ Equal(lt, rt)    -> SignedType(64)
      [] OTHER                                              -> Number(lt, rt)
MulType(lt, rt) == Number(lt, rt)
DivType(lt, rt) == Number(lt, rt)
ModType(lt, rt) == IF IsInt(lt) /\ IsInt(rt) THEN Conv(lt, rt) ELSE NoType

\* Shifts and bitwise operations: unsigned, of the common width.
BitType(lt, rt) ==
    IF IsInt(lt) /\ IsInt(rt) THEN UnsignedType(Conv(lt, rt).n) ELSE NoType

\* One instruction on two operands of the type t.
Arithmetic(t, l, r) ==
    When(IsNumber(t) /\ Operand(l, t) = LLVM(t) /\ Operand(r, t) = LLVM(t), LLVM(t))

\* AddExpression::generate: an element pointer is computed from the pointer.
AddCode(t, l, r) ==
    CASE IsPointer(t) /\ IsPointer(UnRef(l.t)) -> Gep(Value(l.t), Value(r.t))
      [] IsPointer(t)                          -> Gep(Value(r.t), Value(l.t))
      [] OTHER                                 -> Arithmetic(t, l, r)

\* SubExpression::generate looks at the types of the operands with their references.
SubCode(t, l, r) ==
    CASE IsPointer(l.t) /\ IsPointer(r.t) -> When(Value(l.t) = Value(r.t), LInt(64))
      [] IsPointer(t)                     -> When(IsPointer(l.t), Gep(Value(l.t), Value(r.t)))
      [] OTHER                            -> Arithmetic(t, l, r)

\* Expression::opOverload: a procedure named like the operator takes the operands.
Overloading(op) ==
    {p \in Overloads[op] : /\ Len(Params(p)) = 2
                           /\ \A i \in 1..2 : TakesArgument(Params(p)[i], Top(2)[i].t, FALSE)}

ResultOf(op, TypeOf(_, _), Code(_, _, _)) ==
    /\ Binary
    /\ TypeOf(LT, RT) # NoType
    /\ LET t == TypeOf(LT, RT) IN
       Make(op, Types(2), 2, Node(t, "other", L.cst /\ R.cst, LLVM(t)), Code(t, L, R))

AddExpression  == Binary /\ Overloading("+") = {} /\ ResultOf("+", AddType, AddCode)
SubExpression  == ResultOf("-", SubType, SubCode)
MultExpression == ResultOf("*", MulType, Arithmetic)
DivExpression  == ResultOf("/", DivType, Arithmetic)
ModExpression  == ResultOf("%", ModType, Arithmetic)
BSHLExpression == ResultOf("bshl", BitType, Arithmetic)
BSHRExpression == ResultOf("bshr", BitType, Arithmetic)
BANDExpression == ResultOf("band", BitType, Arithmetic)
BORExpression  == ResultOf("bor", BitType, Arithmetic)
BXORExpression == ResultOf("bxor", BitType, Arithmetic)

BNEGExpression ==
    /\ Unary /\ IsInt(RT)
    /\ Make("bneg", Types(1), 1, Node(UnsignedType(RT.n), "other", R.cst, LInt(RT.n)), LInt(RT.n))

-----------------------------------------------------------------------------
(* Assignment.  AssignmentCommon: a variable or an lvalue is assigned what *)
(* converts to its type; of a compound operator, the result must.          *)
Assignable(result) ==
    /\ L.cls \notin {"const", "proc"} /\ CanBeLVal(L)
    /\ Converts(LT, result)

\* convertAssignmentOperand.
Assigned == IF ~Equal(LT, RT) /\ Converts(LT, RT) THEN Converted(R, LT) ELSE Value(R.t)

\* AssignmentExpression::generate: a struct is copied from the address of
\* the right operand, and its address is then also its value.
AssignCode ==
    CASE ~IsStruct(LT) -> When(Stores(Assigned, L.av), Load(L.av))
      [] Equal(LT, RT) -> When(L.av.k = "p" /\ R.av.k = "p", L.av)
      [] OTHER         -> When(L.av.k = "p" /\ On(Assigned, R.av).k = "p", L.av)

AssignmentExpression ==
    /\ Binary /\ Assignable(RT)
    /\ Make("=", Types(2), 2, Node(LT, "assign", FALSE, L.av), AssignCode)

\* += and the others: the operands are not converted to a common type, the
\* right one is converted to the left's; generate returns the store, which
\* has no value.
Compound(op, TypeOf(_, _), Code(_, _, _)) ==
    /\ Binary
    /\ TypeOf(LT, RT) # NoType
    /\ Assignable(TypeOf(LT, RT))
    /\ LET code == IF IsPointer(LT) THEN Code(LT, L, R)
                   ELSE When(Value(L.t) = LLVM(LT) /\ Assigned = LLVM(LT), LLVM(LT)) IN
       Perform(op, Types(2), 2, When(Stores(code, L.av), LVoid))

AddAssignExpression  == Compound("+=", AddType, AddCode)
SubAssignExpression  == Compound("-=", SubType, SubCode)
MultAssignExpression == Compound("*=", MulType, Arithmetic)
DivAssignExpression  == Compound("/=", DivType, Arithmetic)
ModAssignExpression  == Compound("%=", ModType, Arithmetic)

-----------------------------------------------------------------------------
(* Comparisons.  The type the operands are converted to; of two pointers,  *)
(* the one the other converts to.                                          *)
Comparable(lt, rt) ==
    \/ IsInt(lt) /\ (IsNumber(rt) \/ rt.k \in {"char", "bool"})
    \/ Is(lt, "bool") /\ (IsNumber(rt) \/ rt.k \in {"char", "bool"})
    \/ IsFloat(lt) /\ IsNumber(rt)
    \/ Is(lt, "char") /\ (Is(rt, "char") \/ IsInt(rt))
    \/ IsPointer(lt) /\ IsPointer(rt) /\ (Converts(lt, rt) \/ Converts(rt, lt))
    \/ Is(lt, "enum") /\ lt = rt

CommonType(lt, rt) ==
    CASE Is(lt, "enum")                         -> lt
      [] IsPointer(lt) /\ ~Converts(lt, rt)     -> Conv(rt, lt)
      [] OTHER                                  -> Conv(lt, rt)

\* The type of an operand after the conversion to d.
After(n, d) == IF Equal(UnRef(n.t), d) \/ Fits(n, d) THEN n.t ELSE UnRef(d)

\* <, <=, > and >= choose the instruction from conv() of the converted operands.
OrderCode(d, l, r) ==
    LET t == UnRef(Conv(After(l, d), After(r, d))) IN
    CASE t.k \in {"signed", "unsigned", "enum", "char", "float"} ->
            When(Operand(l, d) = Operand(r, d), On(Operand(l, d), LInt(1)))
      [] IsPointer(t) -> Both(Operand(l, d), Operand(r, d), LInt(1))
      [] OTHER        -> Ill

\* == and != choose it from the type of the left operand.
EqualCode(d, l, r) ==
    When(/\ UnRef(After(l, d)).k \in {"bool", "signed", "unsigned", "char", "enum", "float", "pointer"}
         /\ Operand(l, d) = Operand(r, d), On(Operand(l, d), LInt(1)))

Comparison(op, Code(_, _, _)) ==
    /\ Binary /\ Comparable(LT, RT)
    /\ LET d == CommonType(LT, RT) IN
       Make(op, Types(2), 2, Node(BoolType, "other", L.cst /\ R.cst, LInt(1)),
            IF d = NoType THEN Ill ELSE Code(d, L, R))

LssExpression == Binary /\ Overloading("<") = {} /\ Comparison("<", OrderCode)
LeqExpression == Comparison("<=", OrderCode)
GtrExpression == Binary /\ Overloading(">") = {} /\ Comparison(">", OrderCode)
GeqExpression == Comparison(">=", OrderCode)
EquExpression == Binary /\ Overloading("==") = {} /\ Comparison("==", EqualCode)
NeqExpression == Binary /\ Overloading("!=") = {} /\ Comparison("!=", EqualCode)

\* and, or: two branches and a phi of booleans; not: one instruction.
Logical(op, k) ==
    /\ \A i \in 1..k : Converts(BoolType, UnRef(Top(k)[i].t))
    /\ Make(op, Types(k), k, Node(BoolType, "other", \A i \in 1..k : Top(k)[i].cst, LInt(1)),
            When(\A i \in 1..k : Operand(Top(k)[i], BoolType) = LInt(1), LInt(1)))

LogAndExpression == Binary /\ Logical("and", 2)
LogOrExpression  == Binary /\ Logical("or", 2)
NotExpression    == Unary /\ Logical("not", 1)

-----------------------------------------------------------------------------
(* Pointers. *)
DerefExpression ==
    /\ Unary /\ IsPointer(RT)
    /\ Make("@", Types(1), 1, Node(Under(RT), "deref", FALSE, Value(R.t)), Load(Value(R.t)))

IsIdentifier(n) == n.cls \in {"var", "const", "proc"}

AddressExpression ==
    /\ Unary
    /\ IsRef(R.t) \/ IsIdentifier(R) \/ CanBeLVal(R)
    /\ Make("&", Types(1), 1, Node(PointerType(RT), "address", FALSE, R.av), R.av)

\* The operator ~ is analyzed, and has no code.
RefExpression ==
    /\ Unary /\ R.cls # "proc"
    /\ IsIdentifier(R) \/ CanBeLVal(R)
    /\ Make("~", Types(1), 1, Node(RefType(RT), "other", FALSE, Ill), Ill)

\* A call of malloc, and a pointer cast; of an array, to its elements' type.
NewCode(d) == PtrCast(LPointer(LInt(8)), IF IsArray(d) THEN LPointer(LLVM(Under(d))) ELSE LLVM(PointerType(d)))
NewExpression ==
    /\ Room
    /\ \E d \in CastTypes :
          LET t == PointerType(IF IsArray(d) THEN Under(d) ELSE d) IN
          Make("new", <<d>>, 0, Node(t, "other", FALSE, LLVM(t)), NewCode(d))

Freed(v) == IF PtrCast(v, LPointer(LInt(8))) = Ill THEN Ill ELSE LVoid
DeleteExpression ==
    /\ Unary /\ IsPointer(RT)
    /\ R.cls \in {"var", "const", "proc", "address", "access", "element", "call"}
    /\ Perform("delete", Types(1), 1, Freed(Value(R.t)))

SizeofExpression ==
    /\ Room
    /\ \E d \in CastTypes :
          /\ ~IsVoid(d)
          /\ Make("sizeof", <<d>>, 0, Node(UnsignedType(64), "other", TRUE, LInt(64)), LInt(64))

-----------------------------------------------------------------------------
(* Calls.  An argument for a reference must be an lvalue and is passed by  *)
(* its address, without the instruction a conversion of it would need; one *)
(* of memory class is passed by the address of a copy.                     *)
PassedByValue(n, p, i) == Operand(n, Params(p)[i])
Passed(n, p, i) ==
    LET param == Params(p)[i] IN
    CASE IsRef(param) /\ IsStruct(UnRef(param)) /\ ~Equal(UnRef(param), UnRef(n.t)) ->
            PtrCast(n.av, LLVM(param))
      [] IsRef(param)  -> n.av
      [] ByVal(p, i)   -> IF n.av = PointerTo(param) THEN LLVM(param) ELSE Ill
      [] OTHER         -> Operand(n, param)

\* What is passed for "..." is widened; its sign is looked up in the
\* arguments by an index that counts the hidden result.
Promoted(p, k, i) ==
    LET t == Top(k)[i].t IN
    IF IsInt(t) /\ t.n < 32 /\ Sret(p) /\ i = k THEN Ill ELSE Value(t)

Callable(p, k) ==
    /\ k = Len(Params(p)) \/ (k > Len(Params(p)) /\ IsVararg(p))
    /\ \A i \in 1..Len(Params(p)) :
          /\ Converts(Params(p)[i], Top(k)[i].t)
          /\ IsRef(Params(p)[i]) => CanBeLVal(Top(k)[i])

ArgumentsFit(p, k) ==
    \A i \in 1..k :
        IF i <= Len(Params(p)) THEN Passed(Top(k)[i], p, i) = LLVM(Params(p)[i])
        ELSE Promoted(p, k, i) # Ill

\* A result by reference is loaded; an aggregate has the address of a temporary.
InMemory(t) == IsRef(t) \/ AbiClass(t) = "memory" \/ t.k \in {"struct", "sum", "tuple", "dynamic", "slice"}
CalledAndLoaded(t) == Node(t, "call", FALSE, Value(t))
Called(t) == Node(t, "call", FALSE, IF InMemory(t) THEN PointerTo(t) ELSE LLVM(t))

Call(op, p, k) ==
    /\ Callable(p, k)
    /\ Make(op, <<p>> \o Types(k), k, Called(Result(p)), When(ArgumentsFit(p, k), Value(Result(p))))

CallExpression == \E p \in Procedures, k \in 1..Len(stack) : Call("call", p, k)

\* x.p(y): AccessExpression::handleInjection makes x the first argument.
InjectedCall == \E p \in Procedures, k \in 1..Len(stack) : Call("call", p, k)

\* Expression::opOverload replaces the expression by a call.
OverloadedOperator ==
    \E op \in {"+", "<", ">", "==", "!=", "[]"} : Binary /\ \E p \in Overloading(op) : Call(op, p, 2)

-----------------------------------------------------------------------------
(* Elements.  Of an array or what a pointer points to: computed here.  Of  *)
(* a slice or a dynamic array: SubscriptExpression::desugar makes a call   *)
(* whose first parameter is a reference to it.                             *)
Element ==
    /\ LT.k \in {"pointer", "array"}
    /\ L.cls = "list" => R.cst
    /\ LET at == Gep(Value(L.t), Value(R.t)) IN
       Make("[]", Types(2), 2, Node(RefType(Under(LT)), "element", FALSE, at), Load(at))

ElementCall ==
    /\ LT.k \in {"slice", "dynamic"} /\ CanBeLVal(L)
    /\ LET t == IF Is(LT, "slice") THEN Under(LT) ELSE RefType(Under(LT)) IN
       Make("[]", Types(2), 2, Called(t),
            When(L.av = PointerTo(LT) /\ Operand(R, UnsignedType(64)) = LInt(64), Value(t)))

SubscriptExpression ==
    /\ Binary /\ Overloading("[]") = {} /\ IsInt(RT)
    /\ Element \/ ElementCall

\* Members of a structure and elements of a tuple, also through a pointer.
Parts(t) == CASE IsStruct(t)    -> Fields(t.n)
              [] Is(t, "tuple") -> t.sub
              [] OTHER          -> <<>>

\* Where the part lies: an array's place is a slot with the address of its
\* elements, a reference's is what it refers to.
Place(base, t) ==
    CASE FieldOf(base, t) = Ill -> Ill
      [] IsArray(t)             -> LPointer(Value(t))
      [] IsRef(t)               -> Load(FieldOf(base, t))
      [] OTHER                  -> FieldOf(base, t)

AccessExpression ==
    /\ Unary
    /\ LET of   == IF IsPointer(RT) THEN Under(RT) ELSE RT
           base == IF IsPointer(RT) THEN Value(R.t) ELSE R.av IN
       \E i \in 1..Len(Parts(of)) :
           LET place == Place(base, Parts(of)[i]) IN
           Make(".", Types(1), 1, Node(Parts(of)[i], "access", FALSE, place), Load(place))

\* A slice is made by a call with a pointer, a start and a length (here the
\* same expression); the pointer of a slice or a dynamic array is read from it.
Source ==
    CASE L.t.k \in {"slice", "dynamic"}                -> Load(FieldOf(L.av, PointerType(Under(LT))))
      [] ~Converts(PointerType(Under(LT)), L.t)        -> Ill
      [] OTHER                                         -> Operand(L, PointerType(Under(LT)))

SliceExpression ==
    /\ Binary
    /\ LT.k \in {"pointer", "array", "slice", "dynamic"} /\ Converts(UnsignedType(64), RT)
    /\ Make("[:]", Types(2), 2, Called(SliceType(Under(LT))),
            When(/\ Source = LLVM(PointerType(Under(LT)))
                 /\ Operand(R, UnsignedType(64)) = LInt(64), LLVM(SliceType(Under(LT)))))

DynamicArrayExpression ==
    /\ Room
    /\ \E d \in CastTypes :
          Make("[...]", <<d>>, 0, Called(DynamicArrayType(d)), LLVM(DynamicArrayType(d)))

\* The length: a constant, or the member that holds it.
LenExpression ==
    /\ Unary /\ RT.k \in {"array", "slice", "dynamic"}
    /\ LET length == FieldOf(R.av, UnsignedType(64)) IN
       IF IsArray(RT)
       THEN Make("#", Types(1), 1, Node(UnsignedType(64), "other", TRUE, LInt(64)), LInt(64))
       ELSE Make("#", Types(1), 1, Node(UnsignedType(64), "access", FALSE, length), Load(length))

-----------------------------------------------------------------------------
(* Literals of aggregates. *)
Stored(n) == IF IsRef(n.t) THEN n.av ELSE Value(n.t)
\* (x,) is a tuple of one element, which cannot be declared.
TupleLiteral ==
    \E k \in 1..Len(stack) :
        LET t == TupleType(Types(k)) IN
        /\ t \in Aggregates
        /\ Make("(,)", Types(k), k, Temporary(t, "tuple"),
                When(\A i \in 1..k : Stored(Top(k)[i]) = LLVM(Top(k)[i].t), LLVM(t)))

\* An array literal: a constant is copied to the stack.  Where an element is
\* not constant, createPointerToArrayElementsOnStack is given a pointer that
\* already is one, and asserts.
ArrayLiteral ==
    /\ Binary /\ ArrayType(L.t, 2) \in Aggregates /\ Converts(L.t, R.t)
    /\ LET t == ArrayType(L.t, 2) IN
       Make("{}", Types(2), 2, Node(t, "list", L.cst /\ R.cst, LPointer(Value(t))),
            When(/\ L.cst /\ R.cst
                 /\ \A i \in 1..2 : Operand(Top(2)[i], L.t) = LLVM(L.t), Value(t)))

\* What need not be given: no reference, and of a sum there must be a none.
HoldsRefs(t)  == \/ IsRef(t)
                 \/ IsStruct(t) /\ \E i \in 1..Len(Fields(t.n)) : IsRef(Fields(t.n)[i])
Defaulted(t)  == /\ ~HoldsRefs(t)
                 /\ Is(t, "sum") => \E i \in 1..Len(t.sub) : Is(t.sub[i], "none")

\* A member of a literal that is no constant is stored by address if it is a reference.
MemberCode(n, member, constant) ==
    IF IsRef(member) /\ ~constant THEN n.av ELSE Operand(n, member)

\* A structure literal with the member i given: a value of memory class is
\* left by its address.
StructLiteral(s, i) ==
    LET t        == StructType(s)
        fields   == Fields(s)
        constant == /\ R.cst
                    /\ \A j \in 1..Len(fields) :
                          ~Is(fields[j], "sum") /\ (IsArray(fields[j]) => fields[j].n <= 4)
        byAddress == ~constant /\ AbiClass(t) = "memory" IN
    /\ Converts(fields[i], R.t)
    /\ \A j \in 1..Len(fields) : j # i => Defaulted(fields[j])
    /\ Make("S{}", <<t, R.t>>, 1, Node(t, "list", R.cst /\ ~Is(fields[i], "sum"), PointerTo(t)),
            When(MemberCode(R, fields[i], constant) = LLVM(fields[i]),
                 IF byAddress THEN PointerTo(t) ELSE LLVM(t)))

InitializerList ==
    \/ ArrayLiteral
    \/ Unary /\ \E s \in Structs : \E i \in 1..Len(Fields(s)) : StructLiteral(s, i)

\* A block with one or two yields, of the type of the first; of a reference
\* it yields, and leaves, the address.
Yielded(n, t) == IF IsRef(t) THEN n.av ELSE Operand(n, t)
Slot(t)       == IF IsArray(t) THEN Value(t) ELSE LLVM(t)
ExprBlock ==
    \E k \in 1..Len(stack) :
        LET t == Top(k)[1].t IN
        /\ IsRef(t) => CanBeLVal(R)
        /\ Converts(t, R.t)
        /\ Make("block", Types(k), k,
                Node(t, "block", FALSE, IF IsRef(t) THEN LLVM(t) ELSE LPointer(Slot(t))),
                When(\A i \in 1..k : Yielded(Top(k)[i], t) = Slot(t), Slot(t)))

-----------------------------------------------------------------------------
(* Leaves: identifiers (Identifier::generate) and literals. *)
Variable(t) == Node(t, "var", FALSE, IF IsArray(t) THEN LPointer(Value(t)) ELSE PointerTo(t))
ConstantNode(t)  == Node(t, "const", TRUE, Value(t))
ProcedureName(p) == Node(p, "proc", TRUE, LLVM(p))
Literal(t)       == Node(t, "literal", TRUE, LLVM(t))
Nothing          == Node(NoneType, "literal", FALSE, LLVM(NoneType))
Enumerator       == Node(EnumType, "literal", TRUE, LInt(64))

Expression ==
    \/ Leaf \/ Drop \/ AsExpression
    \/ AddExpression \/ SubExpression \/ MultExpression \/ DivExpression \/ ModExpression
    \/ BSHLExpression \/ BSHRExpression \/ BANDExpression \/ BORExpression \/ BXORExpression
    \/ BNEGExpression
    \/ AssignmentExpression \/ AddAssignExpression \/ SubAssignExpression
    \/ MultAssignExpression \/ DivAssignExpression \/ ModAssignExpression
    \/ LssExpression \/ LeqExpression \/ GtrExpression \/ GeqExpression
    \/ EquExpression \/ NeqExpression
    \/ LogAndExpression \/ LogOrExpression \/ NotExpression
    \/ DerefExpression \/ AddressExpression \/ RefExpression
    \/ NewExpression \/ DeleteExpression \/ SizeofExpression
    \/ CallExpression \/ InjectedCall \/ OverloadedOperator
    \/ SubscriptExpression \/ AccessExpression
    \/ SliceExpression \/ DynamicArrayExpression \/ LenExpression
    \/ TupleLiteral \/ InitializerList \/ ExprBlock

-----------------------------------------------------------------------------
(* Where the code of an accepted expression is known to be ill typed.  The *)
(* operands of the gap, without references, are First and Last.            *)
First == UnRef(gap.on[1])
Last  == UnRef(gap.on[Len(gap.on)])

\* Casts that MayCast lets through and AsExpression::generate has no case for.
NoCast(t, d) ==
    \/ Is(t, "proc") /\ IsPointer(d) /\ ~IsVoid(Under(d))
    \/ IsPointer(t) /\ Is(d, "proc")
    \/ IsPointer(t) /\ IsArray(d)
    \/ IsFloat(t) /\ Is(d, "char")
    \/ Is(d, "sum") /\ (OroRef(d) # NoType \/ IsRef(OptionFor(d, t)))

IsRefTo(t, k) == IsRef(t) /\ UnRef(t).k \in k

\* What is given for d has an equal type, and no conversion is inserted, or is
\* stored as an equal option; but the type is another, and so is its LLVM type.
Mistaken(d, t) ==
    \/ Twins(UnRef(d), UnRef(t))
    \/ Is(UnRef(d), "sum") /\ Twins(UnRef(OptionFor(UnRef(d), t)), UnRef(t))
Wanted == CASE gap.op = "call" -> Params(First)
            [] gap.op = "S{}"  -> Fields(First.n)
            [] OTHER           -> gap.on
TwinGap == \E i \in DOMAIN Wanted, j \in DOMAIN gap.on : Mistaken(Wanted[i], gap.on[j])

ExpressionGap ==
    CASE gap.op = "as"                    -> NoCast(First, Last)
      [] gap.op = "="                     -> IsStruct(First) \/ NoCast(Last, First)
      [] gap.op \in {"<", "<=", ">", ">="} -> Is(First, "enum") \/ Is(First, "bool") \/ Is(Last, "bool")
      [] gap.op \in {"==", "!="}          -> Is(First, "bool") /\ IsFloat(Last)
      [] gap.op \in {"-", "-="}           -> \E i \in 1..2 : IsRefTo(gap.on[i], {"pointer"})
      [] gap.op \in {"@", "[]"}           -> IsPointer(First) /\ IsVoid(Under(First))
      [] gap.op = "&"                     -> IsArray(First) \/ ~IsRef(gap.on[1])
      [] gap.op = "."                     -> ~IsRef(gap.on[1])
      [] gap.op = "call"                  -> IsVararg(First) /\ Sret(First)
      [] gap.op = "[:]"                   -> IsRefTo(gap.on[1], {"slice", "dynamic"})
      [] gap.op = "S{}"                   -> HoldsRefs(gap.t) \/ gap.rv = PointerTo(gap.t)
      [] gap.op = "block"                 -> IsRef(gap.t) \/ IsArray(gap.t) \/ NoCast(Last, First)
      [] OTHER                            -> gap.op \in {"none", "~", "{}"}
=============================================================================
