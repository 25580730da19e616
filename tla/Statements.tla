----------------------------- MODULE Statements -----------------------------
(***************************************************************************)
(* The statements that hold expressions: semantic analysis of each         *)
(* (src/src/ASTNode.cpp) and the code it becomes (src/src/LLVMBackEnd.cpp).*)
(* What moves control is in ControlFlow; here it is what a statement       *)
(* demands of the types of its expression.  A declaration and a            *)
(* destructuring condition leave the variable they make on the stack.      *)
(***************************************************************************)
EXTENDS Expressions

CONSTANTS
    Declared,      \* the types variables are declared with
    Results        \* the types procedures return

-----------------------------------------------------------------------------
(* Declarations of local variables.                                        *)

\* A variable declared with type d whose storage is at named is read.
Declaration(op, d, named, ok) ==
    Make(op, <<d, R.t>>, 1, Node(d, "var", FALSE, named), When(ok, Load(named)))

\* VariableDeclaration::generate: a reference is the address of what it is
\* initialized with, for an array in a slot; a struct is copied from there.
Declare(d, node, v) ==
    CASE IsRef(d) /\ IsArray(UnRef(d)) -> Declaration("decl", d, LPointer(LLVM(d)), Stores(node.av, LPointer(LLVM(d))))
      [] IsRef(d) /\ ~IsArray(UnRef(d)) -> Declaration("decl", d, node.av, v # Ill)
      [] IsStruct(d)                   -> Declaration("decl", d, PointerTo(d), v # Ill /\ node.av.k = "p")
      [] OTHER                         -> Declaration("decl", d, LPointer(Slot(d)), Stores(v, LPointer(Slot(d))))

\* The type is written: the initialization is converted to it, or to what it refers to.
Typed(d) ==
    /\ ~IsVoid(d)
    /\ IsRef(d) => CanBeLVal(R)
    /\ Converts(UnRef(d), R.t)
    /\ IF Equal(UnRef(d), R.t) \/ Fits(R, UnRef(d)) THEN Declare(d, R, Value(R.t))
       ELSE Declare(d, Cast(R, UnRef(d)), Converted(R, UnRef(d)))

\* The type is that of the initialization.  Pointers to pointers to ... have
\* no end: the types are bounded by those of the leaves.
Bounded  == \E n \in Leaves : UnRef(n.t) = RT
Inferred == ~IsVoid(R.t) /\ Bounded /\ Declare(R.t, R, Value(R.t))

VariableDeclaration == Unary /\ (Inferred \/ \E d \in Declared : Typed(d))

-----------------------------------------------------------------------------
(* if d and while d: the sum R is taken out as d.                          *)

\* generate_destructure_var: a sum that is a pointer is its own value, which
\* has been generated for the condition; of others what the data part
\* contains, or refers to, is given the type of the variable.  The variable is
\* always a reference.
TakenOut(d) == IF OroRef(RT) # NoType THEN Value(R.t)
               ELSE IF R.av.k = "p" /\ R.av.sub[1] = LStruct(RT) THEN LLVM(RefType(UnRef(d))) ELSE Ill
Destructurings(sum) == {sum.sub[i] : i \in 1..Len(sum.sub)}
                       \cup {StructType(s) : s \in Structs} \cup {RefType(StructType(s)) : s \in Structs}
Destructure ==
    /\ Unary /\ Is(RT, "sum")
    /\ \E d \in Destructurings(RT) :
          /\ IsOption(RT, d)
          /\ Declaration("destructure", RefType(UnRef(d)), TakenOut(d), TakenOut(d) # Ill)

-----------------------------------------------------------------------------
(* The other statements leave nothing. *)

\* Return::generate: a result in memory is copied there, one by reference is an address.
Returned(d, node, v) ==
    CASE Sret(ProcedureType(<<>>, d, FALSE)) -> On(v, On(PtrCast(node.av, LPointer(LInt(8))), LVoid))
      [] IsRef(d) -> When(node.av = LLVM(d) \/ PtrCast(node.av, LLVM(d)) # Ill, LVoid)
      [] OTHER    -> When(v = LLVM(d), LVoid)

Return ==
    /\ Unary
    /\ \E d \in Results :
          /\ ~IsVoid(d) /\ Converts(d, R.t)
          /\ Perform("return", <<d, R.t>>, 1,
                     IF Equal(d, R.t) \/ Fits(R, d) THEN Returned(d, R, Value(R.t))
                     ELSE Returned(d, Cast(R, d), Converted(R, d)))

\* gen_printf_fmt; analysis accepts every type.
RECURSIVE Printable(_)
Printable(t) ==
    \/ t.k \in {"bool", "signed", "unsigned", "enum", "float", "char", "pointer", "proc"}
    \/ IsArray(t) /\ Is(Under(t), "char")
    \/ IsStruct(t) /\ \A i \in 1..Len(Fields(t.n)) : Printable(Fields(t.n)[i])
Printed == CASE IsStruct(RT) -> When(R.av.k = "p" /\ Load(R.av) = LLVM(RT), LVoid)
             [] IsRef(R.t) /\ ~IsStruct(RT) -> On(Load(R.av), LVoid)
             [] OTHER        -> On(Value(R.t), LVoid)
PrintStatement == Unary /\ Perform("print", Types(1), 1, IF Printable(RT) THEN Printed ELSE Ill)

\* The condition of if, while, do and for.
Condition ==
    /\ Unary /\ Converts(BoolType, R.t)
    /\ Perform("if", Types(1), 1,
               When((IF Equal(BoolType, R.t) THEN Value(R.t) ELSE Converted(R, BoolType)) = LInt(1), LVoid))

Statement == VariableDeclaration \/ Destructure \/ Return \/ PrintStatement \/ Condition

Next == Expression \/ Statement
Spec == Init /\ [][Next]_vars

-----------------------------------------------------------------------------
(* Where the code of an accepted statement is known to be ill typed: First *)
(* is the type declared or returned, Last that of the expression.          *)
StatementGap ==
    CASE gap.op = "decl"        -> \/ IsRef(gap.on[1]) /\ First # Last
                                   \/ IsStruct(First) \/ NoCast(Last, First)
      [] gap.op = "destructure" -> OroRef(Last) # NoType /\ RefType(First) # OroRef(Last)
      [] gap.op = "return"      -> IsRef(gap.on[1]) \/ IsArray(First) \/ NoCast(Last, First)
      [] gap.op = "print"       -> ~Printable(First) \/ IsStruct(First)
      [] OTHER                  -> FALSE

\* What semantic analysis accepts, with the conversions it inserts, has code
\* in which every instruction gets operands of the types it needs and the
\* value has the LLVM type of the expression's type; the exceptions are
\* ExpressionGap and StatementGap, each a disagreement of an analyze with its
\* generate, and TwinGap, one of equal() with bJouTypeToLLVMType.
AcceptedIsSound == ExpressionGap \/ StatementGap \/ TwinGap

\* What may be assigned, or bound to a reference, has as its address a
\* pointer to what its type is stored as: the address that generate(getAddr)
\* of every class of node returns is of the type its parents count on.
AddressesMatch ==
    \A i \in 1..Len(stack) :
        CanBeLVal(stack[i]) /\ ~IsArray(UnRef(stack[i].t)) => stack[i].av = PointerTo(stack[i].t)

\* A type with no procedure in it taking further arguments ("...").
RECURSIVE WithoutDots(_)
WithoutDots(t) == Type(t.k, IF Is(t, "proc") THEN 0 ELSE t.n, [i \in DOMAIN t.sub |-> WithoutDots(t.sub[i])])

\* Types are one object per key in the type table, whatever made them: no two
\* types have one key, also not a sum and a tuple, of which one could be had
\* with a single type in it.  Analysis takes equal() for the same type and
\* inserts no conversion: equal types are one, but for the "..." of a
\* procedure, which equal() does not look at and the LLVM type has.
KeysIdentify ==
    \A i, j \in 1..Len(stack) :
        LET t == stack[i].t
            u == stack[j].t IN
        /\ Key(t) = Key(u) => t = u
        /\ Equal(t, u) <=> WithoutDots(t) = WithoutDots(u)
        /\ Twins(t, u) => Value(t) # Value(u)

\* What a value of type t is to a program that stores it in a sum: an option
\* of its type, or one that holds it by reference.
Held(sum, t) == sum.sub[CHOOSE i \in 1..Len(sum.sub) : UnRef(sum.sub[i]) = UnRef(t)]
IsA(option, d) == \/ d = option
                  \/ /\ IsStruct(UnRef(d)) /\ IsStruct(UnRef(option)) /\ IsRef(d) = IsRef(option)
                     /\ IsBase(UnRef(d).n, UnRef(option).n)

\* A sum whose options came from another sum may hold a type twice, and any
\* a procedure type and its twin.
Repeating(sum) == \E i, j \in 1..Len(sum.sub) : i # j /\ Equal(UnRef(sum.sub[i]), UnRef(sum.sub[j]))

\* A sum is taken out as d exactly if it holds a d, or a struct that extends
\* d and is held the same way, by value or by reference; but a sum that holds
\* a type, or equal ones, twice cannot tell.
TagsTell ==
    \A i \in 1..Len(stack) :
        LET sum == UnRef(stack[i].t) IN
        Is(sum, "sum") /\ ~Repeating(sum) =>
            \A j \in 1..Len(sum.sub) :
                \A t \in {sum.sub[j], UnRef(sum.sub[j]), RefType(UnRef(sum.sub[j]))}, d \in Destructurings(sum) :
                    IsOption(sum, d) => (Succeeds(sum, t, d) <=> IsA(Held(sum, t), d))
=============================================================================
