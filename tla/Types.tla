------------------------------- MODULE Types -------------------------------
(***************************************************************************)
(* The types of a bJou program and what the compiler decides from them:    *)
(* the key a type is interned under, equality, implicit conversion,        *)
(* argument matching, the count of conversions overload resolution ranks   *)
(* by, the size the front end assumes, and the class the ABI gives a type  *)
(* (src/src/Type.cpp, src/src/LLVMABI.cpp).                                *)
(*                                                                         *)
(* A type is a record: its kind, a number (a width, or the name of a       *)
(* struct or an enum) and the types it is built from.  Every constructor of *)
(* Type.hpp interns by key, so two types are the same object exactly when  *)
(* their records are equal - as long as keys are unique (KeysIdentify of   *)
(* Statements).                                                            *)
(***************************************************************************)
EXTENDS Naturals, Sequences, FiniteSets, TLC

CONSTANTS
    Structs,       \* the struct types of the program
    NoStruct,      \* no struct: what a struct that extends nothing extends
    Extends,       \* Extends[s]: the struct s extends, or NoStruct
    Members        \* Members[s]: the types of the members s declares

ASSUME StructAssumption ==
    /\ NoStruct \notin Structs
    /\ Extends \in [Structs -> Structs \cup {NoStruct}]
    /\ DOMAIN Members = Structs

-----------------------------------------------------------------------------
Type(k, n, sub) == [k |-> k, n |-> n, sub |-> sub]

VoidType  == Type("void", 0, <<>>)
BoolType  == Type("bool", 0, <<>>)
CharType  == Type("char", 0, <<>>)
NoneType  == Type("none", 0, <<>>)
EnumType  == Type("enum", 0, <<>>)
SignedType(w)     == Type("signed", w, <<>>)
UnsignedType(w)   == Type("unsigned", w, <<>>)
FloatType(w)      == Type("float", w, <<>>)
PointerType(t)    == Type("pointer", 0, <<t>>)
RefType(t)        == Type("ref", 0, <<t>>)
ArrayType(t, n)   == Type("array", n, <<t>>)
SliceType(t)      == Type("slice", 0, <<t>>)
DynamicArrayType(t) == Type("dynamic", 0, <<t>>)
StructType(s)     == Type("struct", s, <<>>)
SumType(ts)       == Type("sum", 0, ts)
TupleType(ts)     == Type("tuple", 0, ts)
\* The parameters and the result of a procedure; n is 1 if it is variadic.
ProcedureType(ps, r, vararg) == Type("proc", IF vararg THEN 1 ELSE 0, Append(ps, r))

\* The answer of the functions that return nullptr for "no such type".
NoType == Type("null", 0, <<>>)

Is(t, k)      == t.k = k
IsInt(t)      == t.k \in {"signed", "unsigned"}
IsFloat(t)    == t.k = "float"
IsPointer(t)  == t.k = "pointer"
IsRef(t)      == t.k = "ref"
IsArray(t)    == t.k = "array"
IsStruct(t)   == t.k = "struct"
IsVoid(t)     == t.k = "void"

\* Type::under, unRef, and the parts of a procedure type.
Under(t)  == IF t.k \in {"pointer", "ref", "array", "slice", "dynamic"} THEN t.sub[1] ELSE t
UnRef(t)  == IF IsRef(t) THEN t.sub[1] ELSE t
Params(p) == SubSeq(p.sub, 1, Len(p.sub) - 1)
Result(p) == p.sub[Len(p.sub)]
IsVararg(p) == p.n = 1

-----------------------------------------------------------------------------
(* The key of a type, as the tokens its text is made of (ikey ... prkey). *)
Built == {"pointer", "ref", "array", "slice", "dynamic"}
SuffixOfSlice(t) ==
    CASE t.k = "pointer" -> <<"*">>
      [] t.k = "ref"     -> <<"ref">>
      [] t.k = "array"   -> <<"[", ToString(t.n), "]">>
      [] OTHER           -> <<"[", "]">>
Suffix(t) ==
    CASE t.k = "pointer" -> <<"*">>
      [] t.k = "ref"     -> <<"ref">>
      [] t.k = "array"   -> <<"[", ToString(t.n), "]">>
      [] t.k = "slice"   -> <<"[", "]">>
      [] t.k = "dynamic" -> <<"[", "...", "]">>

RECURSIVE Key(_), Listed(_, _)
Listed(ts, separator) ==
    CASE ts = <<>>    -> <<>>
      [] Len(ts) = 1  -> Key(ts[1])
      [] OTHER        -> Key(ts[1]) \o <<separator>> \o Listed(Tail(ts), separator)

Key(t) ==
    CASE t.k \in Built -> Key(Under(t)) \o Suffix(t)
      [] t.k = "sum"     -> <<"(">> \o Listed(t.sub, "|") \o <<")">>
      [] t.k = "tuple"   -> <<"(">> \o Listed(t.sub, ",") \o <<")">>
      [] t.k = "proc"    ->
            <<"<", "(">> \o Listed(Params(t), ",")
            \o (IF IsVararg(t) THEN (IF Params(t) = <<>> THEN <<"...">> ELSE <<",", "...">>)
                               ELSE <<>>)
            \o <<")">>
            \o (IF IsVoid(Result(t)) THEN <<>> ELSE <<":">> \o Key(Result(t)))
            \o <<">">>
      [] OTHER           -> <<t.k, ToString(t.n)>>

(* equal(t1, t2): what is compared of each kind.  A variadic procedure     *)
(* equals one that is not, when their parameters and results do.           *)
RECURSIVE Equal(_, _)
Equal(t1, t2) ==
    /\ t1.k = t2.k
    /\ t1.k \notin {"proc"} => t1.n = t2.n
    /\ Len(t1.sub) = Len(t2.sub)
    /\ \A i \in 1..Len(t1.sub) : Equal(t1.sub[i], t2.sub[i])

\* Equal types that are not one type.
Twins(t1, t2) == Equal(t1, t2) /\ t1 # t2

-----------------------------------------------------------------------------
(* The structs s extends, nearest first. *)
RECURSIVE Bases(_)
Bases(s) == IF Extends[s] = NoStruct THEN <<>>
            ELSE <<Extends[s]>> \o Bases(Extends[s])

IsBase(b, s) == \E i \in 1..Len(Bases(s)) : Bases(s)[i] = b

\* convThroughPointerOrRefExtension: t2 leads to a struct that extends t1's.
Pointee(t) == IF IsPointer(t) THEN Under(t) ELSE UnRef(t)
ByExtension(t1, t2) ==
    /\ IsStruct(Pointee(t1)) /\ IsStruct(Pointee(t2))
    /\ IsBase(Pointee(t1).n, Pointee(t2).n)

Wider(t1, t2) == IF t1.n >= t2.n THEN t1 ELSE t2

\* Of two integer types: signed unless both are unsigned, and the larger width.
CommonInt(t1, t2) ==
    IF Is(t1, "unsigned") /\ Is(t2, "unsigned") THEN UnsignedType(Wider(t1, t2).n)
    ELSE SignedType(Wider(t1, t2).n)

\* An option of a sum takes a value of type t, by value or by reference.
SumHolds(sum, t) ==
    \E i \in 1..Len(sum.sub) :
        LET option == sum.sub[i] IN
        \/ Equal(option, t)
        \/ Equal(UnRef(t), UnRef(option)) /\ (IsRef(t) \/ IsRef(option))

(* conv(t1, t2): the type both convert to, or NoType.  Its order of tests  *)
(* is the order of the cases.                                              *)
RECURSIVE Conv(_, _)
ConvUnlike(t1, t2) ==
    CASE IsFloat(t1) /\ (IsInt(t2) \/ Is(t2, "char"))       -> t1
      [] (IsInt(t1) \/ Is(t1, "char")) /\ IsFloat(t2)       -> t2
      [] IsFloat(t1) /\ IsFloat(t2)                         -> Wider(t1, t2)
      [] IsInt(t1) /\ Is(t2, "bool")                        -> t2
      [] Is(t1, "bool") /\ (IsInt(t2) \/ Is(t2, "char"))    -> t1
      [] IsInt(t1) /\ IsInt(t2)                             -> CommonInt(t1, t2)
      [] Is(t1, "char") /\ IsInt(t2)                        -> t1
      [] IsInt(t1) /\ Is(t2, "char")                        -> t1
      [] IsRef(t1) /\ (Conv(UnRef(t1), UnRef(t2)) # NoType \/ ByExtension(t1, t2)) -> t1
      [] /\ IsPointer(t1)
         /\ \/ IsArray(t2) /\ (IsVoid(Under(t1)) \/ Equal(Under(t1), Under(t2)))
            \/ IsPointer(t2) /\ (IsVoid(Under(t1)) \/ ByExtension(t1, t2))          -> t1
      [] IsArray(t1) /\ IsPointer(t2) /\ Equal(Under(t1), Under(t2))                -> t2
      [] Is(t1, "sum") /\ SumHolds(t1, t2)                                          -> t1
      [] OTHER -> NoType

Conv(t1, t2) ==
    IF Equal(t1, t2) THEN t1
    ELSE IF IsRef(t2) /\ Conv(t1, UnRef(t2)) # NoType THEN Conv(t1, UnRef(t2))
    ELSE ConvUnlike(t1, IF Is(t2, "enum") THEN UnsignedType(64) ELSE t2)

Converts(t1, t2) == Conv(t1, t2) # NoType

(* argMatch(p1, p2, exact): the parameters of p1 take the arguments of p2. *)
TakesArgument(param, arg, exact) ==
    CASE exact        -> Equal(param, arg)
      [] IsRef(param) -> Equal(UnRef(param), UnRef(arg)) \/ ByExtension(param, arg)
      [] OTHER        -> Converts(param, arg)

ArgMatch(p1, p2, exact) ==
    LET n1 == Len(Params(p1))
        n2 == Len(Params(p2)) IN
    /\ n1 < n2 => IsVararg(p1)
    /\ n2 < n1 => IsVararg(p2)
    /\ \A i \in 1..(IF n1 <= n2 THEN n1 ELSE n2) :
           TakesArgument(Params(p1)[i], Params(p2)[i], exact)

\* countConversions of one parameter t1 of the call's type against the candidate's t2.
Distance(b, s) ==
    IF b = s THEN 0
    ELSE IF IsBase(b, s) THEN (CHOOSE i \in 1..Len(Bases(s)) : Bases(s)[i] = b) - 1
    ELSE Len(Bases(s))

Conversions(t1, t2) ==
    LET toStruct == /\ IsPointer(t1) \/ IsRef(t1)
                    /\ IsStruct(Under(t1)) /\ IsStruct(Pointee(t2)) IN
    CASE Equal(t1, t2)                                      -> 0
      [] (IsRef(t1) \/ IsRef(t2)) /\ Equal(UnRef(t1), UnRef(t2)) -> 1
      [] OTHER -> (IF IsRef(t1) THEN 3 ELSE 2)
                  + (IF toStruct THEN Distance(Under(t1).n, Pointee(t2).n) ELSE 0)

-----------------------------------------------------------------------------
(* simpleSizer: the bytes the front end takes a type to occupy; members    *)
(* are added up without padding.                                           *)
RECURSIVE Size(_), Total(_)
Total(ts) == IF ts = <<>> THEN 0 ELSE Size(Head(ts)) + Total(Tail(ts))

RECURSIVE Fields(_)
Fields(s) == IF Extends[s] = NoStruct THEN Members[s]
             ELSE Fields(Extends[s]) \o Members[s]

Largest(S) == IF S = {} THEN 0 ELSE CHOOSE n \in S : \A m \in S : m <= n

Size(t) ==
    CASE t.k \in {"void"}                                -> 0
      [] t.k \in {"none", "bool", "char"}                -> 1
      [] t.k \in {"signed", "unsigned", "float"}         -> t.n \div 8
      [] t.k \in {"pointer", "ref", "proc", "enum"}      -> 8
      [] t.k = "array"                                   -> t.n * Size(Under(t))
      [] t.k = "slice"                                   -> 16
      [] t.k = "dynamic"                                 -> 24
      [] t.k = "struct"                                  -> Total(Fields(t.n))
      [] t.k = "sum"    -> 1 + Largest({Size(t.sub[i]) : i \in 1..Len(t.sub)})
      [] t.k = "tuple"  -> Total(t.sub)

(* ABIClassForType: how a value of a type is passed.  The class of an      *)
(* aggregate merges those of its members (ABIClassForField, which has no   *)
(* class for two pointers and makes them SSE).                             *)
MemThreshold == 16

MergeClass(new, merged) ==
    CASE merged = "none"             -> new
      [] "memory" \in {new, merged}  -> "memory"
      [] "integer" \in {new, merged} -> "integer"
      [] OTHER -> "sse"

RECURSIVE AbiClass(_), Merged(_)
Merged(ts) == IF Len(ts) = 1 THEN MergeClass(AbiClass(ts[1]), "none")
              ELSE MergeClass(AbiClass(ts[Len(ts)]), Merged(SubSeq(ts, 1, Len(ts) - 1)))

AbiClass(t) ==
    LET parts == IF IsStruct(t) THEN Fields(t.n) ELSE t.sub IN
    CASE t.k \in {"void", "none"}                               -> "none"
      [] t.k \in {"pointer", "ref", "proc"}                     -> "pointer"
      [] t.k \in {"signed", "unsigned", "bool", "char", "enum"} -> "integer"
      [] t.k = "float"                                          -> "sse"
      [] t.k = "array" -> IF Size(t) > MemThreshold THEN "memory" ELSE AbiClass(Under(t))
      [] t.k = "slice"   -> "integer"
      [] t.k = "dynamic" -> "memory"
      [] Size(t) > MemThreshold -> "memory"
      [] parts = <<>>           -> "none"
      [] Len(parts) = 1         -> AbiClass(parts[1])
      [] OTHER                  -> Merged(parts)

\* x86Lowerer::ABILowerProcedureType: a result returned through a hidden
\* first parameter, and arguments passed by a pointer to a copy.
Sret(p)       == AbiClass(Result(p)) = "memory"
ByVal(p, i)   == Params(p)[i].k \in {"struct", "tuple"} /\ AbiClass(Params(p)[i]) = "memory"
=============================================================================
