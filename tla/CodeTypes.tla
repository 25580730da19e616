----------------------------- MODULE CodeTypes -----------------------------
(***************************************************************************)
(* The LLVM types the back end gives to the types of a program             *)
(* (LLVMBackEnd::bJouTypeToLLVMType, src/src/LLVMBackEnd.cpp), and what    *)
(* each instruction the expressions of a program are compiled to demands   *)
(* of the types of its operands.  LLVM itself is external: a demand it     *)
(* makes that is not met yields Ill, a module the verifier would refuse.   *)
(***************************************************************************)
EXTENDS Types

LInt(w)     == Type("i", w, <<>>)
LFloat(w)   == Type("fp", w, <<>>)
LPointer(t) == Type("p", 0, <<t>>)
LArray(t, n) == Type("a", n, <<t>>)
LStruct(t)  == Type("%", 0, <<t>>)      \* the structure made for the type t
LFunction(t) == Type("fn", 0, <<t>>)
LVoid       == Type("void", 0, <<>>)
Ill         == Type("ill", 0, <<>>)

\* SumType::oro_ref_type: a sum of a reference and none is a pointer that may be null.
OroRef(sum) ==
    CASE Len(sum.sub) # 2                                    -> NoType
      [] IsRef(sum.sub[1]) /\ Is(sum.sub[2], "none")         -> sum.sub[1]
      [] Is(sum.sub[1], "none") /\ IsRef(sum.sub[2])         -> sum.sub[2]
      [] OTHER                                               -> NoType

RECURSIVE Flat(_), Count(_), LLVM(_)
Flat(t)  == IF IsArray(t) THEN Flat(Under(t)) ELSE t
Count(t) == IF IsArray(t) THEN t.n * Count(Under(t)) ELSE 1

LLVM(t) ==
    CASE t.k = "void"                   -> LVoid
      [] t.k = "bool"                   -> LInt(1)
      [] t.k = "char"                   -> LInt(8)
      [] t.k = "enum"                   -> LInt(64)
      [] t.k \in {"signed", "unsigned"} -> LInt(t.n)
      [] t.k = "float"                  -> LFloat(t.n)
      [] t.k = "pointer"                -> LPointer(IF IsVoid(Under(t)) THEN LInt(8)
                                                    ELSE LLVM(Under(t)))
      [] t.k = "ref"                    -> LPointer(LLVM(Flat(Under(t))))
      [] t.k = "array"                  -> LArray(LLVM(Flat(t)), Count(t))
      [] t.k = "proc"                   -> LPointer(LFunction(t))
      [] t.k = "sum" /\ OroRef(t) # NoType -> LLVM(OroRef(t))
      [] OTHER                          -> LStruct(t)

\* What an expression of type t delivers: a reference delivers what it refers
\* to, an array the address of its elements.
Value(t) == IF IsArray(UnRef(t)) THEN LPointer(LLVM(Flat(UnRef(t)))) ELSE LLVM(UnRef(t))

-----------------------------------------------------------------------------
(* Instructions (external): the type of the result, or Ill. *)
Load(p)        == IF p.k = "p" /\ p.sub[1].k \notin {"void", "fn"} THEN p.sub[1] ELSE Ill
Stores(v, p)   == v # Ill /\ p = LPointer(v)
Gep(p, i)      == IF p.k = "p" /\ i.k = "i" THEN p ELSE Ill
FieldOf(p, t)  == IF p.k = "p" /\ p.sub[1].k = "%" THEN LPointer(LLVM(t)) ELSE Ill
PtrCast(p, t)  == IF p.k = "p" /\ t.k = "p" THEN t ELSE Ill
=============================================================================
