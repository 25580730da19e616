-------------------------------- MODULE Sums --------------------------------
(***************************************************************************)
(* Sum types: which options a declared sum has, the tag a value is stored  *)
(* with, and the comparison of tags a destructuring condition is compiled  *)
(* to (src/src/Type.cpp, src/src/LLVMBackEnd.cpp).                         *)
(*                                                                         *)
(* A tag has, from its lowest bits up, the index of the option, a bit for  *)
(* options that are references, and a bit for every struct that an option  *)
(* extends: a value can be taken out as what it extends, too.              *)
(***************************************************************************)
EXTENDS CodeTypes
LOCAL INSTANCE FiniteSetsExt
LOCAL INSTANCE SequencesExt

\* SumDeclarator::getType: the options of a sum within the sum become options
\* themselves.  Beside each stands the type under which it is remembered to
\* find repetitions: without its reference, but not if it comes from within.
Options(part) ==
    IF Is(part, "sum") THEN [i \in DOMAIN part.sub |-> <<part.sub[i], part.sub[i]>>]
    ELSE <<<<part, UnRef(part)>>>>

\* Faulty: no matter how many types stand between the parentheses.
AnyParts(parts) == TRUE

\* A sum, and a tuple, is declared with at least two types.
EnoughParts(parts) == Len(parts) >= 2

\* The sum that is declared with these parts, NoType if they are too few or
\* an option is repeated.
DeclaredSum(parts) ==
    LET options == FlattenSeq([i \in DOMAIN parts |-> Options(parts[i])]) IN
    IF ~EnoughParts(parts) \/ \E i, j \in DOMAIN options : i < j /\ options[i][2] = UnRef(options[j][1])
    THEN NoType
    ELSE SumType([i \in DOMAIN options |-> options[i][1]])

\* The option a sum stores a value of type t as: the first that matches;
\* there is none for a type nothing equals.
Takes(option, t) ==
    \/ Equal(option, t)
    \/ (IsRef(option) \/ IsRef(t)) /\ Equal(UnRef(option), UnRef(t))
IndexFor(sum, t) ==
    CHOOSE i \in 1..(Len(sum.sub) + 1) :
        /\ i <= Len(sum.sub) => Takes(sum.sub[i], t)
        /\ \A j \in 1..(i - 1) : ~Takes(sum.sub[j], t)
OptionFor(sum, t) == IF IndexFor(sum, t) <= Len(sum.sub) THEN sum.sub[IndexFor(sum, t)] ELSE NoType

-----------------------------------------------------------------------------
(* Tags. *)
StructsOf(sum) == {UnRef(sum.sub[i]).n : i \in {j \in 1..Len(sum.sub) : IsStruct(UnRef(sum.sub[j]))}}
Extended(sum)  == {b \in Structs : \E s \in StructsOf(sum) : IsBase(b, s)}

\* Faulty: a struct is not among those that can be taken out as itself.
OnlyDerived(sum, b) == {s \in StructsOf(sum) : IsBase(b, s)}

\* sum_type_get_extend_type_map: the options that can be taken out as b.
Extending(sum, b) == {s \in StructsOf(sum) : IsBase(b, s) \/ s = b}

\* The bit of each extended struct; the map's order is that of addresses, but
\* it is one order.
ExtendBit(sum, b) ==
    1 + (CHOOSE i \in 1..Cardinality(Extended(sum)) : SetToSeq(Extended(sum))[i] = b)
NoneExtended == 1

\* n_bits_to_encode, of the last index.
IndexBits(sum) == CHOOSE w \in 0..Len(sum.sub) : /\ 2^w > Len(sum.sub) - 1
                                                 /\ \A v \in 0..(w - 1) : 2^v <= Len(sum.sub) - 1

\* get_static_sum_tag_store: indices and bits count from 0.
ExtendBits(sum, t) ==
    LET of == IF IsStruct(UnRef(t)) THEN {b \in Extended(sum) : UnRef(t).n \in Extending(sum, b)} ELSE {} IN
    IF of = {} THEN {NoneExtended} ELSE {ExtendBit(sum, b) : b \in of}
StoreTag(sum, t) ==
    LET byRef == IF IsRef(OptionFor(sum, t)) THEN 1 ELSE 0 IN
    (SumSet({2^b : b \in ExtendBits(sum, t)}) + byRef) * 2^IndexBits(sum) + IndexFor(sum, t) - 1

\* generate_destructure_condition with get_static_sum_tag_cmp: by the bit of
\* the struct and the reference bit if some option extends it, else by index.
Bit(tag, b) == (tag \div 2^b) % 2
Matches(sum, tag, d) ==
    IF IsStruct(UnRef(d)) /\ UnRef(d).n \in Extended(sum)
    THEN /\ Bit(tag, IndexBits(sum) + ExtendBit(sum, UnRef(d).n)) = 1
         /\ Bit(tag, IndexBits(sum)) = IF IsRef(d) THEN 1 ELSE 0
    ELSE \E i \in 1..Len(sum.sub) : /\ Equal(sum.sub[i], d)
                                    /\ \A j \in 1..(i - 1) : ~Equal(sum.sub[j], d)
                                    /\ tag % 2^IndexBits(sum) = i - 1

\* Of a sum of a reference and none there is no tag but the null pointer.
Succeeds(sum, t, d) ==
    IF OroRef(sum) # NoType THEN Is(d, "none") = Is(UnRef(t), "none")
    ELSE Matches(sum, StoreTag(sum, t), d)

\* VariableDeclaration::analyze_destructure: what a sum may be taken out as.
IsOption(sum, d) ==
    \E i \in 1..Len(sum.sub) :
        LET option == sum.sub[i] IN
        \/ Equal(d, option)
        \/ /\ IsStruct(UnRef(d)) /\ IsStruct(UnRef(option)) /\ IsRef(d) = IsRef(option)
           /\ Converts(RefType(UnRef(d)), UnRef(option))
=============================================================================
