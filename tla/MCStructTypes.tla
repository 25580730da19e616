--------------------------- MODULE MCStructTypes ---------------------------
(***************************************************************************)
(* Small programs for StructTypes: two structs A and B and two instances  *)
(* I and J of struct templates.  A has up to two members, the others at    *)
(* most one.                                                               *)
(***************************************************************************)
EXTENDS StructTypes

CONSTANTS A, B, I, J

Decl(form, of) == [form |-> form, of |-> of]

DeclsOfA == {Decl("struct", <<A>>), Decl("struct", <<B>>), Decl("struct", <<I>>),
             Decl("tuple", <<J, I>>)}
DeclsOfB == {Decl("struct", <<A>>), Decl("struct", <<I>>), Decl("pointer", <<I>>)}

(* The members a template has for the argument A. *)
DeclsOfI == {Decl("struct", <<A>>), Decl("parameter_pointer", <<A>>),
             Decl("pointer", <<J>>)}
DeclsOfJ == {Decl("tuple", <<A, B>>), Decl("procedure", <<A>>)}

(* At most n members.  Their names are numbers, so that a struct and its   *)
(* base can have a member of one name.                                     *)
Members(decls, n) ==
    UNION {{[i \in 1..k |-> [name |-> i, form |-> ds[i].form, of |-> ds[i].of]] :
               ds \in [1..k -> decls]} : k \in 0..n}

Program(a, b, i, ma, mb, mi, mj) ==
    [extends |-> (A :> a) @@ (B :> b) @@ (I :> i) @@ (J :> None),
     members |-> (A :> ma) @@ (B :> mb) @@ (I :> mi) @@ (J :> mj)]

MCPrograms ==
    {Program(a, b, i, ma, mb, mi, mj) :
        a \in {None, A, B, I}, b \in {None, A}, i \in {None, A, B},
        ma \in Members(DeclsOfA, 2), mb \in Members(DeclsOfB, 1),
        mi \in Members(DeclsOfI, 1), mj \in Members(DeclsOfJ, 1)}
=============================================================================
