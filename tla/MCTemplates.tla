---------------------------- MODULE MCTemplates ----------------------------
(***************************************************************************)
(* Programs for Templates: the template parameter in every place of the    *)
(* syntax tree that can hold it, and uses that are to share instances.     *)
(***************************************************************************)
EXTENDS Templates

Id(name) == Leaf("Identifier", <<name>>)
T   == Basic(<<"T">>)
I32 == Basic(<<"int">>)
Chr == Basic(<<"char">>)

PrimitiveNames == {<<"int">>, <<"char">>, <<"void">>}

Node(class, policy, kids) == Tree(class, <<>>, policy :> kids)
Pointer(t) == Node("PointerDeclarator", "PointerDeclarator_PointerOf", <<t>>)
Ref(t)     == Node("RefDeclarator", "RefDeclarator_RefOf", <<t>>)
Slice(t)   == Node("SliceDeclarator", "SliceDeclarator_SliceOf", <<t>>)
Maybe(t)   == Node("MaybeDeclarator", "MaybeDeclarator_MaybeOf", <<t>>)
Pair(t, u) == Node("TupleDeclarator", "TupleDeclarator_subDeclarator", <<t, u>>)
Proc(t, u) == Node("ProcedureDeclarator", "ProcedureDeclarator_ParamDeclarators", <<t>>)

Inst(types) == Node("TemplateInstantiation", "TemplateInstantiation_Element", types)
Of(name, types) ==
    Tree("Declarator", <<>>, [Declarator_Identifier |-> <<Id(name)>>,
                              Declarator_TemplateInst |-> <<Inst(types)>>])
Var(name, type) ==
    Tree("VariableDeclaration", <<name>>, "VariableDeclaration_TypeDeclarator" :> <<type>>)

Call(name, types, args) ==
    LET left == Tree("Identifier", name,
                     "ExpressionR" :> IF types = <<>> THEN <<>> ELSE <<Inst(types)>>)
        list == Node("ArgList", "ArgList_Expressions", [i \in DOMAIN args |-> Id(args[i])])
    IN  Tree("CallExpression", <<>>, [ExpressionL |-> <<left>>, ExpressionR |-> <<list>>])

Procedure(name, params, body) ==
    Tree("Procedure", <<name>>, [Procedure_ParamVarDeclaration |-> params,
                                 Procedure_RetDeclarator |-> <<T>>,
                                 Procedure_Statement |-> body])

DefineList(names) ==
    Node("TemplateDefineList", "TemplateDefineList_Element",
         [i \in DOMAIN names |-> Leaf("TemplateDefineTypeDescriptor", <<names[i]>>)])

TemplateP(name, params, body) ==
    Tree("TemplateProc", <<>>, [TemplateProc_Template |-> <<Procedure(name, params, body)>>,
                                TemplateProc_TemplateDef |-> <<DefineList(<<"T">>)>>])
TemplateS(name, vars_, procs) ==
    LET struct == Tree("Struct", <<name>>, [Struct_MemberVarDecl |-> vars_,
                                            Struct_MemberProc |-> procs])
    IN  Tree("TemplateStruct", <<>>, [TemplateStruct_Template |-> <<struct>>,
                                      TemplateStruct_TemplateDef |-> <<DefineList(<<"T">>)>>])

S == TemplateS("S", <<Var("a", T)>>, <<Procedure("f", <<Var("v", T)>>, <<>>)>>)

Use(tree, of, args) == [tree |-> tree, of |-> <<of>>, args |-> args]

-----------------------------------------------------------------------------
(***************************************************************************)
(* Places.  Left out are the classes whose children are not unwrapped, or  *)
(* not cloned as the others are (TupleLiteral, ExprBlock, NamedArg,        *)
(* MultiNode), and procedures within procedures.  The types of expressions *)
(* do not matter here: `a` is a parameter, and a member of any type.       *)
(***************************************************************************)
Outer == (Expressions \union Declarators \union Statements \union
             {"ArgList", "TemplateInstantiation", "With", "MacroUse"})
         \ {"TupleLiteral", "ExprBlock", "ProcLiteral"}

Filler(field) ==
    IF field.takes \intersect Expressions # {} THEN Id("a")
    ELSE IF "Declarator" \in field.takes THEN I32
    ELSE IF "ArgList" \in field.takes THEN Node("ArgList", "ArgList_Expressions", <<>>)
    ELSE Node("With", "With_Expression", <<Id("a")>>)

(* Whether the parser puts such a child there. *)
Parsed(class, field, kid) ==
    /\ kid.class \in field.takes
    /\ CASE class \in {"Identifier", "Declarator"} -> kid.class = "TemplateInstantiation"
         [] class \in {"Expression", "AccessExpression", "CallExpression"} ->
               IF field.policy = "ExpressionL" THEN kid.class \in Expressions
               ELSE CASE class = "CallExpression"   -> kid.class = "ArgList"
                      [] class = "AccessExpression" -> FALSE
                      [] OTHER -> kid.class \in Expressions \union Declarators
         [] OTHER -> TRUE

Fill(class, field, kid) ==
    LET needed == {f \in ToSet(FieldTable[class]) :
                      f # field /\ (f.count = "one" \/ class \in {"Expression", "AccessExpression",
                                                                  "CallExpression"})}
        other(f) == IF class = "CallExpression" /\ f.policy = "ExpressionR"
                    THEN Node("ArgList", "ArgList_Expressions", <<>>)
                    ELSE IF class = "Declarator" THEN Id("S") ELSE Filler(f)
    IN  Tree(class, IF class = "Identifier" THEN <<"Q">>
                    ELSE IF class = "VariableDeclaration" THEN <<"v">> ELSE <<>>,
             (field.policy :> <<kid>>)
             @@ [policy \in {f.policy : f \in needed} |->
                    <<other(CHOOSE f \in needed : f.policy = policy)>>])

AroundEach(kids) ==
    UNION {{Fill(class, field, kid) : kid \in {k \in kids : Parsed(class, field, k)}} :
              <<class, field>> \in UNION {{class} \X ToSet(FieldTable[class]) : class \in Outer}}

TypeAccess ==
    Tree("AccessExpression", <<>>, [ExpressionL |-> <<Id("T")>>, ExpressionR |-> <<Id("a")>>])

Holes == {T, TypeAccess, Node("MacroUse", "MacroUse_Arg", <<Id("T")>>)}

Once  == Holes \union AroundEach({T, TypeAccess})
Twice == Once \union AroundEach(Once)

(* Everything with a T in it, a template for each class of statement. *)
Body(class) ==
    FoldSet(LAMBDA tree, body : Append(body, tree), <<>>, {t \in Twice : t.class = class})

Bodies == {Body(class) : class \in (Statements \ {"Else"}) \union {"MacroUse"}} \ {<<>>}

InPlaces ==
    {[templates |-> <<S, TemplateP("P", <<Var("a", I32)>>, body),
                      TemplateP("Q", <<Var("z", T)>>, <<>>)>>,
      params |-> <<Var("x", I32)>>,
      uses |-> <<Use(Call(<<"P">>, <<I32>>, <<"x">>), "P", <<I32>>),
                 Use(Call(<<"P">>, <<Chr>>, <<"x">>), "P", <<Chr>>)>>] : body \in Bodies}

-----------------------------------------------------------------------------
(* Shapes of a parameter that mention T, and types of that shape. *)
Shaped(shape, t) ==
    CASE shape = "plain"   -> t
      [] shape = "pointer" -> Pointer(t)
      [] shape = "ref"     -> Ref(t)
      [] shape = "slice"   -> Slice(Pointer(t))
      [] shape = "maybe"   -> Maybe(t)
      [] shape = "pair"    -> Pair(I32, Slice(t))
      [] shape = "struct"  -> Of("S", <<t>>)
      [] shape = "nested"  -> Pointer(Of("S", <<Of("S", <<t>>)>>))

Shapes == {"plain", "pointer", "ref", "slice", "maybe", "pair", "struct", "nested"}

CallsOfP ==
    { Use(Call(<<"P">>, <<I32>>, <<"x">>), "P", <<I32>>),
      Use(Call(<<"P">>, <<>>, <<"x">>), "P", <<I32>>),
      Use(Call(<<"P">>, <<Chr>>, <<"y">>), "P", <<Chr>>),
      Use(Call(<<"P">>, <<>>, <<"y">>), "P", <<Chr>>) }

(* A body that calls the other template, or itself, for the same parameter. *)
Calling(name, types) == <<Call(<<name>>, types, <<"z">>)>>

BodiesOfP == {<<>>} \union {Calling(name, types) : name \in {"P", "Q"}, types \in {<<>>, <<T>>}}

Inferred ==
    {[templates |-> <<S, TemplateP("P", <<Var("z", Shaped(shape, T))>>, body),
                      TemplateP("Q", <<Var("z", Shaped(shape, T))>>, Calling("P", <<T>>))>>,
      params |-> <<Var("x", Shaped(shape, I32)), Var("y", Shaped(shape, Chr))>>,
      uses |-> uses] : shape \in Shapes, body \in BodiesOfP, uses \in CallsOfP \X CallsOfP}

(* The same where T is itself an instance, S$(int). *)
SOfInt == Basic(<<"S", "$(", "int", ",", ")">>)

InferredStruct ==
    {[templates |-> <<S, TemplateP("P", <<Var("z", T)>>, body),
                      TemplateP("Q", <<Var("z", T)>>, Calling("P", <<T>>))>>,
      params |-> <<Var("x", Of("S", <<I32>>)), Var("y", Chr)>>,
      uses |-> <<Use(Call(<<"P">>, <<>>, <<"x">>), "P", <<SOfInt>>), use>>] :
        body \in BodiesOfP, use \in {u \in CallsOfP : u.args = <<Chr>>}}

(* Struct types, and the procedures of them that are called on the type. *)
OfTypes ==
    { Use(Var("v", Of("S", <<I32>>)), "S", <<I32>>),
      Use(Var("w", Of("S", <<I32>>)), "S", <<I32>>),
      Use(Var("v", Of("R", <<Chr>>)), "R", <<Chr>>),
      Use(Call(<<"S", ".", "f">>, <<I32>>, <<"x">>), "f", <<I32>>),
      Use(Call(<<"S", ".", "f">>, <<>>, <<"y">>), "f", <<Chr>>) }

R == TemplateS("R", <<Var("b", Of("S", <<T>>)), Var("c", Pointer(Of("S", <<Of("S", <<T>>)>>)))>>,
               <<Procedure("g", <<Var("v", Of("S", <<T>>))>>, Calling("P", <<T>>))>>)

Structs ==
    {[templates |-> <<S, R>>, params |-> <<Var("x", I32), Var("y", Chr)>>, uses |-> uses] :
        uses \in OfTypes \X OfTypes \X OfTypes}

AllPrograms == InPlaces \union Inferred \union InferredStruct \union Structs
=============================================================================
