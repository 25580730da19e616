----------------------------- MODULE SyntaxTree -----------------------------
(***************************************************************************)
(* The syntax tree of the compiler: for every class of node (ASTNode.cpp)  *)
(* the fields that hold children, and for each field what `clone`,         *)
(* `unwrap` and the destructor do with it.  A field is called by the       *)
(* replacement policy of its children (ReplacementPolicy.cpp); the policy  *)
(* is how a node knows the place it has to be replaced at.                 *)
(*                                                                         *)
(* A tree lives in a heap, a sequence of nodes whose indices are the       *)
(* addresses; nothing is reused after `delete`, so a dangling address is   *)
(* recognised by the node's `live`.  The operators are pure: they take a   *)
(* heap and return the new one.  Scopes and contexts of nodes are left out,*)
(* and so are the fields without children.                                 *)
(***************************************************************************)
EXTENDS Integers, TLC, SequencesExt

Null == 0

(***************************************************************************)
(* FoldLeft of SequencesExt with each intermediate value evaluated before  *)
(* the next step, and a map over a sequence whose result is a tuple: TLC   *)
(* keeps arguments and functions unevaluated until they are used, and      *)
(* again at each use of a function, which is too much for nested trees.    *)
(***************************************************************************)
Fold(Step(_, _), base, seq) ==
    LET upTo[i \in 0 .. Len(seq)] ==
            IF i = 0 THEN base
            ELSE CHOOSE result \in {Step(made, seq[i]) : made \in {upTo[i - 1]}} : TRUE
    IN  upTo[Len(seq)]

Each(Value(_), seq) == Fold(LAMBDA made, elem : Append(made, Value(elem)), <<>>, seq)

Gather(Values(_), seq) == Fold(LAMBDA made, elem : made \o Values(elem), <<>>, seq)

(***************************************************************************)
(* Kinds of nodes a policy admits: init_replacementPolicies names them     *)
(* with ANY_EXPRESSION, ANY_DECLARATOR and ANY_STATEMENT.                  *)
(***************************************************************************)
Expressions == { "Expression", "CallExpression", "AccessExpression", "Identifier",
                 "InitializerList", "SliceExpression", "DynamicArrayExpression",
                 "LenExpression", "ProcLiteral", "TupleLiteral", "ExprBlock" }

Declarators == { "Declarator", "ArrayDeclarator", "SliceDeclarator",
                 "DynamicArrayDeclarator", "PointerDeclarator", "RefDeclarator",
                  "MaybeDeclarator", "SumDeclarator", "TupleDeclarator",
                 "ProcedureDeclarator" }

Statements == Expressions \union
    { "Constant", "VariableDeclaration", "Print", "Return", "ExprBlockYield", "If",
      "Else", "For", "Foreach", "While", "DoWhile", "Match" }

(***************************************************************************)
(* A field: one child that is always there, one that may be missing, or a  *)
(* vector.  Normally `clone` gives the copy clones of the children,        *)
(* `unwrap` visits them and the destructor deletes them; the other         *)
(* operators note where a class does something else.                       *)
(***************************************************************************)
Field(policy, takes, count) ==
    [policy |-> policy, takes |-> takes, count |-> count,
     clone |-> "copied", unwrapped |-> TRUE, deleted |-> TRUE]

One(policy, takes)      == Field(policy, takes, "one")
Optional(policy, takes) == Field(policy, takes, "optional")
Many(policy, takes)     == Field(policy, takes, "many")

NotUnwrapped(field) == [field EXCEPT !.unwrapped = FALSE]
NotDeleted(field)   == [field EXCEPT !.deleted = FALSE]
Shared(field)       == [field EXCEPT !.clone = "shared"]

(* The clone keeps the original's children and has clones of them behind. *)
Appended(field)     == [field EXCEPT !.clone = "appended"]

-----------------------------------------------------------------------------
(* Expressions.  Those without fields of their own have left and right. *)

ExpressionFields ==
    << Optional("ExpressionL", Expressions \union Declarators),
       Optional("ExpressionR", Expressions \union Declarators \union
                               {"ArgList", "TemplateInstantiation", "Procedure"}) >>

InitializerListFields ==
    << Optional("InitializerList_ObjDeclarator", Declarators),
       Many("InitializerList_Expression", Expressions) >>

SliceExpressionFields ==
    << One("SliceExpression_Src", Expressions), One("SliceExpression_Start", Expressions),
       One("SliceExpression_Length", Expressions) >>

DynamicArrayExpressionFields ==
    << One("DynamicArrayExpression_TypeDeclarator", Declarators) >>

LenExpressionFields == << One("LenExpression_Expr", Expressions) >>

(* `unwrap` and the destructor are those of Expression, which know left and right only. *)
TupleLiteralFields ==
    << NotDeleted(NotUnwrapped(Many("TupleLiteral_subExpression", Expressions))) >>

(* `clone` copies the vector with ExpressionClone and then adds to it. *)
ExprBlockFields ==
    << Appended(NotDeleted(NotUnwrapped(Many("ExprBlock_Statement", Statements)))) >>

NamedArgFields == << NotDeleted(NotUnwrapped(One("NamedArg_Expression", Expressions))) >>

ArgListFields == << Many("ArgList_Expressions", Expressions \union {"NamedArg"}) >>

-----------------------------------------------------------------------------
(* Declarators. *)

DeclaratorFields ==
    << Optional("Declarator_TemplateInst", {"TemplateInstantiation"}),
       One("Declarator_Identifier", {"Identifier"}) >>

ArrayDeclaratorFields ==
    << One("ArrayDeclarator_ArrayOf", Declarators),
       Optional("ArrayDeclarator_Expression", Expressions) >>

SliceDeclaratorFields        == << One("SliceDeclarator_SliceOf", Declarators) >>
DynamicArrayDeclaratorFields == << One("DynamicArrayDeclarator_ArrayOf", Declarators) >>
PointerDeclaratorFields      == << One("PointerDeclarator_PointerOf", Declarators) >>
RefDeclaratorFields          == << One("RefDeclarator_RefOf", Declarators) >>
MaybeDeclaratorFields        == << One("MaybeDeclarator_MaybeOf", Declarators) >>
SumDeclaratorFields          == << Many("SumDeclarator_subDeclarator", Declarators) >>
TupleDeclaratorFields        == << Many("TupleDeclarator_subDeclarator", Declarators) >>

ProcedureDeclaratorFields ==
    << Many("ProcedureDeclarator_ParamDeclarators", Declarators),
       One("ProcedureDeclarator_RetDeclarator", Declarators) >>

TemplateInstantiationFields ==
    << Many("TemplateInstantiation_Element", Expressions \union Declarators) >>

-----------------------------------------------------------------------------
(* Declarations. *)

ConstantFields ==
    << Optional("Constant_TypeDeclarator", Declarators),
       One("Constant_Initialization", Expressions) >>

VariableDeclarationFields ==
    << Optional("VariableDeclaration_TypeDeclarator", Declarators),
       Optional("VariableDeclaration_Initialization", Expressions) >>

(* The destructor leaves the procedures to the top of the tree; `extends` it forgets. *)
StructFields ==
    << NotDeleted(Optional("Struct_Extends", Declarators)),
       Many("Struct_MemberVarDecl", {"VariableDeclaration"}),
       Many("Struct_ConstantDecl", {"Constant"}),
       NotDeleted(Many("Struct_MemberProc", {"Procedure"})),
       NotDeleted(NotUnwrapped(Shared(Many("Struct_MemberTemplateProc", {"TemplateProc"})))) >>

ProcedureFields ==
    << Many("Procedure_ParamVarDeclaration", {"VariableDeclaration"}),
       One("Procedure_RetDeclarator", Declarators),
       NotUnwrapped(Optional("Procedure_ProcDeclarator", Declarators)),
       Many("Procedure_Statement", Statements) >>

TemplateDefineListFields ==
    << Many("TemplateDefineList_Element", {"TemplateDefineTypeDescriptor"}) >>

TemplateDefineTypeDescriptorFields ==
    << Many("TemplateDefineTypeDescriptor_Bound", Declarators) >>

TemplateStructFields ==
    << NotUnwrapped(One("TemplateStruct_Template", {"Struct"})),
       NotUnwrapped(One("TemplateStruct_TemplateDef", {"TemplateDefineList"})) >>

TemplateProcFields ==
    << NotUnwrapped(One("TemplateProc_Template", {"Procedure"})),
       NotUnwrapped(One("TemplateProc_TemplateDef", {"TemplateDefineList"})) >>

-----------------------------------------------------------------------------
(* Statements. *)

PrintFields          == << One("Print_Args", {"ArgList"}) >>
ReturnFields         == << Optional("Return_Expression", Expressions) >>
ExprBlockYieldFields == << Optional("ExprBlockYield_Expression", Expressions) >>

(* Faulty: `unwrap` does not reach the other branch. *)
IfFieldsNoElse ==
    << One("If_Conditional", Expressions), Many("If_Statement", Statements),
       NotUnwrapped(Optional("If_Else", {"Else"})) >>

IfFields ==
    << One("If_Conditional", Expressions), Many("If_Statement", Statements),
       Optional("If_Else", {"Else"}) >>

ElseFields == << Many("Else_Statement", Statements) >>

ForFields ==
    << Many("For_Initialization", Expressions \union {"VariableDeclaration"}),
       One("For_Conditional", Expressions), Many("For_Afterthought", Statements),
       Many("For_Statement", Statements) >>

(* The destructor deletes the expression only. *)
ForeachFields ==
    << One("Foreach_Expression", Expressions),
       NotDeleted(Many("Foreach_Statement", Statements)) >>

WhileFields   == << One("While_Conditional", Expressions), Many("While_Statement", Statements) >>
DoWhileFields ==
    << One("DoWhile_Conditional", Expressions), Many("DoWhile_Statement", Statements) >>
MatchFields   == << One("Match_Expression", Expressions), Many("Match_With", {"With"}) >>
WithFields    == << One("With_Expression", Expressions), Many("With_Statement", Statements) >>

MacroUseFields ==
    << NotDeleted(Many("MacroUse_Arg", Statements \union Declarators)) >>

(* `clone` copies the vector of addresses. *)
MultiNodeFields == << Shared(Many("MultiNode_Node", Statements)) >>

-----------------------------------------------------------------------------
FieldTable ==
    [ Expression |-> ExpressionFields, CallExpression |-> ExpressionFields,
      AccessExpression |-> ExpressionFields, Identifier |-> ExpressionFields,
      ProcLiteral |-> ExpressionFields, InitializerList |-> InitializerListFields,
      SliceExpression |-> SliceExpressionFields,
      DynamicArrayExpression |-> DynamicArrayExpressionFields,
      LenExpression |-> LenExpressionFields, TupleLiteral |-> TupleLiteralFields,
      ExprBlock |-> ExprBlockFields, NamedArg |-> NamedArgFields, ArgList |-> ArgListFields,
      Declarator |-> DeclaratorFields, ArrayDeclarator |-> ArrayDeclaratorFields,
      SliceDeclarator |-> SliceDeclaratorFields,
      DynamicArrayDeclarator |-> DynamicArrayDeclaratorFields,
      PointerDeclarator |-> PointerDeclaratorFields, RefDeclarator |-> RefDeclaratorFields,
      MaybeDeclarator |-> MaybeDeclaratorFields, SumDeclarator |-> SumDeclaratorFields,
      TupleDeclarator |-> TupleDeclaratorFields,
      ProcedureDeclarator |-> ProcedureDeclaratorFields,
      TemplateInstantiation |-> TemplateInstantiationFields, Constant |-> ConstantFields,
      VariableDeclaration |-> VariableDeclarationFields, Struct |-> StructFields,
      Procedure |-> ProcedureFields, TemplateDefineList |-> TemplateDefineListFields,
      TemplateDefineTypeDescriptor |-> TemplateDefineTypeDescriptorFields,
      TemplateStruct |-> TemplateStructFields, TemplateProc |-> TemplateProcFields,
      Return |-> ReturnFields, ExprBlockYield |-> ExprBlockYieldFields,
      If |-> IfFields, Else |-> ElseFields, For |-> ForFields, Foreach |-> ForeachFields,
      While |-> WhileFields, DoWhile |-> DoWhileFields, Match |-> MatchFields,
      With |-> WithFields, MacroUse |-> MacroUseFields, MultiNode |-> MultiNodeFields ]
    @@ ("Print" :> PrintFields)

(* A record with a value for each field of a class. *)
ByField(fields, Value(_)) ==
    Fold(LAMBDA made, field : (field.policy :> Value(field)) @@ made, [policy \in {} |-> <<>>], fields)

(***************************************************************************)
(* A tree as a value: class, name and, for every field, the sequence of    *)
(* its children.  Names are sequences of words, so that the name of a type *)
(* like S$(int) can be put together.  Only identifiers, variable           *)
(* declarations, procedures, structs and template parameters have names.   *)
(***************************************************************************)
NoKids(fields) == ByField(fields, LAMBDA field : <<>>)

Tree(class, name, children) ==
    [class |-> class, name |-> name, kids |-> children @@ NoKids(FieldTable[class])]

Leaf(class, name) == [class |-> class, name |-> name, kids |-> NoKids(FieldTable[class])]

-----------------------------------------------------------------------------
(* The heap. *)

(* The flags that the steps below read, all of ASTNode::flags and, for FROM_TYPE,
   Declarator::createdFromType.  Identifiers are the terminals that matter: no other
   expression is ever replaced by an instantiation.  An object of a class has the
   fields of the class, as it has its virtual functions. *)
Object(class, name, fields) ==
    [class |-> class, name |-> name, fields |-> fields, kids |-> NoKids(fields),
     parent |-> Null, policy |-> "empty", live |-> TRUE,
     flags |-> IF class = "Identifier" THEN {"TERMINAL"} ELSE {},
     type |-> <<>>, inst |-> Null, resolved |-> Null]

NewNode(class, name) == Object(class, name, FieldTable[class])

FieldOf(h, n, policy) == CHOOSE field \in ToSet(h[n].fields) : field.policy = policy

Parent(h, n) == h[n].parent

Kids(h, n, policy) == h[n].kids[policy]

Kid(h, n, policy) == IF Kids(h, n, policy) = <<>> THEN Null ELSE Kids(h, n, policy)[1]

SetFlag(h, n, flag) == [h EXCEPT ![n].flags = @ \union {flag}]

(* The tail of every setter and adder: the child learns its parent and its place. *)
Adopt(h, p, policy, n) ==
    [h EXCEPT ![n].parent = p, ![n].policy = policy,
              ![n].flags = IF policy = "Declarator_Identifier" THEN @ \ {"TERMINAL"} ELSE @]

SetKids(h, p, policy, kids) == [h EXCEPT ![p].kids = (policy :> kids) @@ @]

(* setX, or addX for a vector. *)
Put(h, p, policy, n) ==
    Adopt(SetKids(h, p, policy, IF FieldOf(h, p, policy).count = "many"
                                THEN Append(Kids(h, p, policy), n) ELSE <<n>>),
          p, policy, n)

Clear(h, p, policy) == SetKids(h, p, policy, <<>>)

PutAll(h, p, policy, nodes) ==
    Fold(LAMBDA heap, n : Put(heap, p, policy, n), Clear(h, p, policy), nodes)

(***************************************************************************)
(* `new` of a whole tree, as the parser does it: the heap, and the node.   *)
(***************************************************************************)
RECURSIVE Build(_, _)
Build(h, tree) ==
    LET root == Len(h) + 1
        made == NewNode(tree.class, tree.name)
        AddKid(with, policy) == Put(with.heap, root, policy, with.node)
        AddField(heap, field) ==
            Fold(LAMBDA hp, kid : AddKid(Build(hp, kid), field.policy),
                 heap, tree.kids[field.policy])
    IN  [heap |-> Fold(AddField, Append(h, made), made.fields),
         node |-> root]

(* The value of a tree in the heap. *)
RECURSIVE Shape(_, _)
Shape(h, n) ==
    [class |-> h[n].class, name |-> h[n].name,
     kids |-> ByField(h[n].fields,
                      LAMBDA field : Each(LAMBDA kid : Shape(h, kid), Kids(h, n, field.policy)))]

(***************************************************************************)
(* `clone`: a copy of the node with every field, its parent and policy     *)
(* too, and then of the children, one field after another.                 *)
(***************************************************************************)
RECURSIVE Clone(_, _)
Clone(h, n) ==
    LET copy == Len(h) + 1
        CloneField(heap, field) ==
            LET start == IF field.clone = "copied" THEN Clear(heap, copy, field.policy) ELSE heap
                Step(hp, kid) == LET made == Clone(hp, kid)
                                 IN  Put(made.heap, copy, field.policy, made.node)
            IN  IF field.clone = "shared" THEN heap
                ELSE Fold(Step, start, Kids(h, n, field.policy))
    IN  [heap |-> Fold(CloneField, Append(h, h[n]), h[n].fields),
         node |-> copy]

(* `unwrap`: the terminals of a tree, in the order they are pushed. *)
RECURSIVE Unwrap(_, _)
Unwrap(h, n) ==
    LET Below(field) == Gather(LAMBDA kid : Unwrap(h, kid), Kids(h, n, field.policy))
        fields == SelectSeq(h[n].fields, LAMBDA field : field.unwrapped)
    IN  (IF h[n].class = "Identifier" /\ "TERMINAL" \in h[n].flags THEN <<n>> ELSE <<>>)
        \o Gather(Below, fields)
        \o (IF h[n].class = "Declarator" THEN <<n>> ELSE <<>>)

(* `delete`.  A declarator made for a type owns neither its identifier nor its arguments. *)
RECURSIVE Delete(_, _)
Delete(h, n) ==
    LET OfOther == {"Declarator_Identifier", "Declarator_TemplateInst", "ArrayDeclarator_Expression"}
        owned(field) == field.deleted /\ ("FROM_TYPE" \in h[n].flags => field.policy \notin OfOther)
        DeleteField(heap, field) ==
            IF owned(field) THEN Fold(LAMBDA hp, kid : Delete(hp, kid), heap,
                                          Kids(h, n, field.policy))
                            ELSE heap
    IN  [Fold(DeleteField, h, h[n].fields) EXCEPT ![n].live = FALSE]

(***************************************************************************)
(* The call of old's policy with its parent p.  A vector is searched for   *)
(* the old node, and it is an internal error not to find it; a single      *)
(* field is overwritten, and only a debug build asserts that it held old.  *)
(***************************************************************************)
Listed(h, n) ==
    LET p == Parent(h, n)
    IN  /\ p # Null
        /\ h[n].policy \in DOMAIN h[p].kids
        /\ n \in ToSet(Kids(h, p, h[n].policy))

(* Faulty: the new node does not learn where it is. *)
ReplaceSilently(h, p, old, new) ==
    SetKids(h, p, h[old].policy,
            ReplaceAll(Kids(h, p, h[old].policy), old, new))

Replace(h, p, old, new) ==
    LET policy == h[old].policy
    IN  IF FieldOf(h, p, policy).count # "many" THEN Put(h, p, policy, new)
        ELSE Adopt(SetKids(h, p, policy, ReplaceAll(Kids(h, p, policy), old, new)), p, policy, new)

(* All nodes of the tree under n. *)
RECURSIVE Nodes(_, _)
Nodes(h, n) ==
    {n} \union UNION {Nodes(h, kid) : kid \in
                          UNION {ToSet(Kids(h, n, policy)) : policy \in DOMAIN h[n].kids}}
=============================================================================
