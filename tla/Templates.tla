----------------------------- MODULE Templates -----------------------------
(***************************************************************************)
(* Instantiation of templates (Template.cpp): how a use of a template      *)
(* struct or procedure, met while a procedure is analysed, finds or makes  *)
(* the instance for its arguments.  The compiler works in place: it reads  *)
(* the name of a new instance off the template's own parameter list, which *)
(* it has exchanged for the occasion; it copies trees and then replaces    *)
(* nodes of the copies; and analysing an instance leads to further uses.   *)
(*                                                                         *)
(* The steps of the module are those of the analysis stage on the          *)
(* statements of one procedure, `main`.  What a step does is sequential,   *)
(* and recursive where the code is: an operator takes the compiler's state *)
(* `s` and returns the next one, with a node where the function returns    *)
(* one.  Scopes are one global scope, and the only expressions with a type *)
(* are names of parameters.  `this`, implicit conversions of arguments and *)
(* type aliases are left out.                                              *)
(***************************************************************************)
EXTENDS SyntaxTree

CONSTANTS
    Programs,    \* templates, main's parameters and statements: see MCTemplates
    Primitives   \* names of types that are not declared

VARIABLES
    program,     \* the one of Programs that is compiled
    compiler,    \* [heap, symbols, deferredAST, AST, error, copies], the state s below
    main,        \* the node of the procedure that uses the templates
    next         \* its next statement to analyse; 0 for its parameters

vars == <<program, compiler, main, next>>

Fail(s, message) == [s EXCEPT !.error = IF @ = "none" THEN message ELSE @]

-----------------------------------------------------------------------------
(* Types and names. *)

Basic(name) ==
    Tree("Declarator", <<>>,
         "Declarator_Identifier" :> <<Leaf("Identifier", name)>>)

(* A type, as the declarator that getGenericDeclarator makes for it; of an analysed node. *)
RECURSIVE TypeOf(_, _)
TypeOf(h, n) ==
    IF h[n].class = "Declarator" THEN Basic(h[n].type)
    ELSE [class |-> h[n].class, name |-> h[n].name,
          kids |-> ByField(h[n].fields, LAMBDA field : Each(LAMBDA kid : TypeOf(h, kid),
                                                            Kids(h, n, field.policy)))]

(* new T for the nodes of getGenericDeclarator. *)
BuildType(h, type) ==
    LET made == Build(h, type)
        new  == SelectSeq([i \in 1 .. Len(made.heap) - Len(h) |-> Len(h) + i],
                          LAMBDA n : made.heap[n].class \in Declarators)
    IN  [made EXCEPT !.heap = Fold(LAMBDA heap, n : SetFlag(heap, n, "FROM_TYPE"), @, new)]

(* asString of a declarator, as written or of its type: a base is spelled by its name alone. *)
RECURSIVE Spell(_, _, _)
Spell(h, n, typed) ==
    LET SpellField(field) ==
            Gather(LAMBDA kid : Spell(h, kid, typed), Kids(h, n, field.policy))
    IN  IF h[n].class # "Declarator"
        THEN h[n].name \o Gather(SpellField, h[n].fields) \o <<h[n].class>>
        ELSE IF typed THEN h[n].type
        ELSE h[Kid(h, n, "Declarator_Identifier")].name

Elements(h, inst) == IF inst = Null THEN <<>> ELSE Kids(h, inst, "TemplateInstantiation_Element")

Params(h, proc) == Kids(h, proc, "Procedure_ParamVarDeclaration")

TypeDeclarator(h, var) == Kid(h, var, "VariableDeclaration_TypeDeclarator")

(* name$(int, char) *)
InstanceName(h, name, inst) ==
    name \o <<"$(">> \o Gather(LAMBDA n : Spell(h, n, TRUE) \o <<",">>, Elements(h, inst))
         \o <<")">>

(* A member of a type is named after it: of an instance, by the instance's name. *)
TypePrefix(h, n) ==
    LET top == IF Parent(h, n) # Null /\ h[Parent(h, n)].class = "TemplateProc"
               THEN Parent(h, n) ELSE n
        p   == Parent(h, top)
    IN  IF p = Null \/ h[p].class # "Struct" THEN <<>>
        ELSE IF h[p].inst = Null
        THEN h[p].name \o <<".">>
        ELSE InstanceName(h, h[p].name, h[p].inst) \o <<".">>

PlainName(h, proc) == TypePrefix(h, proc) \o h[proc].name

(* Faulty: without the arguments of the instance. *)
ProcedureNameOfParams(h, proc, inst) ==
    PlainName(h, proc)
    \o <<"(">> \o Gather(LAMBDA var : Spell(h, TypeDeclarator(h, var), FALSE) \o <<",">>,
                         Params(h, proc))
    \o <<")">>

(* The unmangled name of a procedure: its parameters as they are written. *)
ProcedureName(h, proc, inst) ==
    (IF inst = Null THEN PlainName(h, proc) ELSE InstanceName(h, PlainName(h, proc), inst))
    \o <<"(">> \o Gather(LAMBDA var : Spell(h, TypeDeclarator(h, var), FALSE) \o <<",">>,
                         Params(h, proc))
    \o <<")">>

TemplateOf(h, tpl) ==
    Kid(h, tpl, IF h[tpl].class = "TemplateStruct" THEN "TemplateStruct_Template"
                                                   ELSE "TemplateProc_Template")

Defines(h, tpl) ==
    LET list == Kid(h, tpl, IF h[tpl].class = "TemplateStruct"
                            THEN "TemplateStruct_TemplateDef" ELSE "TemplateProc_TemplateDef")
    IN  Kids(h, list, "TemplateDefineList_Element")

-----------------------------------------------------------------------------
(* Symbols: a procedure or a template procedure is in the set of its plain name. *)

Add(s, key, set, node) ==
    IF key \in DOMAIN s.symbols THEN Fail(s, "redefinition")
    ELSE [s EXCEPT !.symbols = (key :> [set |-> set, node |-> node]) @@ @]

InSet(s, name) == {s.symbols[key].node : key \in {k \in DOMAIN s.symbols : s.symbols[k].set = name}}

AddTemplateProc(s, tpl) ==
    LET name == PlainName(s.heap, TemplateOf(s.heap, tpl)) IN Add(s, name \o <<"$">>, name, tpl)

(* addSymbols of a procedure: the procedures in it come first. *)
RECURSIVE AddProcedure(_, _)
AddProcedure(s, proc) ==
    LET Inside(n) == {m \in Nodes(s.heap, n) \ {n} : s.heap[m].class = "Procedure"}
        outer     == {m \in Inside(proc) : \A o \in Inside(proc) : m \notin Inside(o)}
        t         == Fold(LAMBDA u, m : AddProcedure(u, m), s, SetToSortSeq(outer, <))
    IN  Add(t, ProcedureName(s.heap, proc, s.heap[proc].inst), PlainName(s.heap, proc), proc)

(* preDeclare and addSymbols of an instance of a template struct. *)
AddStruct(s, struct) ==
    LET h    == s.heap
        name == InstanceName(h, h[struct].name, h[struct].inst)
    IN  Fold(AddProcedure, Add(s, name, <<>>, struct), Kids(h, struct, "Struct_MemberProc"))

(***************************************************************************)
(* addSymbols of a template struct: a member procedure can be called on    *)
(* the type as well, S.f$(int)(x).  For that a clone of it becomes a       *)
(* template procedure of its own, with a clone of the parameter list.      *)
(***************************************************************************)
ThroughProc(s, tpl, proc, list) ==
    LET tproc == Len(list.heap) + 1
        new   == [Append(list.heap, NewNode("TemplateProc", <<>>))
                     EXCEPT ![tproc].parent = TemplateOf(s.heap, tpl)]
        With(h, policy, n) == Put(h, tproc, policy, n)
    IN  AddTemplateProc([s EXCEPT !.heap =
                            With(With(new, "TemplateProc_TemplateDef", list.node),
                                 "TemplateProc_Template", proc)], tproc)

AddThrough(s, tpl, member) ==
    LET proc == Clone(s.heap, member)
    IN  ThroughProc(s, tpl, proc.node,
                    Clone(proc.heap, Kid(s.heap, tpl, "TemplateStruct_TemplateDef")))

AddTemplateStruct(s, tpl) ==
    LET struct == TemplateOf(s.heap, tpl)
    IN  Fold(LAMBDA t, member : AddThrough(t, tpl, member),
                 Add(s, s.heap[struct].name, <<>>, tpl),
                 Kids(s.heap, struct, "Struct_MemberProc"))

-----------------------------------------------------------------------------
(* templateReplaceTerminals *)

TerminalName(h, term) ==
    h[IF h[term].class = "Declarator" THEN Kid(h, term, "Declarator_Identifier") ELSE term].name

(* Faulty: not even there. *)
MisplacedAnywhere(h, term) ==
    /\ h[term].class = "Identifier"
    /\ Parent(h, term) # Null
    /\ h[Parent(h, term)].class # "MacroUse"

(* A type may take the place of an expression only as the left of an access. *)
Misplaced(h, term) ==
    /\ h[term].class = "Identifier"
    /\ Parent(h, term) # Null
    /\ h[Parent(h, term)].class # "MacroUse"
    /\ ~ (h[Parent(h, term)].class = "AccessExpression" /\ h[term].policy = "ExpressionL")

ReplaceTerminal(s, term, define, elem) ==
    LET copy == Clone(s.heap, elem)
    IN  IF TerminalName(s.heap, term) # s.heap[define].name THEN s
        ELSE IF Misplaced(s.heap, term) THEN Fail(s, "invalid substitution")
        ELSE IF ~ Listed(s.heap, term) THEN Fail(s, "node to replace not found")
        ELSE [s EXCEPT !.heap = Replace(copy.heap, Parent(copy.heap, term), term, copy.node)]

ReplaceTerminals(s, terminals, defines, inst) ==
    LET ReplaceOne(t, term) ==
            Fold(LAMBDA u, i : ReplaceTerminal(u, term, defines[i], Elements(u.heap, inst)[i]),
                     t, [i \in DOMAIN defines |-> i])
    IN  IF Len(Elements(s.heap, inst)) # Len(defines) THEN Fail(s, "arguments missing")
        ELSE Fold(ReplaceOne, s, terminals)

(* Faulty: the nodes themselves. *)
CloneNone(h, nodes) == [heap |-> h, nodes |-> nodes]

(* Clones of some nodes, replaced: what both passes over parameters do. *)
CloneAll(h, nodes) ==
    Fold(LAMBDA acc, n : LET c == Clone(acc.heap, n)
                             IN  [heap |-> c.heap, nodes |-> Append(acc.nodes, c.node)],
             [heap |-> h, nodes |-> <<>>], nodes)

DeleteAll(h, nodes) == Fold(Delete, h, nodes)

ReplacedIn(s, made, tpl, inst) ==
    [s     |-> ReplaceTerminals([s EXCEPT !.heap = made.heap],
                                Gather(LAMBDA n : Unwrap(made.heap, n), made.nodes),
                                Defines(s.heap, tpl), inst),
     nodes |-> made.nodes]

ReplacedParams(s, tpl, inst) ==
    ReplacedIn(s, CloneAll(s.heap, Params(s.heap, TemplateOf(s.heap, tpl))), tpl, inst)

-----------------------------------------------------------------------------
(***************************************************************************)
(* patternMatchType: what the template parameter `name` stands for in the  *)
(* declarator `pattern` when `subject` is passed; a clone, or Null.        *)
(***************************************************************************)
Under(h, n) ==
    LET class == h[n].class
    IN  Kid(h, n, CASE class = "ArrayDeclarator"        -> "ArrayDeclarator_ArrayOf"
                    [] class = "SliceDeclarator"        -> "SliceDeclarator_SliceOf"
                    [] class = "DynamicArrayDeclarator" -> "DynamicArrayDeclarator_ArrayOf"
                    [] class = "PointerDeclarator"      -> "PointerDeclarator_PointerOf"
                    [] class = "RefDeclarator"          -> "RefDeclarator_RefOf"
                    [] class = "MaybeDeclarator"        -> "MaybeDeclarator_MaybeOf")

(* A plain declarator is its own base; so a pointer pattern looks through any subject. *)
UnderOrSelf(h, n) == IF h[n].class = "Declarator" THEN n ELSE Under(h, n)

UnRef(h, n) == IF h[n].class = "RefDeclarator" THEN Under(h, n) ELSE n

SameKind(h, pattern, subject) ==
    \/ h[pattern].class \in {"Declarator", "PointerDeclarator"}
    \/ h[subject].class = "ArrayDeclarator"
    \/ h[pattern].class = h[subject].class

(* The parts of two declarators that are compared one by one. *)
Parts(h, n) ==
    CASE h[n].class = "SumDeclarator"   -> Kids(h, n, "SumDeclarator_subDeclarator")
      [] h[n].class = "TupleDeclarator" -> Kids(h, n, "TupleDeclarator_subDeclarator")
      [] h[n].class = "ProcedureDeclarator" ->
            Kids(h, n, "ProcedureDeclarator_ParamDeclarators")
            \o Kids(h, n, "ProcedureDeclarator_RetDeclarator")
      [] OTHER -> <<>>

(* The instance that a struct type is, by the type table; its arguments. *)
ArgumentsOf(s, subject) ==
    LET h    == s.heap
        name == IF h[subject].type # <<>> THEN h[subject].type
                ELSE h[Kid(h, subject, "Declarator_Identifier")].name
    IN  IF name \in DOMAIN s.symbols THEN Elements(h, h[s.symbols[name].node].inst) ELSE <<>>

RECURSIVE PatternMatch(_, _, _, _)
PatternMatch(s, pattern, subject, name) ==
    LET h == s.heap
        None == [heap |-> h, node |-> Null]
        MatchAny(patterns, subjects) ==
            IF Len(patterns) # Len(subjects) THEN None
            ELSE Fold(LAMBDA acc, i :
                              IF acc.node # Null THEN acc
                              ELSE PatternMatch([s EXCEPT !.heap = acc.heap],
                                                patterns[i], subjects[i], name),
                          None, [i \in DOMAIN patterns |-> i])
    IN  IF ~ SameKind(h, pattern, subject) THEN None
        ELSE IF h[pattern].class = "Declarator"
        THEN IF TerminalName(h, pattern) = name THEN Clone(h, subject)
             ELSE IF h[subject].class = "Declarator"
             THEN MatchAny(Elements(h, Kid(h, pattern, "Declarator_TemplateInst")),
                           ArgumentsOf(s, subject))
             ELSE None
        ELSE IF h[pattern].class \in {"SumDeclarator", "TupleDeclarator", "ProcedureDeclarator"}
        THEN MatchAny(Parts(h, pattern), Parts(h, subject))
        ELSE PatternMatch(s, Under(h, pattern), UnderOrSelf(h, subject), name)

-----------------------------------------------------------------------------
(* Names of parameters: the declaration in the procedure around. *)

RECURSIVE Around(_, _)
Around(h, n) == IF h[n].class = "Procedure" THEN n ELSE Around(h, Parent(h, n))

ParamNamed(h, n) ==
    CHOOSE var \in ToSet(Params(h, Around(h, n))) : h[var].name = h[n].name

(* The type of an argument, which is such a name. *)
ArgumentType(h, arg) == TypeOf(h, TypeDeclarator(h, ParamNamed(h, arg)))

Arguments(h, args) == Kids(h, args, "ArgList_Expressions")

UnRefType(type) ==
    IF type.class = "RefDeclarator" THEN type.kids["RefDeclarator_RefOf"][1] ELSE type

-----------------------------------------------------------------------------
(* Analysis and instantiation, which call each other. *)

RECURSIVE Analyze(_, _)

AnalyzeAll(s, nodes) == Fold(LAMBDA t, n : Analyze(t, n), s, nodes)

(* History: what substitution made of a copy of a template. *)
Noted(s, tpl, new, inst) ==
    [s EXCEPT !.copies = Append(@,
        [of |-> tpl, copy |-> Shape(s.heap, new),
         args |-> Each(LAMBDA n : Shape(s.heap, n), Elements(s.heap, inst))])]

(* What a lookup or an instantiation gives: the state and the node, or Null. *)
Found(s, node) == [s |-> s, node |-> node]

(* makeTemplateStruct, from its end: the members, when the copy is filled. *)
AnalyzeInstance(s, tpl, new, inst) ==
    IF s.error # "none" THEN Found(s, new)
    ELSE Found([AnalyzeAll(Noted(s, tpl, new, inst), Kids(s.heap, new, "Struct_MemberVarDecl"))
                   EXCEPT !.deferredAST = Append(@, new)], new)

(* The copy is declared before its parameters are replaced. *)
FillStruct(s, tpl, new, inst) ==
    AnalyzeInstance(ReplaceTerminals(s, Unwrap(s.heap, new), Defines(s.heap, tpl), inst),
                    tpl, new, inst)

DeclareStruct(s, copy, tpl, inst) ==
    FillStruct(AddStruct([s EXCEPT !.heap = [copy.heap EXCEPT ![copy.node].parent = Null,
                                                              ![copy.node].inst = inst]],
                         copy.node),
               tpl, copy.node, inst)

FindStruct(s, name, tpl, inst) ==
    IF s.error # "none" THEN Found(s, Null)
    ELSE IF name \in DOMAIN s.symbols THEN Found(s, s.symbols[name].node)
    ELSE DeclareStruct(s, Clone(s.heap, TemplateOf(s.heap, tpl)), tpl, inst)

NameStruct(s, tpl, inst) ==
    FindStruct(s, InstanceName(s.heap, s.heap[TemplateOf(s.heap, tpl)].name, inst), tpl, inst)

MakeStruct(s, tpl, inst) == NameStruct(AnalyzeAll(s, Elements(s.heap, inst)), tpl, inst)

(* Declarator::analyze: a use of a template struct is replaced by a name for the instance. *)
Analyzed(s, n) == [s EXCEPT !.heap = SetFlag(@, n, "ANALYZED")]

Typed(s, n, type) == [s EXCEPT !.heap[n].type = type]

PutName(s, n, new) ==
    IF ~ Listed(s.heap, n) THEN Fail(s, "node to replace not found")
    ELSE Analyzed([s EXCEPT !.heap = Replace(@, Parent(@, n), n, new)], n)

NameType(s, made, n, type) ==
    PutName(Typed(Analyzed(Typed([s EXCEPT !.heap = made.heap], made.node, type), made.node),
                  n, type), n, made.node)

NameInstance(s, n, type) ==
    IF s.error # "none" THEN s ELSE NameType(s, BuildType(s.heap, Basic(type)), n, type)

UseInstance(found, n) ==
    NameInstance(found.s, n, InstanceName(found.s.heap, found.s.heap[found.node].name,
                                          found.s.heap[found.node].inst))

AnalyzeDeclarator(s, n) ==
    LET name == TerminalName(s.heap, n)
        inst == Kid(s.heap, n, "Declarator_TemplateInst")
        node == s.symbols[name].node
    IN  IF name \in Primitives THEN Typed(s, n, name)
        ELSE IF name \notin DOMAIN s.symbols THEN Fail(s, "undeclared")
        ELSE IF s.heap[node].class # "TemplateStruct"
        THEN Typed(Analyzed(s, n), n, name)
        ELSE IF inst = Null THEN Fail(s, "arguments missing")
        ELSE UseInstance(MakeStruct(s, node, inst), n)

-----------------------------------------------------------------------------
(***************************************************************************)
(* checkTemplateProcInstantiation: the arguments are the explicit ones and *)
(* then, parameter by parameter, what the passed types give for the rest.  *)
(* They are added to the list `given`, or to a new one.                    *)
(***************************************************************************)
Match(acc, i, m) == [heap |-> m.heap, found |-> [acc.found EXCEPT ![i] = m.node]]

MatchDefines(s, defines, acc, pattern, subject) ==
    Fold(LAMBDA a, i :
             IF a.found[i] # Null THEN a
             ELSE Match(a, i, PatternMatch([s EXCEPT !.heap = a.heap], pattern, subject,
                                           s.heap[defines[i]].name)),
         acc, [i \in DOMAIN defines |-> i])

Unmade(acc, node) == [acc EXCEPT !.heap = Delete(@, node)]

(* The type of an argument, for one parameter after another; it is made for the match. *)
MatchPassed(s, defines, acc, pattern, passed) ==
    Unmade(MatchDefines(s, defines, [acc EXCEPT !.heap = passed.heap], pattern,
                        UnRef(passed.heap, passed.node)),
           UnRef(passed.heap, passed.node))

InferFrom(s, defines, params, args, start) ==
    Fold(LAMBDA acc, p :
             MatchPassed(s, defines, acc, UnRef(s.heap, TypeDeclarator(s.heap, params[p])),
                         BuildType(acc.heap, ArgumentType(acc.heap, args[p]))),
         start, [p \in DOMAIN params |-> p])

Infer(s, tpl, args, start) ==
    IF args = Null THEN start
    ELSE InferFrom(s, Defines(s.heap, tpl), Params(s.heap, TemplateOf(s.heap, tpl)),
                   Arguments(s.heap, args), start)

(* Whether parameters have the types of arguments, references or not. *)
Accepts(h, params, args) ==
    \A p \in DOMAIN params :
        UnRefType(TypeOf(h, TypeDeclarator(h, params[p]))) = UnRefType(ArgumentType(h, args[p]))

(* The parameters, replaced on trial, must have the types of the arguments. *)
CompareParams(s, nodes, args, list) ==
    [s |-> [s EXCEPT !.heap = DeleteAll(@, nodes)], list |-> list,
     ok |-> s.error = "none" /\ Accepts(s.heap, nodes, Arguments(s.heap, args))]

CheckParams(trial, args, list) ==
    CompareParams(AnalyzeAll(trial.s, Each(LAMBDA n : TypeDeclarator(trial.s.heap, n),
                                           trial.nodes)),
                  trial.nodes, args, list)

AddElement(list, copy) == Put(copy.heap, list, "TemplateInstantiation_Element", copy.node)

AddElements(s, list, nodes) ==
    [s EXCEPT !.heap = Fold(LAMBDA h, n : IF n = Null THEN h ELSE AddElement(list, Clone(h, n)),
                            @, nodes)]

CheckFound(s, found, tpl, args, list) ==
    IF Null \in ToSet(found) \/ args = Null
    THEN [s |-> AddElements(s, list, found), list |-> list, ok |-> Null \notin ToSet(found)]
    ELSE CheckParams(ReplacedParams(AddElements(s, list, found), tpl, list), args, list)

CheckInferred(s, inferred, tpl, args, given) ==
    IF given # Null
    THEN CheckFound([s EXCEPT !.heap = inferred.heap], inferred.found, tpl, args, given)
    ELSE CheckFound([s EXCEPT !.heap = Append(inferred.heap, NewNode("TemplateInstantiation", <<>>))],
                    inferred.found, tpl, args, Len(inferred.heap) + 1)

Explicit(s, tpl, inst) ==
    [heap |-> s.heap,
     found |-> Elements(s.heap, inst)
               \o Each(LAMBDA define : Null,
                       SubSeq(Defines(s.heap, tpl), Len(Elements(s.heap, inst)) + 1,
                              Len(Defines(s.heap, tpl))))]

CheckProc(s, tpl, args, inst, given) ==
    IF \/ Len(Elements(s.heap, inst)) > Len(Defines(s.heap, tpl))
       \/ args # Null
          /\ Len(Arguments(s.heap, args)) # Len(Params(s.heap, TemplateOf(s.heap, tpl)))
    THEN [s |-> s, list |-> Null, ok |-> FALSE]
    ELSE CheckInferred(s, Infer(s, tpl, args, Explicit(s, tpl, inst)), tpl, args, given)

(* A list that was made for the check alone is deleted. *)
Dropped(checked) ==
    IF checked.list = Null THEN checked
    ELSE [checked EXCEPT !.s.heap = Delete(@, checked.list)]

-----------------------------------------------------------------------------
(***************************************************************************)
(* makeTemplateProc, from its end.  The copy is declared, analysed at once *)
(* and deferred, to be analysed again as a node of the program.            *)
(***************************************************************************)
Deferred(s, new) ==
    Found([s EXCEPT !.heap = SetFlag(@, new, "IS_TEMPLATE_DERIVED"),
                    !.deferredAST = Append(@, new)], new)

AnalyzeCopy(s, tpl, new, list) ==
    Deferred(Analyze(AddProcedure(Noted(s, tpl, new, list), new), new), new)

FillProc(s, copy, tpl, list) ==
    AnalyzeCopy(ReplaceTerminals([s EXCEPT !.heap = [copy.heap EXCEPT ![copy.node].inst = list]],
                                 Unwrap(copy.heap, copy.node), Defines(s.heap, tpl), list),
                tpl, copy.node, list)

CopyProc(s, tpl, list) == FillProc(s, Clone(s.heap, TemplateOf(s.heap, tpl)), tpl, list)

PutParams(s, tpl, nodes) ==
    [s EXCEPT !.heap = PutAll(@, TemplateOf(@, tpl), "Procedure_ParamVarDeclaration", nodes)]

(* The template's parameters are the `exchanged` ones while the name is made, *)
(* and those that were `saved` after it.                                      *)
FindProc(s, name, tpl, list, saved, exchanged) ==
    IF s.error # "none" THEN Found(s, Null)
    ELSE IF name \in DOMAIN s.symbols
    THEN Found(PutParams(s, tpl, saved), s.symbols[name].node)
    ELSE CopyProc([PutParams(s, tpl, saved) EXCEPT !.heap = DeleteAll(@, exchanged)], tpl, list)

NameProc(s, tpl, list, saved, exchanged) ==
    FindProc(s, ProcedureName(s.heap, TemplateOf(s.heap, tpl), list), tpl, list, saved, exchanged)

ExchangeParams(replaced, tpl, list, saved) ==
    NameProc(AnalyzeAll(PutParams(replaced.s, tpl, replaced.nodes),
                        Elements(replaced.s.heap, list)),
             tpl, list, saved, replaced.nodes)

ListedProc(s, tpl, list) ==
    ExchangeParams(ReplacedParams(s, tpl, list), tpl, list, Params(s.heap, TemplateOf(s.heap, tpl)))

MakeProc(s, tpl, args, inst, list) ==
    ListedProc(CheckProc([s EXCEPT !.heap = Append(@, NewNode("TemplateInstantiation", <<>>))],
                         tpl, args, inst, list).s, tpl, list)

(***************************************************************************)
(* ProcSet::get for a set with one template: with explicit arguments it is *)
(* taken at once; otherwise it competes with the procedures of the set, of *)
(* which instances take part only until they are marked as derived.        *)
(***************************************************************************)
NoProc(s, fail) == Found(IF fail THEN Fail(s, "no matching call") ELSE s, Null)

Candidates(s, name, args) ==
    {n \in InSet(s, name) :
        /\ s.heap[n].class = "Procedure"
        /\ "IS_TEMPLATE_DERIVED" \notin s.heap[n].flags
        /\ Len(Params(s.heap, n)) = Len(args)
        /\ Accepts(s.heap, Params(s.heap, n), args)}

Choose(s, candidates, ok, tpl, args, inst, fail) ==
    IF candidates # {} THEN Found(s, CHOOSE n \in candidates : TRUE)
    ELSE IF ok THEN MakeProc(s, tpl, args, inst, Len(s.heap) + 1)
    ELSE NoProc(s, fail)

Compete(checked, tpl, name, args, inst, fail) ==
    Choose(checked.s, IF (inst # Null /\ checked.ok) \/ args = Null THEN {}
                      ELSE Candidates(checked.s, name, Arguments(checked.s.heap, args)),
           checked.ok, tpl, args, inst, fail)

TemplateIn(s, name) == CHOOSE n \in InSet(s, name) : s.heap[n].class = "TemplateProc"

Get(s, name, args, inst, fail) ==
    IF args = Null /\ inst = Null THEN NoProc(s, fail)
    ELSE Compete(Dropped(CheckProc(s, TemplateIn(s, name), args, inst, Null)),
                 TemplateIn(s, name), name, args, inst, fail)

IsSet(s, n) == s.heap[n].class = "Identifier" /\ InSet(s, s.heap[n].name) # {}

(* Identifier::analyze.  The left of a call is looked up without the call's arguments. *)
AnalyzeIdentifier(s, n) ==
    Analyzed(IF IsSet(s, n)
             THEN Get(s, s.heap[n].name, Null, Kid(s.heap, n, "ExpressionR"), FALSE).s
             ELSE s, n)

(* CallExpression::analyze, which then looks it up again with them. *)
Bind(found, n, left) ==
    Analyzed([found.s EXCEPT !.heap = [Clear(@, left, "ExpressionR") EXCEPT ![n].resolved = found.node]],
             n)

FindCallee(s, n, left, args) ==
    IF s.error # "none" THEN s
    ELSE IF ~ IsSet(s, left) THEN Analyzed(s, n)
    ELSE Bind(Get(s, s.heap[left].name, args, Kid(s.heap, left, "ExpressionR"), TRUE), n, left)

AnalyzeCall(s, n) ==
    LET args == Kid(s.heap, n, "ExpressionR")
        left == Kid(s.heap, n, "ExpressionL")
    IN  FindCallee(Analyze(Analyze(s, args), left), n, left, args)

(* The other classes: their children in turn.  The rest of what they do is left out. *)
NotAnalyzed == {"Procedure_ProcDeclarator", "Struct_MemberTemplateProc"}

AnalyzeChildren(s, n) ==
    Analyzed(Fold(LAMBDA t, field : AnalyzeAll(t, Kids(t.heap, n, field.policy)), s,
                  SelectSeq(s.heap[n].fields, LAMBDA field : field.policy \notin NotAnalyzed)),
             n)

Analyze(s, n) ==
    LET class == s.heap[n].class
    IN  IF s.error # "none" \/ "ANALYZED" \in s.heap[n].flags THEN s
        ELSE IF class = "Declarator" THEN AnalyzeDeclarator(s, n)
        ELSE IF class = "Identifier" THEN AnalyzeIdentifier(s, n)
        ELSE IF class = "CallExpression" THEN AnalyzeCall(s, n)
        ELSE IF class \in {"TemplateInstantiation", "MacroUse"} THEN s
        ELSE AnalyzeChildren(s, n)

-----------------------------------------------------------------------------
(***************************************************************************)
(* The stages.  A program has `templates`, the `params` of main and its    *)
(* `uses`, statements with what they are expected to name: the instance of *)
(* the template `of` for the types `args`.                                 *)
(***************************************************************************)
Empty == [heap |-> <<>>, symbols |-> [key \in {} |-> Null], deferredAST |-> <<>>, AST |-> {},
          error |-> "none", copies |-> <<>>]

AddTemplate(s, tree, made) ==
    IF tree.class = "TemplateStruct" THEN AddTemplateStruct([s EXCEPT !.heap = made.heap], made.node)
    ELSE AddTemplateProc([s EXCEPT !.heap = made.heap], made.node)

Declare(s, tree) == AddTemplate(s, tree, Build(s.heap, tree))

MainTree(p) ==
    Tree("Procedure", <<"main">>,
         [Procedure_ParamVarDeclaration |-> p.params,
          Procedure_RetDeclarator |-> <<Basic(<<"void">>)>>,
          Procedure_Statement |-> [i \in DOMAIN p.uses |-> p.uses[i].tree]])

Init ==
    /\ program \in Programs
    /\ LET declared == Fold(Declare, Empty, program.templates)
           made     == Build(declared.heap, MainTree(program))
       IN  /\ compiler = [declared EXCEPT !.heap = made.heap]
           /\ main = made.node
    /\ next = 0

(* Procedure::analyze on main: the parameters, then one statement after another. *)
AnalyzeParams ==
    /\ next = 0
    /\ compiler' = AnalyzeAll(compiler, Params(compiler.heap, main))
    /\ next' = 1
    /\ UNCHANGED <<program, main>>

AnalyzeStatement ==
    /\ next > 0 /\ compiler.error = "none"
    /\ next <= Len(program.uses)
    /\ compiler' = Analyze(compiler, Kids(compiler.heap, main, "Procedure_Statement")[next])
    /\ next' = next + 1
    /\ UNCHANGED <<program, main>>

AnalyzeGlobal(s, node) ==
    Analyze([s EXCEPT !.heap[node].parent = Null, !.heap[node].policy = "Global_Node",
                      !.AST = @ \union {node}], node)

(* The loop at the end of the stage; what is deferred meanwhile comes after the rest. *)
AnalyzeDeferred ==
    /\ compiler.error = "none"
    /\ next > Len(program.uses)
    /\ compiler.deferredAST # <<>>
    /\ compiler' = AnalyzeGlobal([compiler EXCEPT !.deferredAST = Tail(@)],
                                 Head(compiler.deferredAST))
    /\ UNCHANGED <<program, main, next>>

Next == AnalyzeParams \/ AnalyzeStatement \/ AnalyzeDeferred

Spec == Init /\ [][Next]_vars

-----------------------------------------------------------------------------
Templates == {n \in {compiler.symbols[key].node : key \in DOMAIN compiler.symbols} :
                 compiler.heap[n].class \in {"TemplateStruct", "TemplateProc"}}

Instances == {n \in {compiler.symbols[key].node : key \in DOMAIN compiler.symbols} :
                 compiler.heap[n].inst # Null}

Roots == {main} \union Templates \union ToSet(compiler.deferredAST) \union compiler.AST

(***************************************************************************)
(* The program compiles: no use of a template that has an instance is      *)
(* refused, and no instance is declared twice.                             *)
(***************************************************************************)
Accepted == compiler.error = "none"

(***************************************************************************)
(* Instantiation leaves the template as it was written, though its         *)
(* parameters are exchanged while an instance is named.  The templates     *)
(* come first in the heap, in the order in which they are declared.        *)
(***************************************************************************)
TemplatesIntact ==
    LET WrittenTrees == {program.templates[i] : i \in DOMAIN program.templates}
        Kept == {n \in Templates : Parent(compiler.heap, n) = Null}
    IN  {Shape(compiler.heap, n) : n \in Kept} = WrittenTrees

(***************************************************************************)
(* An instance is the template with the arguments in the place of the      *)
(* parameters, everywhere and nowhere else.                                *)
(***************************************************************************)
RECURSIVE Substitute(_, _, _)
Substitute(tree, names, args) ==
    LET named == IF tree.class = "Declarator" THEN tree.kids["Declarator_Identifier"][1] ELSE tree
    IN  IF named.class = "Identifier" /\ named.name \in ToSet(names)
        THEN args[SelectInSeq(names, LAMBDA name : name = named.name)]
        ELSE [tree EXCEPT !.kids =
                 ByField(FieldTable[tree.class],
                         LAMBDA field :
                             IF field.policy = "Declarator_Identifier" THEN @[field.policy]
                             ELSE Each(LAMBDA kid : Substitute(kid, names, args),
                                       @[field.policy]))]

FaithfulCopies ==
    \A i \in DOMAIN compiler.copies :
        LET c       == compiler.copies[i]
            defines == Defines(compiler.heap, c.of)
        IN  c.copy = Substitute(Shape(compiler.heap, TemplateOf(compiler.heap, c.of)),
                                [d \in DOMAIN defines |-> compiler.heap[defines[d]].name],
                                c.args)

(***************************************************************************)
(* Who owns a node: the trees are disjoint, nothing in them is deleted,    *)
(* every node knows the parent and the place it is held at - without which *)
(* it could not be replaced - and the arguments of an instance, which are  *)
(* those of the use that made it, outlive the use.                         *)
(***************************************************************************)
Held(h, n) ==
    \A policy \in DOMAIN h[n].kids :
        \A i, j \in DOMAIN Kids(h, n, policy) :
            LET kid == Kids(h, n, policy)[i]
            IN  /\ Parent(h, kid) = n /\ h[kid].policy = policy
                /\ Kids(h, n, policy)[j] = kid => i = j

TreesAreOwned ==
    LET h == compiler.heap
        under == [root \in Roots |-> Nodes(h, root)]
    IN  compiler.error = "none" =>
            /\ \A r1, r2 \in Roots : r1 # r2 => under[r1] \intersect under[r2] = {}
            /\ \A root \in Roots : \A n \in under[root] : h[n].live /\ Held(h, n)
            /\ \A n \in Instances : \A m \in Nodes(h, h[n].inst) : h[m].live

(***************************************************************************)
(* A use names the instance of its template for its own arguments, given   *)
(* or inferred, however many others there are; and it is the only one.     *)
(***************************************************************************)
InstanceTypes(n) ==
    Each(LAMBDA elem : TypeOf(compiler.heap, elem), Elements(compiler.heap, compiler.heap[n].inst))

UsedBy(i) ==
    LET h == compiler.heap
        n == Kids(h, main, "Procedure_Statement")[i]
    IN  IF h[n].class = "CallExpression" THEN h[n].resolved
        ELSE compiler.symbols[h[TypeDeclarator(h, n)].type].node

UsesResolve ==
    compiler.error = "none" =>
        /\ \A i \in 1 .. Len(program.uses) : i < next =>
              LET n == UsedBy(i)
              IN  /\ n \in Instances
                  /\ compiler.heap[n].name = program.uses[i].of
                  /\ InstanceTypes(n) = program.uses[i].args
        /\ \A i, j \in DOMAIN compiler.copies :
              /\ compiler.copies[i].of = compiler.copies[j].of
              /\ compiler.copies[i].args = compiler.copies[j].args
              => i = j
=============================================================================
