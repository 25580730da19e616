------------------------------- MODULE Parser -------------------------------
(***************************************************************************)
(* The parser (src/src/Parser.cpp), from tokens to trees.                  *)
(*                                                                         *)
(* A text is a sequence of tokens in which "\n" marks the end of a line,   *)
(* and a tree a pair of the name of its node and the sequence of its       *)
(* children.  Every parse function commits on the tokens it starts with:   *)
(* from there on it eats tokens, calls other parse functions and reports   *)
(* an error where one of them is missing.  Such a function is a list of    *)
(* steps here, and Steps performs them.  Declarators and expressions,      *)
(* which loop over what follows them, have operators of their own.         *)
(*                                                                         *)
(* A parse function that returns nothing has not necessarily left the text *)
(* where it was: the outcome Nothing carries the place it stopped at, from *)
(* which the next alternative is tried.                                    *)
(***************************************************************************)
EXTENDS Naturals, Sequences

CONSTANTS
    Names,         \* the identifiers
    TypeNames,     \* the names of the primitive types
    Strings,       \* the string literals
    Literals       \* the other literals

Leaf(t)       == <<t, <<>>>>
Node(n, kids) == <<n, kids>>
List(nodes)   == <<"list", nodes>>
Nil           == Leaf("nil")

NewLine == "\n"

\* The next token of the text s at p or after the ends of lines there.
Place(s, p) == IF p > Len(s) THEN Len(s) + 1
               ELSE CHOOSE q \in p..Len(s) + 1 :
                       /\ \A i \in p..(q - 1) : s[i] = NewLine
                       /\ q <= Len(s) => s[q] # NewLine
At(s, p)    == IF Place(s, p) > Len(s) THEN "" ELSE s[Place(s, p)]
After(s, p) == Place(s, p) + 1

\* "<" is found at the beginning of a longer token, too.
Looks(t, s, p) ==
    CASE t = "anything"  -> TRUE
      [] t = "name"      -> At(s, p) \in Names
      [] t = "name :"    -> At(s, p) \in Names /\ At(s, After(s, p)) = ":"
      [] t = "name ::"   -> At(s, p) \in Names /\ At(s, After(s, p)) = "::"
      [] t = "type name" -> At(s, p) \in Names \cup TypeNames
      [] t = "string"    -> At(s, p) \in Strings
      [] t = "literal"   -> At(s, p) \in Strings \cup Literals
      [] t = "line end"  -> p > Len(s) \/ s[p] = NewLine
      [] t = "<"         -> At(s, p) \in {"<", "<<", "<-"}
      [] OTHER           -> At(s, p) = t

\* What a parse function returns, and where it leaves the text.
Found(node, p) == [is |-> "node", node |-> node, at |-> p]
Nothing(p)     == [is |-> "nothing", node |-> Nil, at |-> p]
Error(p)       == [is |-> "error", node |-> Nil, at |-> p]

-----------------------------------------------------------------------------
(* The steps of a parse function; each may add a child.                    *)
Eat(t)      == <<"eat", t>>          \* expect t
Take(t)     == <<"take", t>>         \* expect t, which is a child
Flag(t)     == <<"flag", t>>         \* t, if it is there, is a child
Must(r)     == <<"must", r>>         \* an error without it
May(r)      == <<"may", r>>          \* nil without it
Try(r)      == <<"try", r>>          \* nothing without it
Skip(r)     == <<"skip", r>>         \* an error without it, but not kept
All(r)      == <<"all", r>>          \* as many as there are
One(r)      == <<"one", r>>          \* a list of one
Commas(r, close) == <<"commas", r, close, "error">>
Arguments(r, close) == <<"commas", r, close, "nothing">>
Put(node)   == <<"put", node>>
Make(n)     == <<"make", n>>         \* a node n of all children so far
If(t, a, b) == <<"if", t, a, b>>     \* a if t is next, else b
IfGiven(a, b) == <<"given", a, b>>   \* a if the last child is not nil
Check(c)    == <<"check", c>>        \* an error unless the children are legal
Sort        == <<"sort">>            \* the members of a type, by their kind
Fail        == <<"fail">>

Rule(starts, steps) == [starts |-> starts, steps |-> steps]

Void == Node("Declarator", <<Node("id", <<Nil, Leaf("void"), Nil>>), Nil>>)

Block == If("{", <<Eat("{"), All("Statement"), Eat("}")>>, <<One("Statement")>>)
Condition == If("name :", <<Must("VariableDeclaration")>>, <<Must("Expression")>>)
Returns == If(":", <<Eat(":"), Must("Declarator")>>, <<Put(Void)>>)
Declared == If("=", <<Put(Nil), Eat("="), Must("Expression")>>,
                    <<Must("Declarator"), If("=", <<Eat("="), Must("Expression")>>, <<Put(Nil)>>)>>)

-----------------------------------------------------------------------------
(* Declarations.                                                           *)
parseImport  == Rule({"import"}, <<Eat("import"), If("name", <<Take("name")>>, <<Take("string")>>),
                                   Make("Import")>>)
parseInclude == Rule({"include"}, <<Eat("include"), Take("string"), Make("Include")>>)
\* "using import m" makes two nodes: the import, and a using that refers to it.
parseUsing   == Rule({"using"}, <<Eat("using"), If("import", <<Must("Import"), Make("Using"), Make("MultiNode")>>,
                                                             <<Take("name"), Make("Using")>>)>>)
parseModuleDeclaration == Rule({"module"}, <<Eat("module"), Take("name"), Make("ModuleDeclaration")>>)
parseType == Rule({"abstract", "type"},
    <<Flag("abstract"), Eat("type"), Take("name"), May("TemplateDef"),
      If("=", <<Eat("="), Try("Declarator"), Check("alias"), Make("Alias")>>,
              <<If("extends", <<Eat("extends"), Must("Declarator")>>, <<Put(Nil)>>),
                Eat("{"), All("Member"), Eat("}"), Sort, Make("Struct")>>)>>)
parseEnum  == Rule({"enum"}, <<Eat("enum"), Take("name"), Eat("{"), Commas("Name", ""), Eat("}"), Make("Enum")>>)
\* The declarator is read and dropped.
parseAlias == Rule({"alias"}, <<Eat("alias"), Put(Nil), Take("name"), Put(Nil), Skip("Declarator"), Put(Nil),
                                Make("Alias")>>)
\* As it would be if it gave up where an expression or a declarator is missing.
parseConstantGivingUp == Rule({"const"}, <<Eat("const"), Take("name"), <<"bite">>,
                                           If("=", <<Put(Nil), Eat("="), Must("Expression")>>,
                                                   <<Try("Declarator"), Put(Nil)>>), Make("Constant")>>)
\* The character after the name is taken for ":" whatever it is.
parseConstant == Rule({"const"}, <<Eat("const"), Take("name"), <<"bite">>, Declared, Make("Constant")>>)
parseVariableDeclaration == Rule({"name :"}, <<Take("name"), Eat(":"), Declared, Make("VariableDeclaration")>>)
parseThis == Rule({"this"}, <<Take("this")>>)
parseProc == Rule({"proc"},
    <<Eat("proc"), Flag("__no_mangle__"), Flag("__inline__"), If("name", <<Take("name")>>, <<Put(Nil)>>),
      May("TemplateDef"), Check("heading"),
      Eat("("), If(")", <<Put(List(<<>>))>>, <<Commas("Parameter", "")>>), Check("typed"), Eat(")"), Returns,
      Block, Make("Procedure")>>)
parseExternVar == Rule({"externvar"}, <<Eat("externvar"), Try("VariableDeclaration"), Make("ExternVar")>>)
parseExternSig == Rule({"extern"},
    <<Eat("extern"), Take("name"), Eat("("), Commas("ParamDeclarator", ")"), Check("vararg"), Eat(")"), Returns,
      Make("Extern")>>)

(* Templates.                                                              *)
parseTemplateDefineTypeDescriptor == Rule({"name"}, <<Take("name"), Make("TypeDescriptor")>>)
parseTemplateDefineExpression == Rule({"name :"}, <<Must("VariableDeclaration"), Make("TemplateExpression")>>)
parseTemplateDefineVariadicTypeArgs == Rule({"..."}, <<Eat("..."), Take("name"), Make("VariadicTypeArgs")>>)
parseTemplateDef == Rule({"$"},
    <<Eat("$"), If("(", <<Eat("("), Commas("TemplateElement", ""), Eat(")")>>, <<One("TypeDescriptor")>>),
      Make("TemplateDef")>>)
parseTemplateInst == Rule({"anything"},
    <<Eat("$"), If("(", <<Eat("("), Commas("TemplateArgument", ")"), Eat(")")>>, <<One("BaseDeclarator")>>),
      Make("TemplateInst")>>)

(* Statements.                                                             *)
parseIf   == Rule({"if"}, <<Eat("if"), Condition, Block, May("Else"), Make("If")>>)
parseElse == Rule({"else"}, <<Eat("else"), Block, Make("Else")>>)
\* Nothing eats a ";" that ends the afterthoughts.
parseFor  == Rule({"for"},
    <<Eat("for"), Commas("Initialization", ";"), Eat(";"), Must("Expression"), Eat(";"),
      Commas("Expression", ";"), Block, Make("For")>>)
parseForeach == Rule({"foreach"},
    <<Eat("foreach"), Flag("ref"), Take("name"), Eat("in"), Must("Expression"), Block, Make("Foreach")>>)
parseWhile   == Rule({"while"}, <<Eat("while"), Condition, Block, Make("While")>>)
parseDoWhile == Rule({"do"}, <<Eat("do"), Block, Eat("while"), Must("Expression"), Make("DoWhile")>>)
parseMatch   == Rule({"match"}, <<Eat("match"), Must("Expression"), Eat("{"), All("With"), Eat("}"), Make("Match")>>)
parseWith    == Rule({"with"}, <<Eat("with"), If("else", <<Take("else")>>, <<Must("Expression")>>), Eat(":"),
                                 Block, Make("With")>>)
parsePrint    == Rule({"print"}, <<Eat("print"), Must("ArgList"), Make("Print")>>)
parseReturn   == Rule({"return"}, <<Eat("return"), If("line end", <<Put(Nil)>>, <<Must("Expression")>>),
                                    Make("Return")>>)
parseBreak    == Rule({"break"}, <<Take("break")>>)
parseContinue == Rule({"continue"}, <<Take("continue")>>)
parseExprBlockYield == Rule({"<-"}, <<Eat("<-"), Must("Expression"), Make("Yield")>>)
parseMacroUse == Rule({"\\"}, <<Eat("\\"), Take("name"), Eat("{"), All("MacroArg"), Eat("}"), Make("MacroUse")>>)

(* Terms of an expression.                                                 *)
parseLiteral  == Rule({"literal", "true", "false", "nothing"}, <<<<"any">>>>)
parseNamedArg == Rule({"name :"}, <<Take("name"), Eat(":"), Must("Expression"), Make("NamedArg")>>)
Qualified(start) == <<If("name ::", <<Take("name"), Eat("::"), Take("name")>>, <<Put(Nil), Take(start)>>)>>
parseQualifiedIdentifier == Rule({"name"}, Qualified("name") \o
    <<If("$", <<Must("TemplateInst")>>, <<Put(Nil)>>), Make("id")>>)
parseParentheticalExpressionOrTuple == Rule({"("},
    <<Eat("("), Must("Expression"),
      If(",", <<Eat(","), Commas("Expression", ")"), Eat(")"), Make("Tuple")>>, <<Eat(")")>>)>>)
parseInitializerList == Rule({"{"},
    <<Eat("{"), If("}", <<Fail>>, <<>>), May("Declarator"),
      IfGiven(<<Eat(":"), Commas("Initializer", "}")>>, <<Commas("Expression", "}")>>), Eat("}"),
      Make("InitializerList")>>)
parseSliceOrDynamicArrayExpression == Rule({"["},
    <<Eat("["), If("]", <<Fail>>, <<>>),
      If("...", <<Eat("..."), Must("Declarator"), Make("DynamicArray")>>,
                <<Must("Expression"), Eat(","), Must("Expression"), Eat(":"), Must("Expression"), Make("Slice")>>),
      Eat("]")>>)
parseLenExpression == Rule({"|"}, <<Eat("|"), Must("Expression"), Eat("|"), Make("Len")>>)
parseExprBlock == Rule({"<<"}, <<Eat("<<"), All("Statement"), Eat(">>"), Check("statements"), Make("ExprBlock")>>)
parseArgList   == Rule({"anything"}, <<Arguments("Expression", ")"), Make("ArgList")>>)

(* Declarators without what may follow them.                               *)
NamedDeclarator == Rule({"type name"}, Qualified("type name") \o
    <<Put(Nil), Make("id"), If("$", <<Must("TemplateInst")>>, <<Put(Nil)>>), Make("Declarator")>>)
ProcedureDeclarator == Rule({"<"},
    <<Eat("<"), Eat("("), Commas("ParamDeclarator", ")"), Check("vararg"), Eat(")"), Returns, Eat(">"),
      Make("ProcedureDeclarator")>>)

Rules ==
    [Import |-> parseImport, Include |-> parseInclude, Using |-> parseUsing,
     ModuleDeclaration |-> parseModuleDeclaration, Type |-> parseType, Enum |-> parseEnum, Alias |-> parseAlias,
     Constant |-> parseConstant, VariableDeclaration |-> parseVariableDeclaration, This |-> parseThis,
     Proc |-> parseProc, ExternVar |-> parseExternVar, ExternSig |-> parseExternSig,
     TypeDescriptor |-> parseTemplateDefineTypeDescriptor, TemplateExpression |-> parseTemplateDefineExpression,
     VariadicTypeArgs |-> parseTemplateDefineVariadicTypeArgs, TemplateDef |-> parseTemplateDef,
     TemplateInst |-> parseTemplateInst, If |-> parseIf, Else |-> parseElse, For |-> parseFor,
     Foreach |-> parseForeach, While |-> parseWhile, DoWhile |-> parseDoWhile, Match |-> parseMatch,
     With |-> parseWith, PrintStatement |-> parsePrint, Return |-> parseReturn, Break |-> parseBreak,
     Continue |-> parseContinue, Yield |-> parseExprBlockYield, MacroUse |-> parseMacroUse,
     Literal |-> parseLiteral, NamedArg |-> parseNamedArg, Identifier |-> parseQualifiedIdentifier,
     Parenthetical |-> parseParentheticalExpressionOrTuple, InitializerList |-> parseInitializerList,
     SliceOrDynamicArray |-> parseSliceOrDynamicArrayExpression, Len |-> parseLenExpression,
     ExprBlock |-> parseExprBlock, ArgList |-> parseArgList, NamedDeclarator |-> NamedDeclarator,
     ProcedureDeclarator |-> ProcedureDeclarator,
     Name |-> Rule({"anything"}, <<Take("name")>>), Ellipsis |-> Rule({"..."}, <<Take("...")>>),
     Initializer |-> Rule({"anything"}, <<Eat("."), Take("name"), Eat("="), Must("Expression"), Make("Member")>>),
     BracketedExpression |-> Rule({"["}, <<Eat("["), Must("Expression"), Eat("]")>>)]

(* What is tried in turn.                                                  *)
parseTopLevelNode == <<"ModuleDeclaration", "Proc", "ExternSig", "ExternVar", "Type", "Enum", "Constant",
                       "VariableDeclaration", "Alias", "Statement", "Import", "Include">>
parseStatement == <<"Yield", "Constant", "VariableDeclaration", "Expression", "Break", "Continue", "Return", "PrintStatement",
                    "If", "For", "Foreach", "While", "DoWhile", "Constant", "Match", "Using", "ExternVar">>
parseTerminatingExpression == <<"MacroUse", "Literal", "NamedArg", "Identifier", "InitializerList", "Parenthetical",
                                "SliceOrDynamicArray", "Len", "ExprBlock">>
parseMacroArg == <<"TopLevelNode", "Declarator">>

Alternatives ==
    [TopLevelNode |-> parseTopLevelNode, Statement |-> parseStatement, Term |-> parseTerminatingExpression,
     MacroArg |-> parseMacroArg, Member |-> <<"VariableDeclaration", "Constant", "Proc">>,
     Parameter |-> <<"VariableDeclaration", "This">>, ParamDeclarator |-> <<"Ellipsis", "Declarator">>,
     Initialization |-> <<"VariableDeclaration", "Expression">>,
     TemplateElement |-> <<"TemplateExpression", "TypeDescriptor", "VariadicTypeArgs">>,
     TemplateArgument |-> <<"BracketedExpression", "Declarator">>]

-----------------------------------------------------------------------------
(* Operators, strongest first.                                             *)
Accesses    == {"()", "[]", ".", "->"}
Assignments == {"??", "=", "*=", "/=", "%=", "+=", "-="}
OpMap == <<Assignments, {"and", "or"}, {"bor"}, {"bxor"}, {"band"}, {"==", "!="}, {"<", "<=", ">", ">="},
           {"bshl", "bshr"}, {"+", "-"}, {"*", "/", "%"}, {}, Accesses>>
UnaryPrecedence == 11
AccessPrecedence == 12

BinaryOperators == UNION {OpMap[i] : i \in DOMAIN OpMap}
precedence(op)  == CHOOSE i \in DOMAIN OpMap : op \in OpMap[i]
\* As it would be without right associativity.
neverRightAssoc(op) == FALSE
rightAssoc(op)  == op \in Assignments

\* A call is on the line of what is called.
parseBinaryOperator(s, p) ==
    CASE At(s, p) = "("  -> IF Place(s, p) = p THEN "()" ELSE "none"
      [] At(s, p) = "["  -> "[]"
      [] At(s, p) = "&&" -> "and"
      [] At(s, p) = "||" -> "or"
      [] At(s, p) \in BinaryOperators -> At(s, p)
      [] OTHER -> "none"

PrefixOperators == {"!", "not", "new", "delete", "sizeof", "proc", "extern", "some", "@", "&", "~", "bneg"}

\* The prefix operators that take something else than an operand.
Takes == [new |-> <<Eat("new"), Must("Declarator"), Make("new")>>,
          sizeof |-> <<Eat("sizeof"), Must("Declarator"), Make("sizeof")>>,
          delete |-> <<Eat("delete"), Must("Expression"), Make("delete")>>,
          some |-> <<Eat("some"), Must("Expression"), Make("some")>>,
          proc |-> <<Must("Proc"), Check("literal"), Make("ProcLiteral")>>,
          extern |-> <<Must("ExternSig"), Make("ExternLiteral")>>]

\* What may follow a declarator.
ArraySuffix == If("...", <<Eat("..."), Make("DynamicArrayDeclarator")>>,
                  <<If("]", <<Make("SliceDeclarator")>>, <<Must("Expression"), Make("ArrayDeclarator")>>)>>)
Suffix(t) == CASE t = "["   -> <<Eat("["), ArraySuffix, Eat("]")>>
               [] t = "*"   -> <<Eat("*"), Make("PointerDeclarator")>>
               [] t = "?"   -> <<Eat("?"), Make("MaybeDeclarator")>>
               [] t = "ref" -> <<Eat("ref"), Make("RefDeclarator")>>

-----------------------------------------------------------------------------
Kind(k, nodes) == List(SelectSeq(nodes, LAMBDA n : n[1] = k))
Plain(proc)    == proc[1] = "Procedure" /\ proc[2][4] = Nil
Sorted(nodes)  == <<Kind("Constant", nodes), Kind("VariableDeclaration", nodes),
                    List(SelectSeq(nodes, Plain)),
                    List(SelectSeq(nodes, LAMBDA n : n[1] = "Procedure" /\ ~Plain(n)))>>

Legal(c, kids, last) ==
    CASE c = "alias"      -> kids[1] = Nil
      [] c = "heading"    -> /\ kids[3] = Nil => kids[1] = Nil /\ kids[4] = Nil
                             /\ kids[4] # Nil => kids[1] = Nil
      [] c = "typed"      -> \A i \in DOMAIN last[2] :
                                last[2][i][1] = "VariableDeclaration" => last[2][i][2][2] # Nil
      [] c = "vararg"     -> \A i \in DOMAIN last[2] :
                                (i > 1 /\ last[2][i] # Leaf("...")) => last[2][i - 1] # Leaf("...")
      [] c = "statements" -> last[2] # <<>>
      [] c = "literal"    -> last[2][4] = Nil

RECURSIVE Parse(_, _, _), Steps(_, _, _, _), First(_, _, _), Many(_, _, _, _), Separated(_, _, _, _),
          Declarator(_, _, _), Suffixed(_, _, _), Sum(_, _, _, _),
          More(_, _, _, _), Absorb(_, _, _)

\* The children so far, then what a parse function returned, then the rest.
Onward(r, rest, s, kids) == IF r.is = "node" THEN Steps(rest, s, r.at, Append(kids, r.node)) ELSE Error(r.at)
Expect(t, s, p, rest, kids) == IF Looks(t, s, p) /\ (t = "<" => At(s, p) = t)
                               THEN Steps(rest, s, After(s, p), kids) ELSE Error(p)

Step(i, rest, s, p, kids) ==
    CASE i[1] = "eat"    -> Expect(i[2], s, p, rest, kids)
      [] i[1] = "take"   -> Expect(i[2], s, p, rest, Append(kids, Leaf(At(s, p))))
      [] i[1] = "any"    -> Steps(rest, s, After(s, p), Append(kids, Leaf(At(s, p))))
      [] i[1] = "bite"   -> Steps(rest, s, After(s, p), kids)
      [] i[1] = "flag"   -> IF Looks(i[2], s, p) THEN Steps(rest, s, After(s, p), Append(kids, Leaf(i[2])))
                                                 ELSE Steps(rest, s, p, Append(kids, Nil))
      [] i[1] = "must"   -> Onward(Parse(i[2], s, p), rest, s, kids)
      [] i[1] = "may"    -> LET r == Parse(i[2], s, p)
                            IN  IF r.is = "nothing" THEN Steps(rest, s, r.at, Append(kids, Nil))
                                                    ELSE Onward(r, rest, s, kids)
      [] i[1] = "try"    -> LET r == Parse(i[2], s, p)
                            IN  IF r.is = "nothing" THEN r ELSE Onward(r, rest, s, kids)
      [] i[1] = "skip"   -> LET r == Parse(i[2], s, p)
                            IN  IF r.is = "node" THEN Steps(rest, s, r.at, kids) ELSE Error(r.at)
      [] i[1] = "all"    -> Onward(Many(i[2], s, p, <<>>), rest, s, kids)
      [] i[1] = "one"    -> LET r == Parse(i[2], s, p)
                            IN  Onward([r EXCEPT !.node = List(<<r.node>>)], rest, s, kids)
      [] i[1] = "commas" -> LET r == Separated(i, s, p, <<>>)
                            IN  IF r.is = "nothing" THEN r ELSE Onward(r, rest, s, kids)
      [] i[1] = "put"    -> Steps(rest, s, p, Append(kids, i[2]))
      [] i[1] = "make"   -> Steps(rest, s, p, <<Node(i[2], kids)>>)
      [] i[1] = "if"     -> Steps((IF Looks(i[2], s, p) THEN i[3] ELSE i[4]) \o rest, s, p, kids)
      [] i[1] = "given"  -> Steps((IF kids[Len(kids)] # Nil THEN i[2] ELSE i[3]) \o rest, s, p, kids)
      [] i[1] = "check"  -> IF Legal(i[2], kids, kids[Len(kids)]) THEN Steps(rest, s, p, kids) ELSE Error(p)
      [] i[1] = "sort"   -> Steps(rest, s, p, SubSeq(kids, 1, Len(kids) - 1) \o Sorted(kids[Len(kids)][2]))
      [] i[1] = "fail"   -> Error(p)

Steps(steps, s, p, kids) == IF steps = <<>> THEN Found(kids[Len(kids)], p)
                            ELSE Step(Head(steps), Tail(steps), s, p, kids)

\* The first of several parse functions that does not return nothing.
First(rs, s, p) ==
    IF rs = <<>> THEN Nothing(p)
    ELSE LET r == Parse(Head(rs), s, p) IN IF r.is = "nothing" THEN First(Tail(rs), s, r.at) ELSE r

\* As many r as there are.
Many(r, s, p, nodes) ==
    LET x == Parse(r, s, p)
    IN  CASE x.is = "node"    -> Many(r, s, x.at, Append(nodes, x.node))
          [] x.is = "nothing" -> Found(List(nodes), x.at)
          [] x.is = "error"   -> x

\* Step i is Commas or Arguments: no comma is needed before the closing token.
Separated(i, s, p, nodes) ==
    IF Looks(i[3], s, p) THEN Found(List(nodes), p)
    ELSE LET x == Parse(i[2], s, p)
         IN  CASE x.is = "node" /\ At(s, x.at) = "," -> Separated(i, s, After(s, x.at), Append(nodes, x.node))
               [] x.is = "node" /\ At(s, x.at) # "," -> Found(List(Append(nodes, x.node)), x.at)
               [] x.is = "nothing" -> IF i[4] = "nothing" THEN Nothing(x.at) ELSE Error(x.at)
               [] x.is = "error"   -> x

-----------------------------------------------------------------------------
(* parseDeclarator.  Specifiers are read and forgotten, and base is what a *)
(* template argument without parentheses may be.                           *)
PastImmut(s, p) == IF p > Len(s) THEN p
                   ELSE CHOOSE q \in p..Len(s) + 1 :
                           /\ \A i \in p..(q - 1) : s[i] \in {"immut", NewLine}
                           /\ At(s, q) # "immut"

\* Neither a tuple nor a sum has fewer than two types; one in parentheses,
\* and none, is neither.
TupleOrSum(r, s) == IF r.is = "node" /\ r.node[1] # "list" /\ Len(r.node[2]) >= 2 /\ At(s, r.at) = ")"
                    THEN [r EXCEPT !.at = After(s, @)] ELSE Error(r.at)

Unsuffixed(base, s, q) ==
    CASE ~base /\ Looks("<", s, q)  -> Parse("ProcedureDeclarator", s, q)
      [] ~base /\ At(s, q) = "("    -> TupleOrSum(Sum("list", s, After(s, q), <<>>), s)
      [] Looks("type name", s, q)   -> Parse("NamedDeclarator", s, q)
      [] At(s, q) = "_"             -> Found(Leaf("_"), After(s, q))
      [] OTHER -> Nothing(q)

Declarator(base, s, p) ==
    IF At(s, p) = "\\" THEN Parse("MacroUse", s, p) ELSE Suffixed(Unsuffixed(base, s, PastImmut(s, p)), base, s)

\* r, and what follows it.
Suffixed(r, base, s) ==
    IF r.is = "node" /\ ~base /\ At(s, r.at) \in {"[", "*", "?", "ref"}
    THEN Suffixed(Steps(Suffix(At(s, r.at)), s, r.at, <<r.node>>), base, s)
    ELSE r

\* The types in parentheses: the first separator tells a sum from a tuple.
SumOf(x, kind, s, nodes) ==
    CASE x.is # "node" -> Error(x.at)
      [] x.is = "node" /\ At(s, x.at) = "|" /\ kind # "TupleDeclarator" ->
           Sum("SumDeclarator", s, After(s, x.at), Append(nodes, x.node))
      [] x.is = "node" /\ At(s, x.at) = "," /\ kind # "SumDeclarator" ->
           Sum("TupleDeclarator", s, After(s, x.at), Append(nodes, x.node))
      [] OTHER -> Found(Node(kind, Append(nodes, x.node)), x.at)
Sum(kind, s, p, nodes) == IF At(s, p) = ")" THEN Found(Node(kind, nodes), p)
                          ELSE SumOf(Parse("Declarator", s, p), kind, s, nodes)

-----------------------------------------------------------------------------
(* parseExpression: precedence climbing.  min is the weakest operator that *)
(* may be taken.                                                           *)
\* An operand; what follows one that a prefix operator was applied to is an
\* access, a call or a subscript.
OrAt(m, r) == IF m.is = "nothing" THEN [r EXCEPT !.at = m.at] ELSE m
Accessed(r, s) == IF r.is = "node" THEN OrAt(More(r.node, s, r.at, AccessPrecedence), r) ELSE r

\* ~ is a prefix operator for which there is no node.
PrefixTo(op, m) == IF m.is # "node" \/ op = "~" THEN Error(m.at)
                   ELSE Found(Node(IF op = "!" THEN "not" ELSE op, <<m.node>>), m.at)
Prefixed(op, x, s) == IF x.is = "node" THEN PrefixTo(op, More(x.node, s, x.at, AccessPrecedence)) ELSE x

Operand(s, p) ==
    CASE At(s, p) \in DOMAIN Takes -> Accessed(Steps(Takes[At(s, p)], s, p, <<>>), s)
      [] At(s, p) \in PrefixOperators \ DOMAIN Takes ->
           Prefixed(At(s, p), Parse("Operand", s, After(s, p)), s)
      [] OTHER -> First(parseTerminatingExpression, s, p)

From(x, s) == IF x.is = "node" THEN More(x.node, s, x.at, 0) ELSE x
Expression(s, p) == From(Parse("Operand", s, p), s)

\* What is right of op.  A subscript whose call has no valid arguments is cut
\* before the call.
Subscript(x, m, s) ==
    CASE x.is # "node" -> Error(x.at)
      [] x.is = "node" /\ (m.is = "error" \/ At(s, m.at) # "]") -> Error(m.at)
      [] OTHER -> Found(OrAt(m, x).node, After(s, m.at))
CallArguments(x, s) ==
    CASE x.is = "error" -> x
      [] x.is # "error" /\ At(s, x.at) # ")" -> Error(x.at)
      [] OTHER -> [x EXCEPT !.at = After(s, @)]
OrError(x) == IF x.is = "node" THEN x ELSE Error(x.at)
Right(op, s, p) ==
    CASE op = "[]" -> Subscript(Parse("Operand", s, After(s, p)), Parse("Expression", s, After(s, p)), s)
      [] op = "()" -> CallArguments(Parse("ArgList", s, After(s, p)), s)
      [] op = "->" -> Error(p)
      [] OTHER     -> OrError(Parse("Operand", s, After(s, p)))

\* The operators right of op that bind more strongly take r with them.
Stronger(next, op) == /\ next # "none"
                      /\ \/ precedence(next) > precedence(op)
                         \/ precedence(next) = precedence(op) /\ rightAssoc(next)
AbsorbMore(op, m, s) == IF m.is = "nothing" THEN Error(m.at) ELSE Absorb(op, m, s)
Absorb(op, r, s) ==
    LET next == parseBinaryOperator(s, r.at)
    IN  IF r.is = "node" /\ Stronger(next, op) THEN AbsorbMore(op, More(r.node, s, r.at, precedence(next)), s) ELSE r

\* A cast applies to the whole if there is no operator, or if it is an access
\* that nothing weaker precedes, and to the right operand of a weaker one.
\* After an access that something precedes it is dropped.
Cast(op, node, x) ==
    CASE x.is # "node" -> Error(x.at)
      [] x.is = "node" /\ (op = "none" \/ precedence(op) > UnaryPrecedence) -> Found(Node("as", <<node, x.node>>), x.at)
      [] OTHER -> Found(Node(node[1], <<node[2][1], Node("as", <<node[2][2], x.node>>)>>), x.at)
applyPostfixOp(op, min, node, s, p) ==
    IF op # "none" /\ precedence(op) > UnaryPrecedence /\ min # 0 THEN Found(node, After(s, p))
    ELSE Cast(op, node, Parse("Declarator", s, After(s, p)))

\* "?" is a postfix operator for which there is no node.
Postfixed(op, min, node, s, p) ==
    CASE At(s, p) = "as" -> applyPostfixOp(op, min, node, s, p)
      [] At(s, p) = "?"  -> Error(p)
      [] OTHER -> Found(node, p)

\* parseExpression_r
Continue(x, s, min) == IF x.is = "node" THEN More(x.node, s, x.at, min) ELSE x
Combine(op, left, r, s, min) ==
    IF r.is = "node" THEN Continue(Postfixed(op, min, Node(op, <<left, r.node>>), s, r.at), s, min) ELSE r
More(left, s, p, min) ==
    LET op == parseBinaryOperator(s, p)
    IN  IF op = "none" \/ precedence(op) < min THEN Postfixed("none", min, left, s, p)
        ELSE Combine(op, left, Absorb(op, Right(op, s, p), s), s, min)

-----------------------------------------------------------------------------
Parse(r, s, p) ==
    CASE r = "Expression"     -> Expression(s, p)
      [] r = "Operand"        -> Operand(s, p)
      [] r = "Declarator"     -> Declarator(FALSE, s, p)
      [] r = "BaseDeclarator" -> Declarator(TRUE, s, p)
      [] r \in DOMAIN Alternatives -> First(Alternatives[r], s, p)
      [] OTHER -> IF \E t \in Rules[r].starts : Looks(t, s, p) THEN Steps(Rules[r].steps, s, p, <<>>) ELSE Nothing(p)

\* parseCommon: a text is read as nodes r up to its end.
RECURSIVE ReadFrom(_, _, _, _)
ReadFrom(r, s, p, nodes) ==
    IF At(s, p) = "" THEN Found(List(nodes), p)
    ELSE LET x == Parse(r, s, p)
         IN  IF x.is = "node" THEN ReadFrom(r, s, x.at, Append(nodes, x.node)) ELSE Error(x.at)
Read(s) == ReadFrom("TopLevelNode", s, 1, <<>>)
=============================================================================
