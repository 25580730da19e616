----------------------------- MODULE CompilerAPI -----------------------------
(***************************************************************************)
(* The C interface of the compiler (src/src/CompilerAPI.cpp): a front end  *)
(* builds a tree from the leaves up with the bjou_create functions and     *)
(* parts it has parsed, and writes it with bjou_dump, for the parser to    *)
(* read it back.                                                           *)
(*                                                                         *)
(* What is built last becomes a part of the next node; the other parts are *)
(* spare nodes.  The second half of the module writes expressions token by *)
(* token, to compare how the parser groups them with the table of          *)
(* operators.                                                              *)
(***************************************************************************)
EXTENDS Dump

CONSTANTS
    Operators,     \* the binary operators used
    MaxHeight,     \* how many nodes are put on one another
    Tokens,        \* the tokens of a text
    MaxTokens,     \* the length of a text
    MaxOperands    \* the length of a text that is an expression

VARIABLES
    tree,          \* the node built last
    height,        \* on how many others it was put
    text           \* what was written by hand

vars == <<tree, height, text>>

(* The spare parts.                                                        *)
Id(name)  == Node("id", <<Nil, Leaf(name), Nil>>)
Named(t)  == Node("Declarator", <<Id(t), Nil>>)
X == Id("x")
Y == Id("y")
T == Named("int")
NoArguments == Node("ArgList", <<List(<<>>)>>)
V == Node("VariableDeclaration", <<Leaf("x"), T, Nil>>)
F == Node("Procedure", <<Nil, Nil, Leaf("x"), Nil, List(<<>>), Void, List(<<>>)>>)
U == Node("TemplateDef", <<List(<<Node("TypeDescriptor", <<Leaf("y")>>)>>)>>)

Expressions  == BinaryOperators \cup Unaries \cup
                {"as", "id", "1", "true", "some", "nothing", "InitializerList", "Slice", "DynamicArray", "Len", "Tuple",
                 "ExprBlock", "ProcLiteral", "ExternLiteral"}
Declarators  == {"Declarator", "ArrayDeclarator", "SliceDeclarator", "DynamicArrayDeclarator", "PointerDeclarator",
                 "RefDeclarator", "MaybeDeclarator", "SumDeclarator", "TupleDeclarator", "ProcedureDeclarator", "_"}
Statements   == Expressions \cup
                {"VariableDeclaration", "ExternVar", "Constant", "Using", "MultiNode", "Print", "Return", "If", "For",
                 "Foreach", "While", "DoWhile", "Match", "Yield", "break", "continue"}
Declarations == {"Struct", "Alias", "Enum", "Procedure", "Extern", "Import", "Include", "ModuleDeclaration"}

Is(kinds)   == tree[1] \in kinds
IsExpr      == Is(Expressions)
IsDecl      == Is(Declarators)
Is1(kind)   == tree[1] = kind

Init == /\ tree \in {X, Leaf("1"), Leaf("true"), Leaf("nothing"), T, Leaf("_"), Leaf("break"), Leaf("continue"),
                     NoArguments}
        /\ height = 0 /\ text = <<>>

\* The tree becomes a part of the node n.
Build(n) == /\ text = <<>> /\ height < MaxHeight
            /\ tree' = n /\ height' = height + 1 /\ UNCHANGED text

Beside(n) == {<<tree>>, <<tree, n>>, <<n, tree>>}
BuildList(kids(_), n) == \E nodes \in Beside(n) : Build(kids(List(nodes)))

-----------------------------------------------------------------------------
(* Expressions.                                                            *)
Binary(op)   == \/ Build(Node(op, <<tree, Y>>)) \/ Build(Node(op, <<Y, tree>>))
Unary(op)    == Build(Node(op, <<tree>>))

createArithmetic == IsExpr /\ \E op \in Operators \cap {"+", "-", "*", "/", "%", "bshl", "bshr"} : Binary(op)
createAssignment == IsExpr /\ \E op \in Operators \cap Assignments : Binary(op)
createComparison == IsExpr /\ \E op \in Operators \cap {"<", "<=", ">", ">=", "==", "!="} : Binary(op)
createLogical    == IsExpr /\ \E op \in Operators \cap {"and", "or", "band", "bor", "bxor"} : Binary(op)
createAccess     == IsExpr /\ \E op \in {".", "[]"} : Binary(op)
createCall       == \/ IsExpr /\ Build(Node("()", <<tree, NoArguments>>))
                    \/ Is1("ArgList") /\ Build(Node("()", <<Y, tree>>))
createPrefix     == \/ IsDecl /\ \E op \in {"new", "sizeof"} : Unary(op)
                    \/ IsExpr /\ \E op \in {"delete", "not", "bneg", "@", "&"} : Unary(op)
createRef        == IsExpr /\ Unary("~")
createAs         == \/ IsExpr /\ Build(Node("as", <<tree, T>>))
                    \/ IsDecl /\ Build(Node("as", <<Y, tree>>))
createIdentifierWithInst == Is1("TemplateInst") /\ Build(Node("id", <<Nil, Leaf("x"), tree>>))
createInitializerList ==
    \/ IsDecl /\ Build(Node("InitializerList", <<tree, List(<<>>)>>))
    \/ IsExpr /\ BuildList(LAMBDA es : Node("InitializerList", <<Nil, es>>), Y)
    \/ IsExpr /\ Build(Node("InitializerList", <<T, List(<<Node("Member", <<Leaf("x"), tree>>),
                                                           Node("Member", <<Leaf("y"), Y>>)>>)>>))
createExprBlock == Is(Statements) /\ BuildList(LAMBDA ss : Node("ExprBlock", <<ss>>), Y)
createArgList   == IsExpr /\ BuildList(LAMBDA es : Node("ArgList", <<es>>), Y)
createTemplateInst == IsDecl /\ BuildList(LAMBDA es : Node("TemplateInst", <<es>>), T)
createMacroUse  == /\ Is(Statements \cup Declarations \cup Declarators)
                   /\ BuildList(LAMBDA as : Node("MacroUse", <<Leaf("x"), as>>), Y)

(* Declarators.                                                            *)
createDeclarator == Is1("TemplateInst") /\ Build(Node("Declarator", <<Id("y"), tree>>))
createArrayDeclarator == \/ IsDecl /\ Build(Node("ArrayDeclarator", <<tree, Y>>))
                         \/ IsExpr /\ Build(Node("ArrayDeclarator", <<T, tree>>))
createPointerDeclarator == IsDecl /\ Build(Node("PointerDeclarator", <<tree>>))
createProcedureDeclarator ==
    IsDecl /\ \/ Build(Node("ProcedureDeclarator", <<List(<<T, tree>>), Void>>))
              \/ Build(Node("ProcedureDeclarator", <<List(<<tree, Leaf("...")>>), Void>>))
              \/ Build(Node("ProcedureDeclarator", <<List(<<>>), tree>>))

(* Declarations.                                                           *)
createVariableDeclaration ==
    \/ IsDecl /\ Build(Node("VariableDeclaration", <<Leaf("x"), tree, Nil>>))
    \/ IsExpr /\ Build(Node("VariableDeclaration", <<Leaf("x"), Nil, tree>>))
    \/ IsExpr /\ Build(Node("VariableDeclaration", <<Leaf("x"), T, tree>>))
createAlias  == IsDecl /\ Build(Node("Alias", <<Nil, Leaf("x"), Nil, tree>>))
Struct(def, base, constants, variables, procs, templates) ==
    Build(Node("Struct", <<Nil, Leaf("x"), def, base, List(constants), List(variables), List(procs), List(templates)>>))
createStruct ==
    \/ IsDecl /\ Struct(Nil, tree, <<>>, <<>>, <<>>, <<>>)
    \/ Is1("VariableDeclaration") /\ Struct(Nil, Nil, <<>>, <<tree, V>>, <<>>, <<>>)
    \/ Is1("Constant") /\ Struct(Nil, Nil, <<tree>>, <<V>>, <<>>, <<>>)
    \/ Is1("Procedure") /\ tree[2][3] # Nil /\ Plain(tree) /\ Struct(Nil, Nil, <<>>, <<V>>, <<tree, F>>, <<>>)
    \/ Is1("TemplateDef") /\ Struct(Nil, Nil, <<>>, <<V>>, <<F>>, <<[F EXCEPT ![2][4] = tree]>>)
    \/ Is1("TemplateDef") /\ Struct(tree, Nil, <<>>, <<V>>, <<>>, <<>>)
createEnum == height = 0 /\ Build(Node("Enum", <<Leaf("x"), List(<<Leaf("x"), Leaf("y")>>)>>))
Procedure(name, def, parameters, ret, body) ==
    Build(Node("Procedure", <<Nil, Nil, name, def, List(parameters), ret, List(body)>>))
createProcedure ==
    \/ Is1("VariableDeclaration") /\ tree[2][2] # Nil /\ Procedure(Leaf("x"), Nil, <<Leaf("this"), tree>>, Void, <<>>)
    \/ IsDecl /\ Procedure(Leaf("x"), Nil, <<>>, tree, <<>>)
    \/ Is(Statements) /\ BuildList(LAMBDA ss : Node("Procedure", <<Nil, Nil, Leaf("x"), Nil, List(<<>>), T, ss>>), Y)
    \/ Is(Statements) /\ Procedure(Nil, Nil, <<V>>, T, <<tree>>)
    \/ Is1("TemplateDef") /\ Procedure(Leaf("x"), tree, <<V>>, Void, <<>>)
createExternProcedure ==
    IsDecl /\ \/ Build(Node("Extern", <<Leaf("x"), List(<<tree, T>>), T>>))
              \/ Build(Node("Extern", <<Leaf("x"), List(<<T, Leaf("...")>>), tree>>))

(* Statements.                                                             *)
createReturn == \/ IsExpr /\ Build(Node("Return", <<tree>>))
                \/ height = 0 /\ Build(Node("Return", <<Nil>>))
createExprBlockYield == IsExpr /\ Build(Node("Yield", <<tree>>))
createIf == \/ (IsExpr \/ Is1("VariableDeclaration")) /\ Build(Node("If", <<tree, List(<<Y>>), Nil>>))
            \/ Is(Statements) /\ BuildList(LAMBDA ss : Node("If", <<X, ss, Nil>>), Y)
            \/ Is1("Else") /\ Build(Node("If", <<X, List(<<Y>>), tree>>))
createElse == Is(Statements) /\ BuildList(LAMBDA ss : Node("Else", <<ss>>), Y)
createFor  == \/ IsExpr /\ Build(Node("For", <<List(<<V, tree>>), X, List(<<tree>>), List(<<Y>>)>>))
              \/ Is(Statements) /\ Build(Node("For", <<List(<<>>), X, List(<<Y>>), List(<<tree>>)>>))
createWhile == \/ (IsExpr \/ Is1("VariableDeclaration")) /\ Build(Node("While", <<tree, List(<<Y>>)>>))
               \/ Is(Statements) /\ BuildList(LAMBDA ss : Node("While", <<X, ss>>), Y)
createDoWhile == \/ IsExpr /\ Build(Node("DoWhile", <<List(<<Y>>), tree>>))
                 \/ Is(Statements) /\ BuildList(LAMBDA ss : Node("DoWhile", <<ss, X>>), Y)

\* Nodes the interface has no function for are parsed from a text
\* (bjou_parseToMultiNode).
parseToMultiNode ==
    \/ /\ IsExpr
       /\ \/ Build(Node("Slice", <<tree, Leaf("1"), Leaf("1")>>)) \/ Build(Node("Slice", <<Leaf("1"), tree, Leaf("1")>>))
          \/ Build(Node("Len", <<tree>>)) \/ Build(Node("some", <<tree>>))
          \/ Build(Node("Tuple", <<tree, List(<<Y>>)>>)) \/ Build(Node("Tuple", <<Y, List(<<tree>>)>>))
          \/ Build(Node("ArgList", <<List(<<Node("NamedArg", <<Leaf("x"), tree>>)>>)>>))
          \/ Build(Node("Constant", <<Leaf("x"), Nil, tree>>)) \/ Build(Node("Constant", <<Leaf("x"), T, tree>>))
          \/ Build(Node("Foreach", <<Leaf("ref"), Leaf("x"), tree, List(<<Y>>)>>))
          \/ Build(Node("Match", <<tree, List(<<Node("With", <<Leaf("else"), List(<<Y>>)>>)>>)>>))
          \/ Build(Node("With", <<tree, List(<<Y>>)>>))
          \/ Build(Node("TemplateInst", <<List(<<tree>>)>>))
    \/ /\ IsDecl
       /\ \/ \E kind \in {"SliceDeclarator", "DynamicArrayDeclarator", "RefDeclarator", "MaybeDeclarator"} :
                Build(Node(kind, <<tree>>))
          \/ \E kind \in {"SumDeclarator", "TupleDeclarator"} : \E nodes \in {<<tree, T>>, <<T, tree>>} :
                Build(Node(kind, nodes))
          \/ Build(Node("DynamicArray", <<tree>>))
    \/ Is1("Procedure") /\ tree[2][4] = Nil /\ Build(Node("ProcLiteral", <<tree>>))
    \/ Is1("Extern") /\ Build(Node("ExternLiteral", <<tree>>))
    \/ Is1("VariableDeclaration") /\ Build(Node("ExternVar", <<tree>>))
    \/ Is1("ArgList") /\ tree # NoArguments /\ Build(Node("Print", <<tree>>))
    \/ Is(Statements) /\ Build(Node("Foreach", <<Nil, Leaf("x"), Y, List(<<tree>>)>>))
    \/ Is(Statements) /\ BuildList(LAMBDA ss : Node("With", <<Leaf("else"), ss>>), Y)
    \/ Is1("With") /\ Build(Node("Match", <<X, List(<<tree>>)>>))
    \/ /\ height = 0
       /\ \/ \E a \in {"x", "\"s\""} : Build(Node("Import", <<Leaf(a)>>))
          \/ Build(Node("Include", <<Leaf("\"s\"")>>)) \/ Build(Node("ModuleDeclaration", <<Leaf("x")>>))
          \/ Build(Node("Using", <<Leaf("x")>>))
          \/ \E kind \in {"TypeDescriptor", "VariadicTypeArgs"} :
                Build(Node("TemplateDef", <<List(<<Node(kind, <<Leaf("x")>>)>>)>>))
          \/ Build(Node("TemplateDef", <<List(<<Node("TypeDescriptor", <<Leaf("x")>>), Node("TypeDescriptor", <<Leaf("y")>>)>>)>>))
    \/ Is1("Import") /\ Build(Node("MultiNode", <<Node("Using", <<tree>>)>>))
    \/ Is1("VariableDeclaration") /\ Build(Node("TemplateDef", <<List(<<Node("TemplateExpression", <<tree>>)>>)>>))

-----------------------------------------------------------------------------
\* What is written by hand: any text, or an expression.
Infix == Operators \cup {"."}
Fits(a, b) == CASE b \in Infix \cup {"as"} -> a = "x"
                [] b = "x"   -> a \in Infix \cup {"", "not"}
                [] b = "not" -> a \in Operators \cup {"", "not"}
                [] b = "int" -> a = "as"
                [] OTHER     -> FALSE
IsExpression(s) == \A i \in DOMAIN s : Fits(IF i = 1 THEN "" ELSE s[i - 1], s[i])
IsWhole(s)      == IsExpression(s) /\ s # <<>> /\ s[Len(s)] \in {"x", "int"}

write == /\ tree = X /\ height = 0
         /\ \E t \in Tokens \cup Infix \cup {"not", "as", "int"} :
               /\ \/ t \in Tokens /\ Len(text) < MaxTokens
                  \/ IsExpression(Append(text, t)) /\ Len(text) < MaxOperands
               /\ text' = Append(text, t)
         /\ UNCHANGED <<tree, height>>

Next == \/ createArithmetic \/ createAssignment \/ createComparison \/ createLogical \/ createAccess \/ createCall
        \/ createPrefix \/ createRef \/ createAs \/ createIdentifierWithInst \/ createInitializerList
        \/ createExprBlock \/ createArgList \/ createTemplateInst \/ createMacroUse \/ createDeclarator
        \/ createArrayDeclarator \/ createPointerDeclarator \/ createProcedureDeclarator
        \/ createVariableDeclaration \/ createAlias \/ createStruct \/ createEnum \/ createProcedure
        \/ createExternProcedure \/ createReturn \/ createExprBlockYield \/ createIf \/ createElse \/ createFor
        \/ createWhile \/ createDoWhile \/ parseToMultiNode \/ write

Spec == Init /\ [][Next]_vars

-----------------------------------------------------------------------------
(* What is written is read back.                                           *)
ReadAs(n) == CASE n[1] \in Declarators -> "Declarator"
               [] n[1] \in {"Else", "With", "ArgList", "TemplateInst", "TemplateDef"} -> n[1]
               [] OTHER -> "TopLevelNode"
Yields(r, n) == r.is = "node" /\ r.node = List(<<n>>)
ReadBack(n)  == Yields(ReadFrom(ReadAs(n), Dump(n), 1, <<>>), n)

RECURSIVE Parts(_)
Parts(n) == {n} \cup UNION {Parts(n[2][i]) : i \in DOMAIN n[2]}

\* What comes first and last of a node's text.
Front(n) == At(Dump(n), 1)
Back(n)  == Dump(n)[Len(Dump(n))]

\* A name, which before ":" is taken for the name of an argument.
IsName(n) == n[1] = "id" /\ n[2][1] = Nil /\ n[2][3] = Nil
AsName(n) == IsName(n) \/ (n[1] = "some" /\ IsName(n[2][1]))

Nodes(list) == {list[2][i] : i \in DOMAIN list[2]}

\* The forms whose text is not read as what it was written of: those for which
\* there is no text (~, the afterthoughts of a for, a using that imports, ...),
\* those of which something is not written (the base of a type, the arguments
\* of a template, ...), and those which are taken for something else.
Lost(n) ==
    LET k == n[2]
    IN  \/ n[1] \in {"~", "For", "ExternVar", "MultiNode", "TemplateExpression", "VariadicTypeArgs"}
        \/ n[1] = "InitializerList" /\ k[1] = Nil /\ (Len(k[2][2]) > 1 \/ Front(k[2][2][1]) \in Names \cup {"(", "<<"})
        \/ n[1] = "TemplateInst" /\ \/ \E e \in Nodes(k[1]) : e[1] \notin Declarators
                                    \/ Len(k[1][2]) = 1 /\ k[1][2][1][1] \notin {"Declarator", "_"}
        \/ n[1] = "Slice" /\ AsName(k[2])
        \/ n[1] = "With" /\ AsName(k[1])
        \/ n[1] = "Extern" /\ Leaf("...") \in Nodes(k[2])
        \/ n[1] = "Struct" /\ k[4] # Nil
        \/ n[1] = "Declarator" /\ k[2] # Nil
        \/ (IsBinary(n) \/ n[1] = "as") /\ k[1][1] = "some"
        \/ n[1] = "()" /\ k[1][1] = "ExprBlock"
        \/ n[1] = "ExprBlock" /\ \E i \in 2..Len(k[1][2]) :
              \/ Front(k[1][2][i]) = "(" /\ Back(k[1][2][i - 1]) # NewLine
              \/ Front(k[1][2][i]) \in Words /\ Back(k[1][2][i - 1]) \in Words
        \/ n[1] = "MacroUse" /\ \E e \in Nodes(k[2]) : e[1] \in Declarators /\ Front(e) = "("
        \/ n[1] \notin {"ArgList", "Tuple", "ProcedureDeclarator", "TemplateInst"} /\
           \E l \in {k[i] : i \in DOMAIN k} : l[1] = "list" /\ \E i \in 2..Len(l[2]) : Front(l[2][i]) \in {"[", "<"}

\* The text bjou_dump writes of a tree is read by the parser as the same tree,
\* but for the lost forms, and no other form is lost.
RoundTrip == tree # NoArguments => (ReadBack(tree) <=> \A n \in Parts(tree) : ~Lost(n))

-----------------------------------------------------------------------------
(* Expressions are grouped as the table of operators says.                 *)
\* The tree of an expression.  It is cut at the operator that binds least, the
\* last one if several do, the first one of assignments; then prefix operators
\* apply, then a cast, then accesses.
RECURSIVE Grouped(_)
Cut(s, p)  == Node(s[p], <<Grouped(SubSeq(s, 1, p - 1)), Grouped(SubSeq(s, p + 1, Len(s)))>>)
Grouped(s) ==
    LET weak  == {p \in DOMAIN s : s[p] \in Operators}
        least == {p \in weak : \A q \in weak : precedence(s[p]) <= precedence(s[q])}
        dots  == {p \in DOMAIN s : s[p] = "."}
    IN  CASE weak # {} -> Cut(s, CHOOSE p \in least : \A q \in least : IF s[p] \in Assignments THEN p <= q ELSE p >= q)
          [] weak = {} /\ Head(s) = "not" -> Node("not", <<Grouped(Tail(s))>>)
          [] weak = {} /\ s[Len(s)] = "int" -> Node("as", <<Grouped(SubSeq(s, 1, Len(s) - 2)), T>>)
          [] OTHER -> IF dots = {} THEN X ELSE Cut(s, CHOOSE p \in dots : \A q \in dots : p >= q)

\* A cast after an access that an operator precedes.
CastIsDropped(s) == /\ Len(s) > 4 /\ s[Len(s)] = "int" /\ s[Len(s) - 3] = "."
                    /\ \E i \in DOMAIN s : s[i] \in Operators \cup {"not"}

\* parseExpression's precedence climbing, with its two loops and its calls of
\* itself with one or another weakest operator, groups an expression as the
\* precedences and associativities of its operators demand, and takes all of it.
Grouping == IsWhole(text) /\ ~CastIsDropped(text) => Parse("Expression", text, 1) = Found(Grouped(text), Len(text) + 1)

-----------------------------------------------------------------------------
(* What is not parsed is left.                                             *)
ParseFunctions == DOMAIN Rules \cup DOMAIN Alternatives \cup {"Expression", "Operand", "Declarator", "BaseDeclarator"}

\* Texts of which something is eaten and given up nonetheless: an operator
\* without an operand, a call without arguments, a specifier without a type.
GivenUp(s) == \/ At(s, 1) \in PrefixOperators \cup {"externvar", "immut", "type"}
              \/ \E i \in 2..Len(s) : s[i] = "("
GaveBack(o) == o.is = "nothing" => Place(text, o.at) = Place(text, 1) \/ GivenUp(text)

\* A parse function that returns nothing has left the text as it was, for the
\* next one to be tried on it.  (Of the arguments of a call this is not said.)
NothingIsFree == \A r \in ParseFunctions \ {"ArgList"} : GaveBack(Parse(r, text, 1))
=============================================================================
