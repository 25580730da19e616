-------------------------------- MODULE Dump --------------------------------
(***************************************************************************)
(* The text bjou_dump (src/src/CompilerAPI.cpp) writes of a tree: the dump *)
(* functions of the nodes (src/src/ASTNode.cpp).  A front end that builds  *)
(* trees through the compiler's C interface, as c2bjou does for C, leaves  *)
(* its results in files this way, which are then read by the parser.       *)
(*                                                                         *)
(* Indentation is left out: no parse function looks at it.                 *)
(***************************************************************************)
EXTENDS Parser

IsBinary(n) == n[1] \in BinaryOperators /\ Len(n[2]) = 2
Unaries     == {"new", "delete", "sizeof", "not", "bneg", "@", "&", "~"}

\* Two words with nothing between them are one.
Words == Names \cup TypeNames \cup
         {"true", "nothing", "some", "new", "const", "return", "if", "for", "foreach", "while", "do", "match", "print",
          "using", "import", "break", "continue"}
Join(a, b) == IF a # <<>> /\ a[Len(a)] \in Words /\ b[1] \in Words THEN a \o Tail(b) ELSE a \o b

RECURSIVE Dump(_), Lines(_), Separate(_, _), Glue(_, _)

\* The nodes right after one another.
Glue(nodes, written) == IF nodes = <<>> THEN written ELSE Glue(Tail(nodes), Join(written, Dump(Head(nodes))))

\* The nodes, each on a line of its own.
Lines(nodes) == IF nodes = <<>> THEN <<>> ELSE Dump(Head(nodes)) \o <<NewLine>> \o Lines(Tail(nodes))

\* The nodes with a separator between them.
Separate(nodes, sep) ==
    CASE nodes = <<>>    -> <<>>
      [] Len(nodes) = 1  -> Dump(nodes[1])
      [] OTHER           -> Dump(nodes[1]) \o sep \o Separate(Tail(nodes), sep)

Given(prefix, n) == IF n = Nil THEN <<>> ELSE prefix \o Dump(n)
Present(n)       == IF n = Nil THEN <<>> ELSE <<n[1]>>
Braces(list)     == <<"{", NewLine>> \o Lines(list[2]) \o <<"}">>

(* Expressions.                                                            *)
DumpBinary(op, k)    == <<"(">> \o Dump(k[1]) \o <<op>> \o Dump(k[2]) \o <<")">>
DumpUnary(op, k)     == <<"(", op>> \o Dump(k[1]) \o <<")">>
DumpSubscript(k)     == <<"(">> \o Dump(k[1]) \o <<"[">> \o Dump(k[2]) \o <<"]", ")">>
DumpCall(k)          == <<"(">> \o Dump(k[1]) \o <<"(">> \o Dump(k[2]) \o <<")", ")">>
DumpIdentifier(k)    == (IF k[1] = Nil THEN <<>> ELSE <<k[1][1], "::">>) \o <<k[2][1]>> \o Given(<<>>, k[3])
DumpMember(k)        == <<".", k[1][1], "=">> \o Dump(k[2])
\* The elements of an array follow one another without commas.
DumpInitializerList(k) == <<"{">> \o (IF k[1] = Nil THEN Separate(k[2][2], <<>>)
                                      ELSE Dump(k[1]) \o <<":">> \o Separate(k[2][2], <<",">>)) \o <<"}">>
DumpSlice(k)         == <<"[">> \o Dump(k[1]) \o <<",">> \o Dump(k[2]) \o <<":">> \o Dump(k[3]) \o <<"]">>
DumpDynamicArray(k)  == <<"[", "...">> \o Dump(k[1]) \o <<"]">>
DumpLen(k)           == <<"|">> \o Dump(k[1]) \o <<"|">>
DumpTuple(k)         == <<"(">> \o Separate(<<k[1]>> \o k[2][2], <<",">>) \o <<")">>
DumpExprBlock(k)     == <<"<<", NewLine>> \o Glue(k[1][2], <<>>) \o <<">>", NewLine>>
DumpSome(k)          == <<"some">> \o Dump(k[1])
DumpProcLiteral(k)   == <<"(">> \o Dump(k[1]) \o <<")">>
DumpNamedArg(k)      == <<k[1][1], ":">> \o Dump(k[2])
DumpArgList(k)       == Separate(k[1][2], <<",">>)

(* Declarators.  Of a named one the template arguments are not written.    *)
DumpDeclarator(k)         == Dump(k[1])
DumpArrayDeclarator(k)    == Dump(k[1]) \o <<"[">> \o Dump(k[2]) \o <<"]">>
DumpSliceDeclarator(k)    == Dump(k[1]) \o <<"[", "]">>
DumpDynamicArrayDeclarator(k) == Dump(k[1]) \o <<"[", "...", "]">>
DumpPointerDeclarator(k)  == Dump(k[1]) \o <<"*">>
DumpRefDeclarator(k)      == Dump(k[1]) \o <<"ref">>
DumpMaybeDeclarator(k)    == Dump(k[1]) \o <<"?">>
DumpSumDeclarator(k)      == <<"(">> \o Separate(k, <<"|">>) \o <<")">>
DumpTupleDeclarator(k)    == <<"(">> \o Separate(k, <<",">>) \o <<")">>
DumpProcedureDeclarator(k) == <<"<", "(">> \o Separate(k[1][2], <<",">>) \o <<")", ":">> \o Dump(k[2]) \o <<">">>

(* Declarations.                                                           *)
Initialized(k) == IF k[2] = Nil THEN <<":", "=">> \o Dump(k[3])
                  ELSE <<":">> \o Dump(k[2]) \o Given(<<"=">>, k[3])
DumpConstant(k)    == <<"const", k[1][1]>> \o Initialized(k)
DumpVariableDeclaration(k) == <<k[1][1]>> \o Initialized(k)
DumpAlias(k)       == <<"type", k[2][1], "=">> \o Dump(k[4])
\* The base is written without "extends".
DumpStruct(k)      == Present(k[1]) \o <<"type", k[2][1]>> \o Given(<<>>, k[3]) \o Given(<<>>, k[4])
                      \o <<"{", NewLine>> \o Lines(k[5][2]) \o Lines(k[6][2]) \o Lines(k[7][2]) \o Lines(k[8][2])
                      \o <<"}">>
DumpEnum(k)        == <<"enum", k[1][1], "{", NewLine>> \o Separate(k[2][2], <<",", NewLine>>) \o <<NewLine, "}", NewLine>>
\* What was said between "proc" and the name is not written.
DumpProcedure(k)   == <<"proc">> \o Present(k[3]) \o Given(<<>>, k[4]) \o <<"(">> \o Separate(k[5][2], <<",">>)
                      \o <<")", ":">> \o Dump(k[6]) \o Braces(k[7])
\* A last "..." is not a parameter, and is not written.
DumpExtern(k)      == <<"extern", k[1][1], "(">>
                      \o Separate(SelectSeq(k[2][2], LAMBDA n : n # Leaf("...")), <<",">>) \o <<")", ":">> \o Dump(k[3])
DumpImport(k)      == <<"import", k[1][1], NewLine>>
DumpInclude(k)     == <<"include", k[1][1], NewLine>>
DumpUsing(k)       == <<"using">> \o Dump(k[1]) \o <<NewLine>>
DumpModuleDeclaration(k) == <<"module", k[1][1]>>
\* Of an element that is a declaration the name was never set.
DumpTemplateElement(n) == IF n[1] = "TemplateExpression" THEN <<>> ELSE <<n[2][1][1]>>
DumpTemplateDef(k) == IF Len(k[1][2]) = 1 THEN <<"$">> \o DumpTemplateElement(k[1][2][1])
                      ELSE <<"$", "(">> \o Separate(k[1][2], <<",">>) \o <<")">>
DumpTemplateInst(k) == IF Len(k[1][2]) = 1 THEN <<"$">> \o Dump(k[1][2][1])
                       ELSE <<"$", "(">> \o Separate(k[1][2], <<",">>) \o <<")">>

(* Statements.                                                             *)
DumpPrint(k)   == <<"print">> \o Dump(k[1]) \o <<NewLine>>
DumpReturn(k)  == <<"return">> \o Given(<<>>, k[1]) \o <<NewLine>>
DumpIf(k)      == <<"if">> \o Dump(k[1]) \o Braces(k[2]) \o Given(<<>>, k[3])
DumpElse(k)    == <<"else">> \o Braces(k[1]) \o <<NewLine>>
\* The afterthoughts end with a ";", too.
Clause(list)   == IF list[2] = <<>> THEN <<>> ELSE Separate(list[2], <<",">>) \o <<";">>
DumpFor(k)     == <<"for">> \o Clause(k[1]) \o Dump(k[2]) \o <<";">> \o Clause(k[3]) \o Braces(k[4]) \o <<NewLine>>
DumpForeach(k) == <<"foreach">> \o Present(k[1]) \o <<k[2][1], "in">> \o Dump(k[3]) \o Braces(k[4]) \o <<NewLine>>
DumpWhile(k)   == <<"while">> \o Dump(k[1]) \o Braces(k[2]) \o <<NewLine>>
\* As it would be without the ends of lines between the statements.
DumpDoWhileInOneLine(k) == <<"do", "{">> \o Glue(k[1][2], <<>>) \o <<"}", "while">> \o Dump(k[2]) \o <<NewLine>>
DumpDoWhile(k) == <<"do">> \o Braces(k[1]) \o <<"while">> \o Dump(k[2]) \o <<NewLine>>
DumpMatch(k)   == <<"match">> \o Dump(k[1]) \o Braces(k[2]) \o <<NewLine>>
DumpWith(k)    == <<"with">> \o Dump(k[1]) \o <<":">> \o Braces(k[2]) \o <<NewLine>>
DumpYield(k)   == <<"<-">> \o Dump(k[1]) \o <<NewLine>>
DumpMacroUse(k) == <<"\\", k[1][1]>> \o Braces(k[2]) \o <<NewLine>>

Dump(n) ==
    CASE IsBinary(n) /\ n[1] \notin {"()", "[]"} -> DumpBinary(n[1], n[2])
      [] n[1] \in Unaries                 -> DumpUnary(n[1], n[2])
      [] n[1] = "as"                      -> DumpBinary("as", n[2])
      [] n[1] = "[]"                      -> DumpSubscript(n[2])
      [] n[1] = "()"                      -> DumpCall(n[2])
      [] n[1] = "id"                      -> DumpIdentifier(n[2])
      [] n[1] = "Member"                  -> DumpMember(n[2])
      [] n[1] = "InitializerList"         -> DumpInitializerList(n[2])
      [] n[1] = "Slice"                   -> DumpSlice(n[2])
      [] n[1] = "DynamicArray"            -> DumpDynamicArray(n[2])
      [] n[1] = "Len"                     -> DumpLen(n[2])
      [] n[1] = "Tuple"                   -> DumpTuple(n[2])
      [] n[1] = "ExprBlock"               -> DumpExprBlock(n[2])
      [] n[1] = "some"                    -> DumpSome(n[2])
      [] n[1] \in {"ProcLiteral", "ExternLiteral"} -> DumpProcLiteral(n[2])
      [] n[1] = "NamedArg"                -> DumpNamedArg(n[2])
      [] n[1] = "ArgList"                 -> DumpArgList(n[2])
      [] n[1] = "Declarator"              -> DumpDeclarator(n[2])
      [] n[1] = "ArrayDeclarator"         -> DumpArrayDeclarator(n[2])
      [] n[1] = "SliceDeclarator"         -> DumpSliceDeclarator(n[2])
      [] n[1] = "DynamicArrayDeclarator"  -> DumpDynamicArrayDeclarator(n[2])
      [] n[1] = "PointerDeclarator"       -> DumpPointerDeclarator(n[2])
      [] n[1] = "RefDeclarator"           -> DumpRefDeclarator(n[2])
      [] n[1] = "MaybeDeclarator"         -> DumpMaybeDeclarator(n[2])
      [] n[1] = "SumDeclarator"           -> DumpSumDeclarator(n[2])
      [] n[1] = "TupleDeclarator"         -> DumpTupleDeclarator(n[2])
      [] n[1] = "ProcedureDeclarator"     -> DumpProcedureDeclarator(n[2])
      [] n[1] = "Constant"                -> DumpConstant(n[2])
      [] n[1] = "VariableDeclaration"     -> DumpVariableDeclaration(n[2])
      [] n[1] = "ExternVar"               -> Dump(n[2][1])
      [] n[1] = "Alias"                   -> DumpAlias(n[2])
      [] n[1] = "Struct"                  -> DumpStruct(n[2])
      [] n[1] = "Enum"                    -> DumpEnum(n[2])
      [] n[1] = "Procedure"               -> DumpProcedure(n[2])
      [] n[1] = "Extern"                  -> DumpExtern(n[2])
      [] n[1] = "Import"                  -> DumpImport(n[2])
      [] n[1] = "Include"                 -> DumpInclude(n[2])
      [] n[1] = "MultiNode"               -> Dump(n[2][1][2][1]) \o Dump(n[2][1])
      [] n[1] = "Using"                   -> DumpUsing(n[2])
      [] n[1] = "ModuleDeclaration"       -> DumpModuleDeclaration(n[2])
      [] n[1] \in {"TypeDescriptor", "TemplateExpression", "VariadicTypeArgs"} -> DumpTemplateElement(n)
      [] n[1] = "TemplateDef"             -> DumpTemplateDef(n[2])
      [] n[1] = "TemplateInst"            -> DumpTemplateInst(n[2])
      [] n[1] = "Print"                   -> DumpPrint(n[2])
      [] n[1] = "Return"                  -> DumpReturn(n[2])
      [] n[1] = "If"                      -> DumpIf(n[2])
      [] n[1] = "Else"                    -> DumpElse(n[2])
      [] n[1] = "For"                     -> DumpFor(n[2])
      [] n[1] = "Foreach"                 -> DumpForeach(n[2])
      [] n[1] = "While"                   -> DumpWhile(n[2])
      [] n[1] = "DoWhile"                 -> DumpDoWhile(n[2])
      [] n[1] = "Match"                   -> DumpMatch(n[2])
      [] n[1] = "With"                    -> DumpWith(n[2])
      [] n[1] = "Yield"                   -> DumpYield(n[2])
      [] n[1] = "MacroUse"                -> DumpMacroUse(n[2])
      [] n[1] \in {"break", "continue"}   -> <<n[1], NewLine>>
      [] OTHER                            -> <<n[1]>>
=============================================================================
