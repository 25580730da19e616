---------------------------- MODULE MCCompilerAPI ----------------------------
(***************************************************************************)
(* Instance of CompilerAPI for model checking.                             *)
(***************************************************************************)
EXTENDS CompilerAPI

MCNames     == {"x", "y", "z"}
MCTypeNames == {"int", "void"}
MCStrings   == {"\"s\""}
MCLiterals  == {"1"}
MCOperators == {"=", "-", "*", "<", "and"}
MCTokens    == {"x", "1", "int", "(", ")", "{", "}", "[", "]", ":", "=", ",", "|", "<", "not", "as", "new", "const", "type",
                "externvar", "proc", "return", "immut", "$", "\\", "\n"}
=============================================================================
