----------------------------- MODULE MCParseStage -----------------------------
(* Instances of ParseStage for TLC. *)
EXTENDS ParseStage

CONSTANTS a, b, gone  (* file names *)

AllSources == {<<"other", "struct">>, <<"module", "struct">>, <<"module">>,
               <<"struct", "module">>, <<"bad">>, <<>>}

(* Up to four files of the shorter kinds and up to two of any; the same    *)
(* name may be given twice.                                                *)
Readable == [name : {a, b}, nodes : AllSources]
Short == [name : {a, b}, nodes : {<<"module">>, <<"struct", "other">>}]
Missing == [name |-> gone, nodes |-> <<>>]

CommandLines ==
    (UNION {[1..k -> Readable \cup {Missing}] : k \in 0..2})
    \cup (UNION {[1..k -> Short] : k \in 3..5})

MCSources == AllSources \cup {<<"struct", "other">>}

AllInputs == [nthreaded : 0..3, files : CommandLines]
=============================================================================
