------------------------------ MODULE ParseStage ------------------------------
(***************************************************************************)
(* FrontEnd::ParseStage: the .bjou files of the command line are parsed in *)
(* batches of nthreaded AsyncParsers, one thread per file, and after each  *)
(* batch the nodes are appended to the program's AST.  With one file, one  *)
(* hardware thread or --noparallel, a Parser in the main thread appends    *)
(* to the AST itself.  The parser threads share one static variable,       *)
(* module_declared, which they read and write without a lock.              *)
(*                                                                         *)
(* A file is a name and the sequence of its top-level nodes, of which the  *)
(* kinds that matter are "module" declarations, "struct"s, "other" nodes   *)
(* and "bad" ones that are a syntax error.                                 *)
(***************************************************************************)
EXTENDS Naturals, SequencesExt

CONSTANTS
    Names,      (* file names                                              *)
    Unreadable, (* those that cannot be opened                             *)
    Sources,    (* the nodes a file can have                               *)
    Inputs      (* command lines: [nthreaded, files : Seq([name, nodes])]  *)

Kinds == {"module", "struct", "other", "bad"}

ASSUME ParseAssumption ==
    /\ Unreadable \subseteq Names
    /\ Sources \subseteq Seq(Kinds)
    /\ \A p \in Inputs : /\ p.nthreaded \in Nat
                         /\ p.files \in Seq([name : Names, nodes : Sources])

VARIABLES
    prog,      (* the command line, fixed                                  *)
    phase,     (* of the main thread                                       *)
    batch,     (* the batch being parsed, counted from 0                   *)
    next,      (* the file the main thread opens next                      *)
    container, (* parserContainer: the files that have a parser            *)
    at,        (* per file, how many nodes its parser has parsed           *)
    checked,   (* files whose parser is between moduleCheck and the        *)
               (* assignment to module_declared                            *)
    declared,  (* module_declared is not null                              *)
    ast,       (* FrontEnd::AST, as pairs <<file, node>>                   *)
    structs    (* FrontEnd::structs                                        *)

vars == <<prog, phase, batch, next, container, at, checked, declared, ast, structs>>

Length == Len(prog.files)
FileIDs == 1..Length
Source(f) == prog.files[f].nodes
NodesOf(f) == [i \in DOMAIN Source(f) |-> <<f, i>>]
Kind(n) == Source(n[1])[n[2]]
IsStruct(n) == Kind(n) = "struct"

(* The structs among some nodes, which each parser lists as it meets them.  *)
StructsOf(nodes) ==
    LET upto[i \in 0..Len(nodes)] ==
            IF i = 0 THEN <<>>
            ELSE IF IsStruct(nodes[i]) THEN Append(upto[i - 1], nodes[i])
                                       ELSE upto[i - 1]
    IN upto[Len(nodes)]

Threaded == Length > 1 /\ prog.nthreaded > 0

Init ==
    /\ prog \in Inputs
    /\ phase = "starting"
    /\ batch = 0 /\ next = 1
    /\ container = <<>>
    /\ at = [f \in FileIDs |-> 0]
    /\ checked = {} /\ declared = FALSE
    /\ ast = <<>> /\ structs = <<>>

-----------------------------------------------------------------------------
(* The batches: nfiles / nthreaded full ones, then the remaining files. *)

FullBatches == Length \div prog.nthreaded

(* The last file of the batch. *)
BatchEnd ==
    IF batch < FullBatches THEN (batch + 1) * prog.nthreaded ELSE Length

Running(f) == f \in Range(container) /\ at[f] < Len(Source(f))

(* futureTimes is keyed by file name.  When a name is given twice, storing *)
(* the second future destroys the first, which waits for its thread.       *)
StoringFuture ==
    \E i, j \in DOMAIN container :
        /\ i < j
        /\ prog.files[container[i]].name = prog.files[container[j]].name
        /\ Running(container[i])

StartParser ==
    /\ phase = "starting"
    /\ Threaded
    /\ next <= BatchEnd
    /\ ~StoringFuture
    /\ IF prog.files[next].name \in Unreadable
       THEN phase' = "error" /\ UNCHANGED <<container, next>>
       ELSE container' = Append(container, next) /\ next' = next + 1 /\ UNCHANGED phase
    /\ UNCHANGED <<prog, batch, at, checked, declared, ast, structs>>

(* Faulty: the main thread does not wait for the threads. *)
NotWaiting == TRUE

Joined == \A f \in Range(container) : ~Running(f)

(* What the parsers of the container have found, in the container's order. *)
Found == FlattenSeq([i \in DOMAIN container |->
                        SubSeq(NodesOf(container[i]), 1, at[container[i]])])

(* Faulty: parserContainer is not cleared. *)
Kept == container

Cleared == <<>>

(* After the full batches one more for the remaining files, maybe none. *)
Collect ==
    /\ phase = "starting"
    /\ Threaded
    /\ next > BatchEnd
    /\ Joined
    /\ ast' = ast \o Found
    /\ structs' = structs \o StructsOf(Found)
    /\ container' = Cleared
    /\ batch' = batch + 1
    /\ phase' = IF batch = FullBatches THEN "parsed" ELSE phase
    /\ UNCHANGED <<prog, next, at, checked, declared>>

-----------------------------------------------------------------------------
(* An AsyncParser's thread: one top-level node after the other. *)

Parsing(f) ==
    /\ phase = "starting"
    /\ Running(f)
    /\ UNCHANGED <<prog, batch, next, container, ast, structs>>

NextKind(f) == Source(f)[at[f] + 1]

ParseNode(f) ==
    /\ Parsing(f)
    /\ NextKind(f) \in {"struct", "other"}
    /\ at' = [at EXCEPT ![f] = @ + 1]
    /\ UNCHANGED <<phase, checked, declared>>

SyntaxError(f) ==
    /\ Parsing(f)
    /\ NextKind(f) = "bad"
    /\ phase' = "error"
    /\ UNCHANGED <<at, checked, declared>>

(* Faulty: only the position of the declaration is checked. *)
MayDeclareFirst(nodes) == nodes = 0

(* moduleCheck, for a parser that has so many nodes already. *)
MayDeclare(nodes) == ~declared /\ nodes = 0

ModuleCheck(f) ==
    /\ Parsing(f)
    /\ NextKind(f) = "module" /\ f \notin checked
    /\ IF MayDeclare(at[f])
       THEN checked' = checked \cup {f} /\ UNCHANGED phase
       ELSE phase' = "error" /\ UNCHANGED checked
    /\ UNCHANGED <<at, declared>>

ModuleDeclare(f) ==
    /\ Parsing(f)
    /\ f \in checked
    /\ checked' = checked \ {f}
    /\ declared' = TRUE
    /\ at' = [at EXCEPT ![f] = @ + 1]
    /\ UNCHANGED phase

-----------------------------------------------------------------------------
(* Parser::parseCommon in the main thread: a file's next node goes straight *)
(* to the AST, and a module declaration must be the first node of all.     *)

Alone(f) ==
    /\ phase = "starting"
    /\ ~Threaded
    /\ f = next
    /\ UNCHANGED <<prog, batch, container, checked>>

ParseAlone(f) ==
    /\ Alone(f)
    /\ prog.files[f].name \notin Unreadable /\ at[f] < Len(Source(f))
    /\ NextKind(f) # "bad"
    /\ NextKind(f) = "module" => MayDeclare(Len(ast))
    /\ at' = [at EXCEPT ![f] = @ + 1]
    /\ ast' = Append(ast, <<f, at[f] + 1>>)
    /\ structs' = IF NextKind(f) = "struct" THEN Append(structs, <<f, at[f] + 1>>)
                                            ELSE structs
    /\ declared' = (declared \/ NextKind(f) = "module")
    /\ UNCHANGED <<phase, next>>

FailAlone(f) ==
    /\ Alone(f)
    /\ \/ prog.files[f].name \in Unreadable
       \/ /\ at[f] < Len(Source(f))
          /\ \/ NextKind(f) = "bad"
             \/ NextKind(f) = "module" /\ ~MayDeclare(Len(ast))
    /\ phase' = "error"
    /\ UNCHANGED <<next, at, declared, ast, structs>>

FileAlone(f) ==
    /\ Alone(f)
    /\ prog.files[f].name \notin Unreadable /\ at[f] = Len(Source(f))
    /\ next' = next + 1
    /\ phase' = IF f = Length THEN "parsed" ELSE phase
    /\ UNCHANGED <<at, declared, ast, structs>>

NoFiles ==
    /\ phase = "starting"
    /\ Length = 0
    /\ phase' = "parsed"
    /\ UNCHANGED <<prog, batch, next, container, at, checked, declared, ast, structs>>

(* The stage is over.  Without this step TLC would report the end as a     *)
(* deadlock; with it, it finds that nothing else ever stops.               *)
Over == phase \in {"parsed", "error"} /\ UNCHANGED vars

Next ==
    \/ StartParser
    \/ Collect
    \/ \E f \in FileIDs :
          \/ ParseNode(f) \/ SyntaxError(f) \/ ModuleCheck(f) \/ ModuleDeclare(f)
          \/ ParseAlone(f) \/ FailAlone(f) \/ FileAlone(f)
    \/ NoFiles
    \/ Over

Spec == Init /\ [][Next]_vars

-----------------------------------------------------------------------------
(* Properties. *)

AllNodes == FlattenSeq([f \in FileIDs |-> NodesOf(f)])

(* Threads do not change what is compiled: the AST grows by the files'     *)
(* nodes in the order of the command line, structs is the list of structs  *)
(* in it, and a stage that ends without an error has every node.           *)
InOrder ==
    /\ IsPrefix(ast, AllNodes)
    /\ structs = StructsOf(ast)
    /\ phase = "parsed" => ast = AllNodes

(* parserContainer never holds more parsers than were reserved, so no      *)
(* push_back moves a parser a thread is running on.                        *)
StableParsers == Len(container) <= prog.nthreaded

(* Declarations of a module: nodes of that kind in the AST. *)
Declarations == {n \in Range(ast) : Kind(n) = "module"}

(* An accepted program declares a module at the beginning of a file only,  *)
(* and twice only where the two parsers ran in the same batch and raced    *)
(* for module_declared.                                                    *)
ModulesChecked ==
    phase = "parsed" =>
        \A m, n \in Declarations :
            /\ m[2] = 1
            /\ m # n => /\ Threaded
                        /\ (m[1] - 1) \div prog.nthreaded
                               = (n[1] - 1) \div prog.nthreaded
=============================================================================
