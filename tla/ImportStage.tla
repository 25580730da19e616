----------------------------- MODULE ImportStage -----------------------------
(***************************************************************************)
(* FrontEnd::ImportStage: importModules of Module.cpp finds, parses and    *)
(* registers every module a program imports, directly or through other     *)
(* modules.  The main thread pops imports from a deque, resolves the name  *)
(* to a file, peeks at the file's module declaration and, for an id that   *)
(* is new, starts a thread that parses the rest.  When enough parsers run  *)
(* or the deque is empty it joins them all and queues the imports they     *)
(* found.  With one hardware thread or --noparallel the main thread parses *)
(* each file on the spot.                                                  *)
(*                                                                         *)
(* A Module object is named by the file it was created for.  An import     *)
(* node is a pair <<file that contains it, index>>; the preloaded module   *)
(* __preload.bjou is one more import at the end of Main's list.            *)
(***************************************************************************)
EXTENDS Naturals, SequencesExt

CONSTANTS
    Files,        (* full paths of readable files                          *)
    Names,        (* names written in imports, of which the full paths are *)
                  (* some: the first search path is ""                     *)
    Ids,          (* module identifiers                                    *)
    Main,         (* the program given on the command line                 *)
    NoFile, NoId, (* no such file, no module declaration                   *)
    Resolve,      (* a name's file by module_search_paths, or NoFile       *)
    Programs      (* the inputs                                            *)

Containers == Files \cup {Main}

(* nthreaded = hardware_concurrency() - 1, or 0 with --noparallel; ct says *)
(* that the import is written inside \ct{...}; broken files have a syntax  *)
(* error after their module declaration.                                   *)
ImportItem == [name : Names, ct : BOOLEAN]

IsProgram(p) ==
    /\ p.nthreaded \in Nat
    /\ p.imports \in [Containers -> Seq(ImportItem)]
    /\ p.declares \in [Files -> Ids \cup {NoId}]
    /\ p.broken \in SUBSET Files

(* What an import node knows: the module (by its file), theModule = null,  *)
(* one of the two error flags, or nothing yet.                             *)
Failures == {"null", "fileError", "notModuleError"}

ASSUME ImportAssumption ==
    /\ Files \cap (Failures \cup {"unvisited"}) = {}
    /\ Files \subseteq Names
    /\ Main \notin Names /\ NoFile \notin Containers \cup Names /\ NoId \notin Ids
    /\ Resolve \in [Names -> Files \cup {NoFile}]
    /\ \A f \in Files : Resolve[f] = f
    /\ \A p \in Programs : IsProgram(p)

VARIABLES
    prog,       (* the program and the machine, fixed                      *)
    phase,      (* what the front end is doing                             *)
    imports,    (* the deque                                               *)
    filesSeen,  (* strings: names or paths                                 *)
    byID,       (* modulesImported and modulesByID                         *)
    byPath,     (* files with an entry in modulesByPath                    *)
    answer,     (* per import node: theModule, fileError, notModuleError   *)
    parsers,    (* parserContainer, by file                                *)
    parsed,     (* parsers whose thread has finished                       *)
    filled      (* modules whose nodes were handed over by Module::fill    *)

importVars == <<prog, phase, imports, filesSeen, byID, byPath, answer,
                parsers, parsed, filled>>

Parallel == prog.nthreaded > 0

NodesIn(p, c) == [i \in DOMAIN p.imports[c] |-> <<c, i>>]
NodesOf(c) == NodesIn(prog, c)
Nodes == UNION {{<<c, i>> : i \in DOMAIN prog.imports[c]} : c \in Containers}
Item(n) == prog.imports[n[1]][n[2]]
Name(n) == Item(n).name
FileOf(n) == Resolve[Name(n)]

(* The phases are "taking", "collecting" and "loaded" here, "symbols",     *)
(* "activated" and "analyzed" in the stages after it, "error" when one has *)
(* been reported and exit called, "crashed" after a failed assertion.      *)
ImportInit ==
    /\ prog \in Programs
    /\ phase = "taking"
    /\ imports = NodesOf(Main)
    /\ filesSeen = {}
    /\ byID = [id \in Ids |-> NoFile]
    /\ byPath = {}
    /\ answer = [n \in Nodes |-> "unvisited"]
    /\ parsers = <<>>
    /\ parsed = {}
    /\ filled = {}

-----------------------------------------------------------------------------
(* Taking an import from the deque. *)

(* Faulty: either limit alone stops the loop. *)
RoomIfBoth == Len(imports) < prog.nthreaded /\ Len(parsers) < prog.nthreaded

(* The condition of the inner loop; the sequential branch has none. *)
Room ==
    Parallel => Len(imports) < prog.nthreaded \/ Len(parsers) < prog.nthreaded

Take(n) ==
    /\ phase = "taking"
    /\ imports # <<>> /\ n = Head(imports)
    /\ Room
    /\ UNCHANGED prog

Answered(n, a) == answer' = [answer EXCEPT ![n] = a]

(* The parallel branch asks for the resolved path, the sequential one for  *)
(* the name as it is written, though both insert the path.                 *)
SeenAs(n) == IF Parallel THEN FileOf(n) ELSE Name(n)
Seen(n) == SeenAs(n) \in filesSeen

(* modulesByPath[fname] makes a null entry for a file without a module.    *)
TakeSeen(n) ==
    /\ Take(n)
    /\ Seen(n)
    /\ imports' = Tail(imports)
    /\ Answered(n, IF SeenAs(n) \in byPath THEN SeenAs(n) ELSE "null")
    /\ UNCHANGED <<phase, filesSeen, byID, byPath, parsers, parsed, filled>>

TakeUnreadable(n) ==
    /\ Take(n)
    /\ ~Seen(n) /\ FileOf(n) = NoFile
    /\ imports' = Tail(imports)
    /\ Answered(n, "fileError")
    /\ UNCHANGED <<phase, filesSeen, byID, byPath, parsers, parsed, filled>>

(* The peek reads up to the module declaration, or all of a file that has  *)
(* none.                                                                   *)
Peek(n) ==
    /\ Take(n)
    /\ ~Seen(n) /\ FileOf(n) # NoFile
    /\ filesSeen' = filesSeen \cup {FileOf(n)}
    /\ UNCHANGED parsed

DeclaredID(n) == prog.declares[FileOf(n)]

TakeNotModule(n) ==
    /\ Peek(n)
    /\ DeclaredID(n) = NoId
    /\ imports' = Tail(imports)
    /\ IF FileOf(n) \in prog.broken
       THEN phase' = "error" /\ UNCHANGED answer
       ELSE Answered(n, "notModuleError") /\ UNCHANGED phase
    /\ UNCHANGED <<byID, byPath, parsers, filled>>

(* Another file provides this id already.  The parallel branch deletes the *)
(* parser and then reads parser->mod_decl: it gets what was there, or      *)
(* crashes.                                                                *)
TakeKnownId(n) ==
    /\ Peek(n)
    /\ DeclaredID(n) # NoId /\ byID[DeclaredID(n)] # NoFile
    /\ imports' = Tail(imports)
    /\ \/ Answered(n, byID[DeclaredID(n)]) /\ UNCHANGED phase
       \/ Parallel /\ phase' = "crashed" /\ UNCHANGED answer
    /\ UNCHANGED <<byID, byPath, parsers, filled>>

Register(n) ==
    /\ byID' = [byID EXCEPT ![DeclaredID(n)] = FileOf(n)]
    /\ byPath' = byPath \cup {FileOf(n)}

(* The first file with this id.  A parallel import starts its parser, a    *)
(* sequential one parses the file to the end and queues what it imports.   *)
TakeNew(n) ==
    /\ Peek(n)
    /\ DeclaredID(n) # NoId /\ byID[DeclaredID(n)] = NoFile
    /\ \/ /\ Parallel
          /\ Register(n)
          /\ Answered(n, FileOf(n))
          /\ imports' = Tail(imports)
          /\ parsers' = Append(parsers, FileOf(n))
          /\ UNCHANGED <<phase, filled>>
       \/ /\ ~Parallel /\ FileOf(n) \notin prog.broken
          /\ Register(n)
          /\ Answered(n, FileOf(n))
          /\ imports' = Tail(imports) \o NodesOf(FileOf(n))
          /\ filled' = filled \cup {FileOf(n)}
          /\ UNCHANGED <<phase, parsers>>
       \/ /\ ~Parallel /\ FileOf(n) \in prog.broken
          /\ phase' = "error"
          /\ UNCHANGED <<imports, byID, byPath, answer, parsers, filled>>

-----------------------------------------------------------------------------
(* Parser threads, and the main thread joining them. *)

(* A parser thread parses the rest of its file; a syntax error there ends  *)
(* the process while other threads run.                                    *)
Parse(f) ==
    /\ phase \in {"taking", "collecting"}
    /\ f \in Range(parsers) \ parsed
    /\ IF f \in prog.broken
       THEN phase' = "error" /\ UNCHANGED parsed
       ELSE parsed' = parsed \cup {f} /\ UNCHANGED phase
    /\ UNCHANGED <<prog, imports, filesSeen, byID, byPath, answer, parsers, filled>>

(* Faulty: the main thread goes on when one parser has finished. *)
AnyParsed == parsed # {}

AllParsed == Range(parsers) \subseteq parsed

Join ==
    /\ phase = "taking"
    /\ parsers # <<>>
    /\ imports = <<>> \/ ~Room
    /\ AllParsed
    /\ phase' = "collecting"
    /\ UNCHANGED <<prog, imports, filesSeen, byID, byPath, answer, parsers,
                   parsed, filled>>

(* What a parser thread has found so far: here nothing or everything. *)
Found(f) == IF f \in parsed THEN NodesOf(f) ELSE <<>>

(* Faulty: the imports of a module are not queued. *)
CollectShallow ==
    /\ phase = "collecting"
    /\ filled' = filled \cup {Head(parsers)}
    /\ parsers' = Tail(parsers)
    /\ parsed' = parsed \ {Head(parsers)}
    /\ phase' = IF Len(parsers) = 1 THEN "taking" ELSE phase
    /\ UNCHANGED <<prog, imports, filesSeen, byID, byPath, answer>>

(* Collecting the parsers in the order they were started. *)
Collect ==
    /\ phase = "collecting"
    /\ imports' = imports \o Found(Head(parsers))
    /\ filled' = filled \cup {Head(parsers)}
    /\ parsers' = Tail(parsers)
    /\ parsed' = parsed \ {Head(parsers)}
    /\ phase' = IF Len(parsers) = 1 THEN "taking" ELSE phase
    /\ UNCHANGED <<prog, filesSeen, byID, byPath, answer>>

Finish ==
    /\ phase = "taking"
    /\ imports = <<>> /\ parsers = <<>>
    /\ phase' = "loaded"
    /\ UNCHANGED <<prog, imports, filesSeen, byID, byPath, answer, parsers,
                   parsed, filled>>

ImportNext ==
    \/ \E n \in Nodes :
          \/ TakeSeen(n)
          \/ TakeUnreadable(n)
          \/ TakeNotModule(n)
          \/ TakeKnownId(n)
          \/ TakeNew(n)
    \/ \E f \in Files : Parse(f)
    \/ Join
    \/ Collect
    \/ Finish

-----------------------------------------------------------------------------
(* Properties. *)

(* The threads change nothing: the deque with the imports the parsers will *)
(* find behind it is the queue of an importer that serves one import after *)
(* the other, so the same file provides an id on every machine.            *)
Pending == FlattenSeq([i \in DOMAIN parsers |-> NodesOf(parsers[i])])

Program ==
    [root      |-> NodesOf(Main),
     importsOf |-> [f \in Files |-> NodesOf(f)],
     fileOf    |-> [n \in Nodes |-> FileOf(n)],
     declares  |-> prog.declares]

ImportsInOrder == INSTANCE ImportOrder WITH
    program <- Program, queue <- imports \o Pending, provider <- byID
ImplementsOrder == ImportsInOrder!Spec

(* An import that is answered with a module got the one that provides the  *)
(* id its own file declares, and a stage that ends has answered every      *)
(* import of every module it loaded and filled each of them.               *)
AnswersAgree ==
    /\ \A n \in Nodes : answer[n] \in Files =>
          /\ DeclaredID(n) # NoId
          /\ answer[n] = byID[DeclaredID(n)]
    /\ phase = "loaded" =>
          /\ byPath = filled
          /\ \A n \in Nodes : answer[n] # "unvisited" <=> n[1] \in {Main} \cup filled
=============================================================================
