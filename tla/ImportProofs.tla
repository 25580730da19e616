----------------------------- MODULE ImportProofs -----------------------------
(***************************************************************************)
(* For every program and every number of threads: ImportStage serves the   *)
(* imports in the order an importer without threads would (ImportOrder),   *)
(* and the answer every import gets is the module that provides the id its *)
(* file declares.                                                          *)
(*                                                                         *)
(* The argument: the deque holds, each once, the imports not answered of   *)
(* the modules filled so far, and the parsers are of the modules that have *)
(* been registered and not filled.                                         *)
(*                                                                         *)
(* The second part is about the activation of modules.                     *)
(***************************************************************************)
EXTENDS ModuleActivation, TLAPS, SequenceFacts

-----------------------------------------------------------------------------
(* The inductive invariant. *)

Phases == {"taking", "collecting", "loaded", "symbols", "activated", "analyzed",
           "error", "crashed"}

ImportTypeOK ==
    /\ prog \in Programs
    /\ phase \in Phases
    /\ imports \in Seq(Nodes)
    /\ filesSeen \subseteq Files
    /\ byID \in [Ids -> Files \cup {NoFile}]
    /\ byPath \subseteq Files
    /\ answer \in [Nodes -> Files \cup Failures \cup {"unvisited"}]
    /\ parsers \in Seq(Files)
    /\ parsed \subseteq Files
    /\ filled \subseteq Files

(* Who provides an id declares it, and a file that was seen and declares   *)
(* one found it provided or provides it itself.                            *)
Providers ==
    /\ \A f \in Files : f \in byPath <=>
          prog.declares[f] # NoId /\ byID[prog.declares[f]] = f
    /\ \A id \in Ids : byID[id] # NoFile => prog.declares[byID[id]] = id
    /\ phase # "error" => \A f \in filesSeen :
          prog.declares[f] # NoId => byID[prog.declares[f]] # NoFile

Answers ==
    \A n \in Nodes : answer[n] \in Files =>
       /\ FileOf(n) # NoFile /\ DeclaredID(n) # NoId
       /\ answer[n] = byID[DeclaredID(n)]

(* The deque has the imports not answered yet of what was filled, each of  *)
(* them once, and a module is filled or has a parser.                      *)
Known == {Main} \cup filled

Queue ==
    phase \notin {"error", "crashed"} =>
        /\ Distinct(imports) /\ Distinct(parsers)
        /\ \A n \in Nodes : n \in Range(imports) <=>
              n[1] \in Known /\ answer[n] = "unvisited"
        /\ \A n \in Nodes : answer[n] # "unvisited" => n[1] \in Known
        /\ byPath = filled \cup Range(parsers)
        /\ filled \cap Range(parsers) = {}

Stages ==
    /\ phase = "collecting" => parsers # <<>> /\ Range(parsers) \subseteq parsed
    /\ phase \in {"loaded", "symbols", "activated", "analyzed"} =>
          imports = <<>> /\ parsers = <<>>
    /\ ~Parallel => parsers = <<>>

IInv == ImportTypeOK /\ Providers /\ Answers /\ Queue /\ Stages

(* What is fixed with the program. *)
LEMMA Fixed ==
    ASSUME prog' = prog
    PROVE  /\ Nodes' = Nodes /\ Parallel' = Parallel
           /\ \A n : /\ Item(n)' = Item(n) /\ Name(n)' = Name(n) /\ FileOf(n)' = FileOf(n)
                     /\ DeclaredID(n)' = DeclaredID(n)
           /\ \A c : NodesOf(c)' = NodesOf(c)
BY DEF Nodes, Parallel, Item, Name, FileOf, DeclaredID, NodesOf, NodesIn

(* The steps of the stages behind leave all but the phase alone. *)
LEMMA StageFacts ==
    ASSUME StageNext
    PROVE  /\ UNCHANGED <<prog, imports, filesSeen, byID, byPath, answer, parsers,
                          parsed, filled>>
           /\ phase \in {"loaded", "symbols", "activated"}
           /\ phase' \in {"symbols", "activated", "analyzed", "error", "crashed"}
<1>1. CASE StartSymbols
  BY <1>1 DEF StartSymbols
<1>2. ASSUME NEW n, VisitFailed(n) \/ Activate(n) \/ Reactivate(n)
      PROVE  /\ UNCHANGED <<prog, imports, filesSeen, byID, byPath, answer, parsers,
                            parsed, filled>>
             /\ phase = "symbols"
             /\ phase' \in {"symbols", "error", "crashed"}
  BY <1>2 DEF VisitFailed, Activate, Reactivate, Visiting
<1>3. CASE Return
  BY <1>3 DEF Return
<1>4. CASE Analyze
  BY <1>4 DEF Analyze
<1> QED BY <1>1, <1>2, <1>3, <1>4 DEF StageNext

(* The program is fixed. *)
LEMMA FixedByNext == [Next]_vars => prog' = prog
<1>1. ImportNext => prog' = prog
  BY DEF ImportNext, TakeSeen, TakeUnreadable, TakeNotModule, TakeKnownId, TakeNew, Peek,
         Take, Parse, Join, Collect, Finish
<1>2. StageNext => prog' = prog
  BY StageFacts
<1>3. UNCHANGED vars => prog' = prog
  BY DEF vars, importVars
<1> QED BY <1>1, <1>2, <1>3 DEF Next

(* What a program's nodes are. *)
LEMMA NodeFacts ==
    ASSUME prog \in Programs
    PROVE  /\ \A n \in Nodes : /\ n[1] \in Containers /\ FileOf(n) \in Files \cup {NoFile}
                               /\ Name(n) \in Names
                               /\ Name(n) \in Files => FileOf(n) = Name(n)
           /\ \A c \in Containers : /\ NodesOf(c) \in Seq(Nodes) /\ Distinct(NodesOf(c))
                                    /\ \A n \in Nodes : n \in Range(NodesOf(c)) <=> n[1] = c
           /\ \A f \in Files : prog.declares[f] \in Ids \cup {NoId}
           /\ NoFile \notin Files /\ Main \notin Files
           /\ prog.nthreaded \in Nat
<1>1. /\ prog.nthreaded \in Nat
      /\ prog.imports \in [Containers -> Seq(ImportItem)]
      /\ prog.declares \in [Files -> Ids \cup {NoId}]
  BY ImportAssumption DEF IsProgram
<1>2. /\ NoFile \notin Files /\ Main \notin Files
      /\ Resolve \in [Names -> Files \cup {NoFile}]
      /\ \A f \in Files : Resolve[f] = f
  BY ImportAssumption DEF Containers
<1>3. ASSUME NEW n \in Nodes
      PROVE  /\ n[1] \in Containers /\ FileOf(n) \in Files \cup {NoFile}
             /\ Name(n) \in Names
             /\ Name(n) \in Files => FileOf(n) = Name(n)
  <2>1. PICK c \in Containers : n \in {<<c, i>> : i \in DOMAIN prog.imports[c]}
    BY DEF Nodes
  <2>2. PICK i \in DOMAIN prog.imports[c] : n = <<c, i>>
    BY <2>1
  <2>3. n[1] = c /\ n[2] = i /\ prog.imports[c] \in Seq(ImportItem)
    BY <1>1, <2>2
  <2>4. prog.imports[c][i] \in ImportItem
    BY <2>2, <2>3
  <2>5. Item(n) \in ImportItem
    BY <2>3, <2>4 DEF Item
  <2>6. Name(n) \in Names
    BY <2>5 DEF Name, ImportItem
  <2> QED BY <1>2, <2>3, <2>6 DEF FileOf
<1>4. ASSUME NEW c \in Containers
      PROVE  /\ NodesOf(c) \in Seq(Nodes) /\ Distinct(NodesOf(c))
             /\ \A n \in Nodes : n \in Range(NodesOf(c)) <=> n[1] = c
  <2> DEFINE s == prog.imports[c]
  <2>1. s \in Seq(ImportItem) /\ Len(s) \in Nat /\ DOMAIN s = 1..Len(s)
    BY <1>1
  <2>2. NodesOf(c) = [i \in 1..Len(s) |-> <<c, i>>]
    BY <2>1 DEF NodesOf, NodesIn
  <2>3. \A i \in 1..Len(s) : <<c, i>> \in Nodes
    BY <2>1 DEF Nodes
  <2>4. ASSUME NEW n \in Nodes, n[1] = c
        PROVE  n \in Range(NodesOf(c))
    <3>1. PICK d \in Containers : n \in {<<d, i>> : i \in DOMAIN prog.imports[d]}
      BY DEF Nodes
    <3>2. PICK i \in DOMAIN prog.imports[d] : n = <<d, i>>
      BY <3>1
    <3>3. d = c /\ i \in 1..Len(s)
      BY <2>1, <2>4, <3>2
    <3> QED BY <2>2, <3>2, <3>3 DEF Range
  <2>5. \A n \in Range(NodesOf(c)) : n[1] = c
    BY <2>2 DEF Range
  <2>6. NodesOf(c) \in Seq(Nodes) /\ Len(NodesOf(c)) = Len(s)
    BY <2>1, <2>2, <2>3
  <2>7. Distinct(NodesOf(c))
    BY <2>2, <2>6 DEF Distinct
  <2> QED BY <2>4, <2>5, <2>6, <2>7
<1> QED BY <1>1, <1>2, <1>3, <1>4

(* What the deque and the module of an import are when it is taken. *)
LEMMA TakeFacts ==
    ASSUME IInv, NEW n \in Nodes, Take(n)
    PROVE  /\ imports # <<>> /\ phase = "taking" /\ prog' = prog
           /\ imports = <<n>> \o Tail(imports) /\ Tail(imports) \in Seq(Nodes)
           /\ Range(imports) = {n} \cup Range(Tail(imports))
           /\ Distinct(Tail(imports)) /\ n \notin Range(Tail(imports))
           /\ n[1] \in Known /\ answer[n] = "unvisited"
<1>1. imports # <<>> /\ phase = "taking" /\ prog' = prog /\ n = Head(imports)
  BY DEF Take
<1>2. imports \in Seq(Nodes) /\ Distinct(imports)
  BY <1>1 DEF IInv, ImportTypeOK, Queue
<1>3. /\ imports = <<n>> \o Tail(imports) /\ Tail(imports) \in Seq(Nodes)
      /\ Range(imports) = {n} \cup Range(Tail(imports))
      /\ Distinct(Tail(imports)) /\ n \notin Range(Tail(imports))
  BY <1>1, <1>2, TailFacts
<1>4. n[1] \in Known /\ answer[n] = "unvisited"
  BY <1>1, <1>3 DEF IInv, Queue
<1> QED BY <1>1, <1>3, <1>4

(* A file that was seen provides no id any more. *)
LEMMA SeenFacts ==
    ASSUME IInv, NEW n \in Nodes, phase = "taking", Seen(n)
    PROVE  /\ FileOf(n) \in filesSeen /\ FileOf(n) = SeenAs(n) /\ FileOf(n) \in Files
<1>1. filesSeen \subseteq Files
  BY DEF IInv, ImportTypeOK
<1>2. SeenAs(n) \in filesSeen
  BY DEF Seen
<1>3. CASE Parallel
  BY <1>1, <1>2, <1>3 DEF SeenAs
<1>4. CASE ~Parallel
  <2>1. Name(n) \in filesSeen /\ SeenAs(n) = Name(n)
    BY <1>2, <1>4 DEF SeenAs
  <2>2. FileOf(n) = Name(n)
    BY <1>1, <2>1, NodeFacts DEF IInv, ImportTypeOK
  <2> QED BY <1>1, <2>1, <2>2
<1> QED BY <1>3, <1>4

(* The type invariant is preserved. *)
LEMMA TypeStep ==
    ASSUME IInv, [Next]_vars
    PROVE  ImportTypeOK'
<1>0. prog' = prog /\ Nodes' = Nodes
  BY FixedByNext, Fixed
<1> USE DEF IInv, ImportTypeOK
<1>1. CASE UNCHANGED <<imports, filesSeen, byID, byPath, answer, parsers, parsed, filled>>
           /\ phase' \in Phases
  BY <1>0, <1>1
<1>2. CASE StageNext \/ UNCHANGED vars
  <2>1. phase' \in Phases
    BY <1>2, StageFacts DEF vars, importVars, Phases
  <2> QED BY <1>1, <1>2, <2>1, StageFacts DEF vars, importVars
<1>3. ASSUME NEW n \in Nodes, Take(n)
      PROVE  /\ Tail(imports) \in Seq(Nodes)
             /\ FileOf(n) \in Files \cup {NoFile}
             /\ "taking" \in Phases /\ "error" \in Phases /\ "crashed" \in Phases
             /\ \A v \in Files \cup Failures \cup {"unvisited"} :
                   [answer EXCEPT ![n] = v] \in [Nodes -> Files \cup Failures \cup {"unvisited"}]
  BY <1>3, TakeFacts, NodeFacts DEF Phases
<1>4. ASSUME NEW n \in Nodes, TakeSeen(n)
      PROVE  ImportTypeOK'
  <2>1. Take(n) /\ imports' = Tail(imports)
        /\ UNCHANGED <<phase, filesSeen, byID, byPath, parsers, parsed, filled>>
    BY <1>4 DEF TakeSeen
  <2>2. PICK v \in byPath \cup {"null"} : answer' = [answer EXCEPT ![n] = v]
    BY <1>4 DEF TakeSeen, Answered
  <2>3. v \in Files \cup Failures \cup {"unvisited"}
    BY <2>2 DEF Failures
  <2>4. Tail(imports) \in Seq(Nodes)
    BY <2>1, TakeFacts
  <2> QED BY <1>0, <1>3, <2>1, <2>2, <2>3, <2>4
<1>5. ASSUME NEW n \in Nodes, TakeUnreadable(n)
      PROVE  ImportTypeOK'
  <2>1. Take(n) /\ imports' = Tail(imports) /\ answer' = [answer EXCEPT ![n] = "fileError"]
        /\ UNCHANGED <<phase, filesSeen, byID, byPath, parsers, parsed, filled>>
    BY <1>5 DEF TakeUnreadable, Answered
  <2>2. "fileError" \in Failures
    BY DEF Failures
  <2>3. Tail(imports) \in Seq(Nodes)
    BY <2>1, TakeFacts
  <2> QED BY <1>0, <1>3, <2>1, <2>2, <2>3
<1>6. ASSUME NEW n \in Nodes, Peek(n)
      PROVE  /\ Take(n) /\ Tail(imports) \in Seq(Nodes) /\ FileOf(n) \in Files
             /\ filesSeen' \subseteq Files /\ parsed' = parsed
             /\ phase \in Phases /\ DeclaredID(n) \in Ids \cup {NoId}
  <2>1. Take(n) /\ FileOf(n) # NoFile /\ filesSeen' = filesSeen \cup {FileOf(n)}
        /\ parsed' = parsed
    BY <1>6 DEF Peek
  <2>2. FileOf(n) \in Files
    BY <2>1, NodeFacts
  <2>3. DeclaredID(n) \in Ids \cup {NoId}
    BY <2>2, NodeFacts DEF DeclaredID
  <2> QED BY <2>1, <2>2, <2>3, TakeFacts
<1>7. ASSUME NEW n \in Nodes, TakeNotModule(n)
      PROVE  ImportTypeOK'
  <2>1. Peek(n) /\ imports' = Tail(imports) /\ UNCHANGED <<byID, byPath, parsers, filled>>
        /\ \/ phase' = "error" /\ UNCHANGED answer
           \/ answer' = [answer EXCEPT ![n] = "notModuleError"] /\ UNCHANGED phase
    BY <1>7 DEF TakeNotModule, Answered
  <2>2. "notModuleError" \in Failures
    BY DEF Failures
  <2>3. answer' \in [Nodes -> Files \cup Failures \cup {"unvisited"}] /\ phase' \in Phases
    BY <1>3, <1>6, <2>1, <2>2
  <2> QED BY <1>0, <1>6, <2>1, <2>3
<1>8. ASSUME NEW n \in Nodes, TakeKnownId(n)
      PROVE  ImportTypeOK'
  <2>1. /\ Peek(n) /\ imports' = Tail(imports) /\ UNCHANGED <<byID, byPath, parsers, filled>>
        /\ DeclaredID(n) # NoId /\ byID[DeclaredID(n)] # NoFile
        /\ \/ phase' = "crashed" /\ UNCHANGED answer
           \/ answer' = [answer EXCEPT ![n] = byID[DeclaredID(n)]] /\ UNCHANGED phase
    BY <1>8 DEF TakeKnownId, Answered
  <2>2. byID[DeclaredID(n)] \in Files
    BY <1>6, <2>1
  <2>3. answer' \in [Nodes -> Files \cup Failures \cup {"unvisited"}] /\ phase' \in Phases
    BY <1>3, <1>6, <2>1, <2>2
  <2> QED BY <1>0, <1>6, <2>1, <2>3
<1>9. ASSUME NEW n \in Nodes, TakeNew(n)
      PROVE  ImportTypeOK'
  <2> DEFINE f == FileOf(n)
  <2>1. /\ Peek(n) /\ DeclaredID(n) # NoId
        /\ \/ /\ Register(n) /\ answer' = [answer EXCEPT ![n] = f]
              /\ imports' = Tail(imports) /\ parsers' = Append(parsers, f)
              /\ UNCHANGED <<phase, filled>>
           \/ /\ Register(n) /\ answer' = [answer EXCEPT ![n] = f]
              /\ imports' = Tail(imports) \o NodesOf(f)
              /\ filled' = filled \cup {f}
              /\ UNCHANGED <<phase, parsers>>
           \/ /\ phase' = "error"
              /\ UNCHANGED <<imports, byID, byPath, answer, parsers, filled>>
    BY <1>9 DEF TakeNew, Answered
  <2>2. /\ f \in Files /\ DeclaredID(n) \in Ids /\ Tail(imports) \in Seq(Nodes)
        /\ filesSeen' \subseteq Files /\ parsed' = parsed /\ Take(n)
        /\ phase \in Phases
    BY <1>6, <2>1
  <2> HIDE DEF f
  <2>3. Append(parsers, f) \in Seq(Files)
    BY <2>2, AppendProperties
  <2>4. Tail(imports) \o NodesOf(f) \in Seq(Nodes)
    <3>1. NodesOf(f) \in Seq(Nodes)
      BY <2>2, NodeFacts DEF Containers
    <3> QED BY <2>2, <3>1, ConcatProperties
  <2>5. Register(n) => byID' \in [Ids -> Files \cup {NoFile}] /\ byPath' \subseteq Files
    BY <2>2 DEF Register, f
  <2>6. answer' \in [Nodes -> Files \cup Failures \cup {"unvisited"}]
    BY <1>3, <2>1, <2>2
  <2>7. imports' \in Seq(Nodes) /\ parsers' \in Seq(Files) /\ filled' \subseteq Files
    BY <2>1, <2>2, <2>3, <2>4
  <2>8. byID' \in [Ids -> Files \cup {NoFile}] /\ byPath' \subseteq Files
    BY <2>1, <2>5
  <2>9. phase' \in Phases
    BY <2>1, <2>2 DEF Phases
  <2> QED BY <1>0, <2>2, <2>6, <2>7, <2>8, <2>9
<1>10. ASSUME NEW f \in Files, Parse(f)
       PROVE  ImportTypeOK'
  <2>1. /\ UNCHANGED <<imports, filesSeen, byID, byPath, answer, parsers, filled>>
        /\ phase' \in {phase, "error"} /\ parsed' \subseteq parsed \cup {f}
    BY <1>10 DEF Parse
  <2>2. phase' \in Phases
    BY <2>1 DEF Phases
  <2> QED BY <1>0, <2>1, <2>2
<1>11. CASE Join \/ Finish
  <2>1. phase' \in Phases /\ UNCHANGED <<imports, filesSeen, byID, byPath, answer, parsers,
                                         parsed, filled>>
    BY <1>11 DEF Join, Finish, Phases
  <2> QED BY <1>1, <2>1
<1>12. CASE Collect
  <2>1. parsers # <<>>
    BY <1>12 DEF Collect, Stages
  <2>2. Head(parsers) \in Files /\ Tail(parsers) \in Seq(Files)
    BY <2>1, TailFacts
  <2>3. Found(Head(parsers)) \in Seq(Nodes)
    <3>1. NodesOf(Head(parsers)) \in Seq(Nodes)
      BY <2>2, NodeFacts DEF Containers
    <3> QED BY <3>1, EmptySeq DEF Found
  <2>4. imports \o Found(Head(parsers)) \in Seq(Nodes)
    BY <2>3, ConcatProperties
  <2>5. /\ imports' = imports \o Found(Head(parsers)) /\ filled' = filled \cup {Head(parsers)}
        /\ parsers' = Tail(parsers) /\ parsed' = parsed \ {Head(parsers)}
        /\ phase' \in {"taking", phase}
        /\ UNCHANGED <<filesSeen, byID, byPath, answer>>
    BY <1>12 DEF Collect
  <2>6. phase' \in Phases
    BY <2>5 DEF Phases
  <2> QED BY <1>0, <2>2, <2>4, <2>5, <2>6
<1> QED BY <1>2, <1>4, <1>5, <1>7, <1>8, <1>9, <1>10, <1>11, <1>12 DEF Next, ImportNext

(* The import that is taken provides an id, or it does not. *)
LEMMA OtherFacts ==
    ASSUME IInv, NEW n \in Nodes,
           TakeSeen(n) \/ TakeUnreadable(n) \/ TakeNotModule(n) \/ TakeKnownId(n)
    PROVE  /\ Take(n) /\ imports' = Tail(imports)
           /\ UNCHANGED <<byID, byPath, parsers, parsed, filled>>
           /\ \A f \in filesSeen' \ filesSeen :
                 prog.declares[f] # NoId => byID[prog.declares[f]] # NoFile
           /\ FileOf(n) # NoFile /\ DeclaredID(n) # NoId => byID[DeclaredID(n)] # NoFile
           /\ phase' \in {phase, "error", "crashed"}
           /\ phase' = phase =>
                 \E v : /\ answer' = [answer EXCEPT ![n] = v] /\ v # "unvisited"
                        /\ v \in Files => /\ FileOf(n) # NoFile /\ DeclaredID(n) # NoId
                                          /\ v = byID[DeclaredID(n)]
           /\ phase' # phase => answer' = answer
<1>0. phase = "taking" /\ Files \cap (Failures \cup {"unvisited"}) = {}
      /\ byPath \subseteq Files
  <2>1. Take(n) => phase = "taking"
    BY DEF Take
  <2> QED BY <2>1, ImportAssumption
          DEF TakeSeen, TakeUnreadable, TakeNotModule, TakeKnownId, Peek, IInv, ImportTypeOK
<1>1. CASE TakeSeen(n)
  <2>1. /\ Take(n) /\ Seen(n) /\ imports' = Tail(imports)
        /\ answer' = [answer EXCEPT ![n] = IF SeenAs(n) \in byPath THEN SeenAs(n) ELSE "null"]
        /\ UNCHANGED <<phase, filesSeen, byID, byPath, parsers, parsed, filled>>
    BY <1>1 DEF TakeSeen, Answered
  <2>2. FileOf(n) \in filesSeen /\ FileOf(n) = SeenAs(n) /\ FileOf(n) \in Files
    BY <1>0, <2>1, SeenFacts
  <2>3. DeclaredID(n) # NoId => byID[DeclaredID(n)] # NoFile
    BY <1>0, <2>2 DEF IInv, Providers, DeclaredID
  <2>4. FileOf(n) # NoFile
    BY <2>2, NodeFacts DEF IInv, ImportTypeOK
  <2> DEFINE v == IF SeenAs(n) \in byPath THEN SeenAs(n) ELSE "null"
  <2>5. v # "unvisited"
    BY <1>0, <2>2
  <2>6. ASSUME v \in Files PROVE DeclaredID(n) # NoId /\ v = byID[DeclaredID(n)]
    <3>1. v # "null"
      BY <1>0, <2>6 DEF Failures
    <3>2. SeenAs(n) \in byPath /\ v = FileOf(n)
      BY <2>2, <3>1
    <3> QED BY <2>2, <3>2 DEF IInv, Providers, DeclaredID
  <2>7. answer' = [answer EXCEPT ![n] = v]
    BY <2>1
  <2> HIDE DEF v
  <2> QED BY <2>1, <2>3, <2>4, <2>5, <2>6, <2>7
<1>2. CASE TakeUnreadable(n)
  <2>1. /\ Take(n) /\ FileOf(n) = NoFile /\ imports' = Tail(imports)
        /\ answer' = [answer EXCEPT ![n] = "fileError"]
        /\ UNCHANGED <<phase, filesSeen, byID, byPath, parsers, parsed, filled>>
    BY <1>2 DEF TakeUnreadable, Answered
  <2>2. "fileError" \notin Files
    BY <1>0 DEF Failures
  <2> QED BY <2>1, <2>2
<1>3. CASE TakeNotModule(n)
  <2>1. /\ Peek(n) /\ DeclaredID(n) = NoId /\ imports' = Tail(imports)
        /\ UNCHANGED <<byID, byPath, parsers, filled>>
        /\ \/ phase' = "error" /\ UNCHANGED answer
           \/ answer' = [answer EXCEPT ![n] = "notModuleError"] /\ UNCHANGED phase
    BY <1>3 DEF TakeNotModule, Answered
  <2>2. Take(n) /\ filesSeen' = filesSeen \cup {FileOf(n)} /\ parsed' = parsed
    BY <2>1 DEF Peek
  <2>3. "notModuleError" \notin Files
    BY <1>0 DEF Failures
  <2>4. \A f \in filesSeen' \ filesSeen : prog.declares[f] = NoId
    BY <2>1, <2>2 DEF DeclaredID
  <2> QED BY <1>0, <2>1, <2>2, <2>3, <2>4
<1>4. CASE TakeKnownId(n)
  <2>1. /\ Peek(n) /\ DeclaredID(n) # NoId /\ byID[DeclaredID(n)] # NoFile
        /\ imports' = Tail(imports)
        /\ UNCHANGED <<byID, byPath, parsers, filled>>
        /\ \/ phase' = "crashed" /\ UNCHANGED answer
           \/ answer' = [answer EXCEPT ![n] = byID[DeclaredID(n)]] /\ UNCHANGED phase
    BY <1>4 DEF TakeKnownId, Answered
  <2>2. Take(n) /\ filesSeen' = filesSeen \cup {FileOf(n)} /\ parsed' = parsed
        /\ FileOf(n) # NoFile
    BY <2>1 DEF Peek
  <2>3. byID[DeclaredID(n)] # "unvisited"
    <3>1. FileOf(n) \in Files
      BY <2>2, NodeFacts DEF IInv, ImportTypeOK
    <3>2. DeclaredID(n) \in Ids
      BY <2>1, <3>1, NodeFacts DEF IInv, ImportTypeOK, DeclaredID
    <3>3. byID[DeclaredID(n)] \in Files
      BY <2>1, <3>2 DEF IInv, ImportTypeOK
    <3> QED BY <1>0, <3>3
  <2>4. \A f \in filesSeen' \ filesSeen : byID[prog.declares[f]] # NoFile
    BY <2>1, <2>2 DEF DeclaredID
  <2> QED BY <1>0, <2>1, <2>2, <2>3, <2>4
<1> QED BY <1>1, <1>2, <1>3, <1>4

(* A file that provides an id: which steps there are. *)
LEMMA NewFacts ==
    ASSUME IInv, NEW n \in Nodes, TakeNew(n)
    PROVE  /\ Take(n) /\ FileOf(n) \in Files /\ DeclaredID(n) \in Ids
           /\ DeclaredID(n) # NoId
           /\ byID[DeclaredID(n)] = NoFile /\ FileOf(n) \notin byPath
           /\ filesSeen' = filesSeen \cup {FileOf(n)} /\ parsed' = parsed
           /\ \/ /\ Register(n) /\ answer' = [answer EXCEPT ![n] = FileOf(n)]
                 /\ UNCHANGED phase
                 /\ \/ /\ Parallel
                       /\ imports' = Tail(imports) /\ parsers' = Append(parsers, FileOf(n))
                       /\ filled' = filled
                    \/ /\ ~Parallel
                       /\ imports' = Tail(imports) \o NodesOf(FileOf(n))
                       /\ filled' = filled \cup {FileOf(n)} /\ parsers' = parsers
              \/ /\ phase' = "error"
                 /\ UNCHANGED <<imports, byID, byPath, answer, parsers, filled>>
<1>1. /\ Peek(n) /\ DeclaredID(n) # NoId /\ byID[DeclaredID(n)] = NoFile
      /\ \/ /\ Register(n) /\ answer' = [answer EXCEPT ![n] = FileOf(n)]
            /\ UNCHANGED phase
            /\ \/ /\ Parallel
                  /\ imports' = Tail(imports) /\ parsers' = Append(parsers, FileOf(n))
                  /\ filled' = filled
               \/ /\ ~Parallel
                  /\ imports' = Tail(imports) \o NodesOf(FileOf(n))
                  /\ filled' = filled \cup {FileOf(n)} /\ parsers' = parsers
         \/ /\ phase' = "error"
            /\ UNCHANGED <<imports, byID, byPath, answer, parsers, filled>>
  BY DEF TakeNew, Answered
<1>2. Take(n) /\ filesSeen' = filesSeen \cup {FileOf(n)} /\ parsed' = parsed
      /\ FileOf(n) # NoFile
  BY <1>1 DEF Peek
<1>3. FileOf(n) \in Files /\ NoFile \notin Files
  BY <1>2, NodeFacts DEF IInv, ImportTypeOK
<1>4. DeclaredID(n) \in Ids
  BY <1>1, <1>3, NodeFacts DEF IInv, ImportTypeOK, DeclaredID
<1>5. FileOf(n) \notin byPath
  BY <1>1, <1>3 DEF IInv, Providers, DeclaredID
<1> QED BY <1>1, <1>2, <1>3, <1>4, <1>5

(* Collecting: the first parser has found all imports of its file. *)
LEMMA CollectFacts ==
    ASSUME IInv, Collect
    PROVE  /\ phase = "collecting" /\ parsers # <<>>
           /\ Head(parsers) \in Files /\ Head(parsers) \in parsed
           /\ Tail(parsers) \in Seq(Files) /\ parsers = <<Head(parsers)>> \o Tail(parsers)
           /\ Range(parsers) = {Head(parsers)} \cup Range(Tail(parsers))
           /\ Distinct(Tail(parsers)) /\ Head(parsers) \notin Range(Tail(parsers))
           /\ Head(parsers) \notin filled
           /\ imports' = imports \o NodesOf(Head(parsers))
           /\ filled' = filled \cup {Head(parsers)}
           /\ parsers' = Tail(parsers) /\ parsed' = parsed \ {Head(parsers)}
           /\ phase' = IF Tail(parsers) = <<>> THEN "taking" ELSE "collecting"
           /\ UNCHANGED <<prog, filesSeen, byID, byPath, answer>>
<1>1. /\ phase = "collecting" /\ imports' = imports \o Found(Head(parsers))
      /\ filled' = filled \cup {Head(parsers)}
      /\ parsers' = Tail(parsers) /\ parsed' = parsed \ {Head(parsers)}
      /\ phase' = IF Len(parsers) = 1 THEN "taking" ELSE phase
      /\ UNCHANGED <<prog, filesSeen, byID, byPath, answer>>
  BY DEF Collect
<1>2. parsers \in Seq(Files) /\ parsers # <<>> /\ Range(parsers) \subseteq parsed
      /\ Distinct(parsers) /\ filled \cap Range(parsers) = {}
  BY <1>1 DEF IInv, ImportTypeOK, Stages, Queue
<1>3. /\ Head(parsers) \in Files /\ Tail(parsers) \in Seq(Files)
      /\ parsers = <<Head(parsers)>> \o Tail(parsers)
      /\ Len(parsers) \in Nat \ {0} /\ Len(Tail(parsers)) = Len(parsers) - 1
      /\ Range(parsers) = {Head(parsers)} \cup Range(Tail(parsers))
      /\ Distinct(Tail(parsers)) /\ Head(parsers) \notin Range(Tail(parsers))
  BY <1>2, TailFacts
<1>4. Found(Head(parsers)) = NodesOf(Head(parsers))
  BY <1>2, <1>3 DEF Found
<1>5. Len(parsers) = 1 <=> Tail(parsers) = <<>>
  BY <1>3, EmptySeq
<1> QED BY <1>1, <1>2, <1>3, <1>4, <1>5

(* Who provides what is kept. *)
LEMMA ProvidersStep ==
    ASSUME IInv, [Next]_vars
    PROVE  Providers'
<1>0. prog' = prog /\ Nodes' = Nodes
  BY FixedByNext, Fixed
<1>1. /\ \A f \in Files : f \in byPath <=>
            prog.declares[f] # NoId /\ byID[prog.declares[f]] = f
      /\ \A id \in Ids : byID[id] # NoFile => prog.declares[byID[id]] = id
      /\ phase # "error" => \A f \in filesSeen :
            prog.declares[f] # NoId => byID[prog.declares[f]] # NoFile
  BY DEF IInv, Providers
<1>2. CASE /\ UNCHANGED <<byID, byPath>>
           /\ phase' # "error" => phase # "error"
           /\ phase' # "error" => \A f \in filesSeen' \ filesSeen :
                 prog.declares[f] # NoId => byID[prog.declares[f]] # NoFile
  BY <1>0, <1>1, <1>2 DEF Providers
<1>3. ASSUME NEW n \in Nodes,
             TakeSeen(n) \/ TakeUnreadable(n) \/ TakeNotModule(n) \/ TakeKnownId(n)
      PROVE  Providers'
  <2>1. phase = "taking" /\ UNCHANGED <<byID, byPath>>
        /\ \A f \in filesSeen' \ filesSeen :
              prog.declares[f] # NoId => byID[prog.declares[f]] # NoFile
    BY <1>3, OtherFacts, TakeFacts
  <2> QED BY <1>2, <2>1
<1>4. ASSUME NEW n \in Nodes, TakeNew(n)
      PROVE  Providers'
  <2> DEFINE f == FileOf(n)
  <2> DEFINE id == DeclaredID(n)
  <2>1. /\ f \in Files /\ id \in Ids /\ id # NoId /\ byID[id] = NoFile /\ f \notin byPath
        /\ phase = "taking" /\ filesSeen' = filesSeen \cup {f} /\ prog.declares[f] = id
        /\ NoFile \notin Files
        /\ \/ Register(n) /\ UNCHANGED phase
           \/ phase' = "error" /\ UNCHANGED <<byID, byPath>>
    BY <1>4, NewFacts, TakeFacts, NodeFacts DEF DeclaredID, IInv, ImportTypeOK
  <2>2. CASE phase' = "error" /\ UNCHANGED <<byID, byPath>>
    BY <1>2, <2>1, <2>2
  <2>3. CASE Register(n) /\ UNCHANGED phase
    <3>1. byID' = [byID EXCEPT ![id] = f] /\ byPath' = byPath \cup {f}
          /\ byID \in [Ids -> Files \cup {NoFile}]
      BY <2>3 DEF Register, IInv, ImportTypeOK
    <3> HIDE DEF f, id
    <3>2. byID'[id] = f /\ \A d \in Ids : d # id => byID'[d] = byID[d]
      BY <2>1, <3>1
    <3>3. \A g \in Files : prog.declares[g] \in Ids \cup {NoId}
      BY NodeFacts DEF IInv, ImportTypeOK
    <3>4. ASSUME NEW g \in Files
          PROVE  g \in byPath' <=> prog.declares[g] # NoId /\ byID'[prog.declares[g]] = g
      <4>1. CASE prog.declares[g] = id
        BY <1>1, <2>1, <3>1, <3>2, <4>1
      <4>2. CASE prog.declares[g] # id
        BY <1>1, <2>1, <3>1, <3>2, <3>3, <4>2
      <4> QED BY <4>1, <4>2
    <3>5. \A d \in Ids : byID'[d] # NoFile => prog.declares[byID'[d]] = d
      BY <1>1, <2>1, <3>2
    <3>6. ASSUME NEW g \in filesSeen', prog.declares[g] # NoId
          PROVE  byID'[prog.declares[g]] # NoFile
      <4>1. g \in Files /\ f # NoFile /\ (g = f \/ g \in filesSeen)
        BY <2>1 DEF IInv, ImportTypeOK
      <4>2. CASE prog.declares[g] = id
        BY <3>2, <4>1, <4>2
      <4>3. CASE prog.declares[g] # id
        BY <1>1, <2>1, <3>2, <3>3, <3>6, <4>1, <4>3
      <4> QED BY <4>2, <4>3
    <3> QED BY <1>0, <3>4, <3>5, <3>6 DEF Providers
  <2> QED BY <2>1, <2>2, <2>3
<1>5. CASE (\E f \in Files : Parse(f)) \/ Join \/ Collect \/ Finish
  <2>1. /\ UNCHANGED <<byID, byPath, filesSeen>> /\ phase # "error"
    BY <1>5 DEF Parse, Join, Collect, Finish
  <2> QED BY <1>2, <2>1
<1>6. CASE StageNext
  BY <1>2, <1>6, StageFacts
<1>7. CASE UNCHANGED vars
  BY <1>2, <1>7 DEF vars, importVars
<1> QED BY <1>3, <1>4, <1>5, <1>6, <1>7 DEF Next, ImportNext

(* Every answer is the module that provides the id of the file named. *)
LEMMA AnswersStep ==
    ASSUME IInv, [Next]_vars
    PROVE  Answers'
<1>0. /\ prog' = prog /\ Nodes' = Nodes /\ Answers
      /\ \A n : FileOf(n)' = FileOf(n) /\ DeclaredID(n)' = DeclaredID(n)
  BY FixedByNext, Fixed DEF IInv
<1>1. /\ answer \in [Nodes -> Files \cup Failures \cup {"unvisited"}]
      /\ byID \in [Ids -> Files \cup {NoFile}] /\ NoFile \notin Files
      /\ \A n \in Nodes : FileOf(n) # NoFile /\ DeclaredID(n) # NoId => DeclaredID(n) \in Ids
  BY NodeFacts DEF IInv, ImportTypeOK, DeclaredID
<1>2. CASE UNCHANGED <<answer, byID>>
  BY <1>0, <1>2 DEF Answers
<1>3. ASSUME NEW n \in Nodes,
             TakeSeen(n) \/ TakeUnreadable(n) \/ TakeNotModule(n) \/ TakeKnownId(n)
      PROVE  Answers'
  <2>1. CASE phase' # phase
    BY <1>2, <1>3, <2>1, OtherFacts
  <2>2. CASE phase' = phase
    <3>1. PICK v : /\ answer' = [answer EXCEPT ![n] = v]
                   /\ v \in Files => /\ FileOf(n) # NoFile /\ DeclaredID(n) # NoId
                                     /\ v = byID[DeclaredID(n)]
      BY <1>3, <2>2, OtherFacts
    <3>2. byID' = byID
      BY <1>3, OtherFacts
    <3>3. answer'[n] = v /\ \A m \in Nodes : m # n => answer'[m] = answer[m]
      BY <1>1, <3>1
    <3> QED BY <1>0, <3>1, <3>2, <3>3 DEF Answers
  <2> QED BY <2>1, <2>2
<1>4. ASSUME NEW n \in Nodes, TakeNew(n)
      PROVE  Answers'
  <2>1. CASE UNCHANGED <<byID, answer>>
    BY <1>2, <2>1
  <2>2. CASE Register(n) /\ answer' = [answer EXCEPT ![n] = FileOf(n)]
    <3>1. /\ DeclaredID(n) \in Ids /\ byID[DeclaredID(n)] = NoFile /\ FileOf(n) \in Files
          /\ DeclaredID(n) # NoId
      BY <1>4, NewFacts
    <3>2. byID' = [byID EXCEPT ![DeclaredID(n)] = FileOf(n)]
      BY <2>2 DEF Register
    <3>3. byID'[DeclaredID(n)] = FileOf(n)
          /\ \A d \in Ids : d # DeclaredID(n) => byID'[d] = byID[d]
      BY <1>1, <3>1, <3>2
    <3>4. answer'[n] = FileOf(n) /\ \A m \in Nodes : m # n => answer'[m] = answer[m]
      BY <1>1, <2>2
    <3>5. ASSUME NEW m \in Nodes, answer'[m] \in Files
          PROVE  /\ FileOf(m) # NoFile /\ DeclaredID(m) # NoId
                 /\ answer'[m] = byID'[DeclaredID(m)]
      <4>1. CASE m = n
        BY <1>1, <3>1, <3>3, <3>4, <4>1
      <4>2. CASE m # n
        <5>1. /\ FileOf(m) # NoFile /\ DeclaredID(m) # NoId
              /\ answer[m] = byID[DeclaredID(m)] /\ answer'[m] = answer[m]
          BY <1>0, <3>4, <3>5, <4>2 DEF Answers
        <5>2. DeclaredID(m) # DeclaredID(n) /\ DeclaredID(m) \in Ids
          BY <1>1, <3>1, <3>5, <5>1
        <5> QED BY <3>3, <5>1, <5>2
      <4> QED BY <4>1, <4>2
    <3> QED BY <1>0, <3>5 DEF Answers
  <2> QED BY <1>4, <2>1, <2>2, NewFacts
<1>5. CASE (\E f \in Files : Parse(f)) \/ Join \/ Collect \/ Finish
  BY <1>2, <1>5 DEF Parse, Join, Collect, Finish
<1>6. CASE StageNext \/ UNCHANGED vars
  BY <1>2, <1>6, StageFacts DEF vars, importVars
<1> QED BY <1>3, <1>4, <1>5, <1>6 DEF Next, ImportNext

(* A module is filled, and its imports are put behind those of the deque.  *)
LEMMA FillFacts ==
    ASSUME prog \in Programs, NEW q \in Seq(Nodes), Distinct(q), NEW f \in Files,
           NEW K, f \notin K, NEW a,
           \A n \in Nodes : n \in Range(q) <=> n[1] \in K /\ a[n] = "unvisited",
           \A n \in Nodes : a[n] # "unvisited" => n[1] \in K
    PROVE  /\ Distinct(q \o NodesOf(f))
           /\ \A n \in Nodes : n \in Range(q \o NodesOf(f)) <=>
                 n[1] \in K \cup {f} /\ a[n] = "unvisited"
<1>1. /\ NodesOf(f) \in Seq(Nodes) /\ Distinct(NodesOf(f))
      /\ \A n \in Nodes : n \in Range(NodesOf(f)) <=> n[1] = f
  BY NodeFacts DEF Containers
<1> DEFINE s == NodesOf(f)
<1> HIDE DEF s
<1>2. Range(q) \subseteq Nodes /\ Range(q \o s) = Range(q) \cup Range(s)
  BY <1>1, RangeFacts DEF s
<1>3. Range(q) \cap Range(s) = {}
  BY <1>1, <1>2 DEF s
<1>4. Distinct(q \o s)
  BY <1>1, <1>3, DistinctConcat DEF s
<1>5. ASSUME NEW n \in Nodes
      PROVE  n \in Range(q \o s) <=> n[1] \in K \cup {f} /\ a[n] = "unvisited"
  <2>1. n \in Range(s) <=> n[1] = f
    BY <1>1 DEF s
  <2>2. n[1] = f => a[n] = "unvisited"
    OBVIOUS
  <2> QED BY <1>2, <2>1, <2>2
<1> QED BY <1>4, <1>5 DEF s

(* The deque has what is to be answered. *)
LEMMA QueueStep ==
    ASSUME IInv, [Next]_vars
    PROVE  Queue'
<1> SUFFICES ASSUME phase' \notin {"error", "crashed"}
             PROVE  /\ Distinct(imports') /\ Distinct(parsers')
                    /\ \A n \in Nodes : n \in Range(imports') <=>
                          n[1] \in {Main} \cup filled' /\ answer'[n] = "unvisited"
                    /\ \A n \in Nodes : answer'[n] # "unvisited" => n[1] \in {Main} \cup filled'
                    /\ byPath' = filled' \cup Range(parsers')
                    /\ filled' \cap Range(parsers') = {}
  <2>1. Nodes' = Nodes
    BY FixedByNext, Fixed
  <2> QED BY <2>1 DEF Queue, Known
<1> DEFINE Goal == /\ Distinct(imports') /\ Distinct(parsers')
                   /\ \A n \in Nodes : n \in Range(imports') <=>
                         n[1] \in {Main} \cup filled' /\ answer'[n] = "unvisited"
                   /\ \A n \in Nodes : answer'[n] # "unvisited" => n[1] \in {Main} \cup filled'
                   /\ byPath' = filled' \cup Range(parsers')
                   /\ filled' \cap Range(parsers') = {}
<1>1. /\ prog \in Programs /\ imports \in Seq(Nodes) /\ parsers \in Seq(Files)
      /\ answer \in [Nodes -> Files \cup Failures \cup {"unvisited"}]
      /\ Files \cap (Failures \cup {"unvisited"}) = {} /\ Main \notin Files
  BY ImportAssumption, NodeFacts DEF IInv, ImportTypeOK
<1>2. ASSUME phase \notin {"error", "crashed"}
      PROVE  /\ Distinct(imports) /\ Distinct(parsers)
             /\ \A n \in Nodes : n \in Range(imports) <=>
                   n[1] \in {Main} \cup filled /\ answer[n] = "unvisited"
             /\ \A n \in Nodes : answer[n] # "unvisited" => n[1] \in {Main} \cup filled
             /\ byPath = filled \cup Range(parsers)
             /\ filled \cap Range(parsers) = {}
  BY <1>2 DEF IInv, Queue, Known
<1>3. CASE UNCHANGED <<imports, parsers, filled, answer, byPath>>
           /\ phase \notin {"error", "crashed"}
  BY <1>2, <1>3
<1>4. ASSUME NEW n \in Nodes, Take(n), phase' = phase,
             NEW v, answer' = [answer EXCEPT ![n] = v], v # "unvisited"
      PROVE  /\ Tail(imports) \in Seq(Nodes) /\ Distinct(Tail(imports))
             /\ \A m \in Nodes : m \in Range(Tail(imports)) <=>
                   m[1] \in {Main} \cup filled /\ answer'[m] = "unvisited"
             /\ \A m \in Nodes : answer'[m] # "unvisited" => m[1] \in {Main} \cup filled
  <2>1. /\ Range(imports) = {n} \cup Range(Tail(imports)) /\ Tail(imports) \in Seq(Nodes)
        /\ Distinct(Tail(imports)) /\ n \notin Range(Tail(imports)) /\ phase = "taking"
        /\ n[1] \in {Main} \cup filled
    BY <1>4, TakeFacts DEF Known
  <2>2. answer'[n] = v /\ \A m \in Nodes : m # n => answer'[m] = answer[m]
    BY <1>1, <1>4
  <2>3. ASSUME NEW m \in Nodes
        PROVE  /\ m \in Range(Tail(imports)) <=>
                   m[1] \in {Main} \cup filled /\ answer'[m] = "unvisited"
               /\ answer'[m] # "unvisited" => m[1] \in {Main} \cup filled
    <3>1. CASE m = n
      BY <1>4, <2>1, <2>2, <3>1
    <3>2. CASE m # n
      <4>1. m \in Range(Tail(imports)) <=> m \in Range(imports)
        BY <2>1, <3>2
      <4> QED BY <1>2, <2>1, <2>2, <3>2, <4>1
    <3> QED BY <3>1, <3>2
  <2> QED BY <2>1, <2>3
<1>5. ASSUME NEW n \in Nodes,
             TakeSeen(n) \/ TakeUnreadable(n) \/ TakeNotModule(n) \/ TakeKnownId(n)
      PROVE  Goal
  <2>1. /\ Take(n) /\ imports' = Tail(imports) /\ UNCHANGED <<byPath, parsers, filled>>
        /\ phase' = phase /\ phase = "taking"
    BY <1>5, OtherFacts, TakeFacts
  <2>2. PICK v : answer' = [answer EXCEPT ![n] = v] /\ v # "unvisited"
    BY <1>5, <2>1, OtherFacts
  <2>3. /\ Distinct(Tail(imports))
        /\ \A m \in Nodes : m \in Range(Tail(imports)) <=>
              m[1] \in {Main} \cup filled /\ answer'[m] = "unvisited"
        /\ \A m \in Nodes : answer'[m] # "unvisited" => m[1] \in {Main} \cup filled
    BY <1>4, <2>1, <2>2
  <2> QED BY <1>2, <2>1, <2>3
<1>6. ASSUME NEW n \in Nodes, TakeNew(n)
      PROVE  Goal
  <2> DEFINE f == FileOf(n)
  <2>1. /\ Take(n) /\ f \in Files /\ f \notin byPath
        /\ Register(n) /\ answer' = [answer EXCEPT ![n] = f]
        /\ phase' = phase /\ phase = "taking"
        /\ \/ /\ imports' = Tail(imports) /\ parsers' = Append(parsers, f)
              /\ filled' = filled
           \/ /\ imports' = Tail(imports) \o NodesOf(f) /\ ~Parallel
              /\ filled' = filled \cup {f} /\ parsers' = parsers
    BY <1>6, NewFacts, TakeFacts
  <2>2. byPath' = byPath \cup {f}
    BY <2>1 DEF Register
  <2> HIDE DEF f
  <2>3. f # "unvisited" /\ f \notin filled /\ f \notin Range(parsers)
        /\ f \notin {Main} \cup filled
    BY <1>1, <1>2, <2>1
  <2>4. /\ Tail(imports) \in Seq(Nodes) /\ Distinct(Tail(imports))
        /\ \A m \in Nodes : m \in Range(Tail(imports)) <=>
              m[1] \in {Main} \cup filled /\ answer'[m] = "unvisited"
        /\ \A m \in Nodes : answer'[m] # "unvisited" => m[1] \in {Main} \cup filled
    BY <1>4, <2>1, <2>3
  <2>5. CASE /\ imports' = Tail(imports) /\ parsers' = Append(parsers, f)
             /\ filled' = filled
    <3>1. <<f>> \in Seq(Files) /\ Distinct(<<f>>) /\ Range(<<f>>) = {f}
      BY <2>1 DEF Distinct, Range
    <3>2. Append(parsers, f) = parsers \o <<f>>
      BY <1>1, <2>1, AppendIsConcat
    <3> DEFINE g == <<f>>
    <3>2a. g \in Seq(Files) /\ Distinct(g) /\ Range(g) = {f}
      BY <3>1
    <3> HIDE DEF g
    <3>3. Range(parsers \o g) = Range(parsers) \cup Range(g)
      BY <1>1, <3>2a, RangeFacts
    <3>4. Distinct(parsers \o g)
      BY <1>1, <1>2, <2>1, <2>3, <3>2a, DistinctConcat
    <3>5. Distinct(parsers') /\ Range(parsers') = Range(parsers) \cup {f}
      BY <2>5, <3>1, <3>2, <3>3, <3>4 DEF g
    <3> QED BY <1>2, <2>1, <2>2, <2>3, <2>4, <2>5, <3>5
  <2>6. CASE /\ imports' = Tail(imports) \o NodesOf(f) /\ ~Parallel
             /\ filled' = filled \cup {f} /\ parsers' = parsers
    <3> DEFINE K == {Main} \cup filled
    <3> DEFINE q == Tail(imports)
    <3>0. PICK a : a = answer'
      OBVIOUS
    <3>1. /\ q \in Seq(Nodes) /\ Distinct(q) /\ f \notin K
          /\ \A m \in Nodes : m \in Range(q) <=> m[1] \in K /\ a[m] = "unvisited"
          /\ \A m \in Nodes : a[m] # "unvisited" => m[1] \in K
      BY <2>3, <2>4, <3>0
    <3> HIDE DEF K, q
    <3>1a. prog \in Programs /\ f \in Files
      BY <1>1, <2>1
    <3>2. /\ Distinct(q \o NodesOf(f))
          /\ \A m \in Nodes : m \in Range(q \o NodesOf(f)) <=>
                m[1] \in K \cup {f} /\ a[m] = "unvisited"
      BY <3>1, <3>1a, FillFacts
    <3>3. K \cup {f} = {Main} \cup filled'
      BY <2>6 DEF K
    <3>4. /\ Distinct(imports')
          /\ \A m \in Nodes : m \in Range(imports') <=>
                m[1] \in {Main} \cup filled' /\ answer'[m] = "unvisited"
      BY <2>6, <3>0, <3>2, <3>3 DEF q
    <3> QED BY <1>2, <2>1, <2>2, <2>3, <2>4, <2>6, <3>4
  <2> QED BY <2>1, <2>5, <2>6
<1>7. CASE Collect
  <2> DEFINE h == Head(parsers)
  <2>1. /\ phase = "collecting" /\ h \in Files /\ h \notin filled /\ Distinct(Tail(parsers))
        /\ Range(parsers) = {h} \cup Range(Tail(parsers)) /\ h \notin Range(Tail(parsers))
        /\ imports' = imports \o NodesOf(h) /\ filled' = filled \cup {h}
        /\ parsers' = Tail(parsers) /\ UNCHANGED <<byPath, answer>>
    BY <1>7, CollectFacts
  <2> HIDE DEF h
  <2> DEFINE K == {Main} \cup filled
  <2>2. h \notin K
    BY <1>1, <2>1
  <2>3. /\ \A m \in Nodes : m \in Range(imports) <=> m[1] \in K /\ answer[m] = "unvisited"
        /\ \A m \in Nodes : answer[m] # "unvisited" => m[1] \in K
        /\ Distinct(imports)
    BY <1>2, <2>1
  <2> HIDE DEF K
  <2>4. /\ Distinct(imports \o NodesOf(h))
        /\ \A m \in Nodes : m \in Range(imports \o NodesOf(h)) <=>
              m[1] \in K \cup {h} /\ answer[m] = "unvisited"
    BY <1>1, <2>1, <2>2, <2>3, FillFacts
  <2>5. K \cup {h} = {Main} \cup filled'
    BY <2>1 DEF K
  <2>6. /\ Distinct(imports')
        /\ \A m \in Nodes : m \in Range(imports') <=>
              m[1] \in {Main} \cup filled' /\ answer'[m] = "unvisited"
    BY <2>1, <2>4, <2>5
  <2>7. \A m \in Nodes : answer'[m] # "unvisited" => m[1] \in {Main} \cup filled'
    BY <2>1, <2>3 DEF K
  <2> QED BY <1>2, <2>1, <2>6, <2>7
<1>8. CASE (\E f \in Files : Parse(f)) \/ Join \/ Finish
  BY <1>3, <1>8 DEF Parse, Join, Finish
<1>9. CASE StageNext
  BY <1>3, <1>9, StageFacts
<1>10. CASE UNCHANGED vars
  BY <1>3, <1>10 DEF vars, importVars
<1> HIDE DEF Goal
<1>11. Goal
  <2>1. CASE ImportNext
    BY <1>5, <1>6, <1>7, <1>8, <2>1 DEF ImportNext, Goal
  <2> QED BY <1>9, <1>10, <2>1 DEF Next, Goal
<1> QED BY <1>11 DEF Goal

(* Where the parsers are. *)
LEMMA StagesStep ==
    ASSUME IInv, [Next]_vars
    PROVE  Stages'
<1>0. Parallel' = Parallel
  BY FixedByNext, Fixed
<1> USE DEF IInv, Stages
<1>1. ASSUME NEW n \in Nodes,
             TakeSeen(n) \/ TakeUnreadable(n) \/ TakeNotModule(n) \/ TakeKnownId(n)
      PROVE  Stages'
  BY <1>0, <1>1, OtherFacts, TakeFacts
<1>2. ASSUME NEW n \in Nodes, TakeNew(n)
      PROVE  Stages'
  <2>1. phase = "taking" /\ (phase' = phase \/ phase' = "error")
        /\ (parsers' = parsers \/ Parallel)
    BY <1>2, NewFacts, TakeFacts
  <2> QED BY <1>0, <2>1
<1>3. CASE Collect
  <2>1. /\ phase' = IF Tail(parsers) = <<>> THEN "taking" ELSE "collecting"
        /\ parsers' = Tail(parsers) /\ parsed' = parsed \ {Head(parsers)}
        /\ Range(parsers) = {Head(parsers)} \cup Range(Tail(parsers))
        /\ Head(parsers) \notin Range(Tail(parsers)) /\ phase = "collecting"
    BY <1>3, CollectFacts
  <2> QED BY <1>0, <2>1
<1>4. ASSUME NEW f \in Files, Parse(f)
      PROVE  Stages'
  <2>1. /\ phase \in {"taking", "collecting"} /\ phase' \in {phase, "error"}
        /\ parsers' = parsers /\ parsed \subseteq parsed' /\ imports' = imports
    BY <1>4 DEF Parse
  <2> QED BY <1>0, <2>1
<1>5. CASE Join
  BY <1>0, <1>5 DEF Join, AllParsed
<1>6. CASE Finish
  BY <1>0, <1>6 DEF Finish
<1>7. CASE StageNext
  BY <1>0, <1>7, StageFacts
<1>8. CASE UNCHANGED vars
  BY <1>0, <1>8 DEF vars, importVars
<1> QED BY <1>1, <1>2, <1>3, <1>4, <1>5, <1>6, <1>7, <1>8 DEF Next, ImportNext

(* All of it holds in the beginning. *)
LEMMA InitInductive == Init => IInv
<1> SUFFICES ASSUME Init PROVE IInv
  OBVIOUS
<1>1. /\ prog \in Programs /\ phase = "taking" /\ imports = NodesOf(Main)
      /\ filesSeen = {} /\ byID = [id \in Ids |-> NoFile] /\ byPath = {}
      /\ answer = [n \in Nodes |-> "unvisited"] /\ parsers = <<>> /\ parsed = {} /\ filled = {}
  BY DEF Init, ImportInit
<1>2. /\ NodesOf(Main) \in Seq(Nodes) /\ Distinct(NodesOf(Main))
      /\ \A n \in Nodes : n \in Range(NodesOf(Main)) <=> n[1] = Main
      /\ NoFile \notin Files
  BY <1>1, NodeFacts DEF Containers
<1>3. parsers \in Seq(Files) /\ Distinct(parsers) /\ Range(parsers) = {}
  BY <1>1 DEF Distinct, Range
<1>4. ImportTypeOK
  BY <1>1, <1>2, <1>3 DEF ImportTypeOK, Phases
<1>5. Providers
  <2>1. \A f \in Files : prog.declares[f] \in Ids \cup {NoId}
    BY <1>1, NodeFacts
  <2> QED BY <1>1, <1>2, <2>1 DEF Providers
<1>6. Answers
  BY <1>1, ImportAssumption DEF Answers
<1>7. Queue
  BY <1>1, <1>2, <1>3 DEF Queue, Known
<1>8. Stages
  BY <1>1 DEF Stages
<1> QED BY <1>4, <1>5, <1>6, <1>7, <1>8 DEF IInv

(* The invariant of the import stage, which the stages behind it keep. *)
THEOREM ImportInductive == Spec => []IInv
<1>1. IInv /\ [Next]_vars => IInv'
  BY TypeStep, ProvidersStep, AnswersStep, QueueStep, StagesStep DEF IInv
<1> QED BY InitInductive, <1>1, PTL DEF Spec

(* The answers agree with who provides which id, and none is missing. *)
THEOREM AnswersAlwaysAgree == Spec => []AnswersAgree
<1>1. IInv => AnswersAgree
  <2> SUFFICES ASSUME IInv PROVE AnswersAgree
    OBVIOUS
  <2>1. \A n \in Nodes : answer[n] \in Files => DeclaredID(n) # NoId /\ answer[n] = byID[DeclaredID(n)]
    BY DEF IInv, Answers
  <2>2. ASSUME phase = "loaded"
        PROVE  /\ byPath = filled
               /\ \A n \in Nodes : answer[n] # "unvisited" <=> n[1] \in {Main} \cup filled
    <3>1. Range(imports) = {} /\ Range(parsers) = {}
      <4>1. imports = <<>> /\ parsers = <<>>
        BY <2>2 DEF IInv, Stages
      <4> QED BY <4>1 DEF Range
    <3> QED BY <2>2, <3>1 DEF IInv, Queue, Known
  <2> QED BY <2>1, <2>2 DEF AnswersAgree
<1> QED BY ImportInductive, <1>1, PTL

(* What the parsers have still to find, when one is started or collected. *)
LEMMA PendingFacts ==
    ASSUME prog \in Programs, parsers \in Seq(Files)
    PROVE  /\ Pending \in Seq(Nodes)
           /\ parsers = <<>> => Pending = <<>>
           /\ \A f \in Files : parsers' = Append(parsers, f) /\ prog' = prog =>
                 Pending' = Pending \o NodesOf(f)
           /\ parsers # <<>> /\ parsers' = Tail(parsers) /\ prog' = prog =>
                 /\ Pending = NodesOf(Head(parsers)) \o Pending'
                 /\ Pending' \in Seq(Nodes)
<1> DEFINE F(p) == [i \in 1..Len(p) |-> NodesOf(p[i])]
<1>1. \A p \in Seq(Files) : DOMAIN p = 1..Len(p) /\ Len(p) \in Nat /\ \A i \in 1..Len(p) : p[i] \in Files
  OBVIOUS
<1>2. \A f \in Files : NodesOf(f) \in Seq(Nodes)
  BY NodeFacts DEF Containers
<1>3. Pending = FlattenSeq(F(parsers))
  BY <1>1 DEF Pending
<1>4. \A p \in Seq(Files) : F(p) \in Seq(Seq(Nodes)) /\ Len(F(p)) = Len(p)
  BY <1>1, <1>2
<1>5. ASSUME prog' = prog, parsers' \in Seq(Files) PROVE Pending' = FlattenSeq(F(parsers'))
  <2>1. \A f : NodesOf(f)' = NodesOf(f)
    BY <1>5, Fixed
  <2>2. DOMAIN parsers' = 1..Len(parsers')
    BY <1>5
  <2>3. [i \in DOMAIN parsers |-> NodesOf(parsers[i])]' = F(parsers')
    BY <1>5, <2>2 DEF NodesOf, NodesIn
  <2> QED BY <2>3 DEF Pending
<1>6. Pending \in Seq(Nodes)
  <2> HIDE DEF F
  <2>1. F(parsers) \in Seq(Seq(Nodes))
    BY <1>4
  <2> QED BY <1>3, <2>1, FlattenType
<1>7. parsers = <<>> => Pending = <<>>
  <2>1. parsers = <<>> => F(parsers) = <<>>
    BY <1>4
  <2> HIDE DEF F
  <2> QED BY <1>3, <2>1, FlattenEmpty
<1>8. ASSUME NEW f \in Files, parsers' = Append(parsers, f), prog' = prog
      PROVE  Pending' = Pending \o NodesOf(f)
  <2>1. Append(parsers, f) \in Seq(Files) /\ Len(Append(parsers, f)) = Len(parsers) + 1
        /\ Append(parsers, f)[Len(parsers) + 1] = f
        /\ \A i \in 1..Len(parsers) : Append(parsers, f)[i] = parsers[i]
    BY AppendProperties
  <2> DEFINE p == Append(parsers, f)
  <2> HIDE DEF p
  <2>2. F(p) = Append(F(parsers), NodesOf(f))
    <3> DEFINE s == F(parsers)
    <3> DEFINE x == NodesOf(f)
    <3> DEFINE u == F(p)
    <3>1. /\ s \in Seq(Seq(Nodes)) /\ Len(s) = Len(parsers) /\ x \in Seq(Nodes)
          /\ u \in Seq(Seq(Nodes)) /\ Len(u) = Len(parsers) + 1 /\ Len(parsers) \in Nat
      BY <1>1, <1>2, <1>4, <2>1 DEF p
    <3>2. ASSUME NEW i \in 1..Len(parsers) PROVE u[i] = s[i]
      <4>1. i \in 1..Len(p) /\ p[i] = parsers[i]
        BY <2>1, <3>1 DEF p
      <4> QED BY <4>1
    <3>3. u[Len(parsers) + 1] = x
      <4>1. Len(parsers) + 1 \in 1..Len(p) /\ p[Len(parsers) + 1] = f
        BY <2>1, <3>1 DEF p
      <4> QED BY <4>1
    <3> HIDE DEF s, x, u, F
    <3>4. /\ Append(s, x) \in Seq(Seq(Nodes)) /\ Len(Append(s, x)) = Len(parsers) + 1
          /\ Append(s, x)[Len(parsers) + 1] = x
          /\ \A i \in 1..Len(parsers) : Append(s, x)[i] = s[i]
      BY <3>1, AppendProperties
    <3>5. \A i \in 1..Len(parsers) + 1 : i = Len(parsers) + 1 \/ i \in 1..Len(parsers)
      BY <3>1
    <3>6. u = Append(s, x)
      BY <3>1, <3>2, <3>3, <3>4, <3>5, SeqEqual
    <3> QED BY <3>6 DEF s, x, u
  <2>3. F(parsers) \in Seq(Seq(Nodes)) /\ NodesOf(f) \in Seq(Nodes)
    BY <1>2, <1>4
  <2>4. Pending' = FlattenSeq(F(p))
    BY <1>5, <1>8, <2>1 DEF p
  <2> HIDE DEF F
  <2>5. FlattenSeq(Append(F(parsers), NodesOf(f))) = FlattenSeq(F(parsers)) \o NodesOf(f)
    BY <2>3, FlattenAppend
  <2> QED BY <1>3, <2>2, <2>4, <2>5
<1>9. ASSUME parsers # <<>>, parsers' = Tail(parsers), prog' = prog
      PROVE  Pending = NodesOf(Head(parsers)) \o Pending' /\ Pending' \in Seq(Nodes)
  <2> DEFINE h == Head(parsers)
  <2> DEFINE t == Tail(parsers)
  <2>1. /\ h \in Files /\ t \in Seq(Files) /\ Len(parsers) = Len(t) + 1 /\ Len(t) \in Nat
        /\ h = parsers[1]
        /\ \A i \in 1..Len(t) : t[i] = parsers[i + 1]
    BY <1>9, HeadTailProperties, EmptySeq
  <2> HIDE DEF h, t
  <2>2. F(parsers) = <<NodesOf(h)>> \o F(t)
    <3> DEFINE x == <<NodesOf(h)>>
    <3> DEFINE s == F(t)
    <3> DEFINE u == F(parsers)
    <3>1. /\ x \in Seq(Seq(Nodes)) /\ Len(x) = 1 /\ x[1] = NodesOf(h)
          /\ s \in Seq(Seq(Nodes)) /\ Len(s) = Len(t)
          /\ u \in Seq(Seq(Nodes)) /\ Len(u) = Len(t) + 1
      BY <1>2, <1>4, <2>1
    <3>2. u[1] = NodesOf(h)
      <4>1. 1 \in 1..Len(parsers)
        BY <2>1
      <4> QED BY <2>1, <4>1
    <3>3. ASSUME NEW i \in 1..Len(t) PROVE u[i + 1] = s[i]
      <4>1. i + 1 \in 1..Len(parsers) /\ parsers[i + 1] = t[i]
        BY <2>1
      <4> QED BY <4>1
    <3> HIDE DEF x, s, u, F
    <3>4. /\ x \o s \in Seq(Seq(Nodes)) /\ Len(x \o s) = Len(x) + Len(s)
          /\ \A i \in 1..Len(x) + Len(s) : (x \o s)[i] = IF i <= Len(x) THEN x[i] ELSE s[i - Len(x)]
      <4>1. x \in Seq(Seq(Nodes)) /\ s \in Seq(Seq(Nodes))
        BY <3>1
      <4> QED BY <4>1, ConcatProperties, Zenon
    <3>5. ASSUME NEW i \in 1..Len(t) + 1 PROVE u[i] = (x \o s)[i]
      <4>1. CASE i = 1
        <5>1. (x \o s)[1] = x[1]
          BY <2>1, <3>1, <3>4
        <5> QED BY <3>1, <3>2, <4>1, <5>1
      <4>2. CASE i # 1
        <5>1. i - 1 \in 1..Len(t) /\ (i - 1) + 1 = i /\ ~(i <= 1) /\ i \in 1..1 + Len(t)
          BY <2>1, <4>2
        <5>2. (x \o s)[i] = s[i - 1]
          BY <3>1, <3>4, <5>1
        <5>3. u[(i - 1) + 1] = s[i - 1]
          BY <3>3, <5>1
        <5> QED BY <5>1, <5>2, <5>3
      <4> QED BY <4>1, <4>2
    <3>6. Len(x \o s) = Len(u)
      BY <2>1, <3>1, <3>4
    <3>7. u = x \o s
      BY <3>1, <3>4, <3>5, <3>6, SeqEqual
    <3> QED BY <3>7 DEF x, s, u
  <2>3. Pending' = FlattenSeq(F(t))
    BY <1>5, <1>9, <2>1 DEF t
  <2>4. /\ NodesOf(h) \in Seq(Nodes) /\ <<NodesOf(h)>> \in Seq(Seq(Nodes))
        /\ F(t) \in Seq(Seq(Nodes))
    BY <1>2, <1>4, <2>1
  <2> DEFINE x == <<NodesOf(h)>>
  <2>5. FlattenSeq(x) = NodesOf(h)
    <3>1. x = Append(<<>>, NodesOf(h)) /\ <<>> \in Seq(Seq(Nodes))
      BY EmptySeq
    <3>2. FlattenSeq(x) = <<>> \o NodesOf(h)
      BY <2>4, <3>1, FlattenAppend, FlattenEmpty
    <3> QED BY <2>4, <3>2, ConcatEmptySeq
  <2>6. x \in Seq(Seq(Nodes))
    BY <2>4
  <2> HIDE DEF F, x
  <2>7. FlattenSeq(x \o F(t)) = FlattenSeq(x) \o FlattenSeq(F(t))
    BY <2>4, <2>6, FlattenConcat
  <2>8. FlattenSeq(F(t)) \in Seq(Nodes)
    BY <2>4, FlattenType
  <2> QED BY <1>3, <2>2, <2>3, <2>5, <2>7, <2>8 DEF x, h
<1> QED BY <1>6, <1>7, <1>8, <1>9

(* Threads change nothing: every step serves the first import of the queue *)
(* as a sequential importer would, or leaves the queue as it is.           *)
THEOREM ImportsImplementOrder == Spec => ImplementsOrder
<1> DEFINE queue == imports \o Pending
<1>1. Init => ImportsInOrder!Init
  <2> SUFFICES ASSUME Init PROVE ImportsInOrder!Init
    OBVIOUS
  <2>1. prog \in Programs /\ imports = NodesOf(Main) /\ parsers = <<>>
        /\ byID = [id \in Ids |-> NoFile]
    BY DEF Init, ImportInit
  <2>2. Pending = <<>> /\ NodesOf(Main) \in Seq(Nodes)
    BY <2>1, PendingFacts, NodeFacts, EmptySeq DEF Containers
  <2>3. imports \o Pending = NodesOf(Main)
    BY <2>1, <2>2, ConcatEmptySeq
  <2> QED BY <2>1, <2>3 DEF ImportsInOrder!Init, Program
<1>2. ASSUME IInv, [Next]_vars
      PROVE  [ImportsInOrder!Serve]_<<Program, queue, byID>>
  <2>1. /\ prog \in Programs /\ imports \in Seq(Nodes) /\ parsers \in Seq(Files)
        /\ prog' = prog /\ (~Parallel => parsers = <<>>) /\ NoFile \notin Files
    BY <1>2, FixedByNext, NodeFacts DEF IInv, ImportTypeOK, Stages
  <2>2. Program' = Program
    <3>1. /\ Nodes' = Nodes /\ (\A n : FileOf(n)' = FileOf(n))
          /\ \A c : NodesOf(c)' = NodesOf(c)
      BY <2>1, Fixed
    <3> QED BY <2>1, <3>1 DEF Program, FileOf, Name, Item, NodesOf, NodesIn, Nodes
  <2>3. /\ Pending \in Seq(Nodes) /\ (parsers = <<>> => Pending = <<>>)
        /\ \A f \in Files : parsers' = Append(parsers, f) =>
              Pending' = Pending \o NodesOf(f)
        /\ parsers # <<>> /\ parsers' = Tail(parsers) =>
              Pending = NodesOf(Head(parsers)) \o Pending' /\ Pending' \in Seq(Nodes)
    BY <2>1, PendingFacts
  <2>4. parsers' = parsers => Pending' = Pending
    BY <2>1 DEF Pending, NodesOf, NodesIn
  <2> DEFINE Step == \/ UNCHANGED <<queue, byID>>
                     \/ /\ queue # <<>>
                        /\ LET f == Program.fileOf[Head(queue)]
                           IN \/ /\ f # NoFile /\ Program.declares[f] # NoId
                                 /\ byID[Program.declares[f]] = NoFile
                                 /\ byID' = [byID EXCEPT ![Program.declares[f]] = f]
                                 /\ queue' = Tail(queue) \o Program.importsOf[f]
                              \/ /\ ~(/\ f # NoFile /\ Program.declares[f] # NoId
                                      /\ byID[Program.declares[f]] = NoFile)
                                 /\ queue' = Tail(queue)
                                 /\ byID' = byID
  <2> SUFFICES Step
    <3>1. CASE UNCHANGED <<queue, byID>>
      BY <2>2, <3>1
    <3>2. CASE ~UNCHANGED <<queue, byID>>
      <4>1. Step => ImportsInOrder!Serve
        BY <2>2, <3>2 DEF ImportsInOrder!Serve, ImportsInOrder!ServeNew,
              ImportsInOrder!ServeOther, ImportsInOrder!Provides
      <4> QED BY <4>1
    <3> QED BY <3>1, <3>2
  <2>5. ASSUME NEW n \in Nodes, Take(n)
        PROVE  /\ queue # <<>> /\ Head(queue) = n /\ Tail(queue) = Tail(imports) \o Pending
               /\ Program.fileOf[Head(queue)] = FileOf(n)
               /\ Program.declares[FileOf(n)] = DeclaredID(n)
               /\ FileOf(n) \in Files => Program.importsOf[FileOf(n)] = NodesOf(FileOf(n))
               /\ Tail(imports) \in Seq(Nodes)
    <3>1. imports = <<n>> \o Tail(imports) /\ Tail(imports) \in Seq(Nodes)
      BY <1>2, <2>5, TakeFacts
    <3> DEFINE t == Tail(imports)
    <3> DEFINE x == <<n>>
    <3>2. x \in Seq(Nodes) /\ t \in Seq(Nodes) /\ Pending \in Seq(Nodes) /\ imports = x \o t
      BY <2>3, <3>1
    <3> HIDE DEF t, x
    <3>3. (x \o t) \o Pending = x \o (t \o Pending) /\ t \o Pending \in Seq(Nodes)
      BY <3>2, ConcatAssociative, ConcatProperties
    <3>4. queue = x \o (t \o Pending)
      BY <3>2, <3>3
    <3> DEFINE u == t \o Pending
    <3>5. u \in Seq(Nodes)
      BY <3>3
    <3> HIDE DEF u
    <3>6. x \o u # <<>> /\ Head(x \o u) = n /\ Tail(x \o u) = u
      BY <3>5 DEF x
    <3>7. queue # <<>> /\ Head(queue) = n /\ Tail(queue) = t \o Pending
      BY <3>4, <3>6 DEF u
    <3> HIDE DEF queue
    <3>8. /\ Program.fileOf[n] = FileOf(n) /\ Program.declares[FileOf(n)] = DeclaredID(n)
          /\ FileOf(n) \in Files => Program.importsOf[FileOf(n)] = NodesOf(FileOf(n))
      BY DEF Program, DeclaredID
    <3> QED BY <3>2, <3>7, <3>8 DEF t
  <2>6. ASSUME NEW n \in Nodes,
               TakeSeen(n) \/ TakeUnreadable(n) \/ TakeNotModule(n) \/ TakeKnownId(n)
        PROVE  Step
    <3>1. /\ Take(n) /\ imports' = Tail(imports) /\ byID' = byID /\ parsers' = parsers
          /\ FileOf(n) # NoFile /\ DeclaredID(n) # NoId => byID[DeclaredID(n)] # NoFile
      BY <1>2, <2>6, OtherFacts
    <3>2. queue' = Tail(imports) \o Pending
      BY <2>4, <3>1
    <3>3. /\ queue # <<>> /\ Head(queue) = n /\ Tail(queue) = Tail(imports) \o Pending
          /\ Program.fileOf[Head(queue)] = FileOf(n)
          /\ Program.declares[FileOf(n)] = DeclaredID(n)
      BY <2>5, <3>1
    <3> HIDE DEF queue
    <3> QED BY <3>1, <3>2, <3>3
  <2>7. ASSUME NEW n \in Nodes, TakeNew(n)
        PROVE  Step
    <3> DEFINE f == FileOf(n)
    <3>1. /\ Take(n) /\ f \in Files /\ DeclaredID(n) # NoId /\ byID[DeclaredID(n)] = NoFile
          /\ \/ /\ Register(n)
                /\ \/ imports' = Tail(imports) /\ parsers' = Append(parsers, f)
                   \/ /\ ~Parallel
                      /\ imports' = Tail(imports) \o NodesOf(f) /\ parsers' = parsers
             \/ UNCHANGED <<imports, byID, parsers>>
      BY <1>2, <2>7, NewFacts
    <3>2. /\ queue # <<>> /\ Head(queue) = n /\ Tail(queue) = Tail(imports) \o Pending
          /\ Program.fileOf[Head(queue)] = f /\ Program.declares[f] = DeclaredID(n)
          /\ Program.importsOf[f] = NodesOf(f)
          /\ Tail(imports) \in Seq(Nodes)
      BY <2>5, <3>1
    <3>3. NodesOf(f) \in Seq(Nodes)
      BY <2>1, <3>1, NodeFacts DEF Containers
    <3>4. CASE UNCHANGED <<imports, byID, parsers>>
      BY <2>4, <3>4
    <3>5. ASSUME Register(n), imports' = Tail(imports), parsers' = Append(parsers, f)
          PROVE  queue' = Tail(queue) \o NodesOf(f)
      <4>1. Pending' = Pending \o NodesOf(f)
        BY <2>3, <3>1, <3>5
      <4> DEFINE t == Tail(imports)
      <4> DEFINE s == NodesOf(f)
      <4>2. t \in Seq(Nodes) /\ s \in Seq(Nodes)
        BY <3>2, <3>3
      <4> HIDE DEF t, s
      <4>3. t \o (Pending \o s) = (t \o Pending) \o s
        BY <2>3, <4>2, ConcatAssociative
      <4>4. queue' = t \o (Pending \o s)
        BY <3>5, <4>1 DEF t, s
      <4> QED BY <3>2, <4>3, <4>4 DEF t, s
    <3>6. ASSUME Register(n), ~Parallel, imports' = Tail(imports) \o NodesOf(f), parsers' = parsers
          PROVE  queue' = Tail(queue) \o NodesOf(f)
      <4>1. Pending = <<>> /\ Pending' = <<>>
        BY <2>1, <2>3, <2>4, <3>6
      <4> DEFINE t == Tail(imports)
      <4> DEFINE s == NodesOf(f)
      <4>2. t \in Seq(Nodes) /\ s \in Seq(Nodes)
        BY <3>2, <3>3
      <4> HIDE DEF t, s
      <4>3. t \o <<>> = t /\ (t \o s) \o <<>> = t \o s
        BY <4>2, ConcatEmptySeq, ConcatProperties
      <4>4. queue' = (t \o s) \o <<>> /\ Tail(queue) = t \o <<>>
        BY <3>2, <3>6, <4>1 DEF t, s
      <4> QED BY <4>3, <4>4 DEF s
    <3>7. Register(n) => byID' = [byID EXCEPT ![DeclaredID(n)] = f]
      BY DEF Register
    <3>8. f # NoFile
      BY <2>1, <3>1
    <3> HIDE DEF queue, f
    <3> QED BY <3>1, <3>2, <3>4, <3>5, <3>6, <3>7, <3>8
  <2>8. CASE Collect
    <3> DEFINE h == Head(parsers)
    <3>1. /\ parsers # <<>> /\ h \in Files /\ imports' = imports \o NodesOf(h)
          /\ parsers' = Tail(parsers) /\ byID' = byID
      BY <1>2, <2>8, CollectFacts
    <3>2. Pending = NodesOf(h) \o Pending' /\ Pending' \in Seq(Nodes)
      BY <2>3, <3>1
    <3>3. NodesOf(h) \in Seq(Nodes)
      BY <2>1, <3>1, NodeFacts DEF Containers
    <3> DEFINE s == NodesOf(h)
    <3>4. PICK p : p = Pending'
      OBVIOUS
    <3>5. p \in Seq(Nodes) /\ s \in Seq(Nodes) /\ Pending = s \o p
      BY <3>2, <3>3, <3>4
    <3> HIDE DEF s
    <3>6. (imports \o s) \o p = imports \o (s \o p)
      BY <2>1, <3>5, ConcatAssociative
    <3>7. queue' = (imports \o s) \o p
      BY <3>1, <3>4 DEF s
    <3>8. queue' = queue
      BY <3>5, <3>6, <3>7
    <3> QED BY <3>1, <3>8
  <2>9. CASE (\E f \in Files : Parse(f)) \/ Join \/ Finish \/ StageNext \/ UNCHANGED vars
    <3>1. UNCHANGED <<imports, parsers, byID>>
      BY <2>9, StageFacts DEF Parse, Join, Finish, vars, importVars
    <3> QED BY <2>4, <3>1
  <2> HIDE DEF Step
  <2> QED BY <1>2, <2>6, <2>7, <2>8, <2>9 DEF Next, ImportNext
<1>3. Spec => ImportsInOrder!Spec
  BY <1>1, <1>2, ImportInductive, PTL DEF Spec, ImportsInOrder!Spec
<1> QED BY <1>3 DEF ImplementsOrder

-----------------------------------------------------------------------------
(***************************************************************************)
(* For every program: the symbols stage activates exactly the modules that *)
(* are imported, and holds for compile time only what it should, whatever  *)
(* the order in which imports inside and outside of \ct are met.           *)
(*                                                                         *)
(* The argument: the lists of nodes still to visit are nested, so that no  *)
(* module is freed while one inside a \ct is being visited (Nested); hence *)
(* a module that is freed has had all its nodes visited, and freeing what  *)
(* they import leaves no marked module behind an unmarked one (Marked).    *)
(***************************************************************************)

-----------------------------------------------------------------------------
(* The inductive invariant. *)

(* A module in whose place, or around it, there is a \ct. *)
CT(c) == \E m \in above[c] : Item(m).ct

(* The containers whose nodes are or have been visited, and the nodes that *)
(* are still to be visited: Before(s, n, m) when n comes no later than m,  *)
(* but for the order in a list.                                            *)
Entered == {Main} \cup activated
Waits(s, n) == \E k \in DOMAIN s : n \in Range(s[k])
Before(s, n, m) ==
    \E k, l \in DOMAIN s : k <= l /\ n \in Range(s[k]) /\ m \in Range(s[l])

(* The phases before, in and after the symbols stage. *)
Early == {"taking", "collecting", "loaded"}
Stage == {"symbols", "activated", "analyzed"}
Done == {"activated", "analyzed"}

ActivationTypeOK ==
    /\ stack \in Seq(Seq(Nodes))
    /\ activated \subseteq Files
    /\ asCT \subseteq activated /\ leaveAlone \subseteq activated
    /\ above \in [Containers -> SUBSET Nodes] /\ above[Main] = {}
    /\ phase \in Early => activated = {} /\ stack = <<>>
    /\ phase \in Done => stack = <<>>

(* A node of what was entered waits, or its module has been activated. *)
Visits ==
    phase \in Stage => \A n \in Nodes :
        /\ Waits(stack, n) => n[1] \in Entered
        /\ n[1] \in Entered => Waits(stack, n) \/ answer[n] \in activated

(* Calls below a \ct are below it altogether: a node has been visited, or  *)
(* is inside a \ct when one that waits behind it is.                       *)
Visited(n) == answer[n] \in activated /\ ~Frees(n)
Nested ==
    \A n, m \in Nodes : Before(stack, n, m) => (CT(m[1]) => CT(n[1]) \/ Visited(n))

(* What is marked was met inside a \ct; what was freed has been visited to *)
(* its end; what an unmarked module imports outside of \ct is not marked.  *)
Marked ==
    phase \in Stage =>
        /\ \A f \in asCT : CT(f)
        /\ \A n \in Nodes : Waits(stack, n) /\ CT(n[1]) => n[1] \in asCT
        /\ \A n \in Nodes : n[1] \in Entered \ asCT /\ ~Item(n).ct =>
              Waits(stack, n) \/ answer[n] \notin asCT

(* What chains of imports lead to what. *)
Chains ==
    /\ activated \subseteq Reachable
    /\ \A f \in activated : ~CT(f) => f \in AtRuntime
    /\ activated \ asCT \subseteq FromRuntime
    /\ leaveAlone \subseteq FromRuntime

(* The nodes around a module are where the modules around it have been put, *)
(* and no two modules are in the same place.                                *)
Places ==
    /\ \A f \in activated : \A m \in above[f] :
          /\ m[1] \in Entered /\ answer[m] \in activated
          /\ above[answer[m]] = {m} \cup above[m[1]]
          /\ f \in Reach({answer[m]}, Nodes)
    /\ \A f, g \in activated : above[f] = above[g] => f = g

(* What the analysis hides. *)
Hides == phase = "analyzed" => hidden = {f \in activated : \E n \in above[f] : Marks(n)}

ActivationInv == ActivationTypeOK /\ Visits /\ Nested /\ Marked /\ Chains /\ Places /\ Hides

-----------------------------------------------------------------------------
(* Reach is the smallest closed set. *)
LEMMA ReachFacts ==
    ASSUME NEW from \in SUBSET Containers, NEW links \in SUBSET Nodes
    PROVE  /\ Reach(from, links) \subseteq Files
           /\ \A f \in from : f \in Files => f \in Reach(from, links)
           /\ \A n \in links : n[1] \in from \cup Reach(from, links) /\ answer[n] \in Files =>
                 answer[n] \in Reach(from, links)
           /\ \A S \in SUBSET Containers : from \subseteq S /\ Closed(S, links) =>
                 Reach(from, links) \subseteq S
<1>1. ASSUME NEW n \in links, n[1] \in from \cup Reach(from, links), answer[n] \in Files
      PROVE  answer[n] \in Reach(from, links)
  <2> SUFFICES ASSUME NEW S \in SUBSET Containers, from \subseteq S, Closed(S, links)
               PROVE  answer[n] \in S
    BY <1>1 DEF Reach
  <2>1. n[1] \in S
    BY <1>1 DEF Reach
  <2> QED BY <1>1, <2>1 DEF Closed
<1>2. \A f \in from : f \in Files => f \in Reach(from, links)
  BY DEF Reach
<1>3. /\ Reach(from, links) \subseteq Files
      /\ \A S \in SUBSET Containers : from \subseteq S /\ Closed(S, links) =>
            Reach(from, links) \subseteq S
  BY DEF Reach
<1> QED BY <1>1, <1>2, <1>3

(* It is what it was as long as the answers and the program are. *)
LEMMA ReachFixed ==
    ASSUME prog' = prog, answer' = answer
    PROVE  /\ \A from, links : Reach(from, links)' = Reach(from, links)
           /\ Nodes' = Nodes /\ (\A n : Item(n)' = Item(n)) /\ (\A c : NodesOf(c)' = NodesOf(c))
           /\ Reachable' = Reachable /\ AtRuntime' = AtRuntime /\ FromRuntime' = FromRuntime
<1>1. Nodes' = Nodes /\ (\A n : Item(n)' = Item(n)) /\ (\A c : NodesOf(c)' = NodesOf(c))
  BY Fixed
<1>2. \A S, links : Closed(S, links)' <=> Closed(S, links)
  BY DEF Closed
<1>3. \A from, links : Reach(from, links)' = Reach(from, links)
  BY DEF Reach, Closed
<1>4. Reachable' = Reachable
  BY <1>1 DEF Reachable, Reach, Closed
<1>5. {n \in Nodes : ~Item(n).ct}' = {n \in Nodes : ~Item(n).ct}
  BY <1>1
<1>6. AtRuntime' = AtRuntime
  BY <1>5 DEF AtRuntime, Reach, Closed
<1>7. FromRuntime' = FromRuntime
  BY <1>1, <1>6 DEF FromRuntime, Reach, Closed
<1> QED BY <1>1, <1>3, <1>4, <1>6, <1>7

(* The sets of modules that the properties speak of. *)
LEMMA ReachableFacts ==
    ASSUME prog \in Programs
    PROVE  /\ Reachable \subseteq Files /\ AtRuntime \subseteq FromRuntime
           /\ FromRuntime \subseteq Files
           /\ \A n \in Nodes : answer[n] \in Files =>
                 /\ n[1] \in {Main} \cup Reachable => answer[n] \in Reachable
                 /\ n[1] \in {Main} \cup AtRuntime /\ ~Item(n).ct => answer[n] \in AtRuntime
                 /\ n[1] \in FromRuntime => answer[n] \in FromRuntime
           /\ \A S \in SUBSET Containers : Main \in S =>
                 /\ Closed(S, Nodes) => Reachable \subseteq S
                 /\ Closed(S, {n \in Nodes : ~Item(n).ct}) => AtRuntime \subseteq S
           /\ \A f \in FromRuntime : Reach({f}, Nodes) \subseteq FromRuntime
<1> DEFINE plain == {n \in Nodes : ~Item(n).ct}
<1>1. {Main} \in SUBSET Containers /\ Nodes \in SUBSET Nodes /\ plain \in SUBSET Nodes
      /\ Files \subseteq Containers
  BY DEF Containers
<1>2. /\ Reachable \subseteq Files
      /\ \A n \in Nodes : n[1] \in {Main} \cup Reachable /\ answer[n] \in Files =>
            answer[n] \in Reachable
      /\ \A S \in SUBSET Containers : {Main} \subseteq S /\ Closed(S, Nodes) => Reachable \subseteq S
  BY <1>1, ReachFacts DEF Reachable
<1> HIDE DEF plain
<1>3. AtRuntime = Reach({Main}, plain)
  BY DEF AtRuntime, plain
<1>4. /\ AtRuntime \subseteq Files
      /\ \A n \in plain : n[1] \in {Main} \cup AtRuntime /\ answer[n] \in Files =>
            answer[n] \in AtRuntime
      /\ \A S \in SUBSET Containers : {Main} \subseteq S /\ Closed(S, plain) => AtRuntime \subseteq S
  BY <1>1, <1>3, ReachFacts
<1>5. AtRuntime \in SUBSET Containers
  BY <1>1, <1>4
<1>6. /\ FromRuntime \subseteq Files
      /\ \A f \in AtRuntime : f \in Files => f \in FromRuntime
      /\ \A n \in Nodes : n[1] \in AtRuntime \cup FromRuntime /\ answer[n] \in Files =>
            answer[n] \in FromRuntime
  BY <1>5, ReachFacts DEF FromRuntime
<1>7. ASSUME NEW f \in FromRuntime
      PROVE  Reach({f}, Nodes) \subseteq FromRuntime
  <2>1. {f} \in SUBSET Containers /\ FromRuntime \in SUBSET Containers
    BY <1>1, <1>6
  <2>2. Closed(FromRuntime, Nodes)
    BY <1>6 DEF Closed
  <2>3. \A S \in SUBSET Containers : {f} \subseteq S /\ Closed(S, Nodes) =>
           Reach({f}, Nodes) \subseteq S
    BY <1>1, <2>1, ReachFacts
  <2>4. {f} \subseteq FromRuntime
    OBVIOUS
  <2> QED BY <2>1, <2>2, <2>3, <2>4
<1> QED BY <1>2, <1>4, <1>6, <1>7 DEF plain

(* What is awakened with a module. *)
LEMMA AwakenedFacts ==
    ASSUME prog \in Programs, asCT \subseteq Files, NEW f \in Files
    PROVE  /\ f \in Awakened(f) /\ Awakened(f) \subseteq Reach({f}, Nodes)
           /\ Awakened(f) \subseteq {f} \cup asCT
           /\ \A n \in Nodes : n[1] \in Awakened(f) /\ answer[n] \in asCT =>
                 answer[n] \in Awakened(f)
<1> DEFINE links == {n \in Nodes : answer[n] \in asCT}
<1>1. {f} \in SUBSET Containers /\ links \in SUBSET Nodes /\ Nodes \in SUBSET Nodes
      /\ Files \subseteq Containers
  BY DEF Containers
<1> HIDE DEF links
<1>2. Awakened(f) = Reach({f}, links)
  BY DEF Awakened, links
<1>3. /\ Awakened(f) \subseteq Files /\ f \in Awakened(f)
      /\ \A n \in links : n[1] \in {f} \cup Awakened(f) /\ answer[n] \in Files =>
            answer[n] \in Awakened(f)
      /\ \A S \in SUBSET Containers : {f} \subseteq S /\ Closed(S, links) => Awakened(f) \subseteq S
  <2>1. /\ Reach({f}, links) \subseteq Files
        /\ f \in Reach({f}, links)
        /\ \A n \in links : n[1] \in {f} \cup Reach({f}, links) /\ answer[n] \in Files =>
              answer[n] \in Reach({f}, links)
        /\ \A S \in SUBSET Containers : {f} \subseteq S /\ Closed(S, links) =>
              Reach({f}, links) \subseteq S
    BY <1>1, ReachFacts
  <2> QED BY <1>2, <2>1
<1>4. /\ Reach({f}, Nodes) \subseteq Files /\ f \in Reach({f}, Nodes)
      /\ \A n \in Nodes : n[1] \in {f} \cup Reach({f}, Nodes) /\ answer[n] \in Files =>
            answer[n] \in Reach({f}, Nodes)
  BY <1>1, ReachFacts
<1>5. Closed(Reach({f}, Nodes), links)
  BY <1>1, <1>4 DEF Closed
<1>6. Awakened(f) \subseteq Reach({f}, Nodes)
  BY <1>1, <1>3, <1>4, <1>5
<1>7. Closed({f} \cup asCT, links)
  BY DEF Closed, links
<1>8. Awakened(f) \subseteq {f} \cup asCT
  BY <1>1, <1>3, <1>7
<1> QED BY <1>3, <1>6, <1>8 DEF links

-----------------------------------------------------------------------------
(* The nodes that wait, when the first list is replaced or leaves. *)
LEMMA RestFacts ==
    ASSUME stack \in Seq(Seq(Nodes)), stack # <<>>, Head(stack) # <<>>,
           NEW n, n = Head(Head(stack))
    PROVE  /\ Rest \in Seq(Seq(Nodes)) /\ Len(Rest) = Len(stack) /\ n \in Nodes
           /\ \A k \in 1..Len(stack) : /\ Range(Rest[k]) \subseteq Range(stack[k])
                                       /\ Range(stack[k]) \subseteq Range(Rest[k]) \cup {n}
           /\ Waits(stack, n) /\ \A m : Waits(stack, m) => Before(stack, n, m)
<1>1. PICK h : h = stack[1]
  OBVIOUS
<1>2. /\ Len(stack) \in Nat /\ Len(stack) >= 1 /\ DOMAIN stack = 1..Len(stack)
      /\ h \in Seq(Nodes) /\ h = Head(stack) /\ h # <<>>
  BY <1>1
<1>3. /\ n = h[1] /\ n \in Nodes /\ Tail(h) \in Seq(Nodes)
      /\ Len(h) \in Nat /\ Len(h) >= 1 /\ DOMAIN h = 1..Len(h)
      /\ Len(Tail(h)) = Len(h) - 1 /\ DOMAIN Tail(h) = 1..(Len(h) - 1)
      /\ \A i \in 1..(Len(h) - 1) : Tail(h)[i] = h[i + 1]
  BY <1>2
<1>4. Range(Tail(h)) \subseteq Range(h)
  <2> SUFFICES ASSUME NEW i \in 1..(Len(h) - 1) PROVE h[i + 1] \in Range(h)
    BY <1>3 DEF Range
  <2>1. i + 1 \in DOMAIN h
    BY <1>3
  <2> QED BY <2>1 DEF Range
<1>5. Range(h) \subseteq Range(Tail(h)) \cup {n}
  <2> SUFFICES ASSUME NEW i \in 1..Len(h), h[i] # n PROVE h[i] \in Range(Tail(h))
    BY <1>3 DEF Range
  <2>1. i - 1 \in DOMAIN Tail(h) /\ i = (i - 1) + 1
    BY <1>3
  <2>2. h[i] = Tail(h)[i - 1]
    BY <1>3, <2>1
  <2> QED BY <2>1, <2>2 DEF Range
<1>6. Rest = [stack EXCEPT ![1] = Tail(h)]
  BY <1>1 DEF Rest
<1>7. /\ Rest \in Seq(Seq(Nodes)) /\ Len(Rest) = Len(stack)
      /\ \A k \in 1..Len(stack) : Rest[k] = IF k = 1 THEN Tail(h) ELSE stack[k]
  <2>1. DOMAIN Rest = 1..Len(stack) /\ \A k \in 1..Len(stack) : Rest[k] = IF k = 1 THEN Tail(h) ELSE stack[k]
    BY <1>2, <1>6
  <2>2. Rest = [k \in 1..Len(stack) |-> IF k = 1 THEN Tail(h) ELSE stack[k]]
    BY <1>2, <1>6
  <2>3. \A k \in 1..Len(stack) : (IF k = 1 THEN Tail(h) ELSE stack[k]) \in Seq(Nodes)
    BY <1>2, <1>3
  <2> QED BY <1>2, <2>1, <2>2, <2>3
<1>8. \A k \in 1..Len(stack) : /\ Range(Rest[k]) \subseteq Range(stack[k])
                               /\ Range(stack[k]) \subseteq Range(Rest[k]) \cup {n}
  BY <1>1, <1>4, <1>5, <1>7
<1>9. n \in Range(stack[1]) /\ 1 \in DOMAIN stack /\ \A l \in DOMAIN stack : 1 <= l
  BY <1>1, <1>2, <1>3 DEF Range
<1> QED BY <1>3, <1>7, <1>8, <1>9 DEF Waits, Before

(* A node is visited and nothing is put in its place. *)
LEMMA PopFacts ==
    ASSUME stack \in Seq(Seq(Nodes)), stack # <<>>, Head(stack) # <<>>,
           NEW n, n = Head(Head(stack))
    PROVE  /\ \A p, m : Before(Rest, p, m) => Before(stack, p, m)
           /\ \A p : Waits(Rest, p) => Waits(stack, p)
           /\ \A p : Waits(stack, p) /\ p # n => Waits(Rest, p)
<1>1. /\ Rest \in Seq(Seq(Nodes)) /\ Len(Rest) = Len(stack)
      /\ \A k \in 1..Len(stack) : /\ Range(Rest[k]) \subseteq Range(stack[k])
                                  /\ Range(stack[k]) \subseteq Range(Rest[k]) \cup {n}
  BY RestFacts
<1>2. DOMAIN Rest = 1..Len(stack) /\ DOMAIN stack = 1..Len(stack)
  BY <1>1
<1> QED BY <1>1, <1>2 DEF Waits, Before

(* A node is visited and a list is put before the others. *)
LEMMA PushFacts ==
    ASSUME stack \in Seq(Seq(Nodes)), stack # <<>>, Head(stack) # <<>>,
           NEW n, n = Head(Head(stack)), NEW new \in Seq(Nodes), NEW s, s = <<new>> \o Rest
    PROVE  /\ s \in Seq(Seq(Nodes))
           /\ \A p, m : Before(s, p, m) =>
                 \/ Before(stack, p, m)
                 \/ p \in Range(new) /\ (m \in Range(new) \/ Waits(stack, m))
           /\ \A p : Waits(s, p) => p \in Range(new) \/ Waits(stack, p)
           /\ \A p : Waits(stack, p) /\ p # n => Waits(s, p)
           /\ \A p \in Range(new) : Waits(s, p)
<1>1. /\ Rest \in Seq(Seq(Nodes)) /\ Len(Rest) = Len(stack)
      /\ \A k \in 1..Len(stack) : /\ Range(Rest[k]) \subseteq Range(stack[k])
                                  /\ Range(stack[k]) \subseteq Range(Rest[k]) \cup {n}
  BY RestFacts
<1>2. DOMAIN Rest = 1..Len(stack) /\ DOMAIN stack = 1..Len(stack) /\ Len(stack) \in Nat
  BY <1>1
<1>3. PICK r : r = Rest
  OBVIOUS
<1>4. /\ s \in Seq(Seq(Nodes)) /\ DOMAIN s = 1..(Len(stack) + 1) /\ s[1] = new
      /\ \A k \in 1..Len(stack) : s[k + 1] = r[k]
  BY <1>1, <1>2, <1>3
<1>5. \A k \in DOMAIN s : k # 1 => k - 1 \in 1..Len(stack) /\ s[k] = r[k - 1]
  <2> SUFFICES ASSUME NEW k \in DOMAIN s, k # 1
               PROVE  k - 1 \in 1..Len(stack) /\ s[k] = r[k - 1]
    OBVIOUS
  <2>1. k - 1 \in 1..Len(stack) /\ (k - 1) + 1 = k
    BY <1>2, <1>4
  <2> QED BY <1>4, <2>1
<1>6. ASSUME NEW p, NEW m, Before(s, p, m)
      PROVE  \/ Before(stack, p, m)
             \/ p \in Range(new) /\ (m \in Range(new) \/ Waits(stack, m))
  <2>1. PICK k \in DOMAIN s, l \in DOMAIN s : k <= l /\ p \in Range(s[k]) /\ m \in Range(s[l])
    BY <1>6 DEF Before
  <2>2. CASE l = 1
    <3>1. k = 1
      BY <1>2, <1>4, <2>1, <2>2
    <3> QED BY <1>4, <2>1, <2>2, <3>1
  <2>3. CASE l # 1 /\ k = 1
    <3>1. l - 1 \in DOMAIN stack /\ m \in Range(stack[l - 1])
      BY <1>1, <1>2, <1>3, <1>5, <2>1, <2>3
    <3> QED BY <1>4, <2>1, <2>3, <3>1 DEF Waits
  <2>4. CASE l # 1 /\ k # 1
    <3>1. /\ l - 1 \in DOMAIN stack /\ m \in Range(stack[l - 1])
          /\ k - 1 \in DOMAIN stack /\ p \in Range(stack[k - 1])
      BY <1>1, <1>2, <1>3, <1>5, <2>1, <2>4
    <3>2. k - 1 <= l - 1
      BY <1>2, <1>4, <2>1
    <3> QED BY <3>1, <3>2 DEF Before
  <2> QED BY <2>2, <2>3, <2>4
<1>7. ASSUME NEW p, Waits(s, p)
      PROVE  p \in Range(new) \/ Waits(stack, p)
  <2>1. PICK k \in DOMAIN s : p \in Range(s[k])
    BY <1>7 DEF Waits
  <2> QED BY <1>1, <1>2, <1>3, <1>4, <1>5, <2>1 DEF Waits
<1>8. ASSUME NEW p, Waits(stack, p), p # n
      PROVE  Waits(s, p)
  <2>1. PICK k \in 1..Len(stack) : p \in Range(stack[k])
    BY <1>2, <1>8 DEF Waits
  <2>2. p \in Range(r[k]) /\ s[k + 1] = r[k] /\ k + 1 \in DOMAIN s
    BY <1>1, <1>2, <1>3, <1>4, <1>8, <2>1
  <2> QED BY <2>2 DEF Waits
<1>9. \A p \in Range(new) : Waits(s, p)
  <2>1. 1 \in DOMAIN s
    BY <1>2, <1>4
  <2> QED BY <1>4, <2>1 DEF Waits
<1> QED BY <1>4, <1>6, <1>7, <1>8, <1>9

(* An empty list leaves. *)
LEMMA ReturnFacts ==
    ASSUME stack \in Seq(Seq(Nodes)), stack # <<>>, Head(stack) = <<>>
    PROVE  /\ Tail(stack) \in Seq(Seq(Nodes))
           /\ \A p, m : Before(Tail(stack), p, m) => Before(stack, p, m)
           /\ \A p : Waits(Tail(stack), p) <=> Waits(stack, p)
           /\ Len(stack) = 1 => Tail(stack) = <<>>
<1>1. PICK t : t = Tail(stack)
  OBVIOUS
<1>2. /\ Len(stack) \in Nat /\ Len(stack) >= 1 /\ DOMAIN stack = 1..Len(stack)
      /\ t \in Seq(Seq(Nodes)) /\ Len(t) = Len(stack) - 1 /\ DOMAIN t = 1..(Len(stack) - 1)
      /\ \A k \in 1..(Len(stack) - 1) : t[k] = stack[k + 1]
      /\ stack[1] = <<>>
  BY <1>1
<1>3. \A k \in DOMAIN t : k + 1 \in DOMAIN stack /\ t[k] = stack[k + 1]
  BY <1>2
<1>4. \A k \in DOMAIN stack : k # 1 => k - 1 \in DOMAIN t /\ t[k - 1] = stack[k]
  <2> SUFFICES ASSUME NEW k \in 1..Len(stack), k # 1
               PROVE  k - 1 \in DOMAIN t /\ t[k - 1] = stack[k]
    BY <1>2
  <2>1. k - 1 \in 1..(Len(stack) - 1) /\ (k - 1) + 1 = k
    BY <1>2
  <2> QED BY <1>2, <2>1
<1>5. Range(stack[1]) = {}
  BY <1>2 DEF Range
<1>6. ASSUME NEW p, NEW m, Before(t, p, m) PROVE Before(stack, p, m)
  <2>1. PICK k \in DOMAIN t, l \in DOMAIN t : k <= l /\ p \in Range(t[k]) /\ m \in Range(t[l])
    BY <1>6 DEF Before
  <2>2. k + 1 <= l + 1
    BY <1>2, <2>1
  <2> QED BY <1>3, <2>1, <2>2 DEF Before
<1>7. \A p : Waits(t, p) <=> Waits(stack, p)
  BY <1>3, <1>4, <1>5 DEF Waits
<1>8. Len(stack) = 1 => t = <<>>
  BY <1>2
<1> QED BY <1>1, <1>2, <1>6, <1>7, <1>8

-----------------------------------------------------------------------------
(* What the steps do. *)

(* The import stage comes before. *)
LEMMA BeforeFacts ==
    ASSUME ImportNext, UNCHANGED activationVars
    PROVE  /\ phase \in {"taking", "collecting"}
           /\ phase' \in {"taking", "collecting", "loaded", "error", "crashed"}
           /\ UNCHANGED <<stack, activated, asCT, above, leaveAlone, hidden>>
BY DEF ImportNext, TakeSeen, TakeUnreadable, TakeNotModule, TakeKnownId, TakeNew, Peek,
       Take, Parse, Join, Collect, Finish, activationVars

(* Steps that leave what the symbols stage works on. *)
Quiet ==
    /\ UNCHANGED <<prog, answer, stack, activated, asCT, above, leaveAlone>>
    /\ \A P \in {Early, Stage, Done} : phase' \in P => phase \in P

(* Every step is one of the import stage, a quiet one, the start of the    *)
(* symbols stage, the end of a list or a visit.                            *)
LEMMA Steps ==
    ASSUME [Next]_vars
    PROVE  \/ ImportNext /\ UNCHANGED activationVars
           \/ Quiet
           \/ StartSymbols
           \/ Return
           \/ \E n \in Nodes : Activate(n) \/ Reactivate(n)
<1>1. ASSUME NEW n \in Nodes, VisitFailed(n) PROVE Quiet
  BY <1>1 DEF VisitFailed, Visiting, Quiet, Early, Stage, Done
<1>2. ASSUME Analyze PROVE Quiet
  BY <1>2 DEF Analyze, Quiet, Early, Stage, Done
<1>3. ASSUME UNCHANGED vars PROVE Quiet
  BY <1>3 DEF vars, importVars, activationVars, Quiet
<1> QED BY <1>1, <1>2, <1>3 DEF Next, StageNext

(* A visit. *)
LEMMA VisitFacts ==
    ASSUME ImportTypeOK, ActivationTypeOK, Visits, NEW n \in Nodes, Visiting(n)
    PROVE  /\ prog' = prog /\ answer' = answer /\ prog \in Programs
           /\ stack # <<>> /\ Head(stack) # <<>> /\ n = Head(Head(stack))
           /\ Waits(stack, n) /\ n[1] \in Entered /\ n[1] \in Containers
           /\ \A m : Waits(stack, m) => Before(stack, n, m)
<1>1. /\ prog' = prog /\ answer' = answer /\ phase = "symbols"
      /\ stack # <<>> /\ Head(stack) # <<>> /\ n = Head(Head(stack))
  BY DEF Visiting
<1>2. prog \in Programs
  BY DEF ImportTypeOK
<1>3. Waits(stack, n) /\ \A m : Waits(stack, m) => Before(stack, n, m)
  BY <1>1, RestFacts DEF ActivationTypeOK
<1>4. n[1] \in Entered /\ n[1] \in Containers
  BY <1>1, <1>2, <1>3, NodeFacts DEF Visits, Stage
<1> QED BY <1>1, <1>2, <1>3, <1>4

(* A module is activated. *)
LEMMA ActivateFacts ==
    ASSUME ImportTypeOK, ActivationTypeOK, Visits, NEW n \in Nodes, Activate(n),
           NEW f, f = answer[n]
    PROVE  /\ f \in Files \ activated /\ f # n[1] /\ f # Main /\ f \in Containers
           /\ activated' = activated \cup {f} /\ leaveAlone' = leaveAlone
           /\ phase' = "symbols" /\ phase = "symbols"
           /\ asCT' = IF UnderCT(n) THEN asCT \cup {f} ELSE asCT
           /\ above' \in [Containers -> SUBSET Nodes]
           /\ above'[f] = {n} \cup above[n[1]]
           /\ \A c \in Containers : c # f => /\ above'[c] = above[c]
                                             /\ CT(c)' <=> CT(c)
           /\ CT(f)' <=> UnderCT(n)
           /\ \A m \in Nodes : m[1] # f => (UnderCT(m)' <=> UnderCT(m))
           /\ stack' \in Seq(Seq(Nodes))
           /\ \A p, m : Before(stack', p, m) =>
                 \/ Before(stack, p, m)
                 \/ (p = n \/ p[1] = f) /\ (m = n \/ m[1] = f \/ Waits(stack, m))
           /\ \A m \in Nodes : Waits(stack', m) <=> Waits(stack, m) \/ m[1] = f
<1>1. /\ Visiting(n) /\ f \in Files \ activated
      /\ activated' = activated \cup {f} /\ leaveAlone' = leaveAlone
      /\ asCT' = IF UnderCT(n) THEN asCT \cup {f} ELSE asCT
      /\ above' = [above EXCEPT ![f] = {n} \cup above[n[1]]]
      /\ stack' = <<<<n>> \o NodesOf(f)>> \o Rest
      /\ phase' = phase
  BY DEF Activate
<1>2. /\ prog' = prog /\ answer' = answer /\ prog \in Programs
      /\ stack # <<>> /\ Head(stack) # <<>> /\ n = Head(Head(stack))
      /\ Waits(stack, n) /\ n[1] \in Entered /\ n[1] \in Containers
  BY <1>1, VisitFacts
<1>3. f \in Containers /\ f # Main /\ f # n[1]
  BY <1>1, <1>2, NodeFacts DEF Containers, Entered
<1>4. /\ above \in [Containers -> SUBSET Nodes]
      /\ above'[f] = {n} \cup above[n[1]]
      /\ \A c \in Containers : c # f => above'[c] = above[c]
      /\ above' \in [Containers -> SUBSET Nodes]
  <2>1. above \in [Containers -> SUBSET Nodes]
    BY DEF ActivationTypeOK
  <2> QED BY <1>1, <1>2, <1>3, <2>1
<1>5. \A m : Item(m)' = Item(m)
  BY <1>2, Fixed
<1>6. \A c \in Containers : c # f => (CT(c)' <=> CT(c))
  BY <1>4, <1>5 DEF CT
<1>7. CT(f)' <=> UnderCT(n)
  BY <1>4, <1>5 DEF CT, UnderCT
<1>8. ASSUME NEW m \in Nodes, m[1] # f PROVE UnderCT(m)' <=> UnderCT(m)
  <2>1. m[1] \in Containers
    BY <1>2, NodeFacts
  <2> QED BY <1>4, <1>5, <1>8, <2>1 DEF UnderCT
<1>9. phase = "symbols"
  BY <1>1 DEF Visiting
<1>10. PICK new : new = <<n>> \o NodesOf(f)
  OBVIOUS
<1>11. /\ NodesOf(f) \in Seq(Nodes)
       /\ \A m \in Nodes : m \in Range(NodesOf(f)) <=> m[1] = f
  BY <1>2, <1>3, NodeFacts
<1>12. /\ new \in Seq(Nodes) /\ Range(new) = {n} \cup Range(NodesOf(f))
  <2>1. PICK t : t = NodesOf(f)
    OBVIOUS
  <2>2. PICK u : u = <<n>>
    OBVIOUS
  <2>3. u \in Seq(Nodes) /\ t \in Seq(Nodes) /\ new = u \o t
    BY <1>10, <1>11, <2>1, <2>2
  <2>4. Range(u \o t) = Range(u) \cup Range(t)
    BY <2>3, RangeFacts
  <2>5. Range(u) = {n} /\ u \o t \in Seq(Nodes)
    BY <2>2, <2>3 DEF Range
  <2> QED BY <2>1, <2>3, <2>4, <2>5
<1>13. \A m : m \in Range(new) => m \in Nodes /\ (m = n \/ m[1] = f)
  <2>1. PICK t : t = NodesOf(f)
    OBVIOUS
  <2>2. t \in Seq(Nodes)
    BY <1>11, <2>1
  <2>3. \A m \in Range(t) : m \in Nodes
    BY <2>2 DEF Range
  <2> QED BY <1>11, <1>12, <2>1, <2>3
<1>14. /\ stack' \in Seq(Seq(Nodes))
       /\ \A p, m : Before(stack', p, m) =>
             \/ Before(stack, p, m)
             \/ p \in Range(new) /\ (m \in Range(new) \/ Waits(stack, m))
       /\ \A p : Waits(stack', p) => p \in Range(new) \/ Waits(stack, p)
       /\ \A p : Waits(stack, p) /\ p # n => Waits(stack', p)
       /\ \A p \in Range(new) : Waits(stack', p)
  <2>1. stack \in Seq(Seq(Nodes)) /\ stack' = <<new>> \o Rest
    BY <1>1, <1>10 DEF ActivationTypeOK
  <2> QED BY <1>2, <1>12, <2>1, PushFacts
<1>15. \A m \in Nodes : Waits(stack', m) <=> Waits(stack, m) \/ m[1] = f
  BY <1>2, <1>11, <1>12, <1>13, <1>14
<1>16. \A p, m : Before(stack', p, m) =>
          \/ Before(stack, p, m)
          \/ (p = n \/ p[1] = f) /\ (m = n \/ m[1] = f \/ Waits(stack, m))
  BY <1>13, <1>14
<1> QED BY <1>1, <1>3, <1>4, <1>6, <1>7, <1>8, <1>9, <1>14, <1>15, <1>16

(* A module is met again. *)
LEMMA ReactivateFacts ==
    ASSUME ImportTypeOK, ActivationTypeOK, Visits, NEW n \in Nodes, Reactivate(n),
           NEW again, again = IF Frees(n) THEN Awakened(answer[n]) ELSE {}
    PROVE  /\ answer[n] \in activated /\ activated' = activated /\ above' = above
           /\ asCT' = asCT \ again /\ leaveAlone' = leaveAlone \cup again
           /\ phase' = "symbols" /\ phase = "symbols"
           /\ again \subseteq asCT
           /\ Frees(n) => answer[n] \in again /\ again \subseteq Reach({answer[n]}, Nodes)
           /\ \A m \in Nodes : m[1] \in again /\ answer[m] \in asCT => answer[m] \in again
           /\ \A c : CT(c)' <=> CT(c)
           /\ \A m : UnderCT(m)' <=> UnderCT(m)
           /\ stack' \in Seq(Seq(Nodes))
           /\ \A p, m : Before(stack', p, m) => Before(stack, p, m)
           /\ \A p : Waits(stack', p) => Waits(stack, p)
           /\ \A p : Waits(stack, p) /\ p # n => Waits(stack', p)
<1>1. /\ Visiting(n) /\ answer[n] \in activated
      /\ activated' = activated /\ above' = above
      /\ asCT' = asCT \ again /\ leaveAlone' = leaveAlone \cup again
      /\ stack' = Rest /\ phase' = phase
  BY DEF Reactivate
<1>2. /\ prog' = prog /\ answer' = answer /\ prog \in Programs
      /\ stack # <<>> /\ Head(stack) # <<>> /\ n = Head(Head(stack))
  BY <1>1, VisitFacts
<1>3. \A m : Item(m)' = Item(m)
  BY <1>2, Fixed
<1>4. phase = "symbols"
  BY <1>1 DEF Visiting
<1>5. asCT \subseteq Files /\ answer[n] \in Files
  BY <1>1 DEF ActivationTypeOK
<1>7. /\ again \subseteq asCT
      /\ Frees(n) => answer[n] \in again /\ again \subseteq Reach({answer[n]}, Nodes)
      /\ \A m \in Nodes : m[1] \in again /\ answer[m] \in asCT => answer[m] \in again
  <2>1. CASE Frees(n)
    <3>1. again = Awakened(answer[n]) /\ answer[n] \in asCT
      BY <2>1 DEF Frees
    <3> QED BY <1>2, <1>5, <3>1, AwakenedFacts
  <2>2. CASE ~Frees(n)
    BY <2>2
  <2> QED BY <2>1, <2>2
<1>8. \A c : CT(c)' <=> CT(c)
  BY <1>1, <1>3 DEF CT
<1>9. \A m : UnderCT(m)' <=> UnderCT(m)
  BY <1>1, <1>3 DEF UnderCT
<1>10. /\ stack' \in Seq(Seq(Nodes))
       /\ \A p, m : Before(stack', p, m) => Before(stack, p, m)
       /\ \A p : Waits(stack', p) => Waits(stack, p)
       /\ \A p : Waits(stack, p) /\ p # n => Waits(stack', p)
  <2>1. stack \in Seq(Seq(Nodes))
    BY DEF ActivationTypeOK
  <2>2. Rest \in Seq(Seq(Nodes))
    BY <1>2, <2>1, RestFacts
  <2> QED BY <1>1, <1>2, <2>1, <2>2, PopFacts
<1> QED BY <1>1, <1>4, <1>7, <1>8, <1>9, <1>10

(* The symbols stage begins with the program's own nodes. *)
LEMMA StartFacts ==
    ASSUME ImportTypeOK, ActivationTypeOK, StartSymbols
    PROVE  /\ prog' = prog /\ answer' = answer /\ prog \in Programs
           /\ activated = {} /\ activated' = {} /\ asCT = {} /\ asCT' = {}
           /\ leaveAlone = {} /\ leaveAlone' = {} /\ above' = above
           /\ phase' = "symbols"
           /\ stack' \in Seq(Seq(Nodes))
           /\ \A m \in Nodes : Waits(stack', m) <=> m[1] = Main
           /\ \A p, m : Before(stack', p, m) => Waits(stack', p) /\ Waits(stack', m)
<1>1. /\ prog' = prog /\ answer' = answer /\ prog \in Programs
      /\ activated = {} /\ activated' = {} /\ asCT = {} /\ asCT' = {}
      /\ leaveAlone = {} /\ leaveAlone' = {} /\ above' = above
      /\ phase' = "symbols" /\ stack' = <<NodesOf(Main)>>
  BY DEF StartSymbols, ActivationTypeOK, ImportTypeOK, Early
<1>2. PICK t : t = NodesOf(Main)
  OBVIOUS
<1>3. t \in Seq(Nodes) /\ \A m \in Nodes : m \in Range(t) <=> m[1] = Main
  BY <1>1, <1>2, NodeFacts DEF Containers
<1>4. stack' = <<t>> /\ stack' \in Seq(Seq(Nodes)) /\ DOMAIN stack' = {1} /\ stack'[1] = t
  BY <1>1, <1>2, <1>3
<1>5. \A m : Waits(stack', m) <=> m \in Range(t)
  BY <1>4 DEF Waits
<1>6. \A p, m : Before(stack', p, m) => Waits(stack', p) /\ Waits(stack', m)
  BY DEF Before, Waits
<1> QED BY <1>1, <1>3, <1>4, <1>5, <1>6

(* The end of a list. *)
LEMMA ReturnSteps ==
    ASSUME ActivationTypeOK, Return
    PROVE  /\ UNCHANGED <<prog, answer, activated, asCT, above, leaveAlone>>
           /\ phase = "symbols" /\ phase' \in {"symbols", "activated"}
           /\ stack' \in Seq(Seq(Nodes))
           /\ phase' = "activated" => stack' = <<>>
           /\ \A p, m : Before(stack', p, m) => Before(stack, p, m)
           /\ \A p : Waits(stack', p) <=> Waits(stack, p)
<1>1. /\ stack \in Seq(Seq(Nodes)) /\ stack # <<>> /\ Head(stack) = <<>>
      /\ stack' = Tail(stack) /\ phase = "symbols"
      /\ phase' = IF Len(stack) = 1 THEN "activated" ELSE phase
      /\ UNCHANGED <<prog, answer, activated, asCT, above, leaveAlone>>
  BY DEF Return, ActivationTypeOK
<1>2. /\ Tail(stack) \in Seq(Seq(Nodes))
      /\ \A p, m : Before(Tail(stack), p, m) => Before(stack, p, m)
      /\ \A p : Waits(Tail(stack), p) <=> Waits(stack, p)
      /\ Len(stack) = 1 => Tail(stack) = <<>>
  BY <1>1, ReturnFacts
<1> QED BY <1>1, <1>2

-----------------------------------------------------------------------------
(* Each part of the invariant is kept. *)

(* The types are. *)
LEMMA ActivationTypeStep ==
    ASSUME ImportTypeOK, ActivationTypeOK, Visits, [Next]_vars
    PROVE  ActivationTypeOK'
<1>1. CASE ImportNext /\ UNCHANGED activationVars
  <2>1. Nodes' = Nodes
    BY FixedByNext, Fixed
  <2>2. /\ phase \in {"taking", "collecting"} /\ phase' \notin Done
        /\ UNCHANGED <<stack, activated, asCT, above, leaveAlone, hidden>>
    BY <1>1, BeforeFacts DEF Done
  <2> QED BY <2>1, <2>2 DEF ActivationTypeOK, Early
<1>2. CASE Quiet
  <2>1. Nodes' = Nodes
    BY <1>2, Fixed DEF Quiet
  <2> QED BY <1>2, <2>1 DEF ActivationTypeOK, Quiet
<1>3. CASE StartSymbols
  <2>1. Nodes' = Nodes /\ phase' \notin Early /\ phase' \notin Done
    BY <1>3, StartFacts, Fixed DEF Early, Done
  <2> QED BY <1>3, <2>1, StartFacts DEF ActivationTypeOK
<1>4. CASE Return
  <2>1. Nodes' = Nodes /\ phase' \notin Early
    BY <1>4, ReturnSteps, Fixed DEF Early
  <2>2. phase' \in Done => phase' = "activated"
    BY <1>4, ReturnSteps DEF Done
  <2> QED BY <1>4, <2>1, <2>2, ReturnSteps DEF ActivationTypeOK
<1>5. ASSUME NEW n \in Nodes, Activate(n) PROVE ActivationTypeOK'
  <2>1. PICK f : f = answer[n]
    OBVIOUS
  <2>2. Nodes' = Nodes /\ phase' \notin Early /\ phase' \notin Done
    BY <1>5, ActivateFacts, VisitFacts, Fixed DEF Early, Done, Activate
  <2>3. /\ activated' \subseteq Files /\ asCT' \subseteq activated'
        /\ leaveAlone' \subseteq activated'
        /\ above' \in [Containers -> SUBSET Nodes] /\ stack' \in Seq(Seq(Nodes))
    BY <1>5, <2>1, ActivateFacts DEF ActivationTypeOK
  <2>4. above'[Main] = {}
    BY <1>5, <2>1, ActivateFacts DEF ActivationTypeOK, Containers
  <2> QED BY <2>2, <2>3, <2>4 DEF ActivationTypeOK
<1>6. ASSUME NEW n \in Nodes, Reactivate(n) PROVE ActivationTypeOK'
  <2>1. PICK again : again = IF Frees(n) THEN Awakened(answer[n]) ELSE {}
    OBVIOUS
  <2>2. Nodes' = Nodes /\ phase' \notin Early /\ phase' \notin Done
    BY <1>6, ReactivateFacts, VisitFacts, Fixed DEF Early, Done, Reactivate
  <2> QED BY <1>6, <2>1, <2>2, ReactivateFacts DEF ActivationTypeOK
<1> QED BY <1>1, <1>2, <1>3, <1>4, <1>5, <1>6, Steps

(* Every node of what was entered waits or has its module. *)
LEMMA VisitsStep ==
    ASSUME ImportTypeOK, ActivationTypeOK, Visits, [Next]_vars
    PROVE  Visits'
<1> SUFFICES ASSUME phase' \in Stage, NEW m \in Nodes'
             PROVE  /\ Waits(stack', m) => m[1] \in Entered'
                    /\ m[1] \in Entered' => Waits(stack', m) \/ answer'[m] \in activated'
  BY DEF Visits, Waits
<1>0. m \in Nodes
  BY FixedByNext, Fixed
<1>1. CASE ImportNext /\ UNCHANGED activationVars
  BY <1>1, BeforeFacts DEF Stage
<1>2. CASE Quiet
  BY <1>0, <1>2 DEF Quiet, Visits, Entered
<1>3. CASE StartSymbols
  BY <1>0, <1>3, StartFacts DEF Entered
<1>4. CASE Return
  <2>1. phase \in Stage
    BY <1>4, ReturnSteps DEF Stage
  <2> QED BY <1>0, <1>4, <2>1, ReturnSteps DEF Visits, Entered
<1>5. ASSUME NEW n \in Nodes, Activate(n)
      PROVE  /\ Waits(stack', m) => m[1] \in Entered'
             /\ m[1] \in Entered' => Waits(stack', m) \/ answer'[m] \in activated'
  <2>1. PICK f : f = answer[n]
    OBVIOUS
  <2>2. answer' = answer /\ phase \in Stage
    BY <1>5, VisitFacts DEF Activate, Visiting, Stage
  <2>3. /\ activated' = activated \cup {f}
        /\ Waits(stack', m) <=> Waits(stack, m) \/ m[1] = f
    BY <1>0, <1>5, <2>1, ActivateFacts
  <2> QED BY <1>0, <2>2, <2>3 DEF Visits, Entered
<1>6. ASSUME NEW n \in Nodes, Reactivate(n)
      PROVE  /\ Waits(stack', m) => m[1] \in Entered'
             /\ m[1] \in Entered' => Waits(stack', m) \/ answer'[m] \in activated'
  <2>1. PICK again : again = IF Frees(n) THEN Awakened(answer[n]) ELSE {}
    OBVIOUS
  <2>2. answer' = answer /\ phase \in Stage
    BY <1>6, VisitFacts DEF Reactivate, Visiting, Stage
  <2>3. /\ activated' = activated /\ answer[n] \in activated
        /\ Waits(stack', m) => Waits(stack, m)
        /\ Waits(stack, m) /\ m # n => Waits(stack', m)
    BY <1>6, <2>1, ReactivateFacts
  <2> QED BY <1>0, <2>2, <2>3 DEF Visits, Entered
<1> QED BY <1>1, <1>2, <1>3, <1>4, <1>5, <1>6, Steps

(* What waits behind a node inside a \ct. *)
LEMMA NestedStep ==
    ASSUME ImportTypeOK, ActivationTypeOK, Visits, Nested, [Next]_vars
    PROVE  Nested'
<1> SUFFICES ASSUME NEW p \in Nodes', NEW m \in Nodes', Before(stack', p, m), CT(m[1])'
             PROVE  CT(p[1])' \/ Visited(p)'
  BY DEF Nested, Before
<1>0. p \in Nodes /\ m \in Nodes /\ prog' = prog
  BY FixedByNext, Fixed
<1>1. CASE ImportNext /\ UNCHANGED activationVars
  <2>1. stack' = <<>>
    BY <1>1, BeforeFacts DEF ActivationTypeOK, Early
  <2> QED BY <2>1 DEF Before
<1>2. CASE Quiet
  <2>1. /\ \A n : Item(n)' = Item(n)
    BY <1>0, Fixed
  <2>2. stack' = stack /\ answer' = answer /\ activated' = activated /\ asCT' = asCT /\ above' = above
    BY <1>2 DEF Quiet
  <2>3. (CT(m[1])' <=> CT(m[1])) /\ (CT(p[1])' <=> CT(p[1])) /\ (Visited(p)' <=> Visited(p))
    BY <2>1, <2>2 DEF CT, Visited, Frees, UnderCT
  <2> QED BY <1>0, <2>2, <2>3 DEF Nested
<1>3. CASE StartSymbols
  <2>1. m[1] = Main /\ above' = above
    BY <1>0, <1>3, StartFacts
  <2>2. ~CT(m[1])'
    BY <2>1 DEF CT, ActivationTypeOK
  <2> QED BY <2>2
<1>4. CASE Return
  <2>1. /\ \A n : Item(n)' = Item(n)
    BY <1>0, Fixed
  <2>2. /\ answer' = answer /\ activated' = activated /\ asCT' = asCT /\ above' = above
        /\ Before(stack, p, m)
    BY <1>4, ReturnSteps
  <2>3. (CT(m[1])' <=> CT(m[1])) /\ (CT(p[1])' <=> CT(p[1])) /\ (Visited(p)' <=> Visited(p))
    BY <2>1, <2>2 DEF CT, Visited, Frees, UnderCT
  <2> QED BY <1>0, <2>2, <2>3 DEF Nested
<1>5. ASSUME NEW n \in Nodes, Activate(n)
      PROVE  CT(p[1])' \/ Visited(p)'
  <2>1. PICK f : f = answer[n]
    OBVIOUS
  <2>2. /\ answer' = answer /\ prog \in Programs
        /\ Waits(stack, n) /\ n[1] \in Entered /\ n[1] \in Containers
        /\ \A k : Waits(stack, k) => Before(stack, n, k)
    BY <1>5, VisitFacts DEF Activate
  <2>3. /\ f \in Files \ activated /\ f # n[1] /\ f # Main /\ phase \in Stage
        /\ activated' = activated \cup {f}
        /\ asCT' = IF UnderCT(n) THEN asCT \cup {f} ELSE asCT
        /\ above'[f] = {n} \cup above[n[1]]
        /\ \A c \in Containers : c # f => (CT(c)' <=> CT(c))
        /\ CT(f)' <=> UnderCT(n)
        /\ \A k \in Nodes : k[1] # f => (UnderCT(k)' <=> UnderCT(k))
    BY <1>5, <2>1, ActivateFacts DEF Stage
  <2>4. \/ Before(stack, p, m)
        \/ (p = n \/ p[1] = f) /\ (m = n \/ m[1] = f \/ Waits(stack, m))
    BY <1>5, <2>1, ActivateFacts
  <2>5. p[1] \in Containers /\ m[1] \in Containers
    BY <1>0, <2>2, NodeFacts
  <2>6. \A k \in Nodes : Waits(stack, k) => k[1] # f
    BY <2>3 DEF Visits, Entered
  <2>7. Visited(n)'
    <3>1. asCT \subseteq activated /\ (UnderCT(n)' <=> UnderCT(n))
      BY <2>3 DEF ActivationTypeOK
    <3>2. answer'[n] \in asCT' => UnderCT(n)
      BY <2>1, <2>2, <2>3, <3>1
    <3>3. answer'[n] \in activated'
      BY <2>1, <2>2, <2>3
    <3> QED BY <3>1, <3>2, <3>3 DEF Visited, Frees
  <2>8. CT(n[1]) => UnderCT(n)
    BY DEF CT, UnderCT
  <2>9. CASE Before(stack, p, m)
    <3>1. Waits(stack, p) /\ Waits(stack, m)
      BY <2>9 DEF Before, Waits
    <3>2. p[1] # f /\ m[1] # f
      BY <1>0, <2>6, <3>1
    <3>3. CT(m[1]) /\ (CT(p[1])' <=> CT(p[1]))
      BY <2>3, <2>5, <3>2
    <3>4. CT(p[1]) \/ Visited(p)
      BY <1>0, <2>9, <3>3 DEF Nested
    <3>5. Visited(p) => Visited(p)'
      BY <1>0, <2>2, <2>3, <3>2 DEF Visited, Frees
    <3> QED BY <3>3, <3>4, <3>5
  <2>10. CASE p = n
    BY <2>7, <2>10
  <2>11. CASE p[1] = f /\ m[1] = f
    BY <2>11
  <2>12. CASE p[1] = f /\ (m = n \/ Waits(stack, m))
    <3>1. Waits(stack, m)
      BY <2>2, <2>12
    <3>2. m[1] # f
      BY <1>0, <2>6, <3>1
    <3>3. CT(m[1])
      BY <2>3, <2>5, <3>2
    <3>4. CT(n[1]) \/ Visited(n)
      BY <1>0, <2>2, <3>1, <3>3 DEF Nested
    <3>5. ~Visited(n)
      BY <2>1, <2>3 DEF Visited
    <3> QED BY <2>3, <2>8, <2>12, <3>4, <3>5
  <2> QED BY <2>4, <2>9, <2>10, <2>11, <2>12
<1>6. ASSUME NEW n \in Nodes, Reactivate(n)
      PROVE  CT(p[1])' \/ Visited(p)'
  <2>1. PICK again : again = IF Frees(n) THEN Awakened(answer[n]) ELSE {}
    OBVIOUS
  <2>2. answer' = answer
    BY <1>6, VisitFacts DEF Reactivate
  <2>3. /\ activated' = activated /\ asCT' = asCT \ again
        /\ \A c : CT(c)' <=> CT(c)
        /\ \A k : UnderCT(k)' <=> UnderCT(k)
        /\ Before(stack, p, m)
    BY <1>6, <2>1, ReactivateFacts
  <2>4. Visited(p) => Visited(p)'
    BY <2>2, <2>3 DEF Visited, Frees
  <2>5. CT(m[1])
    BY <2>3
  <2>6. CT(p[1]) \/ Visited(p)
    BY <1>0, <2>3, <2>5 DEF Nested
  <2> QED BY <2>3, <2>4, <2>6
<1> QED BY <1>1, <1>2, <1>3, <1>4, <1>5, <1>6, Steps

(* What is marked for compile time only. *)
LEMMA MarkedStep ==
    ASSUME ImportTypeOK, ActivationTypeOK, Visits, Nested, Marked, [Next]_vars
    PROVE  Marked'
<1> SUFFICES ASSUME phase' \in Stage
             PROVE  /\ \A f \in asCT' : CT(f)'
                    /\ \A m \in Nodes : Waits(stack', m) /\ CT(m[1])' => m[1] \in asCT'
                    /\ \A m \in Nodes : m[1] \in Entered' \ asCT' /\ ~Item(m).ct =>
                          Waits(stack', m) \/ answer'[m] \notin asCT'
  <2>1. Nodes' = Nodes /\ \A m : Item(m)' = Item(m)
    BY FixedByNext, Fixed
  <2> QED BY <2>1 DEF Marked, Waits
<1>0. prog' = prog /\ \A m : Item(m)' = Item(m)
  BY FixedByNext, Fixed
<1>1. CASE ImportNext /\ UNCHANGED activationVars
  BY <1>1, BeforeFacts DEF Stage
<1>2. CASE Quiet \/ Return
  <2>1. /\ UNCHANGED <<answer, activated, asCT, above>> /\ phase \in Stage
        /\ \A p : Waits(stack', p) <=> Waits(stack, p)
    BY <1>2, ReturnSteps DEF Quiet, Stage
  <2>2. \A c : CT(c)' <=> CT(c)
    BY <1>0, <2>1 DEF CT
  <2> QED BY <2>1, <2>2 DEF Marked, Entered
<1>3. CASE StartSymbols
  <2>1. /\ above' = above /\ asCT' = {} /\ \A m \in Nodes : Waits(stack', m) => m[1] = Main
    BY <1>3, StartFacts
  <2>2. ~CT(Main)'
    BY <2>1 DEF CT, ActivationTypeOK
  <2> QED BY <2>1, <2>2
<1>4. ASSUME NEW n \in Nodes, Activate(n)
      PROVE  /\ \A f \in asCT' : CT(f)'
             /\ \A m \in Nodes : Waits(stack', m) /\ CT(m[1])' => m[1] \in asCT'
             /\ \A m \in Nodes : m[1] \in Entered' \ asCT' /\ ~Item(m).ct =>
                   Waits(stack', m) \/ answer'[m] \notin asCT'
  <2>1. PICK f : f = answer[n]
    OBVIOUS
  <2>2. /\ answer' = answer /\ prog \in Programs /\ Waits(stack, n)
    BY <1>4, VisitFacts DEF Activate
  <2>3. /\ f \in Files \ activated /\ f # Main /\ phase \in Stage
        /\ activated' = activated \cup {f}
        /\ asCT' = IF UnderCT(n) THEN asCT \cup {f} ELSE asCT
        /\ \A c \in Containers : c # f => (CT(c)' <=> CT(c))
        /\ CT(f)' <=> UnderCT(n)
        /\ \A m \in Nodes : Waits(stack', m) <=> Waits(stack, m) \/ m[1] = f
    BY <1>4, <2>1, ActivateFacts DEF Stage
  <2>4. asCT \subseteq Files /\ asCT \subseteq activated /\ Files \subseteq Containers
    BY DEF ActivationTypeOK, Containers
  <2>5. \A m \in Nodes : m[1] \in Containers
    BY <2>2, NodeFacts
  <2>6. \A g \in asCT' : CT(g)'
    BY <2>3, <2>4 DEF Marked
  <2>7. ASSUME NEW m \in Nodes, Waits(stack', m), CT(m[1])'
        PROVE  m[1] \in asCT'
    <3>1. CASE m[1] = f
      BY <2>3, <2>7, <3>1
    <3>2. CASE m[1] # f
      <4>1. Waits(stack, m) /\ CT(m[1])
        BY <2>3, <2>5, <2>7, <3>2
      <4> QED BY <2>3, <4>1 DEF Marked
    <3> QED BY <3>1, <3>2
  <2>8. ASSUME NEW m \in Nodes, m[1] \in Entered' \ asCT', ~Item(m).ct
        PROVE  Waits(stack', m) \/ answer'[m] \notin asCT'
    <3>1. CASE m[1] = f
      BY <2>3, <3>1
    <3>2. CASE m[1] # f
      <4>1. m[1] \in Entered \ asCT
        BY <2>3, <2>8, <3>2 DEF Entered
      <4>2. Waits(stack, m) \/ answer[m] \notin asCT
        BY <2>3, <2>8, <4>1 DEF Marked
      <4>3. Waits(stack, m) \/ answer[m] \in activated
        BY <2>3, <4>1 DEF Visits
      <4> QED BY <2>2, <2>3, <4>2, <4>3
    <3> QED BY <3>1, <3>2
  <2> QED BY <2>6, <2>7, <2>8
<1>5. ASSUME NEW n \in Nodes, Reactivate(n)
      PROVE  /\ \A f \in asCT' : CT(f)'
             /\ \A m \in Nodes : Waits(stack', m) /\ CT(m[1])' => m[1] \in asCT'
             /\ \A m \in Nodes : m[1] \in Entered' \ asCT' /\ ~Item(m).ct =>
                   Waits(stack', m) \/ answer'[m] \notin asCT'
  <2>1. PICK again : again = IF Frees(n) THEN Awakened(answer[n]) ELSE {}
    OBVIOUS
  <2>2. /\ answer' = answer /\ \A m : Waits(stack, m) => Before(stack, n, m)
        /\ Waits(stack, n) /\ n[1] \in Entered
    BY <1>5, VisitFacts DEF Reactivate
  <2>3. /\ activated' = activated /\ asCT' = asCT \ again /\ phase \in Stage
        /\ answer[n] \in activated /\ (Frees(n) => answer[n] \in again)
        /\ ~Frees(n) => again = {}
        /\ \A m \in Nodes : m[1] \in again /\ answer[m] \in asCT => answer[m] \in again
        /\ \A c : CT(c)' <=> CT(c)
        /\ \A p : Waits(stack', p) => Waits(stack, p)
        /\ \A p : Waits(stack, p) /\ p # n => Waits(stack', p)
    BY <1>5, <2>1, ReactivateFacts DEF Stage
  <2>4. CT(n[1]) => UnderCT(n)
    BY DEF CT, UnderCT
  <2>5. \A f \in asCT' : CT(f)'
    BY <2>3 DEF Marked
  <2>6. ASSUME NEW m \in Nodes, Waits(stack', m), CT(m[1])'
        PROVE  m[1] \in asCT'
    <3>1. Waits(stack, m) /\ CT(m[1])
      BY <2>3, <2>6
    <3>2. m[1] \in asCT
      BY <2>3, <3>1 DEF Marked
    <3>3. CT(n[1]) \/ Visited(n)
      BY <2>2, <3>1 DEF Nested
    <3>4. ~Frees(n)
      BY <2>4, <3>3 DEF Visited, Frees
    <3> QED BY <2>3, <3>2, <3>4
  <2>7. ASSUME NEW m \in Nodes, m[1] \in Entered' \ asCT', ~Item(m).ct
        PROVE  Waits(stack', m) \/ answer'[m] \notin asCT'
    <3>1. CASE m[1] \in again
      BY <2>2, <2>3, <3>1
    <3>2. CASE m[1] \notin again
      <4>1. m[1] \in Entered \ asCT
        BY <2>3, <2>7, <3>2 DEF Entered
      <4>2. Waits(stack, m) \/ answer[m] \notin asCT
        BY <2>3, <2>7, <4>1 DEF Marked
      <4>3. CASE m = n
        <5>1. ~CT(n[1])
          BY <2>2, <2>3, <4>1, <4>3 DEF Marked
        <5>2. ~UnderCT(n)
          BY <2>7, <4>3, <5>1 DEF CT, UnderCT
        <5> QED BY <2>2, <2>3, <4>3, <5>2 DEF Frees
      <4> QED BY <2>2, <2>3, <4>2, <4>3
    <3> QED BY <3>1, <3>2
  <2> QED BY <2>5, <2>6, <2>7
<1> QED BY <1>1, <1>2, <1>3, <1>4, <1>5, Steps

(* What chains of imports lead to. *)
LEMMA ChainsStep ==
    ASSUME ImportTypeOK, ActivationTypeOK, Visits, Chains, [Next]_vars
    PROVE  Chains'
<1>0. prog' = prog /\ \A m : Item(m)' = Item(m)
  BY FixedByNext, Fixed
<1>1. CASE ImportNext /\ UNCHANGED activationVars
  <2>1. activated' = {} /\ leaveAlone' = {}
    BY <1>1, BeforeFacts DEF ActivationTypeOK, Early
  <2> QED BY <2>1 DEF Chains
<1>2. CASE Quiet \/ Return
  <2>1. UNCHANGED <<prog, answer, activated, asCT, above, leaveAlone>>
    BY <1>2, ReturnSteps DEF Quiet
  <2>2. \A c : CT(c)' <=> CT(c)
    BY <1>0, <2>1 DEF CT
  <2> QED BY <2>1, <2>2, ReachFixed DEF Chains
<1>3. CASE StartSymbols
  <2>1. activated' = {} /\ leaveAlone' = {}
    BY <1>3, StartFacts
  <2> QED BY <2>1 DEF Chains
<1>4. ASSUME NEW n \in Nodes, Activate(n)
      PROVE  Chains'
  <2>1. PICK f : f = answer[n]
    OBVIOUS
  <2>2. /\ answer' = answer /\ prog \in Programs /\ n[1] \in Entered
    BY <1>4, VisitFacts DEF Activate
  <2>3. /\ f \in Files \ activated /\ f # n[1]
        /\ activated' = activated \cup {f} /\ leaveAlone' = leaveAlone
        /\ asCT' = IF UnderCT(n) THEN asCT \cup {f} ELSE asCT
        /\ \A c \in Containers : c # f => (CT(c)' <=> CT(c))
        /\ CT(f)' <=> UnderCT(n)
    BY <1>4, <2>1, ActivateFacts
  <2>4. activated \subseteq Containers
    BY DEF ActivationTypeOK, Containers
  <2>5. /\ Reachable' = Reachable /\ AtRuntime' = AtRuntime /\ FromRuntime' = FromRuntime
    BY <1>0, <2>2, ReachFixed
  <2>6. /\ n[1] \in {Main} \cup Reachable => f \in Reachable
        /\ n[1] \in {Main} \cup AtRuntime /\ ~Item(n).ct => f \in AtRuntime
        /\ AtRuntime \subseteq FromRuntime
    BY <2>1, <2>2, <2>3, ReachableFacts
  <2>7. f \in Reachable
    BY <2>2, <2>6 DEF Chains, Entered
  <2>8. ~UnderCT(n) => f \in AtRuntime
    <3>1. ~UnderCT(n) => ~CT(n[1]) /\ ~Item(n).ct
      BY DEF UnderCT, CT
    <3>2. ~CT(n[1]) => n[1] \in {Main} \cup AtRuntime
      BY <2>2 DEF Chains, Entered
    <3> QED BY <2>6, <3>1, <3>2
  <2>9. \A g \in activated' : ~CT(g)' => g \in AtRuntime
    BY <2>3, <2>4, <2>8 DEF Chains
  <2>10. activated' \ asCT' \subseteq FromRuntime
    BY <2>3, <2>6, <2>8 DEF Chains
  <2> QED BY <2>3, <2>5, <2>7, <2>9, <2>10 DEF Chains
<1>5. ASSUME NEW n \in Nodes, Reactivate(n)
      PROVE  Chains'
  <2>1. PICK again : again = IF Frees(n) THEN Awakened(answer[n]) ELSE {}
    OBVIOUS
  <2>2. /\ answer' = answer /\ prog \in Programs /\ n[1] \in Entered
    BY <1>5, VisitFacts DEF Reactivate
  <2>3. /\ answer[n] \in activated /\ activated' = activated
        /\ asCT' = asCT \ again /\ leaveAlone' = leaveAlone \cup again
        /\ Frees(n) => again \subseteq Reach({answer[n]}, Nodes)
        /\ ~Frees(n) => again = {}
        /\ \A c : CT(c)' <=> CT(c)
    BY <1>5, <2>1, ReactivateFacts
  <2>4. /\ Reachable' = Reachable /\ AtRuntime' = AtRuntime /\ FromRuntime' = FromRuntime
    BY <1>0, <2>2, ReachFixed
  <2>5. ASSUME Frees(n) PROVE again \subseteq FromRuntime
    <3>1. ~CT(n[1]) /\ ~Item(n).ct
      BY <2>5 DEF Frees, UnderCT, CT
    <3>2. n[1] \in {Main} \cup AtRuntime
      BY <2>2, <3>1 DEF Chains, Entered
    <3>3. answer[n] \in Files
      BY <2>3 DEF ActivationTypeOK
    <3>4. answer[n] \in FromRuntime
      BY <2>2, <3>1, <3>2, <3>3, ReachableFacts
    <3>5. Reach({answer[n]}, Nodes) \subseteq FromRuntime
      BY <2>2, <3>4, ReachableFacts
    <3> QED BY <2>3, <2>5, <3>5
  <2>6. again \subseteq FromRuntime
    BY <2>3, <2>5
  <2> QED BY <2>3, <2>4, <2>6 DEF Chains
<1> QED BY <1>1, <1>2, <1>3, <1>4, <1>5, Steps

(* Where the modules are put. *)
LEMMA PlacesStep ==
    ASSUME ImportTypeOK, ActivationTypeOK, Visits, Places, [Next]_vars
    PROVE  Places'
<1>0. prog' = prog /\ Nodes' = Nodes
  BY FixedByNext, Fixed
<1>1. CASE activated' = {}
  BY <1>1 DEF Places
<1>2. CASE UNCHANGED <<answer, activated, above>>
  <2>1. \A from : Reach(from, Nodes)' = Reach(from, Nodes)
    BY <1>0, <1>2, ReachFixed
  <2> QED BY <1>0, <1>2, <2>1 DEF Places, Entered
<1>3. ASSUME NEW n \in Nodes, Activate(n)
      PROVE  Places'
  <2>1. PICK f : f = answer[n]
    OBVIOUS
  <2>2. /\ answer' = answer /\ prog \in Programs /\ n[1] \in Entered
    BY <1>3, VisitFacts DEF Activate
  <2>3. /\ f \in Files \ activated /\ f # n[1] /\ f # Main
        /\ activated' = activated \cup {f}
        /\ above'[f] = {n} \cup above[n[1]]
        /\ \A c \in Containers : c # f => above'[c] = above[c]
    BY <1>3, <2>1, ActivateFacts
  <2>4. /\ activated \subseteq Files /\ Files \subseteq Containers /\ Main \in Containers
        /\ above \in [Containers -> SUBSET Nodes] /\ above[Main] = {}
    BY DEF ActivationTypeOK, Containers
  <2>5. \A from, links : Reach(from, links)' = Reach(from, links)
    BY <1>0, <2>2, ReachFixed
  <2>6. \A m \in Nodes : m[1] \in Containers
    BY <2>2, NodeFacts
  <2>7. \A g \in activated : above'[g] = above[g]
    BY <2>3, <2>4
  <2>8. n[1] \in Entered /\ above'[n[1]] = above[n[1]] /\ above[n[1]] \subseteq Nodes
    BY <2>2, <2>3, <2>4, <2>6
  <2>9. ASSUME NEW g \in Entered, NEW m \in above[g]
        PROVE  /\ g \in activated /\ m \in Nodes /\ m[1] \in Entered
               /\ answer[m] \in activated
               /\ above'[answer[m]] = {m} \cup above'[m[1]]
               /\ g \in Reach({answer[m]}, Nodes)
    <3>1. g \in activated /\ m \in Nodes
      BY <2>4, <2>9 DEF Entered
    <3>2. /\ m[1] \in Entered /\ answer[m] \in activated
          /\ above[answer[m]] = {m} \cup above[m[1]]
          /\ g \in Reach({answer[m]}, Nodes)
      BY <3>1 DEF Places
    <3>3. m[1] # f
      BY <2>3, <3>2 DEF Entered
    <3> QED BY <2>3, <2>6, <2>7, <3>1, <3>2, <3>3
  <2>10. ASSUME NEW g \in activated', NEW m \in above'[g]
         PROVE  /\ m[1] \in Entered' /\ answer'[m] \in activated'
                /\ above'[answer'[m]] = {m} \cup above'[m[1]]
                /\ g \in Reach({answer'[m]}, Nodes)
    <3>1. Entered \subseteq Entered'
      BY <2>3 DEF Entered
    <3>2. CASE g # f
      <4>1. g \in Entered /\ m \in above[g]
        BY <2>3, <2>7, <2>10, <3>2 DEF Entered
      <4> QED BY <2>2, <2>3, <2>9, <3>1, <4>1
    <3>3. CASE g = f /\ m = n
      <4>1. {f} \in SUBSET Containers /\ Nodes \in SUBSET Nodes /\ f \in Files
        BY <2>3, <2>4
      <4>2. f \in Reach({f}, Nodes)
        BY <4>1, ReachFacts
      <4> QED BY <2>1, <2>2, <2>3, <2>8, <3>1, <3>3, <4>2
    <3>4. CASE g = f /\ m \in above[n[1]]
      <4>1. /\ m \in Nodes /\ m[1] \in Entered /\ answer[m] \in activated
            /\ above'[answer[m]] = {m} \cup above'[m[1]]
            /\ n[1] \in Reach({answer[m]}, Nodes)
        BY <2>8, <2>9, <3>4
      <4>2. {answer[m]} \in SUBSET Containers /\ Nodes \in SUBSET Nodes
        BY <2>4, <4>1
      <4>3. f \in Reach({answer[m]}, Nodes)
        BY <2>1, <2>3, <4>1, <4>2, ReachFacts
      <4> QED BY <2>2, <2>3, <3>1, <3>4, <4>1, <4>3
    <3> QED BY <2>3, <2>10, <3>2, <3>3, <3>4
  <2>11. ASSUME NEW g \in activated PROVE above'[g] # above'[f]
    <3>1. ASSUME n \in above[g] PROVE FALSE
      <4>1. answer[n] \in activated
        BY <2>11, <3>1 DEF Places
      <4> QED BY <2>1, <2>3, <4>1
    <3> QED BY <2>3, <2>7, <3>1
  <2>12. \A g, h \in activated' : above'[g] = above'[h] => g = h
    <3>1. \A g, h \in activated : above'[g] = above'[h] => g = h
      BY <2>7 DEF Places
    <3> QED BY <2>3, <2>11, <3>1
  <2> QED BY <1>0, <2>5, <2>10, <2>12 DEF Places
<1>4. ASSUME NEW n \in Nodes, Reactivate(n) PROVE Places'
  <2>1. UNCHANGED <<answer, activated, above>>
    BY <1>4 DEF Reactivate, Visiting
  <2> QED BY <1>2, <2>1
<1>5. CASE ImportNext /\ UNCHANGED activationVars
  BY <1>1, <1>5, BeforeFacts DEF ActivationTypeOK, Early
<1>6. CASE Quiet \/ Return
  BY <1>2, <1>6, ReturnSteps DEF Quiet
<1>7. CASE StartSymbols
  BY <1>1, <1>7, StartFacts
<1> QED BY <1>3, <1>4, <1>5, <1>6, <1>7, Steps

(* The analysis is the last step. *)
LEMMA HidesStep ==
    ASSUME ImportTypeOK, ActivationTypeOK, Visits, Hides, [Next]_vars
    PROVE  Hides'
<1> SUFFICES ASSUME phase' = "analyzed"
             PROVE  hidden' = {f \in activated' : \E n \in above'[f] : Marks(n)'}
  BY DEF Hides
<1>1. ASSUME prog' = prog, UNCHANGED <<activated, above, leaveAlone>>,
             hidden' = {f \in activated : \E n \in above[f] : Marks(n)}
      PROVE  hidden' = {f \in activated' : \E n \in above'[f] : Marks(n)'}
  <2>1. \A n : Marks(n)' <=> Marks(n)
    <3>1. \A n : Item(n)' = Item(n)
      BY <1>1, Fixed
    <3>2. \A n : PutAt(n)' = PutAt(n)
      BY <1>1 DEF PutAt
    <3> QED BY <1>1, <3>1, <3>2 DEF Marks
  <2> QED BY <1>1, <2>1
<1>2. CASE Analyze
  BY <1>1, <1>2 DEF Analyze
<1>3. CASE UNCHANGED vars
  BY <1>1, <1>3 DEF vars, importVars, activationVars, Hides
<1>4. ImportNext /\ UNCHANGED activationVars => FALSE
  BY BeforeFacts
<1>5. StartSymbols => FALSE
  BY DEF StartSymbols
<1>6. \A n \in Nodes : ~VisitFailed(n) /\ ~Activate(n) /\ ~Reactivate(n)
  BY DEF VisitFailed, Activate, Reactivate, Visiting
<1>7. Return => FALSE
  BY DEF Return
<1> QED BY <1>2, <1>3, <1>4, <1>5, <1>6, <1>7 DEF Next, StageNext

(* Before the first step no module is activated. *)
LEMMA ActivationInit == Init => ActivationInv
<1> SUFFICES ASSUME Init PROVE ActivationInv
  OBVIOUS
<1>1. /\ phase = "taking" /\ stack = <<>> /\ activated = {} /\ asCT = {} /\ leaveAlone = {}
      /\ above = [c \in Containers |-> {}] /\ Main \in Containers
  BY DEF Init, ImportInit, Containers
<1>2. ActivationTypeOK
  BY <1>1 DEF ActivationTypeOK, Early, Done
<1>3. Visits /\ Marked /\ Hides
  BY <1>1 DEF Visits, Marked, Hides, Stage
<1>4. Nested
  BY <1>1 DEF Nested, Before
<1>5. Chains /\ Places
  BY <1>1 DEF Chains, Places
<1> QED BY <1>2, <1>3, <1>4, <1>5 DEF ActivationInv

(* The invariant of the symbols stage and the analysis behind it. *)
THEOREM ActivationInductive == Spec => []ActivationInv
<1>1. IInv /\ ActivationInv /\ [Next]_vars => ActivationInv'
  <2> SUFFICES ASSUME IInv, ActivationInv, [Next]_vars PROVE ActivationInv'
    OBVIOUS
  <2>1. /\ ImportTypeOK /\ ActivationTypeOK /\ Visits /\ Nested /\ Marked /\ Chains
        /\ Places /\ Hides
    BY DEF IInv, ActivationInv
  <2>2. ActivationTypeOK' /\ Visits' /\ Nested' /\ Marked'
    BY <2>1, ActivationTypeStep, VisitsStep, NestedStep, MarkedStep
  <2>3. Chains' /\ Places' /\ Hides'
    BY <2>1, ChainsStep, PlacesStep, HidesStep
  <2> QED BY <2>2, <2>3 DEF ActivationInv
<1> QED BY ActivationInit, ImportInductive, <1>1, PTL DEF Spec

(* Import::addSymbols and Module::activate: what is activated is what the  *)
(* program imports, in whatever order and however modules import one       *)
(* another; what is held to be for compile time only is no module that an  *)
(* ordinary chain of imports leads to, and is every module that nothing    *)
(* available at run time imports.                                          *)
THEOREM ActivationIsRight == Spec => []ActivatedRight
<1>1. IInv /\ ActivationInv => ActivatedRight
  <2> SUFFICES ASSUME IInv, ActivationInv, phase = "activated"
               PROVE  /\ activated = Reachable
                      /\ asCT \cap AtRuntime = {}
                      /\ activated \ FromRuntime \subseteq asCT
    BY DEF ActivatedRight
  <2>1. /\ ActivationTypeOK /\ Visits /\ Marked /\ Chains /\ prog \in Programs
        /\ phase \in Stage
    BY DEF ActivationInv, IInv, ImportTypeOK, Stage
  <2>2. \A n \in Nodes : ~Waits(stack, n)
    BY <2>1 DEF ActivationTypeOK, Done, Waits
  <2>3. /\ Entered \in SUBSET Containers /\ Main \in Entered
        /\ Entered \ asCT \in SUBSET Containers /\ Main \in Entered \ asCT
    BY <2>1, NodeFacts DEF Entered, Containers, ActivationTypeOK
  <2>4. Closed(Entered, Nodes)
    BY <2>1, <2>2 DEF Visits, Closed, Entered
  <2>5. Reachable \subseteq activated
    <3>1. Reachable \subseteq Entered /\ Reachable \subseteq Files /\ Main \notin Files
      BY <2>1, <2>3, <2>4, ReachableFacts, NodeFacts
    <3> QED BY <3>1 DEF Entered
  <2>6. Closed(Entered \ asCT, {n \in Nodes : ~Item(n).ct})
    <3> SUFFICES ASSUME NEW n \in Nodes, ~Item(n).ct, n[1] \in Entered \ asCT
                 PROVE  answer[n] \in Entered \ asCT
      BY DEF Closed
    <3>1. answer[n] \in activated
      BY <2>1, <2>2 DEF Visits
    <3>2. answer[n] \notin asCT
      BY <2>1, <2>2 DEF Marked
    <3> QED BY <3>1, <3>2 DEF Entered
  <2>7. AtRuntime \subseteq Entered \ asCT
    BY <2>1, <2>3, <2>6, ReachableFacts
  <2> QED BY <2>1, <2>5, <2>7 DEF Chains
<1> QED BY <1>1, ImportInductive, ActivationInductive, PTL

(* Macros::ct and isCT: a module that nothing available at run time        *)
(* imports is left out of the program - the \ct around it is not told to   *)
(* leave it alone by a module that was freed elsewhere.                    *)
THEOREM CompileTimeIsHidden == Spec => []CTOnlyIsHidden
<1>1. IInv /\ ActivationInv => CTOnlyIsHidden
  <2> SUFFICES ASSUME IInv, ActivationInv, phase = "analyzed",
                      NEW f \in activated \ FromRuntime
               PROVE  f \in hidden
    BY DEF CTOnlyIsHidden
  <2>1. /\ ActivationTypeOK /\ Marked /\ Chains /\ Places /\ Hides /\ prog \in Programs
        /\ phase \in Stage
    BY DEF ActivationInv, IInv, ImportTypeOK, Stage
  <2>2. CT(f)
    BY <2>1 DEF Chains, Marked
  <2>3. PICK n \in above[f] : Item(n).ct
    BY <2>2 DEF CT
  <2>4. /\ answer[n] \in activated /\ above[answer[n]] = {n} \cup above[n[1]]
        /\ f \in Reach({answer[n]}, Nodes)
    BY <2>1 DEF Places
  <2>5. PutAt(n) = answer[n]
    <3>1. \A g \in activated : above[g] = {n} \cup above[n[1]] => g = answer[n]
      BY <2>1, <2>4 DEF Places
    <3> QED BY <2>4, <3>1 DEF PutAt
  <2>6. answer[n] \notin leaveAlone
    <3> SUFFICES ASSUME answer[n] \in leaveAlone PROVE FALSE
      OBVIOUS
    <3>1. answer[n] \in FromRuntime
      BY <2>1 DEF Chains
    <3>2. Reach({answer[n]}, Nodes) \subseteq FromRuntime
      BY <2>1, <3>1, ReachableFacts
    <3> QED BY <2>4, <3>2
  <2>7. Marks(n)
    BY <2>3, <2>5, <2>6 DEF Marks
  <2> QED BY <2>1, <2>7 DEF Hides
<1> QED BY <1>1, ImportInductive, ActivationInductive, PTL
=============================================================================
