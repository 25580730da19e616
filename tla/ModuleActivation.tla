-------------------------- MODULE ModuleActivation --------------------------
(***************************************************************************)
(* The stages that use what ImportStage loaded: FrontEnd::SymbolsStage     *)
(* visits the nodes of the program in order, and an import activates its   *)
(* module (Module::activate): the module's MultiNode takes the place of    *)
(* the import, and its nodes, imports included, are visited in turn.  A    *)
(* module that was first activated inside \ct{...} and is then imported    *)
(* outside is made available at run time again.  AnalysisStage runs the    *)
(* macro ct, which marks its arguments as compile-time only.               *)
(***************************************************************************)
EXTENDS ImportStage

VARIABLES
    stack,      (* the addSymbols calls in progress: nodes still to visit  *)
    activated,  (* modules with activated = true                           *)
    asCT,       (* modules with activatedAsCT = true                       *)
    above,      (* import nodes in whose place the module's MultiNode and  *)
                (* those around it were put                                *)
    leaveAlone, (* MultiNodes some \ct has in leaveMeAloneArgs             *)
    hidden      (* modules for which isCT holds after analysis             *)

activationVars == <<stack, activated, asCT, above, leaveAlone, hidden>>
vars == <<importVars, activationVars>>

Init ==
    /\ ImportInit
    /\ stack = <<>>
    /\ activated = {} /\ asCT = {}
    /\ above = [c \in Containers |-> {}]
    /\ leaveAlone = {} /\ hidden = {}

-----------------------------------------------------------------------------
StartSymbols ==
    /\ phase = "loaded"
    /\ phase' = "symbols"
    /\ stack' = <<NodesOf(Main)>>
    /\ UNCHANGED <<prog, imports, filesSeen, byID, byPath, answer, parsers,
                   parsed, filled, activated, asCT, above, leaveAlone, hidden>>

(* Import::addSymbols looks for a \ct on the way to the root, through the  *)
(* imports in whose place the surrounding modules are.                     *)
UnderCT(n) == \E m \in {n} \cup above[n[1]] : Item(m).ct

(* The modules that from, or imports of links one after the other, lead to: *)
(* the smallest set that has them.                                         *)
Closed(S, links) ==
    \A n \in links : n[1] \in S /\ answer[n] \in Files => answer[n] \in S
Reach(from, links) ==
    {f \in Files : \A S \in SUBSET Containers :
                       from \subseteq S /\ Closed(S, links) => f \in S}

(* Faulty: the modules it imports in turn are left as they are. *)
AwakenedAlone(f) == {f}

(* Module::activate of a module activated as CT, from outside any \ct: it  *)
(* does the same to the modules activated as CT that its nodes import.     *)
Awakened(f) == Reach({f}, {n \in Nodes : answer[n] \in asCT})

Visiting(n) ==
    /\ phase = "symbols"
    /\ stack # <<>> /\ Head(stack) # <<>>
    /\ n = Head(Head(stack))
    /\ UNCHANGED <<prog, imports, filesSeen, byID, byPath, answer, parsers,
                   parsed, filled, hidden>>

Rest == [stack EXCEPT ![1] = Tail(@)]

(* The error flags are reported here, at the import that carries them.  An *)
(* import with neither flag nor module fails the assertion of              *)
(* Import::activate.                                                       *)
VisitFailed(n) ==
    /\ Visiting(n)
    /\ answer[n] \in Failures
    /\ phase' = IF answer[n] = "null" THEN "crashed" ELSE "error"
    /\ UNCHANGED <<stack, activated, asCT, above, leaveAlone>>

(* The MultiNode gets the import itself back as its first node, and it is  *)
(* visited again.                                                          *)
Activate(n) ==
    /\ Visiting(n)
    /\ answer[n] \in Files \ activated
    /\ activated' = activated \cup {answer[n]}
    /\ asCT' = IF UnderCT(n) THEN asCT \cup {answer[n]} ELSE asCT
    /\ above' = [above EXCEPT ![answer[n]] = {n} \cup above[n[1]]]
    /\ stack' = <<<<n>> \o NodesOf(answer[n])>> \o Rest
    /\ UNCHANGED <<phase, leaveAlone>>

(* Faulty: an import inside another \ct frees the module, too. *)
FreesAlways(n) == answer[n] \in asCT

Frees(n) == answer[n] \in asCT /\ ~UnderCT(n)

Reactivate(n) ==
    /\ Visiting(n)
    /\ answer[n] \in activated
    /\ LET again == IF Frees(n) THEN Awakened(answer[n]) ELSE {}
       IN /\ asCT' = asCT \ again
          /\ leaveAlone' = leaveAlone \cup again
    /\ stack' = Rest
    /\ UNCHANGED <<phase, activated, above>>

(* The loop over one container's nodes ends. *)
Return ==
    /\ phase = "symbols"
    /\ stack # <<>> /\ Head(stack) = <<>>
    /\ stack' = Tail(stack)
    /\ phase' = IF Len(stack) = 1 THEN "activated" ELSE phase
    /\ UNCHANGED <<prog, imports, filesSeen, byID, byPath, answer, parsers,
                   parsed, filled, activated, asCT, above, leaveAlone, hidden>>

(* The module that took the place of import node n. *)
PutAt(n) == CHOOSE f \in activated : above[f] = {n} \cup above[n[1]]

(* Macros::ct marks its argument, unless it is to be left alone. *)
Marks(n) == Item(n).ct /\ PutAt(n) \notin leaveAlone

(* isCT asks for the mark on the way to the root. *)
Analyze ==
    /\ phase = "activated"
    /\ phase' = "analyzed"
    /\ hidden' = {f \in activated : \E n \in above[f] : Marks(n)}
    /\ UNCHANGED <<prog, imports, filesSeen, byID, byPath, answer, parsers,
                   parsed, filled, stack, activated, asCT, above, leaveAlone>>

StageNext ==
    \/ StartSymbols
    \/ \E n \in Nodes : VisitFailed(n) \/ Activate(n) \/ Reactivate(n)
    \/ Return
    \/ Analyze

Next == (ImportNext /\ UNCHANGED activationVars) \/ StageNext

Spec == Init /\ [][Next]_vars

(* Every step is the main thread's or a parser thread's, and neither stops *)
(* for good.                                                               *)
FairSpec == Spec /\ WF_vars(Next)

-----------------------------------------------------------------------------
(* Properties. *)

(* What the program imports, directly or not; what chains of imports       *)
(* written outside \ct lead to; what is imported from there, \ct or not.    *)
Reachable == Reach({Main}, Nodes)
AtRuntime == Reach({Main}, {n \in Nodes : ~Item(n).ct})
FromRuntime == Reach(AtRuntime, Nodes)

(* A symbols stage that ends without an error has activated exactly the    *)
(* modules an import leads to.  In whatever order the imports were met, it *)
(* holds no module to be for compile time only that a chain of ordinary    *)
(* imports leads to, and every module that no module available at run time *)
(* imports.  (A module that one of those imports inside \ct may be held to *)
(* be either: Module::activate frees it when the importing module was      *)
(* first met inside a \ct, and not otherwise.)                             *)
ActivatedRight ==
    phase = "activated" =>
        /\ activated = Reachable
        /\ asCT \cap AtRuntime = {}
        /\ activated \ FromRuntime \subseteq asCT

(* What no module available at run time imports is marked for compile time *)
(* only, and so left out of the program.                                   *)
CTOnlyIsHidden == phase = "analyzed" => activated \ FromRuntime \subseteq hidden

(* Importing and activation end, also when modules import one another.     *)
Terminates == <>(phase \in {"analyzed", "error", "crashed"})
=============================================================================
