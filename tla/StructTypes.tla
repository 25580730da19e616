---------------------------- MODULE StructTypes ----------------------------
(***************************************************************************)
(* FrontEnd::TypesStage: every struct type of the program is checked for   *)
(* circular definitions and completed, which fixes its memory layout.      *)
(*                                                                         *)
(* The functions of the stage call one another recursively: completing a   *)
(* struct completes its base and instantiates the templates its members    *)
(* name, instantiating a template completes and checks the instance.  The  *)
(* call stack is explicit here, its innermost call last, so that a type    *)
(* can be seen in the middle of being completed.                           *)
(***************************************************************************)
EXTENDS Integers, Sequences, SequencesExt

CONSTANTS Structs,    (* every struct type the program can have              *)
          Instances,  (* those that are instances of a struct template       *)
          Programs,   (* the programs to complete the types of               *)
          Names,      (* of members                                          *)
          None        (* no base type                                        *)

(* A member is a name, the form of its type declarator and the struct      *)
(* types the declarator names.  The forms: a struct, or a static array of  *)
(* one; a tuple or a sum; a pointer, reference, slice or dynamic array; a  *)
(* pointer to a tuple; a procedure type; and, in a template, a pointer to  *)
(* one of its parameters.                                                  *)
Sized    == {"struct", "tuple"}
Indirect == {"pointer", "tuple_pointer", "procedure", "parameter_pointer"}

(* Declarator::IMPLIES_COMPLETE.  PointerDeclarator clears it on the base  *)
(* declarator when it is made.  The base of a tuple is the tuple, whose    *)
(* parts keep the flag; so do the parameters of a procedure type; and the  *)
(* argument put in place of a template parameter is a new declarator.      *)
Terms(mem) == IF mem.form = "pointer" THEN <<>> ELSE mem.of

Member == [name : Names, form : Sized \cup Indirect, of : Seq(Structs)]

IsProgram(p) ==
    /\ p.extends \in [Structs -> Structs \cup {None}]
    /\ p.members \in [Structs -> Seq(Member)]

ASSUME StructTypesAssumption ==
    /\ Instances \subseteq Structs
    /\ None \notin Structs
    /\ \A p \in Programs : IsProgram(p)

VARIABLES
    program,         (* the source: extends and members of each struct       *)
    pending,         (* the part of nonPrimatives the loop has not reached   *)
    made,            (* the template instances makeTemplateStruct has made   *)
    isComplete,      (* StructType::isComplete                               *)
    memberTypes,     (* StructType::memberTypes                              *)
    memberVarDecls,  (* StructType::memberVarDecls                           *)
    memberIndices,   (* StructType::memberIndices                            *)
    deferredAST,     (* FrontEnd::deferredAST                                *)
    stack,           (* the calls in progress, innermost last                *)
    outcome,         (* how the stage ended                                  *)
    early            (* history: structs laid out on an unfinished base      *)

layout == <<isComplete, memberTypes, memberVarDecls, memberIndices>>
vars == <<program, pending, made, isComplete, memberTypes, memberVarDecls,
          memberIndices, deferredAST, stack, outcome, early>>

(* A call.  i and j count members and the terms of a member; a cycle check *)
(* carries the visited set and the types on the path from its first type.  *)
Call(op, t) == [op |-> op, t |-> t, i |-> 0, j |-> 0, visited |-> {}, path |-> {}]
CheckOf(t, visited, path) ==
    [op |-> "check", t |-> t, i |-> 1, j |-> 1,
     visited |-> visited \cup {t}, path |-> path \cup {t}]

Top     == Last(stack)
Callers == Front(stack)
Running(op) == stack # <<>> /\ outcome = "none" /\ Top.op = op
InProgress(op, t) == \E k \in DOMAIN stack : stack[k].op = op /\ stack[k].t = t

Own(t)  == program.members[t]
Base(t) == program.extends[t]

(* The innermost call goes on as some calls: itself again and one it       *)
(* makes, what is left of it to do, or none when it returns.               *)
GoOnAs(calls) == stack' = Callers \o calls

Unmade == Instances \ made
NamesUnmade(types) == ToSet(types) \cap Unmade # {}

Init ==
    /\ program \in Programs
    /\ pending = Structs \ Instances
    /\ made = {}
    /\ isComplete = [t \in Structs |-> FALSE]
    /\ memberTypes = [t \in Structs |-> <<>>]
    /\ memberVarDecls = [t \in Structs |-> <<>>]
    /\ memberIndices = [t \in Structs |-> <<>>]
    /\ deferredAST = <<>>
    /\ stack = <<>>
    /\ outcome = "none"
    /\ early = {}

-----------------------------------------------------------------------------
(* FrontEnd::TypesStage takes the types in the order of a hash table.      *)

NextStruct(t) ==
    /\ outcome = "none" /\ stack = <<>> /\ t \in pending
    /\ pending' = pending \ {t}
    /\ stack' = <<Call("call_complete", t), Call("call_check", t)>>
    /\ UNCHANGED <<program, made, layout, deferredAST, outcome, early>>

StageEnd ==
    /\ outcome = "none" /\ stack = <<>> /\ pending = {}
    /\ outcome' = "done"
    /\ UNCHANGED <<program, pending, made, layout, deferredAST, stack, early>>

(* A fatal error ends the compiler. *)
Fail(error) ==
    /\ outcome' = error
    /\ UNCHANGED <<program, pending, made, layout, deferredAST, stack, early>>

(* makeTemplateStruct for an instance no symbol exists for yet.            *)
Make(t) ==
    /\ made' = made \cup {t}
    /\ GoOnAs(<<Top, [Call("make", t) EXCEPT !.i = 1]>>)
    /\ UNCHANGED <<program, pending, layout, deferredAST, outcome, early>>

(* Analysing a declarator instantiates the templates it names, in order.   *)
MakeFirst(types) ==
    \E k \in DOMAIN types :
        /\ types[k] \in Unmade
        /\ \A i \in 1..(k - 1) : types[i] \notin Unmade
        /\ Make(types[k])

-----------------------------------------------------------------------------
(* StructType::complete.                                                   *)

Enter ==
    /\ Running("call_complete")
    /\ GoOnAs(IF isComplete[Top.t] THEN <<>> ELSE <<Call("complete", Top.t)>>)
    /\ isComplete' = [isComplete EXCEPT ![Top.t] = TRUE]
    /\ UNCHANGED <<program, pending, made, memberTypes, memberVarDecls,
                   memberIndices, deferredAST, outcome, early>>

AtBase == Running("complete") /\ Top.i = 0
Advance == GoOnAs(<<[Top EXCEPT !.i = @ + 1, !.j = 0]>>)

NoBase ==
    /\ AtBase /\ Base(Top.t) = None
    /\ Advance
    /\ UNCHANGED <<program, pending, made, layout, deferredAST, outcome, early>>

MakeBase == AtBase /\ Base(Top.t) \in Unmade /\ Make(Base(Top.t))

ExtendsItself ==
    /\ AtBase /\ Base(Top.t) = Top.t
    /\ Fail("extends_itself")

CompleteBase ==
    /\ AtBase /\ Base(Top.t) \in Structs \ {Top.t}
    /\ Base(Top.t) \notin Unmade
    /\ ~isComplete[Base(Top.t)]
    /\ GoOnAs(<<Top, Call("call_complete", Base(Top.t))>>)
    /\ UNCHANGED <<program, pending, made, layout, deferredAST, outcome, early>>

Inherit ==
    /\ AtBase /\ Base(Top.t) \in Structs \ {Top.t}
    /\ isComplete[Base(Top.t)]
    /\ LET t == Top.t
           e == Base(t)
       IN /\ memberTypes' = [memberTypes EXCEPT ![t] = memberTypes[e]]
          /\ memberVarDecls' = [memberVarDecls EXCEPT ![t] = memberVarDecls[e]]
          /\ memberIndices' = [memberIndices EXCEPT ![t] = memberIndices[e]]
          /\ early' = IF InProgress("complete", e) \/ e \in early
                      THEN early \cup {t} ELSE early
    /\ Advance
    /\ UNCHANGED <<program, pending, made, isComplete, deferredAST, outcome>>

AtMember(phase) ==
    /\ Running("complete")
    /\ Top.i \in DOMAIN Own(Top.t) /\ Top.j = phase

(* memberIndices[name] = i, the number of types before it. *)
(* Faulty: the count starts at the struct's own members. *)
OwnIndex(t, mem, i) ==
    [n \in DOMAIN memberIndices[t] \cup {mem.name} |->
        IF n = mem.name THEN Top.i - 1 ELSE memberIndices[t][n]]

IndexOf(t, mem, i) ==
    [n \in DOMAIN memberIndices[t] \cup {mem.name} |->
        IF n = mem.name THEN i ELSE memberIndices[t][n]]

DeclareMember ==
    /\ AtMember(0)
    /\ LET t   == Top.t
           mem == Own(t)[Top.i]
       IN /\ memberVarDecls' = [memberVarDecls EXCEPT ![t] = Append(@, mem)]
          /\ memberIndices' =
                [memberIndices EXCEPT ![t] = IndexOf(t, mem, Len(memberTypes[t]))]
    /\ GoOnAs(<<[Top EXCEPT !.j = 1]>>)
    /\ UNCHANGED <<program, pending, made, isComplete, memberTypes, deferredAST,
                   outcome, early>>

MakeMember == AtMember(1) /\ MakeFirst(Own(Top.t)[Top.i].of)

(* A type is what the declarator says, without the name of the member. *)
TypeOf(mem) == <<mem.form, mem.of>>

TypeMember ==
    /\ AtMember(1) /\ ~NamesUnmade(Own(Top.t)[Top.i].of)
    /\ memberTypes' =
          [memberTypes EXCEPT ![Top.t] = Append(@, TypeOf(Own(Top.t)[Top.i]))]
    /\ Advance
    /\ UNCHANGED <<program, pending, made, isComplete, memberVarDecls,
                   memberIndices, deferredAST, outcome, early>>

Leave ==
    /\ Running("complete") /\ Top.i > Len(Own(Top.t))
    /\ GoOnAs(<<>>)
    /\ UNCHANGED <<program, pending, made, layout, deferredAST, outcome, early>>

-----------------------------------------------------------------------------
(* makeTemplateStruct: expand the members, complete, check, defer.         *)

ExpandMember ==
    /\ Running("make") /\ Top.i \in DOMAIN Own(Top.t)
    /\ \/ MakeFirst(Own(Top.t)[Top.i].of)
       \/ /\ ~NamesUnmade(Own(Top.t)[Top.i].of)
          /\ Advance
          /\ UNCHANGED <<program, pending, made, layout, deferredAST, outcome,
                         early>>

CompleteInstance ==
    /\ Running("make") /\ Top.i > Len(Own(Top.t))
    /\ GoOnAs(<<Call("defer", Top.t), Call("call_check", Top.t),
                Call("call_complete", Top.t)>>)
    /\ UNCHANGED <<program, pending, made, layout, deferredAST, outcome, early>>

(* Faulty: the instance is not handed to the analysis. *)
ForgetInstance ==
    /\ Running("defer")
    /\ GoOnAs(<<>>)
    /\ UNCHANGED <<program, pending, made, layout, deferredAST, outcome, early>>

DeferInstance ==
    /\ Running("defer")
    /\ deferredAST' = Append(deferredAST, Top.t)
    /\ GoOnAs(<<>>)
    /\ UNCHANGED <<program, pending, made, layout, outcome, early>>

-----------------------------------------------------------------------------
(* Type::checkForCycles and StructType::_checkForCycles: a depth-first     *)
(* search along the members that have to be complete.                      *)

CheckBegin ==
    /\ Running("call_check")
    /\ GoOnAs(<<CheckOf(Top.t, {}, {})>>)
    /\ UNCHANGED <<program, pending, made, layout, deferredAST, outcome, early>>

CheckMember == memberVarDecls[Top.t][Top.i]
AtDecl == Running("check") /\ Top.i \in DOMAIN memberVarDecls[Top.t]
AtTerm == AtDecl /\ ~NamesUnmade(CheckMember.of)
                 /\ Top.j \in DOMAIN Terms(CheckMember)
Term == Terms(CheckMember)[Top.j]

MakeInCheck == AtDecl /\ MakeFirst(CheckMember.of)

NextTerm == [Top EXCEPT !.j = @ + 1]

Descend ==
    /\ AtTerm /\ Term \notin Top.visited
    /\ GoOnAs(<<NextTerm, CheckOf(Term, Top.visited, Top.path)>>)
    /\ UNCHANGED <<program, pending, made, layout, deferredAST, outcome, early>>

(* Faulty: any type met twice is taken for a cycle. *)
CycleOnVisited == AtTerm /\ Term \in Top.visited /\ Fail("cycle")

Cycle == AtTerm /\ Term \in Top.path /\ Fail("cycle")

(* Faulty: the search stays at a type it has visited. *)
StayAtVisited ==
    /\ AtTerm /\ Term \in Top.visited \ Top.path
    /\ UNCHANGED vars

SkipVisited ==
    /\ AtTerm /\ Term \in Top.visited \ Top.path
    /\ GoOnAs(<<NextTerm>>)
    /\ UNCHANGED <<program, pending, made, layout, deferredAST, outcome, early>>

NextDecl ==
    /\ AtDecl /\ ~NamesUnmade(CheckMember.of)
    /\ Top.j > Len(Terms(CheckMember))
    /\ GoOnAs(<<[Top EXCEPT !.i = @ + 1, !.j = 1]>>)
    /\ UNCHANGED <<program, pending, made, layout, deferredAST, outcome, early>>

IsRoot(call) == call.op = "check" /\ call.path = {call.t}
CheckReturns == Running("check") /\ Top.i > Len(memberVarDecls[Top.t])

(* The visited set is shared by the calls of one search. *)
CheckEnd ==
    /\ CheckReturns
    /\ stack' = IF IsRoot(Top) THEN Callers
                ELSE [Callers EXCEPT ![Len(Callers)].visited = Top.visited]
    /\ UNCHANGED <<program, pending, made, layout, deferredAST, outcome, early>>

-----------------------------------------------------------------------------
Complete == \/ Enter \/ NoBase \/ MakeBase \/ ExtendsItself \/ CompleteBase
            \/ Inherit \/ DeclareMember \/ MakeMember \/ TypeMember \/ Leave
MakeTemplate == ExpandMember \/ CompleteInstance \/ DeferInstance
Check == \/ CheckBegin \/ MakeInCheck \/ Descend \/ Cycle \/ SkipVisited
         \/ NextDecl \/ CheckEnd

Next ==
    \/ \E t \in Structs : NextStruct(t)
    \/ StageEnd \/ Complete \/ MakeTemplate \/ Check

Spec == Init /\ [][Next]_vars /\ WF_vars(Next)

-----------------------------------------------------------------------------
(* The members the check follows, as the types know them at this moment. *)
DependsOn(t) == UNION {ToSet(Terms(mem)) : mem \in ToSet(memberVarDecls[t])}

(* No cycle is reachable from t: t lies in a set closed under DependsOn    *)
(* every nonempty part of which has a type that depends on none of it.     *)
Acyclic(t) ==
    \E Z \in SUBSET Structs :
        /\ t \in Z
        /\ \A z \in Z : DependsOn(z) \subseteq Z
        /\ \A X \in (SUBSET Z) \ {{}} : \E x \in X : DependsOn(x) \cap X = {}

(* A check that fails has met a cycle, and one that ends without an error  *)
(* has left none behind, although the search visits a type only once,      *)
(* remembers only one path, and may make further types while it runs.      *)
CheckIsExact ==
    /\ outcome = "cycle" => ~Acyclic(Top.t)
    /\ CheckReturns /\ IsRoot(Top) => Acyclic(Top.t)

(* A struct may declare a member its base has: Struct::analyze refuses it  *)
(* later.                                                                  *)
LastOfItsName(decls, k) ==
    \A m \in DOMAIN decls : m > k => decls[m].name # decls[k].name

Finished(t) == isComplete[t] /\ ~InProgress("complete", t)

(* The layout of a struct is its base's layout followed by its own members, *)
(* and memberIndices finds under each name where the type of the last      *)
(* member of that name is - for every order the types are met in, and      *)
(* unless the base was still being completed.                              *)
LayoutFollowsBase ==
    \A t \in Structs \ early : Finished(t) =>
        LET inherited == IF Base(t) = None THEN <<>> ELSE memberVarDecls[Base(t)]
        IN /\ memberVarDecls[t] = inherited \o Own(t)
           /\ DOMAIN memberTypes[t] = DOMAIN memberVarDecls[t]
           /\ DOMAIN memberIndices[t] = {mem.name : mem \in ToSet(memberVarDecls[t])}
           /\ \A k \in DOMAIN memberVarDecls[t] :
                 /\ memberTypes[t][k] = TypeOf(memberVarDecls[t][k])
                 /\ LastOfItsName(memberVarDecls[t], k) =>
                        memberIndices[t][memberVarDecls[t][k].name] = k - 1

(* When the stage is over every type the program has, instances included,  *)
(* has its whole layout, and every instance waits once for its analysis.   *)
StageCompletes ==
    outcome = "done" =>
        /\ \A t \in (Structs \ Instances) \cup made : Finished(t)
        /\ made = ToSet(deferredAST) /\ IsInjective(deferredAST)

(* Completing the types of any program comes to an end. *)
Terminates == <>(outcome # "none")

(* The types a value of t holds as members of its own. *)
Holds(t) ==
    UNION {ToSet(mem.of) : mem \in {m \in ToSet(memberVarDecls[t]) : m.form \in Sized}}

(* The stage lets no type through that contains a value of itself: such a  *)
(* type is "circular" for the error message of cycleError.                 *)
CircularTypesRefused ==
    outcome = "done" =>
        \A X \in (SUBSET Structs) \ {{}} : \E x \in X : Holds(x) \cap X = {}
=============================================================================
