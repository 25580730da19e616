--------------------------- MODULE StructTypesProofs ---------------------------
(***************************************************************************)
(* For every program: when the types stage is over every type has its      *)
(* layout, and the layout of a finished struct is its base's layout and    *)
(* its own members.                                                        *)
(*                                                                         *)
(* The argument: StageInv accounts for every type the stage has met or     *)
(* made, Layouts says how far each completion in progress has come, and    *)
(* Nested says which call has made which.                                  *)
(*                                                                         *)
(* The second part is about the cycle check.                               *)
(***************************************************************************)
EXTENDS StructTypes, TLAPS, SequenceFacts

-----------------------------------------------------------------------------
(* The types of the state. *)

Ops == {"call_complete", "complete", "call_check", "check", "make", "defer"}
Calls == [op : Ops, t : Structs, i : Nat, j : Nat,
          visited : SUBSET Structs, path : SUBSET Structs]

TypeOK ==
    /\ IsProgram(program)
    /\ pending \subseteq Structs
    /\ made \subseteq Instances
    /\ isComplete \in [Structs -> BOOLEAN]
    /\ memberTypes \in [Structs -> Seq((Sized \cup Indirect) \X Seq(Structs))]
    /\ memberVarDecls \in [Structs -> Seq(Member)]
    /\ memberIndices = [t \in Structs |-> memberIndices[t]]
    /\ deferredAST \in Seq(Structs)
    /\ stack \in Seq(Calls)
    /\ early \subseteq Structs

-----------------------------------------------------------------------------
(* How the stack of calls moves. *)

(* The callers of the innermost call are the calls below it. *)
LEMMA CallersBelow ==
    ASSUME NEW S, NEW s \in Seq(S), s # <<>>, NEW new \in Seq(S)
    PROVE  /\ Len(s) \in Nat \ {0}
           /\ Last(s) = s[Len(s)] /\ Last(s) \in S
           /\ Front(s) \o new \in Seq(S)
           /\ Len(Front(s) \o new) = Len(s) - 1 + Len(new)
           /\ \A k \in 1..(Len(s) - 1) : (Front(s) \o new)[k] = s[k]
           /\ \A i \in 1..Len(new) : (Front(s) \o new)[Len(s) - 1 + i] = new[i]
<1>1. Len(s) \in Nat \ {0} /\ s \in [1..Len(s) -> S]
  OBVIOUS
<1>2. /\ Front(s) \in Seq(S) /\ Len(Front(s)) = Len(s) - 1
      /\ \A k \in 1..(Len(s) - 1) : Front(s)[k] = s[k]
  BY <1>1, SubSeqProperties DEF Front
<1>3. Last(s) = s[Len(s)] /\ Last(s) \in S
  BY <1>1 DEF Last
<1>4. /\ Front(s) \o new \in Seq(S)
      /\ Len(Front(s) \o new) = Len(Front(s)) + Len(new)
      /\ \A i \in 1..(Len(Front(s)) + Len(new)) :
            (Front(s) \o new)[i] = IF i <= Len(Front(s)) THEN Front(s)[i]
                                   ELSE new[i - Len(Front(s))]
  BY <1>2, ConcatProperties
<1>5. \A k \in 1..(Len(s) - 1) : (Front(s) \o new)[k] = s[k]
  <2> HIDE DEF Front
  <2>1. Len(new) \in Nat
    OBVIOUS
  <2> QED
    BY <1>1, <1>2, <1>4, <2>1
<1>6. \A i \in 1..Len(new) : (Front(s) \o new)[Len(s) - 1 + i] = new[i]
  <2>1. Len(new) \in Nat
    OBVIOUS
  <2>2. SUFFICES ASSUME NEW i \in 1..Len(new)
                 PROVE  (Front(s) \o new)[Len(s) - 1 + i] = new[i]
    OBVIOUS
  <2>3. /\ Len(s) - 1 + i \in 1..(Len(Front(s)) + Len(new))
        /\ ~(Len(s) - 1 + i <= Len(Front(s)))
        /\ Len(s) - 1 + i - Len(Front(s)) = i
    BY <1>1, <1>2, <2>1
  <2> QED
    BY <1>4, <2>3
<1> QED
  BY <1>1, <1>2, <1>3, <1>4, <1>5, <1>6

Below == \A k \in 1..(Len(stack) - 1) : stack'[k] = stack[k]

Returns == Len(stack') = Len(stack) - 1 /\ Below
Turns(c) == /\ Len(stack') = Len(stack) /\ Below
            /\ stack'[Len(stack)] = c
Turns2(c, d) == /\ Len(stack') = Len(stack) + 1 /\ Below
                /\ stack'[Len(stack)] = c
                /\ stack'[Len(stack) + 1] = d
Turns3(c, d, e) == /\ Len(stack') = Len(stack) + 2 /\ Below
                   /\ stack'[Len(stack)] = c
                   /\ stack'[Len(stack) + 1] = d
                   /\ stack'[Len(stack) + 2] = e

(* What GoOnAs does to the positions of the stack. *)
LEMMA Goes ==
    ASSUME TypeOK, stack # <<>>
    PROVE  /\ Len(stack) \in Nat \ {0}
           /\ Top = stack[Len(stack)] /\ Top \in Calls
           /\ GoOnAs(<<>>) => stack' \in Seq(Calls) /\ Returns
           /\ \A c \in Calls : GoOnAs(<<c>>) => stack' \in Seq(Calls) /\ Turns(c)
           /\ \A c, d \in Calls :
                 GoOnAs(<<c, d>>) => stack' \in Seq(Calls) /\ Turns2(c, d)
           /\ \A c, d, e \in Calls :
                 GoOnAs(<<c, d, e>>) => stack' \in Seq(Calls) /\ Turns3(c, d, e)
<1>1. stack \in Seq(Calls)
  BY DEF TypeOK
<1> HIDE DEF Calls
<1>all. ASSUME NEW new \in Seq(Calls)
        PROVE  /\ Front(stack) \o new \in Seq(Calls)
               /\ Len(Front(stack) \o new) = Len(stack) - 1 + Len(new)
               /\ \A k \in 1..(Len(stack) - 1) : (Front(stack) \o new)[k] = stack[k]
               /\ \A i \in 1..Len(new) : (Front(stack) \o new)[Len(stack) - 1 + i] = new[i]
  BY <1>1, CallersBelow
<1>2. /\ Len(stack) \in Nat \ {0}
      /\ Top = stack[Len(stack)] /\ Top \in Calls
  <2>1. <<>> \in Seq(Calls)
    OBVIOUS
  <2> QED
    BY <1>1, <2>1, CallersBelow DEF Top
<1>3. GoOnAs(<<>>) => stack' \in Seq(Calls) /\ Returns
  <2>1. <<>> \in Seq(Calls) /\ Len(<<>>) = 0
    OBVIOUS
  <2>2. ASSUME GoOnAs(<<>>)
        PROVE  /\ stack' \in Seq(Calls) /\ Len(stack') = Len(stack) - 1 + 0
               /\ \A k \in 1..(Len(stack) - 1) : stack'[k] = stack[k]
    BY <1>1, <2>1, <2>2, CallersBelow DEF GoOnAs, Callers
  <2> QED
    BY <1>2, <2>2 DEF Returns, Below
<1>4. ASSUME NEW c \in Calls, GoOnAs(<<c>>)
      PROVE  stack' \in Seq(Calls) /\ Turns(c)
  <2>1. <<c>> \in Seq(Calls) /\ Len(<<c>>) = 1 /\ <<c>>[1] = c
    OBVIOUS
  <2>2. /\ stack' \in Seq(Calls) /\ Len(stack') = Len(stack) - 1 + 1
        /\ \A k \in 1..(Len(stack) - 1) : stack'[k] = stack[k]
        /\ \A i \in 1..1 : stack'[Len(stack) - 1 + i] = <<c>>[i]
    <3>1. PICK new : new = <<c>>
      OBVIOUS
    <3>2. new \in Seq(Calls) /\ Len(new) = 1 /\ stack' = Front(stack) \o new
      BY <1>4, <2>1, <3>1 DEF GoOnAs, Callers
    <3>3. /\ Front(stack) \o new \in Seq(Calls)
          /\ Len(Front(stack) \o new) = Len(stack) - 1 + Len(new)
          /\ \A k \in 1..(Len(stack) - 1) : (Front(stack) \o new)[k] = stack[k]
          /\ \A i \in 1..Len(new) : (Front(stack) \o new)[Len(stack) - 1 + i] = new[i]
      BY <1>all, <3>2
    <3> QED
      BY <3>1, <3>2, <3>3, Zenon
  <2>3. stack'[Len(stack) - 1 + 1] = c
    BY <2>1, <2>2
  <2>4. Len(stack) - 1 + 1 = Len(stack)
    BY <1>2
  <2> QED
    BY <1>2, <2>2, <2>3, <2>4 DEF Turns, Below
<1>5. ASSUME NEW c \in Calls, NEW d \in Calls, GoOnAs(<<c, d>>)
      PROVE  stack' \in Seq(Calls) /\ Turns2(c, d)
  <2>1. <<c, d>> \in Seq(Calls) /\ Len(<<c, d>>) = 2 /\ <<c, d>>[1] = c /\ <<c, d>>[2] = d
    OBVIOUS
  <2>2. /\ stack' \in Seq(Calls) /\ Len(stack') = Len(stack) - 1 + 2
        /\ \A k \in 1..(Len(stack) - 1) : stack'[k] = stack[k]
        /\ \A i \in 1..2 : stack'[Len(stack) - 1 + i] = <<c, d>>[i]
    <3>1. PICK new : new = <<c, d>>
      OBVIOUS
    <3>2. new \in Seq(Calls) /\ Len(new) = 2 /\ stack' = Front(stack) \o new
      BY <1>5, <2>1, <3>1 DEF GoOnAs, Callers
    <3>3. /\ Front(stack) \o new \in Seq(Calls)
          /\ Len(Front(stack) \o new) = Len(stack) - 1 + Len(new)
          /\ \A k \in 1..(Len(stack) - 1) : (Front(stack) \o new)[k] = stack[k]
          /\ \A i \in 1..Len(new) : (Front(stack) \o new)[Len(stack) - 1 + i] = new[i]
      BY <1>all, <3>2
    <3> QED
      BY <3>1, <3>2, <3>3, Zenon
  <2>3. stack'[Len(stack) - 1 + 1] = c /\ stack'[Len(stack) - 1 + 2] = d
    BY <2>1, <2>2
  <2>4. Len(stack) - 1 + 1 = Len(stack) /\ Len(stack) - 1 + 2 = Len(stack) + 1
    BY <1>2
  <2> QED
    BY <1>2, <2>2, <2>3, <2>4 DEF Turns2, Below
<1>6. ASSUME NEW c \in Calls, NEW d \in Calls, NEW e \in Calls, GoOnAs(<<c, d, e>>)
      PROVE  stack' \in Seq(Calls) /\ Turns3(c, d, e)
  <2>1. /\ <<c, d, e>> \in Seq(Calls) /\ Len(<<c, d, e>>) = 3
        /\ <<c, d, e>>[1] = c /\ <<c, d, e>>[2] = d /\ <<c, d, e>>[3] = e
    OBVIOUS
  <2>2. /\ stack' \in Seq(Calls) /\ Len(stack') = Len(stack) - 1 + 3
        /\ \A k \in 1..(Len(stack) - 1) : stack'[k] = stack[k]
        /\ \A i \in 1..3 : stack'[Len(stack) - 1 + i] = <<c, d, e>>[i]
    <3>1. PICK new : new = <<c, d, e>>
      OBVIOUS
    <3>2. new \in Seq(Calls) /\ Len(new) = 3 /\ stack' = Front(stack) \o new
      BY <1>6, <2>1, <3>1 DEF GoOnAs, Callers
    <3>3. /\ Front(stack) \o new \in Seq(Calls)
          /\ Len(Front(stack) \o new) = Len(stack) - 1 + Len(new)
          /\ \A k \in 1..(Len(stack) - 1) : (Front(stack) \o new)[k] = stack[k]
          /\ \A i \in 1..Len(new) : (Front(stack) \o new)[Len(stack) - 1 + i] = new[i]
      BY <1>all, <3>2
    <3> QED
      BY <3>1, <3>2, <3>3, Zenon
  <2>3. /\ stack'[Len(stack) - 1 + 1] = c /\ stack'[Len(stack) - 1 + 2] = d
        /\ stack'[Len(stack) - 1 + 3] = e
    BY <2>1, <2>2
  <2>4. /\ Len(stack) - 1 + 1 = Len(stack) /\ Len(stack) - 1 + 2 = Len(stack) + 1
        /\ Len(stack) - 1 + 3 = Len(stack) + 2
    BY <1>2
  <2> QED
    BY <1>2, <2>2, <2>3, <2>4 DEF Turns3, Below
<1> QED
  BY <1>2, <1>3, <1>4, <1>5, <1>6

(* The calls the actions make are calls. *)
LEMMA CallsMade ==
    /\ \A op \in Ops, t \in Structs : Call(op, t) \in Calls
    /\ \A t \in Structs : [Call("make", t) EXCEPT !.i = 1] \in Calls
    /\ \A t \in Structs, V, P \in SUBSET Structs : CheckOf(t, V, P) \in Calls
    /\ \A c \in Calls : /\ [c EXCEPT !.i = @ + 1, !.j = 0] \in Calls
                        /\ [c EXCEPT !.i = @ + 1, !.j = 1] \in Calls
                        /\ [c EXCEPT !.j = 1] \in Calls
                        /\ [c EXCEPT !.j = @ + 1] \in Calls
                        /\ \A V \in SUBSET Structs : [c EXCEPT !.visited = V] \in Calls
<1>1. /\ \A op \in Ops, t \in Structs : Call(op, t) \in Calls
      /\ \A t \in Structs : [Call("make", t) EXCEPT !.i = 1] \in Calls
      /\ \A t \in Structs, V, P \in SUBSET Structs : CheckOf(t, V, P) \in Calls
  BY DEF Call, CheckOf, Calls, Ops
<1>2. \A c \in Calls : /\ [c EXCEPT !.i = @ + 1, !.j = 0] \in Calls
                       /\ [c EXCEPT !.i = @ + 1, !.j = 1] \in Calls
                       /\ [c EXCEPT !.j = 1] \in Calls
                       /\ [c EXCEPT !.j = @ + 1] \in Calls
  <2>1. SUFFICES ASSUME NEW c \in Calls
                 PROVE  /\ [c EXCEPT !.i = @ + 1, !.j = 0] \in Calls
                        /\ [c EXCEPT !.i = @ + 1, !.j = 1] \in Calls
                        /\ [c EXCEPT !.j = 1] \in Calls
                        /\ [c EXCEPT !.j = @ + 1] \in Calls
    OBVIOUS
  <2>a. ASSUME NEW m \in Nat
        PROVE  [c EXCEPT !.i = @ + 1, !.j = m] \in Calls
    <3>1. PICK d : d = [c EXCEPT !.i = @ + 1]
      OBVIOUS
    <3>2. d \in Calls
      BY <3>1 DEF Calls
    <3>3. [c EXCEPT !.i = @ + 1, !.j = m] = [d EXCEPT !.j = m]
      BY <3>1 DEF Calls
    <3> QED
      BY <3>2, <3>3 DEF Calls
  <2>2. [c EXCEPT !.i = @ + 1, !.j = 0] \in Calls
    BY <2>a
  <2>3. [c EXCEPT !.i = @ + 1, !.j = 1] \in Calls
    BY <2>a
  <2>4. [c EXCEPT !.j = 1] \in Calls /\ [c EXCEPT !.j = @ + 1] \in Calls
    BY DEF Calls
  <2> QED
    BY <2>2, <2>3, <2>4
<1>3. \A c \in Calls, V \in SUBSET Structs : [c EXCEPT !.visited = V] \in Calls
  BY DEF Calls
<1> QED
  BY <1>1, <1>2, <1>3

(* A step makes calls only from a call in progress. *)
(* What an action does to the stack. *)
LEMMA Moves ==
    ASSUME TypeOK, stack # <<>>
    PROVE  /\ \A t \in Structs : Make(t) =>
                  Turns2(Top, [Call("make", t) EXCEPT !.i = 1])
           /\ Enter => IF isComplete[Top.t] THEN Returns
                       ELSE Turns(Call("complete", Top.t))
           /\ Advance => Turns([Top EXCEPT !.i = @ + 1, !.j = 0])
           /\ CompleteBase => Turns2(Top, Call("call_complete", Base(Top.t)))
           /\ DeclareMember => Turns([Top EXCEPT !.j = 1])
           /\ Leave \/ DeferInstance => Returns
           /\ CompleteInstance =>
                  Turns3(Call("defer", Top.t), Call("call_check", Top.t),
                         Call("call_complete", Top.t))
           /\ CheckBegin => Turns(CheckOf(Top.t, {}, {}))
           /\ Descend => Turns2(NextTerm, CheckOf(Term, Top.visited, Top.path))
           /\ SkipVisited => Turns(NextTerm)
           /\ NextDecl => Turns([Top EXCEPT !.i = @ + 1, !.j = 1])
           /\ CheckEnd /\ IsRoot(Top) => Returns
           /\ \/ Enter \/ Advance \/ CompleteBase \/ DeclareMember \/ Leave
              \/ DeferInstance \/ CompleteInstance \/ CheckBegin \/ Descend
              \/ SkipVisited \/ NextDecl \/ (CheckEnd /\ IsRoot(Top))
              \/ \E t \in Structs : Make(t)
              => stack' \in Seq(Calls)
<1>1. /\ Top \in Calls /\ Top.t \in Structs /\ Top.visited \subseteq Structs
      /\ Top.path \subseteq Structs
  BY Goes DEF Calls
<1>2. \A t \in Structs : Make(t) =>
          /\ Turns2(Top, [Call("make", t) EXCEPT !.i = 1])
          /\ stack' \in Seq(Calls)
  <2> SUFFICES ASSUME NEW t \in Structs, Make(t)
               PROVE  /\ Turns2(Top, [Call("make", t) EXCEPT !.i = 1])
                      /\ stack' \in Seq(Calls)
    OBVIOUS
  <2>1. PICK c : c = [Call("make", t) EXCEPT !.i = 1]
    OBVIOUS
  <2>2. c \in Calls /\ GoOnAs(<<Top, c>>)
    BY <2>1, CallsMade DEF Make
  <2> QED
    BY <1>1, <2>1, <2>2, Goes
<1>3. Enter => /\ IF isComplete[Top.t] THEN Returns
                  ELSE Turns(Call("complete", Top.t))
               /\ stack' \in Seq(Calls)
  <2>1. Call("complete", Top.t) \in Calls
    BY <1>1, CallsMade DEF Ops
  <2> QED
    BY <2>1, Goes DEF Enter
<1>4. Advance => /\ Turns([Top EXCEPT !.i = @ + 1, !.j = 0])
                 /\ stack' \in Seq(Calls)
  <2>1. [Top EXCEPT !.i = @ + 1, !.j = 0] \in Calls
    BY <1>1, CallsMade
  <2> QED
    BY <2>1, Goes DEF Advance
<1>5. CompleteBase => /\ Turns2(Top, Call("call_complete", Base(Top.t)))
                      /\ stack' \in Seq(Calls)
  <2>1. CompleteBase => Call("call_complete", Base(Top.t)) \in Calls
    BY <1>1, CallsMade DEF Ops, CompleteBase
  <2> QED
    BY <1>1, <2>1, Goes DEF CompleteBase
<1>6. DeclareMember => Turns([Top EXCEPT !.j = 1]) /\ stack' \in Seq(Calls)
  <2>1. [Top EXCEPT !.j = 1] \in Calls
    BY <1>1, CallsMade
  <2> QED
    BY <2>1, Goes DEF DeclareMember
<1>7. Leave \/ DeferInstance => Returns /\ stack' \in Seq(Calls)
  BY Goes DEF Leave, DeferInstance
<1>8. CompleteInstance =>
          /\ Turns3(Call("defer", Top.t), Call("call_check", Top.t),
                    Call("call_complete", Top.t))
          /\ stack' \in Seq(Calls)
  <2>1. /\ Call("defer", Top.t) \in Calls /\ Call("call_check", Top.t) \in Calls
        /\ Call("call_complete", Top.t) \in Calls
    BY <1>1, CallsMade DEF Ops
  <2> QED
    BY <2>1, Goes DEF CompleteInstance
<1>9. CheckBegin => Turns(CheckOf(Top.t, {}, {})) /\ stack' \in Seq(Calls)
  <2>1. CheckOf(Top.t, {}, {}) \in Calls
    BY <1>1, CallsMade
  <2> QED
    BY <2>1, Goes DEF CheckBegin
<1>10. NextTerm \in Calls
  BY <1>1, CallsMade DEF NextTerm
<1>11. SkipVisited => Turns(NextTerm) /\ stack' \in Seq(Calls)
  BY <1>10, Goes DEF SkipVisited
<1>12. NextDecl => /\ Turns([Top EXCEPT !.i = @ + 1, !.j = 1])
                   /\ stack' \in Seq(Calls)
  <2>1. [Top EXCEPT !.i = @ + 1, !.j = 1] \in Calls
    BY <1>1, CallsMade
  <2> QED
    BY <2>1, Goes DEF NextDecl
<1>13. CheckEnd /\ IsRoot(Top) => Returns /\ stack' \in Seq(Calls)
  BY Goes DEF CheckEnd, GoOnAs, Returns, Below
<1>14. Descend => /\ Turns2(NextTerm, CheckOf(Term, Top.visited, Top.path))
                  /\ stack' \in Seq(Calls)
  <2> SUFFICES ASSUME Descend
               PROVE  /\ Turns2(NextTerm, CheckOf(Term, Top.visited, Top.path))
                      /\ stack' \in Seq(Calls)
    OBVIOUS
  <2>1. CheckMember \in Member
    BY <1>1 DEF Descend, AtTerm, AtDecl, CheckMember, TypeOK
  <2>2. Terms(CheckMember) \in Seq(Structs)
    BY <2>1 DEF Terms, Member
  <2>3. Term \in Structs
    <3>1. Top.j \in DOMAIN Terms(CheckMember)
      BY DEF Descend, AtTerm
    <3> QED
      BY <2>2, <3>1 DEF Term
  <2>4. CheckOf(Term, Top.visited, Top.path) \in Calls
    BY <1>1, <2>3, CallsMade
  <2> QED
    BY <1>10, <2>4, Goes DEF Descend
<1> QED
  BY <1>2, <1>3, <1>4, <1>5, <1>6, <1>7, <1>8, <1>9, <1>11, <1>12, <1>13, <1>14

(* The search's other return hands the visited set to the caller. *)
LEMMA MovesBack ==
    ASSUME TypeOK, stack # <<>>, CheckEnd, ~IsRoot(Top), Len(stack) > 1
    PROVE  /\ stack' \in Seq(Calls)
           /\ Len(stack') = Len(stack) - 1
           /\ \A k \in 1..(Len(stack) - 2) : stack'[k] = stack[k]
           /\ stack'[Len(stack) - 1] =
                  [stack[Len(stack) - 1] EXCEPT !.visited = Top.visited]
<1>1. /\ Top \in Calls /\ Top.visited \subseteq Structs
      /\ Len(stack) \in Nat
  BY Goes DEF Calls
<1>2. /\ Callers \in Seq(Calls) /\ Len(Callers) = Len(stack) - 1
      /\ \A k \in 1..(Len(stack) - 1) : Callers[k] = stack[k]
  <2>1. stack \in Seq(Calls)
    BY DEF TypeOK
  <2> HIDE DEF Calls
  <2> QED
    BY <2>1, SubSeqProperties DEF Callers, Front
<1>3. stack' = [Callers EXCEPT ![Len(Callers)].visited = Top.visited]
  BY DEF CheckEnd
<1>4. PICK c : c = [Callers[Len(stack) - 1] EXCEPT !.visited = Top.visited]
  OBVIOUS
<1>5. c \in Calls
  <2>1. Callers[Len(stack) - 1] \in Calls
    <3> HIDE DEF Callers, Calls
    <3> QED
      BY <1>1, <1>2
  <2> QED
    BY <1>1, <1>4, <2>1, CallsMade
<1>6. stack' = [Callers EXCEPT ![Len(stack) - 1] = c]
  BY <1>2, <1>3, <1>4
<1> HIDE DEF Callers, Calls
<1>7. stack' \in Seq(Calls) /\ Len(stack') = Len(stack) - 1
  BY <1>1, <1>2, <1>5, <1>6
<1>8. \A k \in 1..(Len(stack) - 2) : stack'[k] = stack[k]
  BY <1>1, <1>2, <1>6
<1>9. stack'[Len(stack) - 1] = c
  BY <1>1, <1>2, <1>6
<1>10. Callers[Len(stack) - 1] = stack[Len(stack) - 1]
  BY <1>1, <1>2
<1> QED
  BY <1>4, <1>7, <1>8, <1>9, <1>10, Zenon

Making(t) == stack # <<>> /\ outcome = "none" /\ t \in Unmade /\ Make(t)

(* The call of makeTemplateStruct comes from a base, a member or a term. *)
LEMMA WhoMakes ==
    ASSUME TypeOK
    PROVE  /\ MakeBase => \E t \in Structs : Making(t)
           /\ MakeMember => \E t \in Structs : Making(t)
           /\ MakeInCheck => \E t \in Structs : Making(t)
           /\ ExpandMember =>
                 \/ \E t \in Structs : Making(t)
                 \/ /\ Running("make") /\ Top.i \in DOMAIN Own(Top.t) /\ Advance
                    /\ UNCHANGED <<program, pending, made, layout, deferredAST,
                                   outcome, early>>
<1>1. Unmade \subseteq Structs
  BY StructTypesAssumption DEF Unmade
<1>2. \A types : MakeFirst(types) => \E t \in Unmade : Make(t)
  BY DEF MakeFirst
<1>3. MakeBase => \E t \in Structs : Making(t)
  BY <1>1 DEF MakeBase, AtBase, Running, Making
<1>4. MakeMember => \E t \in Structs : Making(t)
  BY <1>1, <1>2 DEF MakeMember, AtMember, Running, Making
<1>5. MakeInCheck => \E t \in Structs : Making(t)
  BY <1>1, <1>2 DEF MakeInCheck, AtDecl, Running, Making
<1>6. ExpandMember =>
         \/ \E t \in Structs : Making(t)
         \/ /\ Running("make") /\ Top.i \in DOMAIN Own(Top.t) /\ Advance
            /\ UNCHANGED <<program, pending, made, layout, deferredAST,
                           outcome, early>>
  BY <1>1, <1>2 DEF ExpandMember, Running, Making
<1> QED
  BY <1>3, <1>4, <1>5, <1>6

(* Nothing is in progress at the start, and no struct has a member. *)
LEMMA InitTypeOK == Init => TypeOK
<1> SUFFICES ASSUME Init PROVE TypeOK
  OBVIOUS
<1>1. IsProgram(program)
  BY StructTypesAssumption DEF Init
<1>2. <<>> \in Seq(Calls) /\ <<>> \in Seq(Structs)
  OBVIOUS
<1> QED
  BY <1>1, <1>2 DEF Init, TypeOK

(* What the caller's members and base are. *)
LEMMA Sources ==
    ASSUME TypeOK
    PROVE  \A t \in Structs :
              /\ Own(t) \in Seq(Member)
              /\ Base(t) \in Structs \cup {None}
              /\ Base(t) # None => Base(t) \in Structs
BY StructTypesAssumption DEF TypeOK, IsProgram, Own, Base

(* Every step keeps the types of the state. *)
LEMMA TypeStep ==
    ASSUME TypeOK, [Next]_vars
    PROVE  TypeOK'
<1>1. CASE UNCHANGED vars
  BY <1>1 DEF TypeOK, vars, layout, IsProgram
<1>2. ASSUME NEW t \in Structs, NextStruct(t)
      PROVE  TypeOK'
  <2>1. Call("call_complete", t) \in Calls /\ Call("call_check", t) \in Calls
    BY CallsMade DEF Ops
  <2> HIDE DEF Calls
  <2>2. stack' \in Seq(Calls)
    <3>1. \A c, d \in Calls : <<c, d>> \in Seq(Calls)
      OBVIOUS
    <3> QED
      BY <1>2, <2>1, <3>1 DEF NextStruct
  <2> QED
    BY <1>2, <2>2 DEF NextStruct, TypeOK, layout, IsProgram
<1>3. CASE StageEnd
  BY <1>3 DEF StageEnd, TypeOK, layout, IsProgram
<1>4. ASSUME NEW error, Fail(error)
      PROVE  TypeOK'
  BY <1>4 DEF Fail, TypeOK, layout, IsProgram
<1>5. ASSUME NEW t \in Structs, Making(t)
      PROVE  TypeOK'
  <2>1. stack' \in Seq(Calls)
    BY <1>5, Moves DEF Making
  <2> QED
    BY <1>5, <2>1 DEF Making, Make, Unmade, TypeOK, layout, IsProgram
<1>6. ASSUME stack # <<>>
      PROVE  Top.t \in Structs
  BY <1>6, Goes DEF Calls
<1>7. CASE Enter
  <2>1. stack # <<>> /\ stack' \in Seq(Calls)
    BY <1>7, Moves DEF Enter, Running
  <2> QED
    BY <1>6, <1>7, <2>1 DEF Enter, TypeOK, IsProgram
<1>8. CASE NoBase
  <2>1. stack # <<>> /\ stack' \in Seq(Calls)
    BY <1>8, Moves DEF NoBase, AtBase, Running
  <2> QED
    BY <1>8, <2>1 DEF NoBase, TypeOK, layout, IsProgram
<1>9. CASE CompleteBase
  <2>1. stack # <<>> /\ stack' \in Seq(Calls)
    BY <1>9, Moves DEF CompleteBase, AtBase, Running
  <2> QED
    BY <1>9, <2>1 DEF CompleteBase, TypeOK, layout, IsProgram
<1>10. CASE Inherit
  <2>1. stack # <<>> /\ stack' \in Seq(Calls)
    BY <1>10, Moves DEF Inherit, AtBase, Running
  <2>2. Top.t \in Structs /\ Base(Top.t) \in Structs
    BY <1>6, <1>10, <2>1 DEF Inherit
  <2>3. PICK t, e \in Structs : t = Top.t /\ e = Base(t)
    BY <2>2
  <2>4. /\ memberTypes' = [memberTypes EXCEPT ![t] = memberTypes[e]]
        /\ memberVarDecls' = [memberVarDecls EXCEPT ![t] = memberVarDecls[e]]
        /\ memberIndices' = [memberIndices EXCEPT ![t] = memberIndices[e]]
        /\ early' \subseteq early \cup {t}
        /\ UNCHANGED <<program, pending, made, isComplete, deferredAST, outcome>>
    BY <1>10, <2>3 DEF Inherit
  <2>5. t \in Structs
    BY <2>2, <2>3
  <2>6. /\ memberTypes' \in [Structs -> Seq((Sized \cup Indirect) \X Seq(Structs))]
        /\ memberVarDecls' \in [Structs -> Seq(Member)]
    BY <2>3, <2>4, <2>5 DEF TypeOK
  <2>7. memberIndices' = [u \in Structs |-> memberIndices'[u]]
    BY <2>4 DEF TypeOK
  <2> QED
    BY <2>1, <2>4, <2>5, <2>6, <2>7 DEF TypeOK, IsProgram
<1>11. CASE DeclareMember
  <2>1. stack # <<>> /\ stack' \in Seq(Calls)
    BY <1>11, Moves DEF DeclareMember, AtMember, Running
  <2>2. Top.t \in Structs /\ Top.i \in DOMAIN Own(Top.t)
    BY <1>6, <1>11, <2>1 DEF DeclareMember, AtMember
  <2>3. PICK t : t = Top.t
    OBVIOUS
  <2>4. PICK mem : mem = Own(Top.t)[Top.i]
    OBVIOUS
  <2>5. mem \in Member
    BY <2>2, <2>4, Sources
  <2>6. memberVarDecls' = [memberVarDecls EXCEPT ![t] = Append(@, mem)]
    BY <1>11, <2>3, <2>4 DEF DeclareMember
  <2>7. memberVarDecls' \in [Structs -> Seq(Member)]
    BY <2>2, <2>3, <2>5, <2>6 DEF TypeOK
  <2>8. memberIndices' = [u \in Structs |-> memberIndices'[u]]
    <3>1. PICK f : memberIndices' = [memberIndices EXCEPT ![t] = f]
      BY <1>11, <2>3 DEF DeclareMember
    <3> QED
      BY <3>1 DEF TypeOK
  <2> QED
    BY <1>11, <2>1, <2>7, <2>8 DEF DeclareMember, TypeOK, IsProgram
<1>12. CASE TypeMember
  <2>1. stack # <<>> /\ stack' \in Seq(Calls)
    BY <1>12, Moves DEF TypeMember, AtMember, Running
  <2>2. Top.t \in Structs /\ Top.i \in DOMAIN Own(Top.t)
    BY <1>6, <1>12, <2>1 DEF TypeMember, AtMember
  <2>3. PICK ty : ty = TypeOf(Own(Top.t)[Top.i])
    OBVIOUS
  <2>4. Own(Top.t)[Top.i] \in Member
    BY <2>2, Sources
  <2>5. ty \in (Sized \cup Indirect) \X Seq(Structs)
    BY <2>3, <2>4 DEF TypeOf, Member
  <2>6. memberTypes' = [memberTypes EXCEPT ![Top.t] = Append(@, ty)]
    BY <1>12, <2>3 DEF TypeMember
  <2>7. memberTypes' \in [Structs -> Seq((Sized \cup Indirect) \X Seq(Structs))]
    <3>1. PICK T : T = (Sized \cup Indirect) \X Seq(Structs)
      OBVIOUS
    <3>2. ty \in T /\ memberTypes \in [Structs -> Seq(T)]
      BY <2>5, <3>1 DEF TypeOK
    <3>3. memberTypes' \in [Structs -> Seq(T)]
      BY <2>2, <2>6, <3>2
    <3> QED
      BY <3>1, <3>3
  <2> QED
    BY <1>12, <2>1, <2>7 DEF TypeMember, TypeOK, IsProgram
<1>13. CASE Leave
  <2>1. stack # <<>> /\ stack' \in Seq(Calls)
    BY <1>13, Moves DEF Leave, Running
  <2> QED
    BY <1>13, <2>1 DEF Leave, TypeOK, layout, IsProgram
<1>14. CASE /\ Running("make") /\ Advance
            /\ UNCHANGED <<program, pending, made, layout, deferredAST,
                           outcome, early>>
  <2>1. stack # <<>> /\ stack' \in Seq(Calls)
    BY <1>14, Moves DEF Running
  <2> QED
    BY <1>14, <2>1 DEF TypeOK, layout, IsProgram
<1>15. CASE CompleteInstance
  <2>1. stack # <<>> /\ stack' \in Seq(Calls)
    BY <1>15, Moves DEF CompleteInstance, Running
  <2> QED
    BY <1>15, <2>1 DEF CompleteInstance, TypeOK, layout, IsProgram
<1>16. CASE DeferInstance
  <2>1. stack # <<>> /\ stack' \in Seq(Calls)
    BY <1>16, Moves DEF DeferInstance, Running
  <2>2. deferredAST' \in Seq(Structs)
    BY <1>6, <1>16, <2>1 DEF DeferInstance, TypeOK
  <2> QED
    BY <1>16, <2>1, <2>2 DEF DeferInstance, TypeOK, layout, IsProgram
<1>17. CASE CheckBegin
  <2>1. stack # <<>> /\ stack' \in Seq(Calls)
    BY <1>17, Moves DEF CheckBegin, Running
  <2> QED
    BY <1>17, <2>1 DEF CheckBegin, TypeOK, layout, IsProgram
<1>18. CASE Descend
  <2>1. stack # <<>> /\ stack' \in Seq(Calls)
    BY <1>18, Moves DEF Descend, AtTerm, AtDecl, Running
  <2> QED
    BY <1>18, <2>1 DEF Descend, TypeOK, layout, IsProgram
<1>19. CASE SkipVisited
  <2>0. stack # <<>>
    BY <1>19 DEF SkipVisited, AtTerm, AtDecl, Running
  <2>1. stack' \in Seq(Calls)
    <3>1. SkipVisited
      BY <1>19
    <3>2. SkipVisited => stack' \in Seq(Calls)
      BY <2>0, Moves
    <3> QED
      BY <3>1, <3>2
  <2> QED
    BY <1>19, <2>1 DEF SkipVisited, TypeOK, layout, IsProgram
<1>20. CASE NextDecl
  <2>0. stack # <<>>
    BY <1>20 DEF NextDecl, AtDecl, Running
  <2>1. stack' \in Seq(Calls)
    <3>1. NextDecl
      BY <1>20
    <3>2. NextDecl => stack' \in Seq(Calls)
      BY <2>0, Moves
    <3> QED
      BY <3>1, <3>2
  <2> QED
    BY <1>20, <2>1 DEF NextDecl, TypeOK, layout, IsProgram
<1>21. CASE CheckEnd
  <2>1. stack # <<>>
    BY <1>21 DEF CheckEnd, CheckReturns, Running
  <2>2. stack' \in Seq(Calls)
    <3>1. CASE IsRoot(Top)
      BY <1>21, <2>1, <3>1, Moves
    <3>2. CASE ~IsRoot(Top) /\ Len(stack) > 1
      BY <1>21, <2>1, <3>2, MovesBack
    <3>3. CASE ~IsRoot(Top) /\ ~(Len(stack) > 1)
      <4>1. PICK s : s = Callers
        OBVIOUS
      <4>2. s = <<>>
        <5>0. Len(stack) \in Nat \ {0}
          BY <2>1, Goes
        <5>00. ~(Len(stack) > 1)
          BY <3>3
        <5>1. Len(stack) = 1
          BY <5>00, <5>0
        <5>2. stack \in Seq(Calls)
          BY DEF TypeOK
        <5> HIDE DEF Calls
        <5> QED
          BY <4>1, <5>1, <5>2, SubSeqProperties DEF Callers, Front
      <4>3. stack' = [s EXCEPT ![Len(s)].visited = Top.visited]
        BY <1>21, <3>3, <4>1 DEF CheckEnd
      <4>4. Len(s) = 0 /\ DOMAIN s = {} /\ s \in Seq(Calls)
        BY <4>2
      <4>5. DOMAIN stack' = {} /\ stack' = s
        BY <4>3, <4>4, <4>2
      <4> QED
        BY <4>4, <4>5
    <3> QED
      BY <3>1, <3>2, <3>3
  <2> QED
    BY <1>21, <2>2 DEF CheckEnd, TypeOK, layout, IsProgram
<1> QED
  BY <1>1, <1>2, <1>3, <1>4, <1>5, <1>7, <1>8, <1>9, <1>10, <1>11, <1>12, <1>13,
     <1>14, <1>15, <1>16, <1>17, <1>18, <1>19, <1>20, <1>21, WhoMakes
  DEF Next, Complete, MakeTemplate, Check, ExtendsItself, Cycle

(* How the calls nest.  A type is completed for its check or for the type  *)
(* that extends it; a cycle check goes on in a further call for each type  *)
(* on its path.                                                            *)
NestedAt(s, k) ==
    /\ s[k].op \in {"call_complete", "complete"} /\ k > 1 =>
          \/ /\ s[k - 1].op = "complete" /\ s[k - 1].i = 0
             /\ Base(s[k - 1].t) = s[k].t
          \/ s[k - 1].op = "call_check" /\ s[k - 1].t = s[k].t
    /\ s[k].op = "check" =>
          /\ s[k].t \in s[k].path /\ s[k].path \subseteq s[k].visited
          /\ ~IsRoot(s[k]) => /\ k > 1 /\ s[k - 1].op = "check"
                              /\ s[k].path = s[k - 1].path \cup {s[k].t}
                              /\ s[k].t \notin s[k - 1].path

Nested == \A k \in DOMAIN stack : NestedAt(stack, k)

(* At the start no calls nest. *)
LEMMA InitNested == Init => Nested
<1> SUFFICES ASSUME Init PROVE Nested
  OBVIOUS
<1>1. DOMAIN stack = {}
  BY DEF Init
<1> QED
  BY <1>1 DEF Nested

(* The stack with its length, and its innermost call. *)
LEMMA InCall ==
    ASSUME TypeOK
    PROVE  /\ DOMAIN stack = 1..Len(stack) /\ Len(stack) \in Nat
           /\ \A k \in DOMAIN stack : stack[k] \in Calls /\ stack[k].t \in Structs
           /\ stack # <<>> => /\ Len(stack) \in Nat \ {0} /\ Top = stack[Len(stack)]
                              /\ Len(stack) \in DOMAIN stack
                              /\ Top \in Calls /\ Top.t \in Structs
<1>1. DOMAIN stack = 1..Len(stack) /\ Len(stack) \in Nat
  BY DEF TypeOK
<1>2. \A k \in DOMAIN stack : stack[k] \in Calls
  BY DEF TypeOK
<1>3. stack # <<>> => Len(stack) \in Nat \ {0} /\ Top = stack[Len(stack)] /\ Top \in Calls
  BY Goes
<1> QED
  BY <1>1, <1>2, <1>3 DEF Calls

(* The fields of the call an action goes on as. *)
LEMMA Fields ==
    ASSUME TypeOK, stack # <<>>
    PROVE  /\ NextTerm.op = Top.op /\ NextTerm.t = Top.t /\ NextTerm.i = Top.i
           /\ NextTerm.j = Top.j + 1
           /\ NextTerm.visited = Top.visited /\ NextTerm.path = Top.path
           /\ \A m \in {0, 1} : LET d == [Top EXCEPT !.i = @ + 1, !.j = m]
                                IN /\ d.op = Top.op /\ d.t = Top.t /\ d.i = Top.i + 1
                                   /\ d.j = m
                                   /\ d.visited = Top.visited /\ d.path = Top.path
           /\ LET d == [Top EXCEPT !.j = 1]
              IN /\ d.op = Top.op /\ d.t = Top.t /\ d.i = Top.i /\ d.j = 1
                 /\ d.visited = Top.visited /\ d.path = Top.path
<1>1. Top \in Calls
  BY InCall
<1>2. \A m \in {0, 1} : LET d == [Top EXCEPT !.i = @ + 1, !.j = m]
                        IN /\ d.op = Top.op /\ d.t = Top.t /\ d.i = Top.i + 1
                           /\ d.j = m
                           /\ d.visited = Top.visited /\ d.path = Top.path
  <2>1. SUFFICES ASSUME NEW m \in {0, 1}, NEW d, d = [Top EXCEPT !.i = @ + 1, !.j = m]
                 PROVE  /\ d.op = Top.op /\ d.t = Top.t /\ d.i = Top.i + 1
                        /\ d.j = m
                        /\ d.visited = Top.visited /\ d.path = Top.path
    OBVIOUS
  <2>2. PICK e : e = [Top EXCEPT !.i = @ + 1]
    OBVIOUS
  <2>3. /\ e \in Calls /\ e.op = Top.op /\ e.t = Top.t /\ e.i = Top.i + 1
        /\ e.visited = Top.visited /\ e.path = Top.path
    BY <1>1, <2>2 DEF Calls
  <2>4. d = [e EXCEPT !.j = m]
    BY <2>1, <2>2
  <2> QED
    BY <2>3, <2>4 DEF Calls
<1>3. LET d == [Top EXCEPT !.j = 1]
      IN /\ d.op = Top.op /\ d.t = Top.t /\ d.i = Top.i /\ d.j = 1
         /\ d.visited = Top.visited /\ d.path = Top.path
  BY <1>1 DEF Calls
<1>4. /\ NextTerm.op = Top.op /\ NextTerm.t = Top.t /\ NextTerm.i = Top.i
      /\ NextTerm.j = Top.j + 1
      /\ NextTerm.visited = Top.visited /\ NextTerm.path = Top.path
  BY <1>1 DEF Calls, NextTerm
<1> QED
  BY <1>2, <1>3, <1>4

(* Nesting looks at a call and the one below it. *)
LEMMA NestedLocal ==
    ASSUME NEW k \in Nat, NestedAt(stack, k), stack'[k] = stack[k],
           k > 1 => stack'[k - 1] = stack[k - 1], program' = program
    PROVE  NestedAt(stack, k)'
<1>1. \A t : Base(t)' = Base(t)
  BY DEF Base
<1>2. IsRoot(stack[k])' = IsRoot(stack[k])
  BY DEF IsRoot
<1> QED
  BY <1>1, <1>2 DEF NestedAt

(* Every step keeps the nesting of the calls. *)
LEMMA NestedStep ==
    ASSUME TypeOK, TypeOK', Nested, [Next]_vars
    PROVE  Nested'
<1>0. DOMAIN stack' = 1..Len(stack') /\ Len(stack') \in Nat
  BY DEF TypeOK
<1>1. CASE UNCHANGED vars
  <2>1. stack' = stack /\ program' = program
    BY <1>1 DEF vars
  <2> QED
    BY <2>1 DEF Nested, NestedAt, Base, IsRoot
<1>2. program' = program
  BY <1>1 DEF Next, Complete, MakeTemplate, Check, NextStruct, StageEnd, Enter, NoBase,
     MakeBase, ExtendsItself, CompleteBase, Inherit, DeclareMember, MakeMember,
     TypeMember, Leave, ExpandMember, CompleteInstance, DeferInstance, CheckBegin,
     MakeInCheck, Descend, Cycle, SkipVisited, NextDecl, CheckEnd, MakeFirst, Make,
     Fail, vars
<1>3. ASSUME stack' = stack
      PROVE  Nested'
  BY <1>2, <1>3 DEF Nested, NestedAt, Base, IsRoot
<1>4. ASSUME NEW t \in Structs, NextStruct(t)
      PROVE  Nested'
  <2>1. stack' = <<Call("call_complete", t), Call("call_check", t)>>
    BY <1>4 DEF NextStruct
  <2>2. DOMAIN stack' = 1..2 /\ stack'[1].op = "call_complete"
        /\ stack'[2].op = "call_check"
    BY <2>1 DEF Call
  <2> QED
    BY <2>2 DEF Nested, NestedAt
<1>5. ASSUME stack # <<>>, Below, Len(stack') >= Len(stack) - 1,
             \A k \in DOMAIN stack' : k >= Len(stack) => NestedAt(stack, k)'
      PROVE  Nested'
  <2>1. Len(stack) \in Nat \ {0} /\ DOMAIN stack = 1..Len(stack)
    BY <1>5, InCall
  <2>2. ASSUME NEW k \in DOMAIN stack', ~(k >= Len(stack))
        PROVE  NestedAt(stack, k)'
    <3>1. k \in Nat /\ k \in 1..(Len(stack) - 1) /\ k \in DOMAIN stack
      BY <1>0, <2>1, <2>2
    <3>2. k > 1 => k - 1 \in 1..(Len(stack) - 1)
      BY <2>1, <3>1
    <3>3. stack'[k] = stack[k] /\ (k > 1 => stack'[k - 1] = stack[k - 1])
      BY <1>5, <3>1, <3>2 DEF Below
    <3>4. NestedAt(stack, k)
      BY <3>1 DEF Nested
    <3> QED
      BY <1>2, <3>1, <3>3, <3>4, NestedLocal
  <2> QED
    BY <1>5, <2>2 DEF Nested
<1>6. ASSUME stack # <<>>, Returns
      PROVE  Nested'
  <2>1. \A k \in DOMAIN stack' : ~(k >= Len(stack))
    BY <1>0, <1>6, InCall DEF Returns
  <2> QED
    BY <1>5, <1>6, <2>1, InCall DEF Returns
(* A call that goes on as itself at a later member or term. *)
<1>7. ASSUME stack # <<>>, NEW c, Turns(c),
             c.op = Top.op, c.t = Top.t, c.visited = Top.visited, c.path = Top.path
      PROVE  Nested'
  <2>1. PICK n : n = Len(stack)
    OBVIOUS
  <2>2. /\ n \in Nat \ {0} /\ n \in DOMAIN stack /\ Top = stack[n]
        /\ DOMAIN stack' = 1..n /\ stack'[n] = c
        /\ n > 1 => stack'[n - 1] = stack[n - 1]
    BY <1>0, <1>7, <2>1, InCall DEF Turns, Below
  <2>3. NestedAt(stack, n)
    BY <2>2 DEF Nested
  <2>4. NestedAt(stack, n)'
    <3>1. \A t : Base(t)' = Base(t)
      BY <1>2 DEF Base
    <3> QED
      BY <1>7, <2>2, <2>3, <3>1 DEF NestedAt, IsRoot
  <2>5. \A k \in DOMAIN stack' : k >= n => k = n
    BY <2>2
  <2> QED
    BY <1>5, <1>7, <2>1, <2>2, <2>4, <2>5 DEF Turns
<1>8. ASSUME stack # <<>>, Advance
      PROVE  Nested'
  BY <1>7, <1>8, Moves, Fields
(* A call below a further one it makes. *)
<1>9. ASSUME stack # <<>>, NEW c, NEW d, Turns2(c, d),
             c.op = Top.op, c.t = Top.t, c.visited = Top.visited, c.path = Top.path,
             NEW m, m = Len(stack) + 1, NestedAt(stack, m)'
      PROVE  Nested'
  <2>1. PICK n : n = Len(stack)
    OBVIOUS
  <2>2. /\ n \in Nat \ {0} /\ n \in DOMAIN stack /\ Top = stack[n]
        /\ DOMAIN stack' = 1..(n + 1) /\ stack'[n] = c
        /\ n > 1 => stack'[n - 1] = stack[n - 1]
    BY <1>0, <1>9, <2>1, InCall DEF Turns2, Below
  <2>3. NestedAt(stack, n)
    BY <2>2 DEF Nested
  <2>4. NestedAt(stack, n)'
    <3>1. \A t : Base(t)' = Base(t)
      BY <1>2 DEF Base
    <3> QED
      BY <1>9, <2>2, <2>3, <3>1 DEF NestedAt, IsRoot
  <2>5. \A k \in DOMAIN stack' : k >= n => k = n \/ k = n + 1
    BY <2>2
  <2>6. NestedAt(stack, n + 1)'
    BY <1>9, <2>1
  <2>7. Below /\ Len(stack') >= Len(stack) - 1
    BY <1>9, <2>1, <2>2 DEF Turns2
  <2>8. \A k \in DOMAIN stack' : k >= Len(stack) => NestedAt(stack, k)'
    BY <2>1, <2>4, <2>5, <2>6
  <2> QED
    BY <1>5, <1>9, <2>7, <2>8
<1>10. ASSUME NEW t \in Structs, Making(t)
       PROVE  Nested'
  <2>1. stack # <<>>
    BY <1>10 DEF Making
  <2>2. PICK d : d = [Call("make", t) EXCEPT !.i = 1]
    OBVIOUS
  <2>3. d.op = "make"
    BY <2>2 DEF Call
  <2>4. Turns2(Top, d)
    BY <1>10, <2>1, <2>2, Moves DEF Making
  <2>5. PICK m : m = Len(stack) + 1
    OBVIOUS
  <2>6. stack'[m] = d
    BY <2>4, <2>5 DEF Turns2
  <2>7. NestedAt(stack, m)'
    BY <2>3, <2>6 DEF NestedAt
  <2> QED
    BY <1>9, <2>1, <2>4, <2>5, <2>7
<1>11. CASE Enter
  <2>1. stack # <<>> /\ Top.op = "call_complete"
    BY <1>11 DEF Enter, Running
  <2>2. CASE isComplete[Top.t]
    BY <1>6, <1>11, <2>1, <2>2, Moves
  <2>3. CASE ~isComplete[Top.t]
    <3>1. PICK n : n = Len(stack)
      OBVIOUS
    <3>2. Turns(Call("complete", Top.t))
      BY <1>11, <2>1, <2>3, Moves
    <3>3. /\ n \in Nat \ {0} /\ n \in DOMAIN stack /\ Top = stack[n]
          /\ DOMAIN stack' = 1..n
          /\ stack'[n].op = "complete" /\ stack'[n].t = Top.t
          /\ n > 1 => stack'[n - 1] = stack[n - 1]
      BY <1>0, <2>1, <3>1, <3>2, InCall DEF Turns, Below, Call
    <3>4. NestedAt(stack, n)
      BY <3>3 DEF Nested
    <3>5. \A t : Base(t)' = Base(t)
      BY <1>2 DEF Base
    <3>6. NestedAt(stack, n)'
      BY <2>1, <3>3, <3>4, <3>5 DEF NestedAt
    <3>7. \A k \in DOMAIN stack' : k >= n => k = n
      BY <3>3
    <3> QED
      BY <1>5, <2>1, <3>1, <3>2, <3>3, <3>6, <3>7 DEF Turns
  <2> QED
    BY <2>2, <2>3
<1>12. CASE NoBase
  BY <1>8, <1>12 DEF NoBase, AtBase, Running
<1>13. CASE CompleteBase
  <2>1. stack # <<>> /\ Top.op = "complete" /\ Top.i = 0
    BY <1>13 DEF CompleteBase, AtBase, Running
  <2>2. PICK d : d = Call("call_complete", Base(Top.t))
    OBVIOUS
  <2>3. d.op = "call_complete" /\ d.t = Base(Top.t)
    BY <2>2 DEF Call
  <2>4. Turns2(Top, d)
    BY <1>13, <2>1, <2>2, Moves
  <2>5. PICK n : n = Len(stack) /\ n \in Nat \ {0}
    BY <2>1, InCall
  <2>6. stack'[n + 1] = d /\ stack'[n] = Top /\ n + 1 - 1 = n
    BY <2>4, <2>5 DEF Turns2
  <2>8. NestedAt(stack, n + 1)'
    BY <1>2, <2>1, <2>3, <2>5, <2>6 DEF NestedAt, Base
  <2> QED
    BY <1>9, <2>1, <2>4, <2>5, <2>8
<1>14. CASE Inherit
  BY <1>8, <1>14 DEF Inherit, AtBase, Running
<1>15. CASE DeclareMember
  <2>1. stack # <<>>
    BY <1>15 DEF DeclareMember, AtMember, Running
  <2> QED
    BY <1>7, <1>15, <2>1, Moves, Fields
<1>16. CASE TypeMember
  BY <1>8, <1>16 DEF TypeMember, AtMember, Running
<1>17. CASE Leave
  <2>1. stack # <<>>
    BY <1>17 DEF Leave, Running
  <2> QED
    BY <1>6, <1>17, <2>1, Moves
<1>18. CASE Running("make") /\ Advance
  BY <1>8, <1>18 DEF Running
<1>19. CASE CompleteInstance
  <2>1. stack # <<>>
    BY <1>19 DEF CompleteInstance, Running
  <2>2. PICK n : n = Len(stack) /\ n \in Nat \ {0}
    BY <2>1, InCall
  <2>3. Turns3(Call("defer", Top.t), Call("call_check", Top.t),
               Call("call_complete", Top.t))
    BY <1>19, <2>1, Moves
  <2>4. /\ DOMAIN stack' = 1..(n + 2) /\ Below
        /\ stack'[n].op = "defer"
        /\ stack'[n + 1].op = "call_check" /\ stack'[n + 1].t = Top.t
        /\ stack'[n + 2].op = "call_complete" /\ stack'[n + 2].t = Top.t
        /\ n + 2 - 1 = n + 1
    BY <1>0, <2>2, <2>3 DEF Turns3, Call
  <2>5. NestedAt(stack, n)' /\ NestedAt(stack, n + 1)' /\ NestedAt(stack, n + 2)'
    BY <2>2, <2>4 DEF NestedAt
  <2>6. \A k \in DOMAIN stack' : k >= n => k = n \/ k = n + 1 \/ k = n + 2
    BY <2>2, <2>4
  <2>7. Len(stack') >= Len(stack) - 1
    BY <2>2, <2>3 DEF Turns3
  <2>8. \A k \in DOMAIN stack' : k >= Len(stack) => NestedAt(stack, k)'
    BY <2>2, <2>5, <2>6
  <2> QED
    BY <1>5, <2>1, <2>4, <2>7, <2>8
<1>20. CASE DeferInstance
  <2>1. stack # <<>>
    BY <1>20 DEF DeferInstance, Running
  <2> QED
    BY <1>6, <1>20, <2>1, Moves
<1>21. CASE CheckBegin
  <2>1. stack # <<>>
    BY <1>21 DEF CheckBegin, Running
  <2>2. PICK n : n = Len(stack) /\ n \in Nat \ {0}
    BY <2>1, InCall
  <2>3. PICK c : c = CheckOf(Top.t, {}, {})
    OBVIOUS
  <2>4. c.op = "check" /\ c.t \in c.path /\ c.path \subseteq c.visited /\ IsRoot(c)
    BY <2>3 DEF CheckOf, IsRoot
  <2>5. Turns(c)
    BY <1>21, <2>1, <2>3, Moves
  <2>6. Below /\ Len(stack') = n /\ stack'[n] = c
    BY <2>2, <2>5 DEF Turns
  <2>7. NestedAt(stack, n)'
    <3>1. IsRoot(stack[n])'
      BY <2>4, <2>6 DEF IsRoot
    <3> QED
      BY <2>4, <2>6, <3>1 DEF NestedAt
  <2>8. \A k \in DOMAIN stack' : k >= n => k = n
    BY <1>0, <2>2, <2>6
  <2> QED
    BY <1>5, <2>1, <2>2, <2>6, <2>7, <2>8
<1>22. CASE Descend
  <2>1. stack # <<>> /\ Top.op = "check" /\ Term \notin Top.visited
    BY <1>22 DEF Descend, AtTerm, AtDecl, Running
  <2>2. PICK n : n = Len(stack) /\ n \in Nat \ {0} /\ n \in DOMAIN stack /\ Top = stack[n]
    BY <2>1, InCall
  <2>3. PICK d : d = CheckOf(Term, Top.visited, Top.path)
    OBVIOUS
  <2>4. /\ d.op = "check" /\ d.t = Term /\ d.path = Top.path \cup {Term}
        /\ d.visited = Top.visited \cup {Term}
    BY <2>3 DEF CheckOf
  <2>5. Turns2(NextTerm, d)
    BY <1>22, <2>1, <2>3, Moves
  <2>6. stack'[n + 1] = d /\ stack'[n] = NextTerm /\ n + 1 - 1 = n /\ n + 1 > 1
    BY <2>2, <2>5 DEF Turns2
  <2>7. NextTerm.op = "check" /\ NextTerm.path = Top.path
    BY <2>1, Fields
  <2>8. Top.path \subseteq Top.visited
    BY <2>1, <2>2 DEF Nested, NestedAt
  <2>9. NestedAt(stack, n + 1)'
    BY <2>1, <2>2, <2>4, <2>6, <2>7, <2>8 DEF NestedAt
  <2> QED
    BY <1>9, <2>1, <2>2, <2>5, <2>9, Fields
<1>23. CASE SkipVisited
  <2>1. stack # <<>>
    BY <1>23 DEF SkipVisited, AtTerm, AtDecl, Running
  <2> QED
    BY <1>7, <1>23, <2>1, Moves, Fields
<1>24. CASE NextDecl
  <2>1. stack # <<>>
    BY <1>24 DEF NextDecl, AtDecl, Running
  <2> QED
    BY <1>7, <1>24, <2>1, Moves, Fields
<1>25. CASE CheckEnd
  <2>1. stack # <<>> /\ Top.op = "check"
    BY <1>25 DEF CheckEnd, CheckReturns, Running
  <2>2. CASE IsRoot(Top)
    BY <1>6, <1>25, <2>1, <2>2, Moves
  <2>3. CASE ~IsRoot(Top)
    <3>1. PICK n : /\ n = Len(stack) /\ n \in Nat \ {0} /\ n \in DOMAIN stack
                   /\ Top = stack[n] /\ DOMAIN stack = 1..n
      BY <2>1, InCall
    <3>2. /\ n > 1 /\ stack[n - 1].op = "check"
          /\ Top.path = stack[n - 1].path \cup {Top.t} /\ Top.path \subseteq Top.visited
      BY <2>1, <2>3, <3>1 DEF Nested, NestedAt
    <3>3. PICK b : b = stack[n - 1]
      OBVIOUS
    <3>4. PICK V : V = Top.visited
      OBVIOUS
    <3>5. /\ Len(stack') = n - 1
          /\ \A k \in 1..(n - 2) : stack'[k] = stack[k]
          /\ stack'[n - 1] = [b EXCEPT !.visited = V]
      BY <1>25, <2>1, <2>3, <3>1, <3>2, <3>3, <3>4, MovesBack
    <3>6. n - 1 \in DOMAIN stack
      BY <3>1, <3>2
    <3>7. b \in Calls /\ NestedAt(stack, n - 1)
      BY <3>3, <3>6, InCall DEF Nested
    <3>8. /\ stack'[n - 1].op = b.op /\ stack'[n - 1].t = b.t
          /\ stack'[n - 1].path = b.path /\ stack'[n - 1].visited = V
      BY <3>5, <3>7 DEF Calls
    <3>9. NestedAt(stack, n - 1)'
      <4>1. n - 1 > 1 => stack'[n - 1 - 1] = stack[n - 1 - 1]
        BY <3>1, <3>5
      <4> QED
        BY <3>2, <3>3, <3>4, <3>7, <3>8, <4>1 DEF NestedAt, IsRoot
    <3>10. ASSUME NEW k \in DOMAIN stack', k # n - 1
           PROVE  NestedAt(stack, k)'
      <4>1. k \in Nat /\ k \in 1..(n - 2) /\ k \in DOMAIN stack /\ (k > 1 => k - 1 \in 1..(n - 2))
        BY <1>0, <3>1, <3>5, <3>10
      <4>2. NestedAt(stack, k)
        BY <4>1 DEF Nested
      <4> QED
        BY <1>2, <3>5, <4>1, <4>2, NestedLocal
    <3> QED
      BY <3>9, <3>10 DEF Nested
  <2> QED
    BY <2>2, <2>3
<1> QED
  BY <1>1, <1>3, <1>4, <1>10, <1>11, <1>12, <1>13, <1>14, <1>15, <1>16, <1>17, <1>18,
     <1>19, <1>20, <1>21, <1>22, <1>23, <1>24, <1>25, WhoMakes
  DEF Next, Complete, MakeTemplate, Check, ExtendsItself, Cycle, StageEnd, Fail

(* A type the stage has met or made waits for its turn, is being made or   *)
(* about to be completed, or is complete.                                  *)
Accounted ==
    \A t \in (Structs \ Instances) \cup made :
        t \in pending \/ isComplete[t] \/ InProgress("make", t)
                      \/ InProgress("call_complete", t)

(* One call makes an instance, and after it the instance is deferred. *)
Makes(call) == call.op \in {"make", "defer"}

MadeOnce ==
    /\ \A t \in made : \/ InProgress("make", t) \/ InProgress("defer", t)
                       \/ t \in ToSet(deferredAST)
    /\ \A k \in DOMAIN stack : Makes(stack[k]) =>
          /\ stack[k].t \in made /\ stack[k].t \notin ToSet(deferredAST)
          /\ \A l \in DOMAIN stack :
                Makes(stack[l]) /\ stack[l].t = stack[k].t => l = k
    /\ ToSet(deferredAST) \subseteq made
    /\ \A i, j \in DOMAIN deferredAST : deferredAST[i] = deferredAST[j] => i = j

Ended == outcome = "done" => stack = <<>> /\ pending = {}

StageInv == Accounted /\ MadeOnce /\ Ended

(* At the start the program's types are pending and no instance is made. *)
LEMMA InitStage == Init => StageInv
<1> SUFFICES ASSUME Init PROVE StageInv
  OBVIOUS
<1>1. stack = <<>> /\ DOMAIN stack = {} /\ DOMAIN deferredAST = {}
      /\ ToSet(deferredAST) = {} /\ made = {} /\ pending = Structs \ Instances
      /\ outcome = "none"
  BY DEF Init, ToSet
<1> QED
  BY <1>1 DEF StageInv, Accounted, MadeOnce, Ended

(* The calls that make instances or are about to complete a type stay.     *)
Stays ==
    /\ \A k \in DOMAIN stack : stack[k].op \in {"make", "defer", "call_complete"} =>
          /\ k \in DOMAIN stack'
          /\ stack'[k].op = stack[k].op /\ stack'[k].t = stack[k].t
    /\ \A k \in DOMAIN stack' : Makes(stack'[k]) =>
          /\ k \in DOMAIN stack
          /\ stack'[k].op = stack[k].op /\ stack'[k].t = stack[k].t

(* A step that only moves other calls leaves the account of types as it was. *)
LEMMA StaysStage ==
    ASSUME StageInv, Stays, stack # <<>>, outcome' # "done",
           UNCHANGED <<pending, made, isComplete, deferredAST>>
    PROVE  StageInv'
<1>1. \A t : InProgress("make", t) => InProgress("make", t)'
  BY DEF Stays, InProgress
<1>2. \A t : InProgress("defer", t) => InProgress("defer", t)'
  BY DEF Stays, InProgress
<1>3. \A t : InProgress("call_complete", t) => InProgress("call_complete", t)'
  BY DEF Stays, InProgress
<1>4. Accounted'
  BY <1>1, <1>3 DEF StageInv, Accounted
<1>5. ToSet(deferredAST)' = ToSet(deferredAST)
  BY DEF ToSet
<1>6. MadeOnce'
  <2>1. (\A t \in made : \/ InProgress("make", t) \/ InProgress("defer", t)
                         \/ t \in ToSet(deferredAST))'
    BY <1>1, <1>2, <1>5 DEF StageInv, MadeOnce
  <2>2. ASSUME NEW k \in DOMAIN stack', Makes(stack'[k])
        PROVE  /\ stack'[k].t \in made' /\ stack'[k].t \notin ToSet(deferredAST)'
               /\ \A l \in DOMAIN stack' :
                     Makes(stack'[l]) /\ stack'[l].t = stack'[k].t => l = k
    BY <1>5, <2>2 DEF StageInv, MadeOnce, Stays, Makes
  <2> QED
    BY <1>5, <2>1, <2>2 DEF StageInv, MadeOnce
<1>7. Ended'
  BY DEF Ended
<1> QED
  BY <1>4, <1>6, <1>7 DEF StageInv

(* Every step accounts for every type, and hands an instance on only once. *)
LEMMA StageStep ==
    ASSUME TypeOK, TypeOK', Nested, StageInv, [Next]_vars
    PROVE  StageInv'
<1> USE DEF Makes
<1>0. ASSUME stack # <<>>
      PROVE  /\ Len(stack) \in Nat \ {0} /\ Top = stack[Len(stack)]
             /\ DOMAIN stack = 1..Len(stack) /\ Top \in Calls /\ Top.t \in Structs
  <2>1. Len(stack) \in Nat \ {0} /\ Top = stack[Len(stack)] /\ Top \in Calls
    BY <1>0, Goes
  <2>2. DOMAIN stack = 1..Len(stack)
    BY DEF TypeOK
  <2>3. Top.t \in Structs
    BY <2>1 DEF Calls
  <2> QED
    BY <2>1, <2>2, <2>3
<1>00. DOMAIN stack' = 1..Len(stack') /\ Len(stack') \in Nat
  BY DEF TypeOK
<1>1. CASE UNCHANGED vars
  BY <1>1 DEF vars, layout, StageInv, Accounted, MadeOnce, Ended, InProgress, ToSet
<1>2. ASSUME NEW t \in Structs, NextStruct(t)
      PROVE  StageInv'
  <2>1. /\ stack = <<>> /\ DOMAIN stack = {} /\ outcome' = "none"
        /\ stack' = <<Call("call_complete", t), Call("call_check", t)>>
        /\ pending' = pending \ {t} /\ UNCHANGED <<made, isComplete, deferredAST>>
    BY <1>2 DEF NextStruct, layout
  <2>2. DOMAIN stack' = 1..2 /\ stack'[1].op = "call_complete" /\ stack'[1].t = t
        /\ stack'[2].op = "call_check"
    BY <2>1 DEF Call
  <2>3. InProgress("call_complete", t)'
    BY <2>2 DEF InProgress
  <2>4. \A op, u : ~InProgress(op, u)
    BY <2>1 DEF InProgress
  <2>5. Accounted'
    BY <2>1, <2>3, <2>4 DEF StageInv, Accounted
  <2>6. ToSet(deferredAST)' = ToSet(deferredAST)
    BY <2>1 DEF ToSet
  <2>7. MadeOnce'
    BY <2>1, <2>2, <2>4, <2>6 DEF StageInv, MadeOnce
  <2> QED
    BY <2>1, <2>5, <2>7 DEF StageInv, Ended
<1>3. CASE StageEnd
  BY <1>3 DEF StageEnd, layout, StageInv, Accounted, MadeOnce, Ended, InProgress, ToSet
<1>4. ASSUME NEW error \in {"extends_itself", "cycle"}, Fail(error)
      PROVE  StageInv'
  BY <1>4 DEF Fail, layout, StageInv, Accounted, MadeOnce, Ended, InProgress, ToSet
<1>5. ASSUME NEW t \in Structs, Making(t)
      PROVE  StageInv'
  <2>1. /\ stack # <<>> /\ outcome' = "none" /\ t \notin made /\ made' = made \cup {t}
        /\ UNCHANGED <<pending, isComplete, deferredAST>>
    BY <1>5 DEF Making, Make, Unmade, layout
  <2>2. PICK c : c = [Call("make", t) EXCEPT !.i = 1]
    OBVIOUS
  <2>3. c.op = "make" /\ c.t = t
    BY <2>2 DEF Call
  <2>4. Turns2(Top, c)
    BY <1>5, <2>1, <2>2, Moves DEF Making
  <2>5. PICK n : n = Len(stack)
    OBVIOUS
  <2>6. /\ n \in Nat \ {0} /\ DOMAIN stack = 1..n /\ DOMAIN stack' = 1..(n + 1)
        /\ \A k \in 1..n : stack'[k] = stack[k]
        /\ stack'[n + 1] = c
    <3>1. n \in Nat \ {0} /\ DOMAIN stack = 1..n /\ Top = stack[n]
      BY <1>0, <2>1, <2>5
    <3>2. /\ Len(stack') = n + 1 /\ \A k \in 1..(n - 1) : stack'[k] = stack[k]
          /\ stack'[n] = stack[n] /\ stack'[n + 1] = c
      BY <2>4, <2>5, <3>1 DEF Turns2, Below
    <3> QED
      BY <1>00, <3>1, <3>2
  <2>7. \A op, u : InProgress(op, u) => InProgress(op, u)'
    BY <2>6 DEF InProgress
  <2>8. InProgress("make", t)'
    BY <2>3, <2>6 DEF InProgress
  <2>9. ToSet(deferredAST)' = ToSet(deferredAST)
    BY <2>1 DEF ToSet
  <2>10. Accounted'
    BY <2>1, <2>7, <2>8 DEF StageInv, Accounted
  <2>11. MadeOnce'
    <3>1. (\A u \in made : \/ InProgress("make", u) \/ InProgress("defer", u)
                           \/ u \in ToSet(deferredAST))'
      BY <2>1, <2>7, <2>8, <2>9 DEF StageInv, MadeOnce
    <3>2. \A k \in 1..n : Makes(stack[k]) => stack[k].t # t
      BY <2>1, <2>6 DEF StageInv, MadeOnce
    <3>3. ASSUME NEW k \in DOMAIN stack', Makes(stack'[k])
          PROVE  /\ stack'[k].t \in made' /\ stack'[k].t \notin ToSet(deferredAST)'
                 /\ \A l \in DOMAIN stack' :
                       Makes(stack'[l]) /\ stack'[l].t = stack'[k].t => l = k
      <4>1. CASE k \in 1..n
        BY <2>1, <2>3, <2>6, <2>9, <3>2, <3>3, <4>1 DEF StageInv, MadeOnce
      <4>2. CASE k = n + 1
        BY <2>1, <2>3, <2>6, <2>9, <3>2, <3>3, <4>2 DEF StageInv, MadeOnce
      <4> QED
        BY <2>6, <3>3, <4>1, <4>2
    <3> QED
      BY <2>1, <2>9, <3>1, <3>3 DEF StageInv, MadeOnce
  <2> QED
    BY <2>1, <2>10, <2>11 DEF StageInv, Ended
<1>6. ASSUME stack # <<>>, outcome' = "none", ~Makes(Top), Top.op # "call_complete",
             UNCHANGED <<pending, made, isComplete, deferredAST>>,
             \/ Returns
             \/ \E c \in Calls : Turns(c) /\ ~Makes(c)
             \/ \E c, d \in Calls : Turns2(c, d) /\ ~Makes(c) /\ ~Makes(d)
      PROVE  StageInv'
  <2>1. PICK n : n = Len(stack)
    OBVIOUS
  <2>2. /\ n \in Nat \ {0} /\ DOMAIN stack = 1..n /\ Top = stack[n]
        /\ DOMAIN stack' = 1..Len(stack')
        /\ Len(stack') \in {n - 1, n, n + 1}
        /\ \A k \in 1..(n - 1) : stack'[k] = stack[k]
        /\ \A k \in DOMAIN stack' : k \notin 1..(n - 1) => ~Makes(stack'[k])
    <3>1. /\ n \in Nat \ {0} /\ DOMAIN stack = 1..n /\ Top = stack[n]
          /\ DOMAIN stack' = 1..Len(stack') /\ Len(stack') \in Nat
      BY <1>0, <1>00, <1>6, <2>1
    <3>2. CASE Returns
      BY <2>1, <3>1, <3>2 DEF Returns, Below
    <3>3. ASSUME NEW c \in Calls, Turns(c), ~Makes(c)
          PROVE  /\ Len(stack') = n
                 /\ \A k \in 1..(n - 1) : stack'[k] = stack[k]
                 /\ \A k \in DOMAIN stack' : k \notin 1..(n - 1) => ~Makes(stack'[k])
      BY <2>1, <3>1, <3>3 DEF Turns, Below
    <3>4. ASSUME NEW c \in Calls, NEW d \in Calls, Turns2(c, d), ~Makes(c), ~Makes(d)
          PROVE  /\ Len(stack') = n + 1
                 /\ \A k \in 1..(n - 1) : stack'[k] = stack[k]
                 /\ \A k \in DOMAIN stack' : k \notin 1..(n - 1) => ~Makes(stack'[k])
      BY <2>1, <3>1, <3>4 DEF Turns2, Below
    <3> QED
      BY <1>6, <3>1, <3>2, <3>3, <3>4
  <2>3. Stays
    <3>1. \A k \in DOMAIN stack : stack[k].op \in {"make", "defer", "call_complete"} =>
             k \in 1..(n - 1)
      <4>1. \A k \in DOMAIN stack : k \in 1..(n - 1) \/ k = n
        BY <1>0, <1>6, <2>1
      <4> QED
        BY <1>6, <2>2, <4>1
    <3>2. \A k \in DOMAIN stack' : Makes(stack'[k]) => k \in 1..(n - 1)
      BY <2>2
    <3>3. \A k \in 1..(n - 1) : /\ k \in DOMAIN stack /\ k \in DOMAIN stack'
                                /\ stack'[k] = stack[k]
      <4>0. n \in Nat
        BY <2>2
      <4>1. \A m \in {n - 1, n, n + 1} : 1..(n - 1) \subseteq 1..m
        BY <4>0
      <4> QED
        BY <2>2, <4>1
    <3> QED
      BY <3>1, <3>2, <3>3 DEF Stays
  <2> QED
    BY <1>6, <2>3, StaysStage
<1>7. ASSUME NEW c \in Calls, stack # <<>>, outcome' = "none",
             UNCHANGED <<pending, made, isComplete, deferredAST>>,
             Turns(c), c.op = Top.op, c.t = Top.t
      PROVE  StageInv'
  <2>1. PICK n : n = Len(stack)
    OBVIOUS
  <2>2. /\ n \in Nat \ {0} /\ DOMAIN stack = 1..n /\ Top = stack[n]
        /\ DOMAIN stack' = 1..n
        /\ \A k \in 1..(n - 1) : stack'[k] = stack[k]
        /\ stack'[n].op = stack[n].op /\ stack'[n].t = stack[n].t
    BY <1>0, <1>00, <1>7, <2>1 DEF Turns, Below
  <2>3. \A k \in 1..n : stack'[k].op = stack[k].op /\ stack'[k].t = stack[k].t
    BY <2>2
  <2>4. Stays
    BY <2>2, <2>3 DEF Stays
  <2>5. /\ stack # <<>> /\ outcome' # "done"
        /\ UNCHANGED <<pending, made, isComplete, deferredAST>>
    BY <1>7
  <2> QED
    BY <2>4, <2>5, StaysStage
<1>8. CASE Enter
  <2>1. /\ stack # <<>> /\ outcome' = "none" /\ Top.op = "call_complete"
        /\ isComplete' = [isComplete EXCEPT ![Top.t] = TRUE]
        /\ UNCHANGED <<pending, made, deferredAST>>
    BY <1>8 DEF Enter, Running
  <2>2. PICK n : n = Len(stack)
    OBVIOUS
  <2>3. PICK t : t = Top.t
    OBVIOUS
  <2>4. Returns \/ Turns(Call("complete", t))
    BY <1>8, <2>1, <2>3, Moves
  <2>5. /\ n \in Nat \ {0} /\ DOMAIN stack = 1..n /\ Top = stack[n] /\ t \in Structs
        /\ DOMAIN stack' \subseteq 1..n /\ 1..(n - 1) \subseteq DOMAIN stack'
        /\ \A k \in 1..(n - 1) : stack'[k] = stack[k]
        /\ n \in DOMAIN stack' => stack'[n].op = "complete"
    <3>1. /\ n \in Nat \ {0} /\ DOMAIN stack = 1..n /\ Top = stack[n] /\ t \in Structs
          /\ DOMAIN stack' = 1..Len(stack')
      BY <1>0, <1>00, <2>1, <2>2, <2>3
    <3>2. CASE Returns
      BY <2>2, <3>1, <3>2 DEF Returns, Below
    <3>3. CASE Turns(Call("complete", t))
      BY <2>2, <3>1, <3>3 DEF Turns, Below, Call
    <3> QED
      BY <2>4, <3>1, <3>2, <3>3
  <2>6. /\ \A u \in Structs : isComplete[u] => isComplete'[u]
        /\ isComplete'[t]
    BY <2>1, <2>3, <2>5 DEF TypeOK
  <2>7. \A u : InProgress("make", u) => InProgress("make", u)'
    BY <2>1, <2>5 DEF InProgress
  <2>8. \A u : InProgress("defer", u) => InProgress("defer", u)'
    BY <2>1, <2>5 DEF InProgress
  <2>9. \A u : u # t /\ InProgress("call_complete", u) => InProgress("call_complete", u)'
    BY <2>1, <2>3, <2>5 DEF InProgress
  <2>10. made \subseteq Structs
    BY StructTypesAssumption DEF TypeOK
  <2>11. Accounted'
    BY <2>1, <2>6, <2>7, <2>9, <2>10 DEF StageInv, Accounted
  <2>12. ToSet(deferredAST)' = ToSet(deferredAST)
    BY <2>1 DEF ToSet
  <2>13. MadeOnce'
    <3>1. (\A u \in made : \/ InProgress("make", u) \/ InProgress("defer", u)
                           \/ u \in ToSet(deferredAST))'
      BY <2>1, <2>7, <2>8, <2>12 DEF StageInv, MadeOnce
    <3>2. \A k \in DOMAIN stack' : Makes(stack'[k]) =>
             k \in DOMAIN stack /\ stack'[k] = stack[k]
      BY <2>5
    <3>3. ASSUME NEW k \in DOMAIN stack', Makes(stack'[k])
          PROVE  /\ stack'[k].t \in made' /\ stack'[k].t \notin ToSet(deferredAST)'
                 /\ \A l \in DOMAIN stack' :
                       Makes(stack'[l]) /\ stack'[l].t = stack'[k].t => l = k
      BY <2>1, <2>12, <3>2, <3>3 DEF StageInv, MadeOnce
    <3> QED
      BY <2>1, <2>12, <3>1, <3>3 DEF StageInv, MadeOnce
  <2> QED
    BY <2>1, <2>11, <2>13 DEF StageInv, Ended
<1>9. CASE CompleteInstance
  <2>1. /\ stack # <<>> /\ outcome' = "none" /\ Top.op = "make"
        /\ UNCHANGED <<pending, made, isComplete, deferredAST>>
    BY <1>9 DEF CompleteInstance, Running, layout
  <2>2. PICK n : n = Len(stack)
    OBVIOUS
  <2>3. PICK t : t = Top.t
    OBVIOUS
  <2>4. Turns3(Call("defer", t), Call("call_check", t), Call("call_complete", t))
    BY <1>9, <2>1, <2>3, Moves
  <2>5. /\ n \in Nat \ {0} /\ DOMAIN stack = 1..n /\ Top = stack[n]
        /\ DOMAIN stack' = 1..(n + 2)
        /\ \A k \in 1..(n - 1) : stack'[k] = stack[k]
        /\ stack'[n].op = "defer" /\ stack'[n].t = t
        /\ stack'[n + 1].op = "call_check"
        /\ stack'[n + 2].op = "call_complete" /\ stack'[n + 2].t = t
    BY <1>0, <1>00, <2>1, <2>2, <2>4 DEF Turns3, Below, Call
  <2>6. \A u : u # t /\ InProgress("make", u) => InProgress("make", u)'
    BY <2>3, <2>5 DEF InProgress
  <2>7. \A u : InProgress("defer", u) => InProgress("defer", u)'
    BY <2>1, <2>5 DEF InProgress
  <2>8. \A u : InProgress("call_complete", u) => InProgress("call_complete", u)'
    BY <2>1, <2>5 DEF InProgress
  <2>9. InProgress("defer", t)' /\ InProgress("call_complete", t)'
    <3>1. n \in DOMAIN stack' /\ n + 2 \in DOMAIN stack'
      BY <2>5
    <3> QED
      BY <2>5, <3>1 DEF InProgress
  <2>10. ToSet(deferredAST)' = ToSet(deferredAST)
    BY <2>1 DEF ToSet
  <2>11. Accounted'
    BY <2>1, <2>6, <2>8, <2>9 DEF StageInv, Accounted
  <2>12. MadeOnce'
    <3>1. (\A u \in made : \/ InProgress("make", u) \/ InProgress("defer", u)
                           \/ u \in ToSet(deferredAST))'
      BY <2>1, <2>6, <2>7, <2>9, <2>10 DEF StageInv, MadeOnce
    <3>2. \A k \in DOMAIN stack' : Makes(stack'[k]) =>
             k \in DOMAIN stack /\ Makes(stack[k]) /\ stack'[k].t = stack[k].t
      BY <2>1, <2>3, <2>5
    <3>3. ASSUME NEW k \in DOMAIN stack', Makes(stack'[k])
          PROVE  /\ stack'[k].t \in made' /\ stack'[k].t \notin ToSet(deferredAST)'
                 /\ \A l \in DOMAIN stack' :
                       Makes(stack'[l]) /\ stack'[l].t = stack'[k].t => l = k
      BY <2>1, <2>10, <3>2, <3>3 DEF StageInv, MadeOnce
    <3> QED
      BY <2>1, <2>10, <3>1, <3>3 DEF StageInv, MadeOnce
  <2> QED
    BY <2>1, <2>11, <2>12 DEF StageInv, Ended
<1>10. CASE DeferInstance
  <2>1. /\ stack # <<>> /\ outcome' = "none" /\ Top.op = "defer"
        /\ UNCHANGED <<pending, made, isComplete>>
    BY <1>10 DEF DeferInstance, Running, layout
  <2>2. PICK n : n = Len(stack)
    OBVIOUS
  <2>3. PICK t : t = Top.t
    OBVIOUS
  <2>4. Returns
    BY <1>10, <2>1, Moves
  <2>5. /\ n \in Nat \ {0} /\ DOMAIN stack = 1..n /\ Top = stack[n] /\ t \in Structs
        /\ DOMAIN stack' = 1..(n - 1)
        /\ \A k \in 1..(n - 1) : stack'[k] = stack[k]
    BY <1>0, <1>00, <2>1, <2>2, <2>3, <2>4 DEF Returns, Below
  <2>6. \A op, u : (op # "defer" \/ u # t) /\ InProgress(op, u) => InProgress(op, u)'
    BY <2>1, <2>3, <2>5 DEF InProgress
  <2>7. /\ DOMAIN deferredAST = 1..Len(deferredAST) /\ Len(deferredAST) \in Nat
        /\ DOMAIN deferredAST' = 1..(Len(deferredAST) + 1)
        /\ \A i \in 1..Len(deferredAST) : deferredAST'[i] = deferredAST[i]
        /\ deferredAST'[Len(deferredAST) + 1] = t
    BY <1>10, <2>3, <2>5 DEF DeferInstance, TypeOK
  <2>8. ToSet(deferredAST)' = ToSet(deferredAST) \cup {t}
    BY <2>7 DEF ToSet
  <2>9. Accounted'
    BY <2>1, <2>6 DEF StageInv, Accounted
  <2>10. t \in made /\ t \notin ToSet(deferredAST)
    BY <2>1, <2>3, <2>5 DEF StageInv, MadeOnce
  <2>11. MadeOnce'
    <3>1. (\A u \in made : \/ InProgress("make", u) \/ InProgress("defer", u)
                           \/ u \in ToSet(deferredAST))'
      BY <2>1, <2>6, <2>8 DEF StageInv, MadeOnce
    <3>2. ASSUME NEW k \in DOMAIN stack', Makes(stack'[k])
          PROVE  /\ stack'[k].t \in made' /\ stack'[k].t \notin ToSet(deferredAST)'
                 /\ \A l \in DOMAIN stack' :
                       Makes(stack'[l]) /\ stack'[l].t = stack'[k].t => l = k
      <4>1. k \in 1..n /\ k # n /\ n \in 1..n /\ stack'[k] = stack[k]
        BY <2>5
      <4>2. stack[k].t # t
        BY <2>1, <2>3, <2>5, <3>2, <4>1 DEF StageInv, MadeOnce
      <4> QED
        BY <2>1, <2>5, <2>8, <3>2, <4>1, <4>2 DEF StageInv, MadeOnce
    <3>3. \A i, j \in DOMAIN deferredAST' : deferredAST'[i] = deferredAST'[j] => i = j
      BY <2>7, <2>10 DEF ToSet, StageInv, MadeOnce
    <3> QED
      BY <2>1, <2>8, <2>10, <3>1, <3>2, <3>3 DEF StageInv, MadeOnce
  <2> QED
    BY <2>1, <2>9, <2>11 DEF StageInv, Ended
<1>11. ASSUME stack # <<>>, NEW m \in {0, 1}
       PROVE  /\ [Top EXCEPT !.i = @ + 1, !.j = m].op = Top.op
              /\ [Top EXCEPT !.i = @ + 1, !.j = m].t = Top.t
              /\ [Top EXCEPT !.i = @ + 1, !.j = m] \in Calls
  <2>1. Top \in Calls
    BY <1>0, <1>11
  <2>2. [Top EXCEPT !.i = @ + 1, !.j = m] \in Calls
    BY <2>1, CallsMade
  <2>3. PICK d : d = [Top EXCEPT !.i = @ + 1]
    OBVIOUS
  <2>4. d.op = Top.op /\ d.t = Top.t /\ d \in Calls
    BY <2>1, <2>3 DEF Calls
  <2>5. PICK e : e = [d EXCEPT !.j = m]
    OBVIOUS
  <2>6. e = [Top EXCEPT !.i = @ + 1, !.j = m]
    BY <2>3, <2>5
  <2>7. e.op = d.op /\ e.t = d.t
    BY <2>4, <2>5 DEF Calls
  <2> QED
    BY <2>2, <2>4, <2>6, <2>7
<1>12. ASSUME stack # <<>>, outcome' = "none", Advance,
              UNCHANGED <<pending, made, isComplete, deferredAST>>
       PROVE  StageInv'
  BY <1>7, <1>11, <1>12, Moves
<1>13. CASE NoBase
  BY <1>12, <1>13 DEF NoBase, AtBase, Running, layout
<1>14. CASE Inherit
  BY <1>12, <1>14 DEF Inherit, AtBase, Running
<1>15. CASE TypeMember
  BY <1>12, <1>15 DEF TypeMember, AtMember, Running
<1>16. CASE /\ Running("make") /\ Advance
            /\ UNCHANGED <<program, pending, made, layout, deferredAST,
                           outcome, early>>
  BY <1>12, <1>16 DEF Running, layout
<1>17. CASE DeclareMember
  <2>1. /\ stack # <<>> /\ outcome' = "none"
        /\ UNCHANGED <<pending, made, isComplete, deferredAST>>
    BY <1>17 DEF DeclareMember, AtMember, Running
  <2>2. PICK c : c = [Top EXCEPT !.j = 1]
    OBVIOUS
  <2>3. c \in Calls /\ c.op = Top.op /\ c.t = Top.t
    BY <1>0, <2>1, <2>2 DEF Calls
  <2>4. Turns(c)
    BY <1>17, <2>1, <2>2, Moves
  <2> QED
    BY <1>7, <2>1, <2>3, <2>4
<1>18. ASSUME stack # <<>>
       PROVE  NextTerm \in Calls /\ NextTerm.op = Top.op /\ NextTerm.t = Top.t
  BY <1>0, <1>18 DEF Calls, NextTerm
<1>19. CASE SkipVisited
  <2>1. /\ stack # <<>> /\ outcome' = "none"
        /\ UNCHANGED <<pending, made, isComplete, deferredAST>>
    BY <1>19 DEF SkipVisited, AtTerm, AtDecl, Running, layout
  <2>2. Turns(NextTerm)
    BY <1>19, <2>1, Moves
  <2> QED
    BY <1>7, <1>18, <2>1, <2>2
<1>20. CASE NextDecl
  <2>1. /\ stack # <<>> /\ outcome' = "none"
        /\ UNCHANGED <<pending, made, isComplete, deferredAST>>
    BY <1>20 DEF NextDecl, AtDecl, Running, layout
  <2>2. Turns([Top EXCEPT !.i = @ + 1, !.j = 1])
    BY <1>20, <2>1, Moves
  <2> QED
    BY <1>7, <1>11, <2>1, <2>2
<1>21. CASE CompleteBase
  <2>1. /\ stack # <<>> /\ outcome' = "none" /\ Top.op = "complete"
        /\ UNCHANGED <<pending, made, isComplete, deferredAST>>
    BY <1>21 DEF CompleteBase, AtBase, Running, layout
  <2>2. Turns2(Top, Call("call_complete", Base(Top.t)))
    BY <1>21, <2>1, Moves
  <2>3. Base(Top.t) \in Structs
    BY <1>21 DEF CompleteBase
  <2>4. Call("call_complete", Base(Top.t)) \in Calls /\ Top \in Calls
    BY <1>0, <2>1, <2>3, CallsMade DEF Ops
  <2>5. ~Makes(Call("call_complete", Base(Top.t))) /\ ~Makes(Top)
    BY <2>1 DEF Call
  <2> QED
    BY <1>6, <2>1, <2>2, <2>4, <2>5
<1>22. CASE Leave
  <2>1. /\ stack # <<>> /\ outcome' = "none" /\ Top.op = "complete"
        /\ UNCHANGED <<pending, made, isComplete, deferredAST>>
    BY <1>22 DEF Leave, Running, layout
  <2>2. Returns
    BY <1>22, <2>1, Moves
  <2> QED
    BY <1>6, <2>1, <2>2
<1>23. CASE CheckBegin
  <2>1. /\ stack # <<>> /\ outcome' = "none" /\ Top.op = "call_check"
        /\ UNCHANGED <<pending, made, isComplete, deferredAST>>
    BY <1>23 DEF CheckBegin, Running, layout
  <2>2. Turns(CheckOf(Top.t, {}, {}))
    BY <1>23, <2>1, Moves
  <2>3. CheckOf(Top.t, {}, {}) \in Calls
    BY <1>0, <2>1, CallsMade
  <2>4. ~Makes(CheckOf(Top.t, {}, {}))
    BY DEF CheckOf
  <2> QED
    BY <1>6, <2>1, <2>2, <2>3, <2>4
<1>24. CASE Descend
  <2>1. /\ stack # <<>> /\ outcome' = "none" /\ Top.op = "check"
        /\ UNCHANGED <<pending, made, isComplete, deferredAST>>
    BY <1>24 DEF Descend, AtTerm, AtDecl, Running, layout
  <2>2. PICK n : n = Len(stack)
    OBVIOUS
  <2>3. Turns2(NextTerm, CheckOf(Term, Top.visited, Top.path))
    BY <1>24, <2>1, Moves
  <2>4. /\ n \in Nat \ {0} /\ DOMAIN stack = 1..n /\ Top = stack[n]
        /\ DOMAIN stack' = 1..(n + 1)
        /\ \A k \in 1..(n - 1) : stack'[k] = stack[k]
        /\ stack'[n].op = "check"
        /\ stack'[n + 1].op = "check"
    BY <1>0, <1>00, <1>18, <2>1, <2>2, <2>3 DEF Turns2, Below, CheckOf
  <2>5. Stays
    BY <2>1, <2>4 DEF Stays
  <2> QED
    BY <2>1, <2>5, StaysStage
<1>25. CASE CheckEnd
  <2>1. /\ stack # <<>> /\ outcome' = "none" /\ Top.op = "check"
        /\ UNCHANGED <<pending, made, isComplete, deferredAST>>
    BY <1>25 DEF CheckEnd, CheckReturns, Running, layout
  <2>2. CASE IsRoot(Top)
    <3>1. Returns
      BY <1>25, <2>1, <2>2, Moves
    <3> QED
      BY <1>6, <2>1, <3>1
  <2>3. CASE ~IsRoot(Top)
    <3>0. Len(stack) > 1
      BY <1>0, <2>1, <2>3 DEF Nested, NestedAt
    <3>1. PICK n : n = Len(stack)
      OBVIOUS
    <3>2. PICK b : b = stack[n - 1]
      OBVIOUS
    <3>3. /\ n \in Nat /\ n > 1 /\ Len(stack') = n - 1
          /\ \A k \in 1..(n - 2) : stack'[k] = stack[k]
          /\ stack'[n - 1] = [b EXCEPT !.visited = Top.visited]
          /\ DOMAIN stack = 1..n /\ Top = stack[n]
      BY <1>0, <1>25, <2>1, <2>3, <3>0, <3>1, <3>2, MovesBack
    <3>4. b \in Calls
      BY <3>2, <3>3 DEF TypeOK
    <3>5. stack'[n - 1].op = b.op /\ stack'[n - 1].t = b.t
      BY <3>3, <3>4 DEF Calls
    <3>6. \A k \in 1..(n - 1) : stack'[k].op = stack[k].op /\ stack'[k].t = stack[k].t
      <4>1. \A k \in 1..(n - 1) : k \in 1..(n - 2) \/ k = n - 1
        BY <3>3
      <4> QED
        BY <3>2, <3>3, <3>5, <4>1
    <3>7. Stays
      BY <1>00, <2>1, <3>3, <3>6 DEF Stays
    <3> QED
      BY <2>1, <3>7, StaysStage
  <2> QED
    BY <2>2, <2>3
<1> QED
  BY <1>1, <1>2, <1>3, <1>4, <1>5, <1>8, <1>9, <1>10, <1>13, <1>14, <1>15, <1>16,
     <1>17, <1>19, <1>20, <1>21, <1>22, <1>23, <1>24, <1>25, WhoMakes
  DEF Next, Complete, MakeTemplate, Check, ExtendsItself, Cycle

(* A struct whose completion has not begun has no members. *)
Empty(t) == /\ memberVarDecls[t] = <<>> /\ memberTypes[t] = <<>>
            /\ DOMAIN memberIndices[t] = {}

Inherited(t) == IF Base(t) = None THEN <<>> ELSE memberVarDecls[Base(t)]

(* The base was finished, and regularly, when its layout was taken. *)
BaseDone(t) == Base(t) # None => /\ Base(t) \in Structs \ {t}
                                 /\ Base(t) \notin early
                                 /\ Finished(Base(t))

IndicesFit(decls, indices) ==
    /\ DOMAIN indices = {mem.name : mem \in ToSet(decls)}
    /\ \A k \in DOMAIN decls :
          LastOfItsName(decls, k) => indices[decls[k].name] = k - 1

(* The inherited layout and d own members are declared, n of them typed. *)
LaidOut(t, d, n) ==
    /\ memberVarDecls[t] = Inherited(t) \o SubSeq(Own(t), 1, d)
    /\ Len(memberTypes[t]) = Len(Inherited(t)) + n
    /\ \A k \in DOMAIN memberTypes[t] :
          memberTypes[t][k] = TypeOf(memberVarDecls[t][k])
    /\ IndicesFit(memberVarDecls[t], memberIndices[t])

(* How far a completion has come, at step i and phase j. *)
InCompletion(t, i, j) ==
    IF i = 0 THEN j = 0 /\ Empty(t)
    ELSE /\ i <= Len(Own(t)) + 1
         /\ j \in {0, 1}
         /\ j = 1 => i <= Len(Own(t))
         /\ t \notin early => BaseDone(t) /\ LaidOut(t, i - 1 + j, i - 1)

Completes(k, t) == k \in DOMAIN stack /\ stack[k].op = "complete" /\ stack[k].t = t

LayoutOf(t) ==
    /\ \A k, l : Completes(k, t) /\ Completes(l, t) => k = l
    /\ \A k : Completes(k, t) => /\ isComplete[t]
                                 /\ InCompletion(t, stack[k].i, stack[k].j)
    /\ ~isComplete[t] => Empty(t)
    /\ Finished(t) /\ t \notin early =>
          BaseDone(t) /\ LaidOut(t, Len(Own(t)), Len(Own(t)))

Layouts == \A t \in Structs : LayoutOf(t)

(* At the start no completion has begun. *)
LEMMA InitLayouts == Init => Layouts
<1> SUFFICES ASSUME Init, NEW t \in Structs PROVE LayoutOf(t)
  BY DEF Layouts
<1>1. /\ ~isComplete[t] /\ DOMAIN stack = {}
      /\ memberVarDecls[t] = <<>> /\ memberTypes[t] = <<>> /\ memberIndices[t] = <<>>
  BY DEF Init
<1>2. Empty(t)
  <2>1. DOMAIN <<>> = {}
    OBVIOUS
  <2> QED
    BY <1>1, <2>1 DEF Empty
<1> QED
  BY <1>1, <1>2 DEF LayoutOf, Completes, Finished

(* A completion in progress is one of the calls. *)
LEMMA InProgressIs == \A t : InProgress("complete", t) <=> \E k : Completes(k, t)
BY DEF InProgress, Completes

(* The completions of every type but t, at most, are where they were. *)
OthersStay(t) ==
    \A k : \A u \in Structs \ {t} :
        /\ Completes(k, u)' <=> Completes(k, u)
        /\ Completes(k, u) => stack'[k].i = stack[k].i /\ stack'[k].j = stack[k].j

(* A layout changes only in its own completion; no other type is looked at *)
(* that is not finished.                                                   *)
LEMMA OtherLayouts ==
    ASSUME TypeOK, TypeOK', Layouts, NEW t \in Structs \cup {None},
           program' = program,
           \A u \in Structs \ {t} : /\ isComplete'[u] = isComplete[u]
                                    /\ memberVarDecls'[u] = memberVarDecls[u]
                                    /\ memberTypes'[u] = memberTypes[u]
                                    /\ memberIndices'[u] = memberIndices[u],
           early \subseteq early', early' \subseteq early \cup {t},
           OthersStay(t),
           t \in Structs => ~Finished(t)
    PROVE  \A u \in Structs \ {t} : LayoutOf(u)'
<1> SUFFICES ASSUME NEW u \in Structs \ {t}
             PROVE  LayoutOf(u)'
  OBVIOUS
<1>1. LayoutOf(u)
  BY DEF Layouts
<1>2. Base(u)' = Base(u) /\ Own(u)' = Own(u)
  BY DEF Base, Own
<1>3. Empty(u) => Empty(u)'
  BY DEF Empty
<1>4. \A v \in Structs \ {t} : Finished(v)' <=> Finished(v)
  <2>1. \A v \in Structs \ {t} : InProgress("complete", v)' <=> InProgress("complete", v)
    <3>1. \A v : InProgress("complete", v)' <=> \E k : Completes(k, v)'
      BY DEF InProgress, Completes
    <3> QED
      BY <3>1, InProgressIs DEF OthersStay
  <2> QED
    BY <2>1 DEF Finished
<1>5. (u \in early)' <=> u \in early
  OBVIOUS
<1>6. BaseDone(u) => BaseDone(u)'
  <2>1. BaseDone(u) /\ Base(u) # None => Base(u) \in Structs \ {t}
    BY DEF BaseDone
  <2> QED
    BY <1>2, <1>4, <2>1 DEF BaseDone
<1>7. BaseDone(u) => Inherited(u)' = Inherited(u)
  <2>1. BaseDone(u) /\ Base(u) # None => Base(u) \in Structs \ {t}
    BY DEF BaseDone
  <2> QED
    BY <1>2, <2>1 DEF Inherited
<1>8. ASSUME NEW d, NEW n, BaseDone(u), LaidOut(u, d, n)
      PROVE  LaidOut(u, d, n)'
  <2>1. /\ memberVarDecls'[u] = memberVarDecls[u] /\ memberTypes'[u] = memberTypes[u]
        /\ memberIndices'[u] = memberIndices[u] /\ Inherited(u)' = Inherited(u)
        /\ Own(u)' = Own(u)
    BY <1>2, <1>7, <1>8
  <2> QED
    BY <1>8, <2>1 DEF LaidOut, Zenon
<1>9. \A k : Completes(k, u)' <=> Completes(k, u)
  BY DEF OthersStay
<1>10. \A i, j \in Nat : InCompletion(u, i, j) => InCompletion(u, i, j)'
  BY <1>2, <1>3, <1>5, <1>6, <1>8 DEF InCompletion
<1>11. \A k : Completes(k, u)' => InCompletion(u, stack[k].i, stack[k].j)'
  <2> SUFFICES ASSUME NEW k, Completes(k, u)'
               PROVE  InCompletion(u, stack[k].i, stack[k].j)'
    OBVIOUS
  <2>1. Completes(k, u) /\ stack'[k].i = stack[k].i /\ stack'[k].j = stack[k].j
    BY <1>9 DEF OthersStay
  <2>2. PICK i, j : i = stack[k].i /\ j = stack[k].j
    OBVIOUS
  <2>3. i \in Nat /\ j \in Nat
    BY <2>1, <2>2, InCall DEF Completes, Calls
  <2>4. InCompletion(u, i, j)
    BY <1>1, <2>1, <2>2 DEF LayoutOf
  <2>5. InCompletion(u, i, j)'
    BY <1>10, <2>3, <2>4
  <2>6. stack'[k].i = i /\ stack'[k].j = j
    BY <2>1, <2>2
  <2> QED
    BY <2>5, <2>6
<1>12. Finished(u)' /\ u \notin early' =>
          BaseDone(u)' /\ LaidOut(u, Len(Own(u)), Len(Own(u)))'
  <2> SUFFICES ASSUME Finished(u)', u \notin early'
               PROVE  BaseDone(u)' /\ LaidOut(u, Len(Own(u)), Len(Own(u)))'
    OBVIOUS
  <2>1. PICK n : n = Len(Own(u))
    OBVIOUS
  <2>2. BaseDone(u) /\ LaidOut(u, n, n)
    BY <1>1, <1>4, <1>5, <2>1 DEF LayoutOf
  <2>3. Len(Own(u))' = n
    BY <1>2, <2>1
  <2>4. BaseDone(u)' /\ LaidOut(u, n, n)'
    BY <1>6, <1>8, <2>2
  <2> QED
    BY <2>3, <2>4
<1> QED
  BY <1>1, <1>3, <1>9, <1>11, <1>12 DEF LayoutOf

(* Which completions a move of the innermost call leaves alone. *)
LEMMA OthersStayBelow ==
    ASSUME TypeOK, TypeOK', stack # <<>>, Below, Len(stack') >= Len(stack) - 1,
           NEW t, NEW n, n = Len(stack),
           Top.op = "complete" => Top.t = t \/ (Len(stack') >= n /\ stack'[n] = Top),
           \A k \in DOMAIN stack' : k >= n /\ stack'[k].op = "complete" =>
              stack'[k].t = t \/ (k = n /\ stack'[n] = Top)
    PROVE  OthersStay(t)
<1>1. /\ n \in Nat \ {0} /\ DOMAIN stack = 1..n /\ Top = stack[n]
      /\ DOMAIN stack' = 1..Len(stack') /\ Len(stack') \in Nat
  <2>1. DOMAIN stack' = 1..Len(stack') /\ Len(stack') \in Nat
    BY DEF TypeOK
  <2> QED
    BY <2>1, InCall
<1>2. SUFFICES ASSUME NEW k, NEW u \in Structs \ {t}
               PROVE  /\ Completes(k, u)' <=> Completes(k, u)
                      /\ Completes(k, u) => /\ stack'[k].i = stack[k].i
                                            /\ stack'[k].j = stack[k].j
  BY DEF OthersStay
<1>3. CASE k \in 1..(n - 1)
  <2>1. k \in DOMAIN stack /\ k \in DOMAIN stack' /\ stack'[k] = stack[k]
    BY <1>1, <1>3 DEF Below
  <2> QED
    BY <2>1 DEF Completes
<1>4. CASE k = n
  BY <1>1, <1>4 DEF Completes
<1>5. CASE k \notin 1..(n - 1) /\ k # n
  <2>1. k \notin DOMAIN stack
    BY <1>1, <1>5
  <2>2. k \in DOMAIN stack' => k >= n /\ k # n
    BY <1>1, <1>5
  <2> QED
    BY <2>1, <2>2 DEF Completes
<1> QED
  BY <1>3, <1>4, <1>5

(* The action leaves every layout and every completion alone. *)
LEMMA QuietLayouts ==
    ASSUME TypeOK, TypeOK', Layouts, OthersStay(None), program' = program,
           UNCHANGED <<layout, early>>
    PROVE  Layouts'
<1>1. \A u \in Structs \ {None} : LayoutOf(u)'
  BY StructTypesAssumption, OtherLayouts DEF layout
<1> QED
  BY <1>1, StructTypesAssumption DEF Layouts

(* The moves that begin and end no completion but the innermost one. *)
LEMMA QuietMoves ==
    ASSUME TypeOK, TypeOK', stack # <<>>,
           \/ Returns /\ Top.op # "complete"
           \/ \E c \in Calls : Turns(c) /\ Top.op # "complete" /\ c.op # "complete"
           \/ \E d \in Calls : Turns2(Top, d) /\ d.op # "complete"
           \/ \E c, d \in Calls : /\ Turns2(c, d) /\ Top.op # "complete"
                                  /\ c.op # "complete" /\ d.op # "complete"
           \/ \E c, d, e \in Calls : /\ Turns3(c, d, e) /\ Top.op # "complete"
                                     /\ c.op # "complete" /\ d.op # "complete"
                                     /\ e.op # "complete"
    PROVE  OthersStay(None)
<1>1. PICK n : n = Len(stack)
  OBVIOUS
<1>2. n \in Nat \ {0} /\ DOMAIN stack' = 1..Len(stack') /\ Len(stack') \in Nat
  <2>1. DOMAIN stack' = 1..Len(stack') /\ Len(stack') \in Nat
    BY DEF TypeOK
  <2> QED
    BY <1>1, <2>1, InCall
<1>3. CASE Returns /\ Top.op # "complete"
  <2>1. Below /\ Len(stack') >= Len(stack) - 1 /\ \A k \in DOMAIN stack' : ~(k >= n)
    BY <1>1, <1>2, <1>3 DEF Returns
  <2> QED
    BY <1>1, <1>3, <2>1, OthersStayBelow
<1>4. ASSUME NEW c \in Calls, Turns(c), Top.op # "complete", c.op # "complete"
      PROVE  OthersStay(None)
  <2>1. /\ Below /\ Len(stack') >= Len(stack) - 1
        /\ \A k \in DOMAIN stack' : k >= n => stack'[k].op # "complete"
    BY <1>1, <1>2, <1>4 DEF Turns
  <2> QED
    BY <1>1, <1>4, <2>1, OthersStayBelow
<1>5. ASSUME NEW d \in Calls, Turns2(Top, d), d.op # "complete"
      PROVE  OthersStay(None)
  <2>1. /\ Below /\ Len(stack') >= Len(stack) - 1 /\ Len(stack') >= n
        /\ stack'[n] = Top
        /\ \A k \in DOMAIN stack' : k >= n /\ k # n => stack'[k].op # "complete"
    BY <1>1, <1>2, <1>5 DEF Turns2
  <2> QED
    BY <1>1, <1>5, <2>1, OthersStayBelow
<1>6. ASSUME NEW c \in Calls, NEW d \in Calls, Turns2(c, d), Top.op # "complete",
             c.op # "complete", d.op # "complete"
      PROVE  OthersStay(None)
  <2>1. /\ Below /\ Len(stack') >= Len(stack) - 1
        /\ \A k \in DOMAIN stack' : k >= n => stack'[k].op # "complete"
    BY <1>1, <1>2, <1>6 DEF Turns2
  <2> QED
    BY <1>1, <1>6, <2>1, OthersStayBelow
<1>7. ASSUME NEW c \in Calls, NEW d \in Calls, NEW e \in Calls, Turns3(c, d, e),
             Top.op # "complete", c.op # "complete", d.op # "complete",
             e.op # "complete"
      PROVE  OthersStay(None)
  <2>1. /\ Below /\ Len(stack') >= Len(stack) - 1
        /\ \A k \in DOMAIN stack' : k >= n => stack'[k].op # "complete"
    BY <1>1, <1>2, <1>7 DEF Turns3
  <2> QED
    BY <1>1, <1>7, <2>1, OthersStayBelow
<1> QED
  BY <1>3, <1>4, <1>5, <1>6, <1>7

(* A completion that goes on as itself, of type t, in position n. *)
LEMMA OwnMoves ==
    ASSUME TypeOK, TypeOK', Layouts, stack # <<>>, Top.op = "complete",
           NEW t, t = Top.t, NEW n, n = Len(stack)
    PROVE  /\ t \in Structs /\ n \in Nat \ {0} /\ Completes(n, t) /\ ~Finished(t)
           /\ isComplete[t] /\ InCompletion(t, Top.i, Top.j)
           /\ Top.i \in Nat /\ Top.j \in Nat
           /\ \A k : Completes(k, t) => k = n
           /\ \A c : Turns(c) /\ c.op = "complete" /\ c.t = t =>
                 /\ OthersStay(t)
                 /\ \A k : Completes(k, t)' <=> k = n
                 /\ stack'[n] = c
           /\ Returns => OthersStay(t) /\ \A k : ~Completes(k, t)'
<1>1. /\ n \in Nat \ {0} /\ DOMAIN stack = 1..n /\ Top = stack[n] /\ n \in DOMAIN stack
      /\ Top \in Calls /\ t \in Structs
      /\ DOMAIN stack' = 1..Len(stack') /\ Len(stack') \in Nat
  <2>1. DOMAIN stack' = 1..Len(stack') /\ Len(stack') \in Nat
    BY DEF TypeOK
  <2> QED
    BY <2>1, InCall
<1>2. Completes(n, t)
  BY <1>1 DEF Completes
<1>3. /\ isComplete[t] /\ InCompletion(t, Top.i, Top.j)
      /\ \A k : Completes(k, t) => k = n
  BY <1>1, <1>2 DEF Layouts, LayoutOf
<1>4. ~Finished(t)
  BY <1>2, InProgressIs DEF Finished
<1>5. Top.i \in Nat /\ Top.j \in Nat
  BY <1>1 DEF Calls
<1>6. ASSUME NEW c, Turns(c), c.op = "complete", c.t = t
      PROVE  /\ OthersStay(t) /\ stack'[n] = c
             /\ \A k : Completes(k, t)' <=> k = n
  <2>1. Below /\ Len(stack') = n /\ stack'[n] = c /\ Len(stack') >= Len(stack) - 1
    BY <1>1, <1>6 DEF Turns
  <2>2. \A k \in DOMAIN stack' : k >= n => stack'[k].t = t
    BY <1>1, <1>6, <2>1
  <2>3. OthersStay(t)
    BY <1>1, <2>1, <2>2, OthersStayBelow
  <2>4. Completes(n, t)'
    BY <1>1, <1>6, <2>1 DEF Completes
  <2>5. ASSUME NEW k, Completes(k, t)', k # n
        PROVE  FALSE
    <3>1. k \in 1..(n - 1)
      BY <1>1, <2>1, <2>5 DEF Completes
    <3>2. Completes(k, t)
      BY <1>1, <2>1, <2>5, <3>1 DEF Completes, Below
    <3> QED
      BY <1>3, <2>5, <3>2
  <2> QED
    BY <2>1, <2>3, <2>4, <2>5
<1>7. ASSUME Returns
      PROVE  OthersStay(t) /\ \A k : ~Completes(k, t)'
  <2>1. Below /\ Len(stack') = n - 1 /\ Len(stack') >= Len(stack) - 1
    BY <1>1, <1>7 DEF Returns
  <2>2. \A k \in DOMAIN stack' : ~(k >= n)
    BY <1>1, <2>1
  <2>3. OthersStay(t)
    BY <1>1, <2>1, <2>2, OthersStayBelow
  <2>4. ASSUME NEW k, Completes(k, t)'
        PROVE  FALSE
    <3>1. k \in 1..(n - 1)
      BY <1>1, <2>1, <2>4 DEF Completes
    <3>2. Completes(k, t)
      BY <1>1, <2>1, <2>4, <3>1 DEF Completes, Below
    <3>3. k # n
      BY <1>1, <3>1
    <3> QED
      BY <1>3, <3>2, <3>3
  <2> QED
    BY <2>3, <2>4
<1> QED
  BY <1>1, <1>2, <1>3, <1>4, <1>5, <1>6, <1>7

(* The prefixes of a sequence behind another, element by element. *)
LEMMA Behind ==
    ASSUME NEW S, NEW a \in Seq(S), NEW b \in Seq(S), NEW d \in 0..Len(b)
    PROVE  /\ a \o SubSeq(b, 1, d) \in Seq(S)
           /\ Len(a \o SubSeq(b, 1, d)) = Len(a) + d
           /\ \A k \in 1..Len(a) : (a \o SubSeq(b, 1, d))[k] = a[k]
           /\ \A k \in 1..d : (a \o SubSeq(b, 1, d))[Len(a) + k] = b[k]
           /\ d + 1 <= Len(b) =>
                 a \o SubSeq(b, 1, d + 1) = Append(a \o SubSeq(b, 1, d), b[d + 1])
<1>1. Len(a) \in Nat /\ Len(b) \in Nat /\ d \in Nat
  OBVIOUS
<1>2. ASSUME NEW e \in 0..Len(b), NEW s, s = a \o SubSeq(b, 1, e)
      PROVE  /\ s \in Seq(S) /\ Len(s) = Len(a) + e
             /\ \A k \in 1..Len(a) : s[k] = a[k]
             /\ \A k \in 1..e : s[Len(a) + k] = b[k]
  <2>1. PICK p : p = SubSeq(b, 1, e)
    OBVIOUS
  <2>2. p \in Seq(S) /\ Len(p) = e /\ \A k \in 1..e : p[k] = b[k]
    BY <1>1, <2>1, SubSeqProperties
  <2>3. /\ s \in Seq(S) /\ Len(s) = Len(a) + Len(p)
        /\ \A i \in 1..(Len(a) + Len(p)) :
              s[i] = IF i <= Len(a) THEN a[i] ELSE p[i - Len(a)]
    BY <1>2, <2>1, <2>2, ConcatProperties
  <2>4. \A k \in 1..Len(a) : s[k] = a[k]
    BY <1>1, <2>2, <2>3
  <2>5. ASSUME NEW k \in 1..e
        PROVE  s[Len(a) + k] = b[k]
    <3>1. /\ Len(a) + k \in 1..(Len(a) + Len(p)) /\ ~(Len(a) + k <= Len(a))
          /\ Len(a) + k - Len(a) = k
      BY <1>1, <2>2
    <3> QED
      BY <2>2, <2>3, <3>1
  <2> QED
    BY <2>2, <2>3, <2>4, <2>5
<1>3. ASSUME d + 1 <= Len(b)
      PROVE  a \o SubSeq(b, 1, d + 1) = Append(a \o SubSeq(b, 1, d), b[d + 1])
  <2>1. PICK s : s = a \o SubSeq(b, 1, d)
    OBVIOUS
  <2>2. PICK u : u = a \o SubSeq(b, 1, d + 1)
    OBVIOUS
  <2>3. /\ s \in Seq(S) /\ Len(s) = Len(a) + d
        /\ \A k \in 1..Len(a) : s[k] = a[k]
        /\ \A k \in 1..d : s[Len(a) + k] = b[k]
    BY <1>2, <2>1
  <2>4. d + 1 \in 0..Len(b)
    BY <1>1, <1>3
  <2>5. /\ u \in Seq(S) /\ Len(u) = Len(a) + (d + 1)
        /\ \A k \in 1..Len(a) : u[k] = a[k]
        /\ \A k \in 1..(d + 1) : u[Len(a) + k] = b[k]
    BY <1>2, <2>2, <2>4
  <2>6. PICK w : w = Append(s, b[d + 1])
    OBVIOUS
  <2>7. b[d + 1] \in S
    BY <1>1, <1>3
  <2>8. /\ w \in Seq(S) /\ Len(w) = Len(s) + 1 /\ w[Len(s) + 1] = b[d + 1]
        /\ \A k \in 1..Len(s) : w[k] = s[k]
    <3>1. PICK x : x = b[d + 1]
      OBVIOUS
    <3>2. x \in S
      BY <2>7, <3>1
    <3>3. w = Append(s, x)
      BY <2>6, <3>1
    <3>4. /\ w \in Seq(S) /\ Len(w) = Len(s) + 1 /\ w[Len(s) + 1] = x
          /\ \A k \in 1..Len(s) : w[k] = s[k]
      <4>1. /\ Append(s, x) \in Seq(S) /\ Len(Append(s, x)) = Len(s) + 1
            /\ \A i \in 1..Len(s) : Append(s, x)[i] = s[i]
            /\ Append(s, x)[Len(s) + 1] = x
        BY <2>3, <3>2, AppendProperties
      <4> QED
        BY <3>3, <4>1
    <3> QED
      BY <3>1, <3>4
  <2>9. ASSUME NEW k \in 1..Len(u)
        PROVE  u[k] = w[k]
    <3>1. CASE k \in 1..Len(a)
      BY <1>1, <2>3, <2>5, <2>8, <3>1
    <3>2. CASE k \in (Len(a) + 1)..(Len(a) + d)
      <4>1. PICK m : m = k - Len(a)
        OBVIOUS
      <4>2. m \in 1..d /\ m \in 1..(d + 1) /\ k = Len(a) + m /\ k \in 1..Len(s)
        BY <1>1, <2>3, <3>2, <4>1
      <4> QED
        BY <2>3, <2>5, <2>8, <4>2
    <3>3. CASE k = Len(a) + (d + 1)
      <4>1. d + 1 \in 1..(d + 1) /\ k = Len(s) + 1
        BY <1>1, <2>3, <3>3
      <4> QED
        BY <2>5, <2>8, <3>3, <4>1
    <3> QED
      <4>1. k \in 1..(Len(a) + (d + 1))
        BY <2>5, <2>9
      <4>2. k \in 1..Len(a) \/ k \in (Len(a) + 1)..(Len(a) + d) \/ k = Len(a) + (d + 1)
        BY <1>1, <4>1
      <4> QED
        BY <3>1, <3>2, <3>3, <4>2
  <2>10. u \in Seq(S) /\ w \in Seq(S) /\ Len(u) = Len(w)
    BY <1>1, <2>3, <2>5, <2>8
  <2>11. u = w
    BY <2>9, <2>10, SeqEqual
  <2> QED
    BY <2>1, <2>2, <2>6, <2>11
<1>4. PICK s : s = a \o SubSeq(b, 1, d)
  OBVIOUS
<1>5. /\ s \in Seq(S) /\ Len(s) = Len(a) + d
      /\ \A k \in 1..Len(a) : s[k] = a[k]
      /\ \A k \in 1..d : s[Len(a) + k] = b[k]
  BY <1>2, <1>4
<1> QED
  BY <1>3, <1>4, <1>5

(* Declaring a member gives it its place in the index. *)
LEMMA IndicesGrow ==
    ASSUME NEW decls \in Seq(Member), NEW indices, IndicesFit(decls, indices),
           NEW mem \in Member, NEW more, more = Append(decls, mem)
    PROVE  IndicesFit(more, [n \in DOMAIN indices \cup {mem.name} |->
                                IF n = mem.name THEN Len(decls) ELSE indices[n]])
<1>1. PICK f : f = [n \in DOMAIN indices \cup {mem.name} |->
                       IF n = mem.name THEN Len(decls) ELSE indices[n]]
  OBVIOUS
<1> HIDE DEF Member
<1>2. /\ Len(decls) \in Nat /\ more \in Seq(Member) /\ Len(more) = Len(decls) + 1
      /\ DOMAIN decls = 1..Len(decls) /\ DOMAIN more = 1..(Len(decls) + 1)
      /\ more[Len(decls) + 1] = mem
      /\ \A k \in 1..Len(decls) : more[k] = decls[k]
  BY AppendProperties
<1>3. DOMAIN f = DOMAIN indices \cup {mem.name}
  BY <1>1
<1>4. {m.name : m \in ToSet(more)} = {m.name : m \in ToSet(decls)} \cup {mem.name}
  <2>1. ToSet(more) = ToSet(decls) \cup {mem}
    BY <1>2 DEF ToSet
  <2> QED
    BY <2>1
<1>5. ASSUME NEW k \in DOMAIN more, LastOfItsName(more, k)
      PROVE  f[more[k].name] = k - 1
  <2>1. CASE k = Len(decls) + 1
    <3>1. more[k].name = mem.name /\ k - 1 = Len(decls)
      BY <1>2, <2>1
    <3> QED
      BY <1>1, <3>1
  <2>2. CASE k \in 1..Len(decls)
    <3>1. more[k] = decls[k] /\ k \in DOMAIN decls /\ more[k].name # mem.name
      BY <1>2, <1>5, <2>2 DEF LastOfItsName
    <3>2. LastOfItsName(decls, k)
      BY <1>2, <1>5, <2>2, <3>1 DEF LastOfItsName
    <3>3. decls[k].name \in DOMAIN indices
      BY <3>1 DEF IndicesFit, ToSet
    <3>4. indices[decls[k].name] = k - 1
      BY <3>1, <3>2 DEF IndicesFit
    <3> QED
      BY <1>1, <3>1, <3>3, <3>4
  <2> QED
    BY <1>2, <2>1, <2>2
<1> QED
  BY <1>1, <1>3, <1>4, <1>5 DEF IndicesFit

(* Every step of a completion brings its layout as far as its counters say; *)
(* no other step touches a layout.                                          *)
LEMMA LayoutStep ==
    ASSUME TypeOK, TypeOK', Nested, Layouts, [Next]_vars
    PROVE  Layouts'
<1>1. CASE UNCHANGED vars
  <2>1. OthersStay(None)
    BY <1>1 DEF OthersStay, Completes, vars
  <2> QED
    BY <1>1, <2>1, QuietLayouts DEF vars, layout
<1>2. program' = program
  BY <1>1 DEF Next, Complete, MakeTemplate, Check, NextStruct, StageEnd, Enter, NoBase,
     MakeBase, ExtendsItself, CompleteBase, Inherit, DeclareMember, MakeMember,
     TypeMember, Leave, ExpandMember, CompleteInstance, DeferInstance, CheckBegin,
     MakeInCheck, Descend, Cycle, SkipVisited, NextDecl, CheckEnd, MakeFirst, Make,
     Fail, vars
<1>3. ASSUME stack' = stack, UNCHANGED <<layout, early>>
      PROVE  Layouts'
  <2>1. OthersStay(None)
    BY <1>3 DEF OthersStay, Completes
  <2> QED
    BY <1>2, <1>3, <2>1, QuietLayouts
<1>4. ASSUME NEW t \in Structs, NextStruct(t)
      PROVE  Layouts'
  <2>1. stack = <<>> /\ stack' = <<Call("call_complete", t), Call("call_check", t)>>
        /\ UNCHANGED <<layout, early>>
    BY <1>4 DEF NextStruct
  <2>2. DOMAIN stack' = 1..2 /\ stack'[1].op = "call_complete"
        /\ stack'[2].op = "call_check" /\ DOMAIN stack = {}
    BY <2>1 DEF Call
  <2>3. OthersStay(None)
    BY <2>2 DEF OthersStay, Completes
  <2> QED
    BY <1>2, <2>1, <2>3, QuietLayouts
<1>5. ASSUME NEW t \in Structs, Making(t)
      PROVE  Layouts'
  <2>1. stack # <<>> /\ UNCHANGED <<layout, early>>
    BY <1>5 DEF Making, Make
  <2>2. PICK d : d = [Call("make", t) EXCEPT !.i = 1]
    OBVIOUS
  <2>3. d.op = "make" /\ d \in Calls
    BY <2>2, CallsMade DEF Call
  <2>4. Turns2(Top, d)
    BY <1>5, <2>1, <2>2, Moves DEF Making
  <2>5. OthersStay(None)
    BY <2>1, <2>3, <2>4, QuietMoves
  <2> QED
    BY <1>2, <2>1, <2>5, QuietLayouts
<1>6. CASE CompleteBase
  <2>1. stack # <<>> /\ UNCHANGED <<layout, early>>
    BY <1>6 DEF CompleteBase, AtBase, Running
  <2>2. PICK d : d = Call("call_complete", Base(Top.t))
    OBVIOUS
  <2>3. d.op = "call_complete" /\ d \in Calls
    BY <1>6, <2>2, CallsMade DEF Call, Ops, CompleteBase
  <2>4. Turns2(Top, d)
    BY <1>6, <2>1, <2>2, Moves
  <2>5. OthersStay(None)
    BY <2>1, <2>3, <2>4, QuietMoves
  <2> QED
    BY <1>2, <2>1, <2>5, QuietLayouts
<1>7. CASE Running("make") /\ Advance /\ UNCHANGED <<layout, early>>
  <2>1. stack # <<>> /\ Top.op = "make"
    BY <1>7 DEF Running
  <2>2. PICK d : d = [Top EXCEPT !.i = @ + 1, !.j = 0]
    OBVIOUS
  <2>3. d.op = "make" /\ d \in Calls
    BY <2>1, <2>2, CallsMade, Fields, InCall
  <2>4. Turns(d)
    BY <1>7, <2>1, <2>2, Moves
  <2>5. OthersStay(None)
    BY <2>1, <2>3, <2>4, QuietMoves
  <2> QED
    BY <1>2, <1>7, <2>5, QuietLayouts
<1>8. CASE CompleteInstance
  <2>1. stack # <<>> /\ Top.op = "make" /\ UNCHANGED <<layout, early>>
    BY <1>8 DEF CompleteInstance, Running
  <2>2. PICK c, d, e : /\ c = Call("defer", Top.t) /\ d = Call("call_check", Top.t)
                       /\ e = Call("call_complete", Top.t)
    OBVIOUS
  <2>3. /\ c.op = "defer" /\ d.op = "call_check" /\ e.op = "call_complete"
        /\ c \in Calls /\ d \in Calls /\ e \in Calls
    BY <2>1, <2>2, CallsMade, InCall DEF Call, Ops
  <2>4. Turns3(c, d, e)
    BY <1>8, <2>1, <2>2, Moves
  <2>5. OthersStay(None)
    BY <2>1, <2>3, <2>4, QuietMoves
  <2> QED
    BY <1>2, <2>1, <2>5, QuietLayouts
<1>9. CASE DeferInstance
  <2>1. stack # <<>> /\ Top.op = "defer" /\ UNCHANGED <<layout, early>>
    BY <1>9 DEF DeferInstance, Running
  <2>2. Returns
    BY <1>9, <2>1, Moves
  <2>3. OthersStay(None)
    BY <2>1, <2>2, QuietMoves
  <2> QED
    BY <1>2, <2>1, <2>3, QuietLayouts
<1>10. CASE CheckBegin
  <2>1. stack # <<>> /\ Top.op = "call_check" /\ UNCHANGED <<layout, early>>
    BY <1>10 DEF CheckBegin, Running
  <2>2. PICK d : d = CheckOf(Top.t, {}, {})
    OBVIOUS
  <2>3. d.op = "check" /\ d \in Calls
    BY <2>1, <2>2, CallsMade, InCall DEF CheckOf
  <2>4. Turns(d)
    BY <1>10, <2>1, <2>2, Moves
  <2>5. OthersStay(None)
    BY <2>1, <2>3, <2>4, QuietMoves
  <2> QED
    BY <1>2, <2>1, <2>5, QuietLayouts
<1>11. CASE Descend
  <2>1. stack # <<>> /\ Top.op = "check" /\ UNCHANGED <<layout, early>>
    BY <1>11 DEF Descend, AtTerm, AtDecl, Running
  <2>2. PICK c, d : c = NextTerm /\ d = CheckOf(Term, Top.visited, Top.path)
    OBVIOUS
  <2>3. Turns2(c, d)
    BY <1>11, <2>1, <2>2, Moves
  <2>4. c.op = "check" /\ d.op = "check"
    BY <2>1, <2>2, Fields DEF CheckOf
  <2>5. c \in Calls /\ d \in Calls
    <3>1. PICK n : n = Len(stack) /\ n \in Nat \ {0}
      BY <2>1, InCall
    <3>2. /\ stack' \in Seq(Calls) /\ Len(stack') = n + 1
          /\ stack'[n] = c /\ stack'[n + 1] = d
      BY <2>3, <3>1 DEF TypeOK, Turns2
    <3> HIDE DEF Calls
    <3> QED
      BY <3>1, <3>2
  <2>6. OthersStay(None)
    BY <2>1, <2>3, <2>4, <2>5, QuietMoves
  <2> QED
    BY <1>2, <2>1, <2>6, QuietLayouts
<1>12. CASE SkipVisited
  <2>1. stack # <<>> /\ Top.op = "check" /\ UNCHANGED <<layout, early>>
    BY <1>12 DEF SkipVisited, AtTerm, AtDecl, Running
  <2>2. NextTerm.op = "check" /\ NextTerm \in Calls
    BY <2>1, CallsMade, Fields, InCall DEF NextTerm
  <2>3. Turns(NextTerm)
    BY <1>12, <2>1, Moves
  <2>4. OthersStay(None)
    BY <2>1, <2>2, <2>3, QuietMoves
  <2> QED
    BY <1>2, <2>1, <2>4, QuietLayouts
<1>13. CASE NextDecl
  <2>1. stack # <<>> /\ Top.op = "check" /\ UNCHANGED <<layout, early>>
    BY <1>13 DEF NextDecl, AtDecl, Running
  <2>2. PICK d : d = [Top EXCEPT !.i = @ + 1, !.j = 1]
    OBVIOUS
  <2>3. d.op = "check" /\ d \in Calls
    BY <2>1, <2>2, CallsMade, Fields, InCall
  <2>4. Turns(d)
    BY <1>13, <2>1, <2>2, Moves
  <2>5. OthersStay(None)
    BY <2>1, <2>3, <2>4, QuietMoves
  <2> QED
    BY <1>2, <2>1, <2>5, QuietLayouts
<1>14. CASE CheckEnd
  <2>1. stack # <<>> /\ Top.op = "check" /\ UNCHANGED <<layout, early>>
    BY <1>14 DEF CheckEnd, CheckReturns, Running
  <2>2. CASE IsRoot(Top)
    <3>1. Returns
      BY <1>14, <2>1, <2>2, Moves
    <3>2. OthersStay(None)
      BY <2>1, <3>1, QuietMoves
    <3> QED
      BY <1>2, <2>1, <3>2, QuietLayouts
  <2>3. CASE ~IsRoot(Top)
    <3>0. Len(stack) > 1
      BY <2>1, <2>3, InCall DEF Nested, NestedAt
    <3>1. PICK n : /\ n = Len(stack) /\ n \in Nat \ {0} /\ n \in DOMAIN stack
                   /\ Top = stack[n] /\ DOMAIN stack = 1..n /\ n > 1
      BY <2>1, <3>0, InCall
    <3>2. PICK b : b = stack[n - 1]
      OBVIOUS
    <3>3. PICK V : V = Top.visited
      OBVIOUS
    <3>4. /\ DOMAIN stack' = 1..(n - 1)
          /\ \A k \in 1..(n - 2) : stack'[k] = stack[k]
          /\ stack'[n - 1] = [b EXCEPT !.visited = V]
      BY <1>14, <2>1, <2>3, <3>1, <3>2, <3>3, MovesBack DEF TypeOK
    <3>5. b \in Calls
      BY <3>1, <3>2, InCall
    <3>6. /\ stack'[n - 1].op = b.op /\ stack'[n - 1].t = b.t
          /\ stack'[n - 1].i = b.i /\ stack'[n - 1].j = b.j
      BY <3>4, <3>5 DEF Calls
    <3>7. \A k \in 1..(n - 1) : k \in 1..(n - 2) \/ k = n - 1
      BY <3>1
    <3>8. \A k \in 1..n : k \in 1..(n - 1) \/ k = n
      BY <3>1
    <3>9. \A k \in 1..(n - 1) : k \in 1..n
      BY <3>1
    <3>10. \A k \in 1..(n - 1) :
              /\ stack'[k].op = stack[k].op /\ stack'[k].t = stack[k].t
              /\ stack'[k].i = stack[k].i /\ stack'[k].j = stack[k].j
      BY <3>2, <3>4, <3>6, <3>7
    <3>11. OthersStay(None)
      BY <2>1, <3>1, <3>4, <3>8, <3>9, <3>10 DEF OthersStay, Completes
    <3> QED
      BY <1>2, <2>1, <3>11, QuietLayouts
  <2> QED
    BY <2>2, <2>3
<1>15. ASSUME NEW t \in Structs, LayoutOf(t)',
              \A u \in Structs \ {t} : LayoutOf(u)'
       PROVE  Layouts'
  BY <1>15 DEF Layouts
<1>16. CASE Enter
  <2>1. /\ stack # <<>> /\ Top.op = "call_complete"
        /\ isComplete' = [isComplete EXCEPT ![Top.t] = TRUE]
        /\ UNCHANGED <<memberTypes, memberVarDecls, memberIndices, early>>
    BY <1>16 DEF Enter, Running
  <2>2. PICK t : t = Top.t
    OBVIOUS
  <2>3. PICK n : n = Len(stack)
    OBVIOUS
  <2>4. /\ t \in Structs /\ n \in Nat \ {0} /\ n \in DOMAIN stack /\ Top = stack[n]
        /\ DOMAIN stack = 1..n /\ DOMAIN stack' = 1..Len(stack') /\ Len(stack') \in Nat
    <3>1. DOMAIN stack' = 1..Len(stack') /\ Len(stack') \in Nat
      BY DEF TypeOK
    <3> QED
      BY <2>1, <2>2, <2>3, <3>1, InCall
  <2>5. CASE isComplete[t]
    <3>1. isComplete' = isComplete
      BY <2>1, <2>2, <2>4, <2>5 DEF TypeOK
    <3>2. Returns
      BY <1>16, <2>1, <2>2, <2>5, Moves
    <3>3. OthersStay(None)
      BY <2>1, <3>2, QuietMoves
    <3> QED
      BY <1>2, <2>1, <3>1, <3>3, QuietLayouts DEF layout
  <2>6. CASE ~isComplete[t]
    <3>1. PICK c : c = Call("complete", t)
      OBVIOUS
    <3>2. c.op = "complete" /\ c.t = t /\ c.i = 0 /\ c.j = 0
      BY <3>1 DEF Call
    <3>3. Turns(c)
      BY <1>16, <2>1, <2>2, <2>6, <3>1, Moves
    <3>4. Below /\ Len(stack') = n /\ stack'[n] = c /\ Len(stack') >= Len(stack) - 1
      BY <2>3, <2>4, <3>3 DEF Turns
    <3>5. \A k \in DOMAIN stack' : k >= n => stack'[k].t = t
      BY <2>4, <3>2, <3>4
    <3>6. OthersStay(t)
      BY <2>1, <2>3, <3>4, <3>5, OthersStayBelow
    <3>7. LayoutOf(t) /\ Empty(t) /\ ~Finished(t) /\ \A k : ~Completes(k, t)
      BY <2>4, <2>6 DEF Layouts, LayoutOf, Finished
    <3>8. \A u \in Structs \ {t} : isComplete'[u] = isComplete[u]
      BY <2>1, <2>2, <2>4 DEF TypeOK
    <3>9. \A u \in Structs \ {t} : LayoutOf(u)'
      BY <1>2, <2>1, <2>4, <3>6, <3>7, <3>8, OtherLayouts
    <3>10. \A k : Completes(k, t)' => k = n
      <4>1. ASSUME NEW k, Completes(k, t)', k # n
            PROVE  FALSE
        <5>1. k \in 1..(n - 1) /\ k \in DOMAIN stack /\ stack'[k] = stack[k]
          BY <2>3, <2>4, <3>4, <4>1 DEF Completes, Below
        <5>2. Completes(k, t)
          BY <4>1, <5>1 DEF Completes
        <5> QED
          BY <3>7, <5>2
      <4> QED
        BY <4>1
    <3>11. Completes(n, t)'
      BY <2>4, <3>2, <3>4 DEF Completes
    <3>12. isComplete'[t]
      BY <2>1, <2>2, <2>4 DEF TypeOK
    <3>13. Empty(t)'
      BY <2>1, <3>7 DEF Empty
    <3>14. InCompletion(t, stack[n].i, stack[n].j)'
      BY <3>2, <3>4, <3>13 DEF InCompletion
    <3>15. ~Finished(t)'
      BY <3>11 DEF Finished, InProgress, Completes
    <3>16. LayoutOf(t)'
      BY <3>10, <3>12, <3>14, <3>15 DEF LayoutOf
    <3> QED
      BY <1>15, <2>4, <3>9, <3>16
  <2> QED
    BY <2>5, <2>6
(* The steps of a completion of t, at step i and phase j. *)
<1>17. SUFFICES ASSUME stack # <<>>, Top.op = "complete",
                       NEW t, t = Top.t, NEW n, n = Len(stack),
                       NEW i, i = Top.i, NEW j, j = Top.j,
                       \/ NoBase \/ Inherit \/ DeclareMember \/ TypeMember \/ Leave
                PROVE  Layouts'
  BY <1>1, <1>3, <1>4, <1>5, <1>6, <1>7, <1>8, <1>9, <1>10, <1>11, <1>12, <1>13,
     <1>14, <1>16, WhoMakes
  DEF Next, Complete, MakeTemplate, Check, ExtendsItself, Cycle, StageEnd, Fail,
      NoBase, Inherit, DeclareMember, TypeMember, Leave, AtBase, AtMember, Running
<1>18. /\ t \in Structs /\ n \in Nat \ {0} /\ Completes(n, t) /\ ~Finished(t)
       /\ isComplete[t] /\ InCompletion(t, i, j) /\ i \in Nat /\ j \in Nat
       /\ \A k : Completes(k, t) => k = n
       /\ Own(t) \in Seq(Member)
  BY <1>17, OwnMoves, Sources
<1>19. ASSUME NEW c, Turns(c), c.op = "complete", c.t = t,
              isComplete' = isComplete,
              \A u \in Structs \ {t} : /\ memberVarDecls'[u] = memberVarDecls[u]
                                       /\ memberTypes'[u] = memberTypes[u]
                                       /\ memberIndices'[u] = memberIndices[u],
              early \subseteq early', early' \subseteq early \cup {t},
              InCompletion(t, c.i, c.j)'
       PROVE  Layouts'
  <2>1. OthersStay(t) /\ (\A k : Completes(k, t)' <=> k = n) /\ stack'[n] = c
    BY <1>17, <1>19, OwnMoves
  <2>2. \A u \in Structs \ {t} : LayoutOf(u)'
    BY <1>2, <1>18, <1>19, <2>1, OtherLayouts
  <2>3. ~Finished(t)'
    BY <2>1 DEF Finished, InProgress, Completes
  <2>4. LayoutOf(t)'
    BY <1>18, <1>19, <2>1, <2>3 DEF LayoutOf
  <2> QED
    BY <2>2, <2>4 DEF Layouts
<1>20. ASSUME isComplete' = isComplete,
              Advance, InCompletion(t, i + 1, 0)',
              \A u \in Structs \ {t} : /\ memberVarDecls'[u] = memberVarDecls[u]
                                       /\ memberTypes'[u] = memberTypes[u]
                                       /\ memberIndices'[u] = memberIndices[u],
              early \subseteq early', early' \subseteq early \cup {t}
       PROVE  Layouts'
  <2>1. PICK c : c = [Top EXCEPT !.i = @ + 1, !.j = 0]
    OBVIOUS
  <2>2. c.op = "complete" /\ c.t = t /\ c.i = i + 1 /\ c.j = 0
    BY <1>17, <2>1, Fields
  <2>3. Turns(c)
    BY <1>17, <1>20, <2>1, Moves
  <2>4. InCompletion(t, c.i, c.j)'
    BY <1>20, <2>2
  <2> QED
    BY <1>19, <1>20, <2>2, <2>3, <2>4
<1>21. Base(t)' = Base(t) /\ Own(t)' = Own(t)
  BY <1>2 DEF Base, Own
<1>22. t \notin early /\ BaseDone(t) => Inherited(t) \in Seq(Member)
  BY DEF BaseDone, Inherited, TypeOK
(* What is laid out grows by a member or a type. *)
<1>23. ASSUME i # 0, t \notin early
       PROVE  /\ BaseDone(t) /\ LaidOut(t, i - 1 + j, i - 1)
              /\ Inherited(t) \in Seq(Member) /\ Len(Inherited(t)) \in Nat
              /\ memberVarDecls[t] \in Seq(Member)
  <2>1. BaseDone(t) /\ LaidOut(t, i - 1 + j, i - 1)
    BY <1>18, <1>23 DEF InCompletion
  <2>2. Inherited(t) \in Seq(Member)
    BY <1>22, <1>23, <2>1
  <2>3. memberVarDecls[t] \in Seq(Member)
    BY <1>18 DEF TypeOK
  <2> HIDE DEF Member, Inherited
  <2> QED
    BY <2>1, <2>2, <2>3
(* The base stays finished, and its layout what it was. *)
<1>24. ASSUME i # 0, t \notin early, early' = early,
              isComplete' = isComplete, OthersStay(t),
              \A u \in Structs \ {t} : memberVarDecls'[u] = memberVarDecls[u]
       PROVE  BaseDone(t)' /\ Inherited(t)' = Inherited(t)
  <2>1. BaseDone(t)
    BY <1>23, <1>24
  <2>2. CASE Base(t) = None
    BY <1>21, <2>2 DEF BaseDone, Inherited
  <2>3. CASE Base(t) # None
    <3>1. PICK e : e = Base(t)
      OBVIOUS
    <3>2. e \in Structs \ {t} /\ e \notin early /\ Finished(e)
      BY <2>1, <2>3, <3>1 DEF BaseDone
    <3>3. Finished(e)'
      BY <1>24, <3>2 DEF Finished, InProgress, OthersStay, Completes
    <3> QED
      BY <1>21, <1>24, <2>3, <3>1, <3>2, <3>3 DEF BaseDone, Inherited
  <2> QED
    BY <2>2, <2>3
<1>25. CASE NoBase
  <2>1. /\ i = 0 /\ Base(t) = None /\ Advance
        /\ UNCHANGED <<isComplete, memberTypes, memberVarDecls, memberIndices, early>>
    BY <1>17, <1>25 DEF NoBase, AtBase, layout
  <2>2. memberVarDecls[t] = <<>> /\ memberTypes[t] = <<>> /\ DOMAIN memberIndices[t] = {}
    BY <1>18, <2>1 DEF InCompletion, Empty
  <2>3. PICK own : own = Own(t) /\ own \in Seq(Member)
    BY <1>18
  <2>4. <<>> \o SubSeq(own, 1, 0) = <<>>
    <3>1. SubSeq(own, 1, 0) = <<>>
      <4> HIDE DEF Member
      <4> QED
        BY <2>3, SubSeqProperties
    <3> QED
      BY <3>1
  <2>5. IndicesFit(<<>>, memberIndices[t])
    BY <2>2 DEF IndicesFit, ToSet
  <2>6. Inherited(t) = <<>>
    BY <2>1 DEF Inherited
  <2>7. LaidOut(t, 0, 0)'
    <3>1. Inherited(t)' = <<>>
      BY <1>21, <2>1 DEF Inherited
    <3>2. memberTypes'[t] = <<>> /\ Len(<<>>) = 0 /\ DOMAIN <<>> = {}
      BY <2>1, <2>2
    <3> QED
      BY <1>21, <2>1, <2>2, <2>3, <2>4, <2>5, <3>1, <3>2 DEF LaidOut
  <2>8. BaseDone(t)'
    BY <1>21, <2>1 DEF BaseDone
  <2>9. InCompletion(t, 1, 0)'
    <3>1. 1 <= Len(Own(t))' + 1
      <4> HIDE DEF Member
      <4> QED
        BY <1>21, <2>3
    <3> QED
      BY <2>7, <2>8, <3>1 DEF InCompletion
  <2>10. InCompletion(t, i + 1, 0)'
    <3>1. i + 1 = 1
      BY <2>1
    <3> QED
      BY <2>9, <3>1
  <2> QED
    BY <1>20, <2>1, <2>10
<1>26. CASE Inherit
  <2>1. PICK e : e = Base(t)
    OBVIOUS
  <2>2. /\ i = 0 /\ e \in Structs \ {t} /\ isComplete[e] /\ Advance
        /\ memberTypes' = [memberTypes EXCEPT ![t] = memberTypes[e]]
        /\ memberVarDecls' = [memberVarDecls EXCEPT ![t] = memberVarDecls[e]]
        /\ memberIndices' = [memberIndices EXCEPT ![t] = memberIndices[e]]
        /\ early' = IF InProgress("complete", e) \/ e \in early
                    THEN early \cup {t} ELSE early
        /\ isComplete' = isComplete
    BY <1>17, <1>26, <2>1 DEF Inherit, AtBase
  <2>3. /\ \A u \in Structs \ {t} : /\ memberVarDecls'[u] = memberVarDecls[u]
                                    /\ memberTypes'[u] = memberTypes[u]
                                    /\ memberIndices'[u] = memberIndices[u]
        /\ memberVarDecls'[t] = memberVarDecls[e] /\ memberTypes'[t] = memberTypes[e]
        /\ memberIndices'[t] = memberIndices[e]
    BY <1>18, <2>2 DEF TypeOK
  <2>4. early \subseteq early' /\ early' \subseteq early \cup {t}
    BY <2>2
  <2>5. PICK own : own = Own(t) /\ own \in Seq(Member) /\ Len(own) \in Nat
    <3> HIDE DEF Member
    <3> QED
      BY <1>18
  <2>6. InCompletion(t, 1, 0)'
    <3>1. 1 <= Len(Own(t))' + 1
      BY <1>21, <2>5
    <3>2. ASSUME t \notin early'
          PROVE  BaseDone(t)' /\ LaidOut(t, 0, 0)'
      <4>1. /\ early' = early /\ e \notin early /\ ~InProgress("complete", e)
            /\ Finished(e)
        BY <2>2, <3>2 DEF Finished
      <4>2. PICK m : m = Len(Own(e))
        OBVIOUS
      <4>3. LaidOut(e, m, m) /\ BaseDone(e)
        BY <2>2, <4>1, <4>2 DEF Layouts, LayoutOf
      <4>4. PICK c : c = [Top EXCEPT !.i = @ + 1, !.j = 0]
        OBVIOUS
      <4>5. c.op = "complete" /\ c.t = t
        BY <1>17, <4>4, Fields
      <4>6. Turns(c)
        BY <1>17, <2>2, <4>4, Moves
      <4>7. OthersStay(t)
        BY <1>17, <4>5, <4>6, OwnMoves
      <4>8. Finished(e)'
        BY <2>2, <4>1, <4>7 DEF Finished, InProgress, OthersStay, Completes
      <4>9. BaseDone(t)'
        BY <1>21, <2>1, <2>2, <4>1, <4>8 DEF BaseDone
      <4>10. PICK inh : inh = memberVarDecls[e] /\ inh \in Seq(Member) /\ Len(inh) \in Nat
        <5>1. memberVarDecls[e] \in Seq(Member)
          BY <2>2 DEF TypeOK
        <5> HIDE DEF Member
        <5> QED
          BY <5>1
      <4>11. Inherited(t)' = inh
        <5>1. e # None
          BY <2>2, StructTypesAssumption
        <5> QED
          BY <1>21, <2>1, <2>2, <2>3, <4>10, <5>1 DEF Inherited
      <4>12. inh \o SubSeq(own, 1, 0) = inh
        <5>1. SubSeq(own, 1, 0) = <<>>
          <6> HIDE DEF Member
          <6> QED
            BY <2>5, SubSeqProperties
        <5>2. inh \o <<>> = inh
          <6> HIDE DEF Member
          <6> QED
            BY <4>10, ConcatEmptySeq
        <5> QED
          BY <5>1, <5>2
      <4>13. Len(memberTypes[e]) = Len(inh)
        <5>1. PICK a, b : a = Inherited(e) /\ b = Own(e)
          OBVIOUS
        <5>2. a \in Seq(Member) /\ b \in Seq(Member)
          BY <2>2, <4>3, <5>1, Sources DEF BaseDone, Inherited, TypeOK
        <5>3. inh = a \o SubSeq(b, 1, m) /\ m = Len(b) /\ Len(memberTypes[e]) = Len(a) + m
          BY <4>2, <4>3, <4>10, <5>1 DEF LaidOut
        <5> HIDE DEF Member
        <5>4. m \in 0..Len(b)
          BY <5>2, <5>3
        <5>5. Len(inh) = Len(a) + m
          BY <5>2, <5>3, <5>4, Behind
        <5> QED
          BY <5>3, <5>5
      <4>14. /\ \A k \in DOMAIN memberTypes[e] : memberTypes[e][k] = TypeOf(inh[k])
             /\ IndicesFit(inh, memberIndices[e])
        BY <4>3, <4>10 DEF LaidOut
      <4>15. LaidOut(t, 0, 0)'
        <5>1. Len(inh) + 0 = Len(inh)
          BY <4>10
        <5> QED
          BY <1>21, <2>3, <2>5, <4>10, <4>11, <4>12, <4>13, <4>14, <5>1 DEF LaidOut
      <4> QED
        BY <4>9, <4>15
    <3> QED
      BY <3>1, <3>2 DEF InCompletion
  <2>7. InCompletion(t, i + 1, 0)'
    <3>1. i + 1 = 1
      BY <2>2
    <3> QED
      BY <2>6, <3>1
  <2> QED
    BY <1>20, <2>2, <2>3, <2>4, <2>7
<1>27. CASE Leave
  <2>1. /\ i > Len(Own(t)) /\ UNCHANGED <<isComplete, layout, early>>
    BY <1>17, <1>27 DEF Leave, layout
  <2>2. PICK m : m = Len(Own(t)) /\ m \in Nat
    <3> HIDE DEF Member
    <3> QED
      BY <1>18
  <2>3. i # 0 /\ i = m + 1 /\ j = 0
    BY <1>18, <2>1, <2>2 DEF InCompletion
  <2>4. OthersStay(t) /\ \A k : ~Completes(k, t)'
    BY <1>17, <1>27, Moves, OwnMoves
  <2>5. \A u \in Structs \ {t} : LayoutOf(u)'
    BY <1>2, <1>18, <2>1, <2>4, OtherLayouts DEF layout
  <2>6. ASSUME t \notin early'
        PROVE  BaseDone(t)' /\ LaidOut(t, Len(Own(t)), Len(Own(t)))'
    <3>1. t \notin early
      BY <2>1, <2>6
    <3>2. BaseDone(t)' /\ Inherited(t)' = Inherited(t)
      BY <1>24, <2>1, <2>3, <2>4, <3>1 DEF layout
    <3>3. i - 1 + j = m /\ i - 1 = m
      BY <2>2, <2>3
    <3>4. LaidOut(t, m, m)
      BY <1>23, <2>3, <3>1, <3>3
    <3>5. LaidOut(t, m, m)'
      BY <1>21, <2>1, <3>2, <3>4 DEF LaidOut, layout
    <3>6. Len(Own(t))' = m
      BY <1>21, <2>2
    <3> QED
      BY <3>2, <3>5, <3>6
  <2>7. LayoutOf(t)'
    BY <1>18, <2>1, <2>4, <2>6 DEF LayoutOf, layout
  <2>8. \A u \in Structs : u = t \/ u \in Structs \ {t}
    OBVIOUS
  <2> QED
    BY <2>5, <2>7, <2>8 DEF Layouts
<1>28. CASE DeclareMember
  <2>1. PICK mem : mem = Own(t)[i]
    OBVIOUS
  <2>2. /\ i \in DOMAIN Own(t) /\ j = 0
        /\ memberVarDecls' = [memberVarDecls EXCEPT ![t] = Append(@, mem)]
        /\ memberIndices' =
              [memberIndices EXCEPT ![t] = IndexOf(t, mem, Len(memberTypes[t]))]
        /\ UNCHANGED <<isComplete, memberTypes, early>>
    BY <1>17, <1>28, <2>1 DEF DeclareMember, AtMember
  <2>3. PICK own : own = Own(t) /\ own \in Seq(Member) /\ Len(own) \in Nat
    <3> HIDE DEF Member
    <3> QED
      BY <1>18
  <2>4. i \in 1..Len(own) /\ mem = own[i] /\ mem \in Member
    BY <2>1, <2>2, <2>3
  <2>5. PICK decls : decls = memberVarDecls[t] /\ decls \in Seq(Member)
    BY <1>18 DEF TypeOK
  <2>6. PICK indices : indices = memberIndices[t]
    OBVIOUS
  <2>7. /\ \A u \in Structs \ {t} : /\ memberVarDecls'[u] = memberVarDecls[u]
                                    /\ memberTypes'[u] = memberTypes[u]
                                    /\ memberIndices'[u] = memberIndices[u]
        /\ memberVarDecls'[t] = Append(decls, mem)
        /\ memberIndices'[t] = IndexOf(t, mem, Len(memberTypes[t]))
        /\ memberTypes'[t] = memberTypes[t]
    BY <1>18, <2>2, <2>5 DEF TypeOK
  <2>8. PICK c : c = [Top EXCEPT !.j = 1]
    OBVIOUS
  <2>9. c.op = "complete" /\ c.t = t /\ c.i = i /\ c.j = 1
    BY <1>17, <2>8, Fields
  <2>10. Turns(c)
    BY <1>17, <1>28, <2>8, Moves
  <2>11. OthersStay(t)
    BY <1>17, <2>9, <2>10, OwnMoves
  <2>12. ASSUME t \notin early'
         PROVE  BaseDone(t)' /\ LaidOut(t, i - 1 + 1, i - 1)'
    <3>1. t \notin early /\ i # 0 /\ early' = early
      BY <2>2, <2>4, <2>12
    <3>2. BaseDone(t)' /\ Inherited(t)' = Inherited(t)
      BY <1>24, <2>2, <2>7, <2>11, <3>1
    <3>3. PICK d : d = i - 1 /\ d \in 0..Len(own) /\ d + 1 = i /\ d + 0 = d
      BY <2>3, <2>4
    <3>4. PICK inh : inh = Inherited(t) /\ inh \in Seq(Member) /\ Len(inh) \in Nat
      BY <1>23, <3>1
    <3>5. LaidOut(t, d, d)
      <4>1. i - 1 + j = d /\ i - 1 = d
        BY <2>2, <3>3
      <4> QED
        BY <1>23, <3>1, <4>1
    <3>6. /\ decls = inh \o SubSeq(own, 1, d)
          /\ Len(memberTypes[t]) = Len(inh) + d
          /\ \A k \in DOMAIN memberTypes[t] : memberTypes[t][k] = TypeOf(decls[k])
          /\ IndicesFit(decls, indices)
      BY <2>3, <2>5, <2>6, <3>4, <3>5 DEF LaidOut
    <3> HIDE DEF Member
    <3>7. Len(decls) = Len(inh) + d /\ Len(decls) \in Nat
      BY <2>3, <2>5, <3>3, <3>4, <3>6, Behind
    <3>8. inh \o SubSeq(own, 1, d + 1) = Append(decls, mem)
      <4>1. d + 1 <= Len(own)
        BY <2>3, <2>4, <3>3
      <4>2. inh \o SubSeq(own, 1, d + 1) = Append(inh \o SubSeq(own, 1, d), own[d + 1])
        <5>1. \A a, b \in Seq(Member) : \A e \in 0..Len(b) :
                 e + 1 <= Len(b) =>
                 a \o SubSeq(b, 1, e + 1) = Append(a \o SubSeq(b, 1, e), b[e + 1])
          BY Behind
        <5>2. /\ inh \in Seq(Member) /\ own \in Seq(Member) /\ d \in 0..Len(own)
              /\ d + 1 <= Len(own)
          BY <2>3, <3>3, <3>4, <4>1
        <5> QED
          BY <5>1, <5>2, Zenon
      <4> QED
        BY <2>4, <3>3, <3>6, <4>2
    <3>9. PICK more : more = Append(decls, mem)
      OBVIOUS
    <3>10. /\ more \in Seq(Member) /\ \A k \in 1..Len(decls) : more[k] = decls[k]
      BY <2>4, <2>5, <3>9, AppendProperties
    <3>11. PICK f : f = [m \in DOMAIN indices \cup {mem.name} |->
                            IF m = mem.name THEN Len(decls) ELSE indices[m]]
      OBVIOUS
    <3>12. IndicesFit(more, f)
      BY <2>4, <2>5, <3>6, <3>9, <3>11, IndicesGrow
    <3>13. memberIndices'[t] = f
      BY <2>6, <2>7, <3>6, <3>7, <3>11 DEF IndexOf
    <3>14. \A k \in DOMAIN memberTypes[t] : memberTypes[t][k] = TypeOf(more[k])
      <4>1. memberTypes[t] \in Seq((Sized \cup Indirect) \X Seq(Structs))
        BY <1>18 DEF TypeOK
      <4>2. DOMAIN memberTypes[t] = 1..Len(memberTypes[t])
        BY <4>1
      <4>3. \A k \in DOMAIN memberTypes[t] : k \in 1..Len(decls)
        BY <3>6, <3>7, <4>2
      <4> QED
        BY <3>6, <3>10, <4>3
    <3>15. LaidOut(t, d + 1, d)'
      BY <1>21, <2>3, <2>7, <3>2, <3>4, <3>6, <3>8, <3>9, <3>12, <3>13, <3>14 DEF LaidOut
    <3> QED
      BY <3>2, <3>3, <3>15
  <2>13. InCompletion(t, i, 1)'
    <3>1. i # 0 /\ i <= Len(own) /\ i <= Len(own) + 1 /\ Len(Own(t))' = Len(own)
      BY <1>21, <2>3, <2>4
    <3> QED
      BY <2>12, <3>1 DEF InCompletion
  <2>14. InCompletion(t, c.i, c.j)'
    BY <2>9, <2>13
  <2> QED
    BY <1>19, <2>2, <2>7, <2>9, <2>10, <2>14
<1>29. CASE TypeMember
  <2>1. PICK ty : ty = TypeOf(Own(t)[i])
    OBVIOUS
  <2>2. /\ i \in DOMAIN Own(t) /\ j = 1 /\ Advance
        /\ memberTypes' = [memberTypes EXCEPT ![t] = Append(@, ty)]
        /\ UNCHANGED <<isComplete, memberVarDecls, memberIndices, early>>
    BY <1>17, <1>29, <2>1 DEF TypeMember, AtMember
  <2>3. PICK own : own = Own(t) /\ own \in Seq(Member) /\ Len(own) \in Nat
    <3> HIDE DEF Member
    <3> QED
      BY <1>18
  <2>4. i \in 1..Len(own) /\ ty = TypeOf(own[i])
    BY <2>1, <2>2, <2>3
  <2>5. PICK T, types : /\ T = (Sized \cup Indirect) \X Seq(Structs)
                        /\ types = memberTypes[t]
    OBVIOUS
  <2>6. types \in Seq(T) /\ Len(types) \in Nat
    <3>1. types \in Seq(T)
      BY <1>18, <2>5 DEF TypeOK
    <3> QED
      BY <3>1
  <2>7. /\ \A u \in Structs \ {t} : /\ memberVarDecls'[u] = memberVarDecls[u]
                                    /\ memberTypes'[u] = memberTypes[u]
                                    /\ memberIndices'[u] = memberIndices[u]
        /\ memberTypes'[t] = Append(types, ty)
        /\ memberVarDecls'[t] = memberVarDecls[t] /\ memberIndices'[t] = memberIndices[t]
    BY <1>18, <2>2, <2>5 DEF TypeOK
  <2>8. OthersStay(t)
    <3>1. PICK c : c = [Top EXCEPT !.i = @ + 1, !.j = 0]
      OBVIOUS
    <3>2. c.op = "complete" /\ c.t = t
      BY <1>17, <3>1, Fields
    <3>3. Turns(c)
      BY <1>17, <2>2, <3>1, Moves
    <3> QED
      BY <1>17, <3>2, <3>3, OwnMoves
  <2>9. ASSUME t \notin early'
        PROVE  BaseDone(t)' /\ LaidOut(t, i, i)'
    <3>1. t \notin early /\ i # 0 /\ early' = early
      BY <2>2, <2>4, <2>9
    <3>2. BaseDone(t)' /\ Inherited(t)' = Inherited(t)
      BY <1>24, <2>2, <2>7, <2>8, <3>1
    <3>3. PICK inh : inh = Inherited(t) /\ inh \in Seq(Member) /\ Len(inh) \in Nat
      BY <1>23, <3>1
    <3>4. PICK d : d = i - 1 /\ d + 1 = i
      BY <2>4
    <3>5. LaidOut(t, i, d)
      <4>1. i - 1 + j = i /\ i - 1 = d
        BY <2>2, <2>4, <3>4
      <4> QED
        BY <1>23, <3>1, <4>1
    <3>6. PICK decls : decls = memberVarDecls[t]
      OBVIOUS
    <3>7. /\ decls = inh \o SubSeq(own, 1, i)
          /\ Len(types) = Len(inh) + d
          /\ \A k \in DOMAIN types : types[k] = TypeOf(decls[k])
          /\ IndicesFit(decls, memberIndices[t])
      BY <2>3, <2>5, <3>3, <3>5, <3>6 DEF LaidOut
    <3>8. decls[Len(inh) + i] = own[i]
      <4>1. i \in 0..Len(own) /\ i \in 1..i
        BY <2>3, <2>4
      <4> HIDE DEF Member
      <4> QED
        BY <2>3, <3>3, <3>7, <4>1, Behind
    <3>9. PICK more : more = Append(types, ty)
      OBVIOUS
    <3>10. /\ Len(more) = Len(types) + 1 /\ more[Len(types) + 1] = ty
           /\ DOMAIN more = 1..(Len(types) + 1)
           /\ DOMAIN types = 1..Len(types)
           /\ \A k \in 1..Len(types) : more[k] = types[k]
      BY <2>6, <3>9
    <3>11. Len(types) + 1 = Len(inh) + i
      BY <2>4, <2>6, <3>3, <3>4, <3>7
    <3>12. ASSUME NEW k \in DOMAIN more
           PROVE  more[k] = TypeOf(decls[k])
      <4>1. CASE k = Len(types) + 1
        BY <2>4, <3>8, <3>10, <3>11, <4>1
      <4>2. CASE k \in 1..Len(types)
        BY <3>7, <3>10, <4>2
      <4> QED
        BY <2>6, <3>10, <3>12, <4>1, <4>2
    <3>13. LaidOut(t, i, i)'
      BY <1>21, <2>3, <2>7, <3>2, <3>3, <3>6, <3>7, <3>9, <3>10, <3>11, <3>12 DEF LaidOut
    <3> QED
      BY <3>2, <3>13
  <2>10. InCompletion(t, i + 1, 0)'
    <3>1. /\ i + 1 # 0 /\ i + 1 <= Len(own) + 1 /\ Len(Own(t))' = Len(own)
          /\ i + 1 - 1 + 0 = i /\ i + 1 - 1 = i
      BY <1>21, <2>3, <2>4
    <3>3. PICK m : m = i + 1
      OBVIOUS
    <3>4. /\ m # 0 /\ m <= Len(Own(t))' + 1 /\ 0 \in {0, 1} /\ 0 # 1
          /\ t \notin early' => BaseDone(t)' /\ LaidOut(t, m - 1 + 0, m - 1)'
      <4>1. t \notin early' => BaseDone(t)' /\ LaidOut(t, m - 1 + 0, m - 1)'
        <5>1. m - 1 + 0 = i /\ m - 1 = i
          BY <2>3, <2>4, <3>3
        <5> QED
          BY <2>9, <5>1 DEF LaidOut
      <4>2. m # 0 /\ m <= Len(Own(t))' + 1
        BY <3>1, <3>3
      <4> QED
        BY <4>1, <4>2
    <3>5. InCompletion(t, m, 0)'
      BY <3>4 DEF InCompletion, Zenon
    <3> QED
      BY <3>3, <3>5, Zenon
  <2> QED
    BY <1>20, <2>2, <2>7, <2>10
<1> QED
  BY <1>17, <1>25, <1>26, <1>27, <1>28, <1>29

(* The inductive invariant of the stage and of the layouts. *)
IInv == TypeOK /\ Nested /\ StageInv /\ Layouts

(* Every step keeps it: see TypeStep, NestedStep, StageStep, LayoutStep. *)
THEOREM StructTypesInductive == Spec => []IInv
<1>1. Init => IInv
  BY InitTypeOK, InitNested, InitStage, InitLayouts DEF IInv
<1>2. ASSUME IInv, [Next]_vars
      PROVE  IInv'
  <2>1. TypeOK'
    BY <1>2, TypeStep DEF IInv
  <2>2. Nested' /\ StageInv' /\ Layouts'
    BY <1>2, <2>1, NestedStep, StageStep, LayoutStep DEF IInv
  <2> QED
    BY <2>1, <2>2 DEF IInv
<1> QED
  BY <1>1, <1>2, PTL DEF Spec

(* A finished struct has all its own members laid out. *)
LEMMA LayoutsFromInv == IInv => LayoutFollowsBase
<1> SUFFICES ASSUME IInv, NEW t \in Structs \ early, Finished(t)
             PROVE  LET inherited == IF Base(t) = None THEN <<>> ELSE memberVarDecls[Base(t)]
                    IN /\ memberVarDecls[t] = inherited \o Own(t)
                       /\ DOMAIN memberTypes[t] = DOMAIN memberVarDecls[t]
                       /\ DOMAIN memberIndices[t] =
                             {mem.name : mem \in ToSet(memberVarDecls[t])}
                       /\ \A k \in DOMAIN memberVarDecls[t] :
                             /\ memberTypes[t][k] = TypeOf(memberVarDecls[t][k])
                             /\ LastOfItsName(memberVarDecls[t], k) =>
                                   memberIndices[t][memberVarDecls[t][k].name] = k - 1
  BY DEF LayoutFollowsBase
<1>1. TypeOK /\ LayoutOf(t)
  BY DEF IInv, Layouts
<1>2. PICK own, decls, types, inherited :
         /\ own = Own(t) /\ decls = memberVarDecls[t] /\ types = memberTypes[t]
         /\ inherited = Inherited(t)
  OBVIOUS
<1>3. own \in Seq(Member) /\ Len(own) \in Nat
  <2>1. own \in Seq(Member)
    BY <1>1, <1>2, Sources
  <2> HIDE DEF Member
  <2> QED
    BY <2>1
<1>4. LaidOut(t, Len(own), Len(own)) /\ BaseDone(t)
  BY <1>1, <1>2 DEF LayoutOf
<1>5. inherited \in Seq(Member) /\ Len(inherited) \in Nat
  <2>1. inherited \in Seq(Member)
    <3>1. Base(t) # None => memberVarDecls[Base(t)] \in Seq(Member)
      BY <1>1, Sources DEF TypeOK
    <3>2. <<>> \in Seq(Member)
      OBVIOUS
    <3> QED
      BY <1>2, <3>1, <3>2 DEF Inherited
  <2> HIDE DEF Member
  <2> QED
    BY <2>1
<1>6. SubSeq(own, 1, Len(own)) = own
  <2> HIDE DEF Member
  <2> QED
    BY <1>3, SubSeqFull
<1>7. /\ decls = inherited \o own
      /\ Len(types) = Len(inherited) + Len(own)
      /\ \A k \in DOMAIN types : types[k] = TypeOf(decls[k])
      /\ IndicesFit(decls, memberIndices[t])
  BY <1>2, <1>4, <1>6 DEF LaidOut
<1>8. DOMAIN types = DOMAIN decls
  <2>1. types \in Seq((Sized \cup Indirect) \X Seq(Structs))
    BY <1>1, <1>2 DEF TypeOK
  <2>2. DOMAIN types = 1..Len(types)
    BY <2>1
  <2>3. DOMAIN decls = 1..(Len(inherited) + Len(own))
    <3> HIDE DEF Member
    <3> QED
      BY <1>3, <1>5, <1>7
  <2> QED
    BY <1>7, <2>2, <2>3
<1> QED
  BY <1>2, <1>7, <1>8 DEF IndicesFit, Inherited

(* StructType::complete: the layout of a finished struct is its base's and *)
(* then its own members, each indexed where its type is, whatever order    *)
(* the types were met in and whatever templates were made meanwhile.       *)
THEOREM LayoutsFollow == Spec => []LayoutFollowsBase
BY StructTypesInductive, LayoutsFromInv, PTL

(* With no call in progress and nothing pending, every type is complete. *)
LEMMA StageFromInv == IInv => StageCompletes
<1> SUFFICES ASSUME IInv, outcome = "done"
             PROVE  /\ \A t \in (Structs \ Instances) \cup made : Finished(t)
                    /\ made = ToSet(deferredAST) /\ IsInjective(deferredAST)
  BY DEF StageCompletes
<1>1. Accounted /\ MadeOnce /\ stack = <<>> /\ pending = {}
  BY DEF IInv, StageInv, Ended
<1>2. \A op, t : ~InProgress(op, t)
  BY <1>1 DEF InProgress
<1>3. \A t \in (Structs \ Instances) \cup made : Finished(t)
  BY <1>1, <1>2 DEF Accounted, Finished
<1>4. made = ToSet(deferredAST)
  BY <1>1, <1>2 DEF MadeOnce
<1>5. IsInjective(deferredAST)
  BY <1>1 DEF MadeOnce, IsInjective
<1> QED
  BY <1>3, <1>4, <1>5

(* FrontEnd::TypesStage leaves no type without its layout and hands every  *)
(* instance of a template, exactly once, to the analysis.                  *)
THEOREM TheStageCompletes == Spec => []StageCompletes
BY StructTypesInductive, StageFromInv, PTL

-----------------------------------------------------------------------------
(***************************************************************************)
(* For every program: a check for circular types that fails has met a      *)
(* cycle and one that ends without an error has left none behind.          *)
(*                                                                         *)
(* The argument: what a check has left behind lies on no cycle, but for    *)
(* the types that may still grow.  Those depend on no more than a type     *)
(* that a call above the check has opened, and that type is checked in a   *)
(* search of its own before the check goes on.                             *)
(***************************************************************************)

-----------------------------------------------------------------------------
(* Cycles in a graph, some of whose nodes are left out. *)

(* Graphs of types: d gives the types each one depends on.  A type is safe *)
(* but for the types of G when nothing reachable from it, not looking past *)
(* the types of G, lies on a cycle.                                        *)
Closed(d, Z, G) == \A z \in Z \ G : d[z] \subseteq Z
Sinks(d, S) == \A X \in SUBSET S : X # {} => \E x \in X : d[x] \cap X = {}
Shows(d, Z, G) == Z \subseteq Structs /\ Closed(d, Z, G) /\ Sinks(d, Z \ G)
Safe(d, G) == {v \in Structs : \E Z \in SUBSET Structs : v \in Z /\ Shows(d, Z, G)}

(* The safe types are themselves such a set, the greatest. *)
LEMMA SafeShows ==
    ASSUME NEW d, NEW G
    PROVE  /\ Shows(d, Safe(d, G), G)
           /\ \A Z : Shows(d, Z, G) => Z \subseteq Safe(d, G)
<1>1. \A Z : Shows(d, Z, G) => Z \subseteq Safe(d, G)
  BY DEF Safe, Shows
<1>2. Closed(d, Safe(d, G), G)
  <2> SUFFICES ASSUME NEW z \in Safe(d, G), z \notin G
               PROVE  d[z] \subseteq Safe(d, G)
    BY DEF Closed
  <2>1. PICK Z \in SUBSET Structs : z \in Z /\ Shows(d, Z, G)
    BY DEF Safe
  <2>2. d[z] \subseteq Z
    BY <2>1 DEF Shows, Closed
  <2> QED
    BY <1>1, <2>1, <2>2
<1>3. Sinks(d, Safe(d, G) \ G)
  <2> SUFFICES ASSUME NEW X \in SUBSET (Safe(d, G) \ G), NEW x \in X
               PROVE  \E y \in X : d[y] \cap X = {}
    BY DEF Sinks
  <2>1. PICK Z \in SUBSET Structs : x \in Z /\ Shows(d, Z, G)
    BY DEF Safe
  <2>2. PICK Y : Y = X \cap Z
    OBVIOUS
  <2>3. Y \in SUBSET (Z \ G) /\ Y # {}
    BY <2>1, <2>2
  <2>4. PICK y \in Y : d[y] \cap Y = {}
    BY <2>1, <2>3 DEF Shows, Sinks
  <2>5. d[y] \subseteq Z
    BY <2>1, <2>3, <2>4 DEF Shows, Closed
  <2> QED
    BY <2>2, <2>4, <2>5
<1> QED
  BY <1>1, <1>2, <1>3 DEF Shows, Safe

(* Types can grow, if the growing ones are left out. *)
LEMMA SafeFrame ==
    ASSUME NEW d, NEW e, NEW G, NEW H, G \subseteq H,
           \A z \in Structs \ H : e[z] = d[z]
    PROVE  Safe(d, G) \subseteq Safe(e, H)
<1>1. PICK Z : Z = Safe(d, G)
  OBVIOUS
<1>2. Z \subseteq Structs /\ Closed(d, Z, G) /\ Sinks(d, Z \ G)
  BY <1>1, SafeShows DEF Shows
<1>3. Closed(e, Z, H)
  BY <1>2 DEF Closed
<1>4. Sinks(e, Z \ H)
  <2> SUFFICES ASSUME NEW X \in SUBSET (Z \ H), X # {}
               PROVE  \E x \in X : e[x] \cap X = {}
    BY DEF Sinks
  <2>1. PICK x \in X : d[x] \cap X = {}
    BY <1>2 DEF Sinks
  <2>2. e[x] = d[x]
    BY <1>2
  <2> QED
    BY <2>1, <2>2
<1>5. Shows(e, Z, H)
  BY <1>2, <1>3, <1>4 DEF Shows
<1> QED
  BY <1>1, <1>5, SafeShows

(* A type that depends on safe types only is safe. *)
LEMMA SafeNode ==
    ASSUME NEW d, NEW G, NEW v \in Structs, d[v] \subseteq Safe(d, G)
    PROVE  v \in Safe(d, G)
<1>1. PICK S : S = Safe(d, G)
  OBVIOUS
<1>2. S \subseteq Structs /\ Closed(d, S, G) /\ Sinks(d, S \ G)
  BY <1>1, SafeShows DEF Shows
<1> SUFFICES ASSUME v \notin S PROVE FALSE
  BY <1>1
<1>3. Closed(d, S \cup {v}, G)
  BY <1>1, <1>2 DEF Closed
<1>4. Sinks(d, (S \cup {v}) \ G)
  <2> SUFFICES ASSUME NEW X \in SUBSET ((S \cup {v}) \ G), X # {}
               PROVE  \E x \in X : d[x] \cap X = {}
    BY DEF Sinks
  <2>1. CASE X \cap S = {}
    <3>1. v \in X /\ X = {v} /\ v \notin d[v]
      BY <1>1, <2>1
    <3> QED
      BY <3>1
  <2>2. CASE X \cap S # {}
    <3>1. X \cap S \in SUBSET (S \ G)
      OBVIOUS
    <3>2. PICK y \in X \cap S : d[y] \cap (X \cap S) = {}
      BY <1>2, <2>2, <3>1 DEF Sinks
    <3>3. d[y] \subseteq S
      BY <1>2, <3>1, <3>2 DEF Closed
    <3> QED
      BY <3>2, <3>3
  <2> QED
    BY <2>1, <2>2
<1>5. Shows(d, S \cup {v}, G)
  BY <1>2, <1>3, <1>4 DEF Shows
<1> QED
  BY <1>1, <1>5, SafeShows

(* Types left out need not be once they depend on no more than a safe one. *)
LEMMA SafeOver ==
    ASSUME NEW d, NEW G, NEW H, H \subseteq G, G \subseteq Structs,
           NEW v \in Safe(d, {}),
           \A e \in G \ H : d[e] \subseteq d[v]
    PROVE  Safe(d, G) \subseteq Safe(d, H)
<1>1. PICK S : S = Safe(d, H)
  OBVIOUS
<1>2. S \subseteq Structs /\ Closed(d, S, H) /\ Sinks(d, S \ H)
  BY <1>1, SafeShows DEF Shows
<1>3. d[v] \subseteq S
  <2>1. Closed(d, Safe(d, {}), {})
    BY SafeShows DEF Shows
  <2>2. Safe(d, {}) \subseteq S
    BY <1>1, SafeFrame
  <2> QED
    BY <2>1, <2>2 DEF Closed
<1>4. G \ H \subseteq S
  <2> SUFFICES ASSUME NEW e \in G \ H PROVE e \in S
    OBVIOUS
  <2>1. d[e] \subseteq S /\ e \in Structs
    BY <1>3
  <2> QED
    BY <1>1, <2>1, SafeNode
<1>5. PICK Z : Z = Safe(d, G)
  OBVIOUS
<1>6. Z \subseteq Structs /\ Closed(d, Z, G) /\ Sinks(d, Z \ G)
  BY <1>5, SafeShows DEF Shows
<1>7. Closed(d, Z \cup S, H)
  BY <1>2, <1>4, <1>6 DEF Closed
<1>8. Sinks(d, (Z \cup S) \ H)
  <2> SUFFICES ASSUME NEW X \in SUBSET ((Z \cup S) \ H), X # {}
               PROVE  \E x \in X : d[x] \cap X = {}
    BY DEF Sinks
  <2>1. CASE X \cap S = {}
    <3>1. X \in SUBSET (Z \ G)
      BY <1>4, <2>1
    <3> QED
      BY <1>6, <3>1 DEF Sinks
  <2>2. CASE X \cap S # {}
    <3>1. X \cap S \in SUBSET (S \ H)
      OBVIOUS
    <3>2. PICK y \in X \cap S : d[y] \cap (X \cap S) = {}
      BY <1>2, <2>2, <3>1 DEF Sinks
    <3>3. d[y] \subseteq S
      BY <1>2, <3>1, <3>2 DEF Closed
    <3> QED
      BY <3>2, <3>3
  <2> QED
    BY <2>1, <2>2
<1>9. Shows(d, Z \cup S, H)
  BY <1>2, <1>6, <1>7, <1>8 DEF Shows
<1> QED
  BY <1>1, <1>5, <1>9, SafeShows

(* A type on a cycle is not safe. *)
LEMMA CycleUnsafe ==
    ASSUME NEW d, NEW C, \A x \in C : d[x] \cap C # {}
    PROVE  C \cap Safe(d, {}) = {}
<1>1. PICK X : X = C \cap Safe(d, {})
  OBVIOUS
<1> SUFFICES ASSUME X # {} PROVE FALSE
  BY <1>1
<1>2. Closed(d, Safe(d, {}), {}) /\ Sinks(d, Safe(d, {}) \ {})
  BY SafeShows DEF Shows
<1>3. X \in SUBSET (Safe(d, {}) \ {})
  BY <1>1
<1>4. PICK x \in X : d[x] \cap X = {}
  BY <1>2, <1>3 DEF Sinks
<1>5. d[x] \subseteq Safe(d, {})
  BY <1>1, <1>2, <1>4 DEF Closed
<1> QED
  BY <1>1, <1>4, <1>5

(* The search, for layouts m, bases ext and a stack s. *)
Deps(m, t) == UNION {ToSet(Terms(mem)) : mem \in ToSet(m[t])}
Graph(m) == [t \in Structs |-> Deps(m, t)]
IsStep(call) == call.op = "check" /\ ~IsRoot(call)

(* A call that may let a type grow, or is still to check it, opens it.     *)
Opened(ext, call) ==
    IF call.op = "complete"
    THEN {call.t} \cup (IF call.i = 0 THEN {ext[call.t]} \cap Structs ELSE {})
    ELSE IF call.op = "call_check" \/ IsRoot(call) THEN {call.t} ELSE {}

OpenAbove(ext, s, k) ==
    {y \in Structs : \E l \in DOMAIN s : l > k /\ y \in Opened(ext, s[l])}

(* What depends on no more than a type the calls above k have opened is    *)
(* left out of what the check k knows.                                     *)
Growing(ext, m, s, k) ==
    {e \in Structs : \E y \in OpenAbove(ext, s, k) : Deps(m, e) \subseteq Deps(m, y)}
SafeAt(ext, m, s, k) == Safe(Graph(m), Growing(ext, m, s, k))

AtPlace(m, call) ==
    /\ call.i \in 1..(Len(m[call.t]) + 1) /\ call.j >= 1
    /\ call.i = Len(m[call.t]) + 1 => call.j = 1

(* Each type on the path leads to the next. *)
OnPath(m, s, k) ==
    /\ IsStep(s[k]) => k > 1 /\ s[k].t \in Deps(m, s[k - 1].t)
    /\ \A p \in s[k].path : \E l \in 1..k : /\ s[l].t = p
                                            /\ \A x \in (l + 1)..k : IsStep(s[x])

Before(a, b, call) == a < call.i \/ (a = call.i /\ b < call.j)
Enters(s, k, t) == k \in DOMAIN s /\ IsStep(s[k]) /\ s[k].t = t

TermsDone(m, s, k, known) ==
    \A a \in DOMAIN m[s[k].t] : \A b \in DOMAIN Terms(m[s[k].t][a]) :
        Before(a, b, s[k]) =>
            \/ Terms(m[s[k].t][a])[b] \in known
            \/ Enters(s, k + 1, Terms(m[s[k].t][a])[b])

(* What a check has visited and left, and the terms it has passed, are     *)
(* safe but for the types that grow meanwhile.                             *)
CheckAt(ext, m, s, k) ==
    /\ AtPlace(m, s[k]) /\ OnPath(m, s, k)
    /\ s[k].visited \ s[k].path \subseteq SafeAt(ext, m, s, k)
    /\ TermsDone(m, s, k, SafeAt(ext, m, s, k))

Searches(ext, m, s) == \A k \in DOMAIN s : s[k].op = "check" => CheckAt(ext, m, s, k)

Grows(m, n) == \A t \in Structs : /\ Len(m[t]) <= Len(n[t])
                                  /\ \A a \in 1..Len(m[t]) : n[t][a] = m[t][a]

(* What a type depends on can only grow with its layout. *)
LEMMA DepsGrow ==
    ASSUME NEW m \in [Structs -> Seq(Member)], NEW n \in [Structs -> Seq(Member)],
           Grows(m, n), NEW t \in Structs
    PROVE  Deps(m, t) \subseteq Deps(n, t)
<1>1. m[t] \in Seq(Member) /\ n[t] \in Seq(Member)
  OBVIOUS
<1>2. ToSet(m[t]) \subseteq ToSet(n[t])
  <2> HIDE DEF Member
  <2>1. PICK a, b : a = m[t] /\ b = n[t]
    OBVIOUS
  <2>2. a \in Seq(Member) /\ b \in Seq(Member) /\ Len(a) <= Len(b)
        /\ \A i \in 1..Len(a) : b[i] = a[i]
    BY <1>1, <2>1 DEF Grows
  <2>3. \A i \in DOMAIN a : i \in DOMAIN b /\ b[i] = a[i]
    <3>1. /\ DOMAIN a = 1..Len(a) /\ DOMAIN b = 1..Len(b)
          /\ Len(a) \in Nat /\ Len(b) \in Nat
      BY <2>2
    <3>2. \A i \in 1..Len(a) : i \in 1..Len(b)
      BY <2>2, <3>1
    <3> QED
      BY <2>2, <3>1, <3>2
  <2>4. ToSet(a) \subseteq ToSet(b)
    BY <2>3 DEF ToSet
  <2> QED
    BY <2>1, <2>4
<1> QED
  BY <1>2 DEF Deps

(* A check knows as much afterwards, if the open types stay open, or are   *)
(* covered by others, and only open ones grow.                             *)
LEMMA Covered ==
    ASSUME NEW m \in [Structs -> Seq(Member)], NEW n \in [Structs -> Seq(Member)],
           Grows(m, n), NEW ext, NEW s, NEW u, NEW k,
           \A z \in Structs : n[z] # m[z] => z \in OpenAbove(ext, u, k),
           \A y \in OpenAbove(ext, s, k) :
              \E z \in OpenAbove(ext, u, k) : Deps(m, y) \subseteq Deps(n, z)
    PROVE  SafeAt(ext, m, s, k) \subseteq SafeAt(ext, n, u, k)
<1>1. \A z \in Structs : n[z] = m[z] => Deps(n, z) = Deps(m, z)
  BY DEF Deps
<1>2. \A z \in OpenAbove(ext, u, k) : z \in Growing(ext, n, u, k)
  BY DEF OpenAbove, Growing
<1>3. Growing(ext, m, s, k) \subseteq Growing(ext, n, u, k)
  <2> SUFFICES ASSUME NEW e \in Growing(ext, m, s, k)
               PROVE  e \in Growing(ext, n, u, k)
    OBVIOUS
  <2>1. e \in Structs
    BY DEF Growing
  <2>2. CASE n[e] # m[e]
    BY <1>2, <2>1, <2>2
  <2>3. CASE n[e] = m[e]
    <3>1. PICK y \in OpenAbove(ext, s, k) : Deps(m, e) \subseteq Deps(m, y)
      BY DEF Growing
    <3>2. PICK z \in OpenAbove(ext, u, k) : Deps(m, y) \subseteq Deps(n, z)
      OBVIOUS
    <3>3. Deps(n, e) \subseteq Deps(n, z)
      BY <1>1, <2>1, <2>3, <3>1, <3>2
    <3> QED
      BY <2>1, <3>3 DEF Growing
  <2> QED
    BY <2>2, <2>3
<1>4. \A z \in Structs \ Growing(ext, n, u, k) : Graph(n)[z] = Graph(m)[z]
  <2> SUFFICES ASSUME NEW z \in Structs \ Growing(ext, n, u, k)
               PROVE  Graph(n)[z] = Graph(m)[z]
    OBVIOUS
  <2>1. n[z] = m[z]
    BY <1>2
  <2> QED
    BY <1>1, <2>1 DEF Graph
<1> QED
  BY <1>3, <1>4, SafeFrame DEF SafeAt

(* A path stays a path. *)
LEMMA PathStays ==
    ASSUME NEW m \in [Structs -> Seq(Member)], NEW n \in [Structs -> Seq(Member)],
           Grows(m, n), NEW s \in Seq(Calls), NEW u \in Seq(Calls),
           NEW k \in DOMAIN s, k \in DOMAIN u, OnPath(m, s, k),
           \A l \in 1..k : u[l].op = s[l].op /\ u[l].t = s[l].t /\ u[l].path = s[l].path
    PROVE  OnPath(n, u, k)
<1>1. k \in Nat /\ k >= 1 /\ \A l \in 1..k : l \in DOMAIN s /\ l \in DOMAIN u
  <2> HIDE DEF Calls
  <2> QED
    OBVIOUS
<1>2. \A l \in 1..k : IsStep(u[l]) <=> IsStep(s[l])
  BY DEF IsStep, IsRoot
<1>3. \A l \in 1..k : s[l].t \in Structs
  <2>1. \A l \in 1..k : s[l] \in Calls
    <3> HIDE DEF Calls
    <3> QED
      BY <1>1
  <2> QED
    BY <2>1 DEF Calls
<1>4. ASSUME IsStep(u[k])
      PROVE  k > 1 /\ u[k].t \in Deps(n, u[k - 1].t)
  <2>1. k > 1 /\ s[k].t \in Deps(m, s[k - 1].t)
    BY <1>1, <1>2, <1>4 DEF OnPath
  <2>2. k - 1 \in 1..k /\ k \in 1..k
    BY <1>1, <2>1
  <2>3. Deps(m, s[k - 1].t) \subseteq Deps(n, s[k - 1].t)
    BY <1>3, <2>2, DepsGrow
  <2> QED
    BY <2>1, <2>2, <2>3
<1>5. ASSUME NEW p \in u[k].path
      PROVE  \E l \in 1..k : u[l].t = p /\ \A x \in (l + 1)..k : IsStep(u[x])
  <2>1. p \in s[k].path
    <3>1. k \in 1..k
      BY <1>1
    <3> QED
      BY <3>1
  <2>2. PICK l \in 1..k : s[l].t = p /\ \A x \in (l + 1)..k : IsStep(s[x])
    BY <2>1 DEF OnPath
  <2>3. \A x \in (l + 1)..k : x \in 1..k
    BY <1>1
  <2> QED
    BY <1>2, <2>2, <2>3
<1> QED
  BY <1>4, <1>5 DEF OnPath

(* A term of a type that has grown is one it had, or comes after them. *)
LEMMA TermsStay ==
    ASSUME NEW m \in [Structs -> Seq(Member)], NEW n \in [Structs -> Seq(Member)],
           Grows(m, n), NEW call \in Calls, AtPlace(m, call),
           NEW a \in DOMAIN n[call.t], NEW b \in DOMAIN Terms(n[call.t][a]),
           Before(a, b, call)
    PROVE  a \in DOMAIN m[call.t] /\ n[call.t][a] = m[call.t][a]
<1>1. call.t \in Structs /\ call.i \in Nat /\ call.j \in Nat
  BY DEF Calls
<1>2. PICK M, N : M = m[call.t] /\ N = n[call.t]
  OBVIOUS
<1>3. M \in Seq(Member) /\ N \in Seq(Member)
  BY <1>1, <1>2
<1>4. N[a] \in Member
  <2> HIDE DEF Member
  <2> QED
    BY <1>2, <1>3
<1>5. b \in Nat \ {0}
  <2>1. Terms(N[a]) \in Seq(Structs)
    <3>1. <<>> \in Seq(Structs)
      OBVIOUS
    <3> QED
      BY <1>4, <3>1 DEF Terms, Member
  <2> QED
    BY <1>2, <2>1
<1>6. a \in Nat \ {0} /\ DOMAIN M = 1..Len(M) /\ Len(M) \in Nat
  <2> HIDE DEF Member
  <2> QED
    BY <1>2, <1>3
<1>7. a \in 1..Len(M)
  BY <1>1, <1>2, <1>5, <1>6 DEF AtPlace, Before
<1> QED
  BY <1>1, <1>2, <1>6, <1>7 DEF Grows

(* A check that is not the innermost call stays right. *)
LEMMA CheckStays ==
    ASSUME NEW m \in [Structs -> Seq(Member)], NEW n \in [Structs -> Seq(Member)],
           Grows(m, n), NEW ext, NEW s \in Seq(Calls), NEW u \in Seq(Calls),
           NEW k \in DOMAIN s, k \in DOMAIN u, CheckAt(ext, m, s, k),
           \A l \in 1..k : u[l] = s[l],
           SafeAt(ext, m, s, k) \subseteq SafeAt(ext, n, u, k),
           \A t : Enters(s, k + 1, t) => Enters(u, k + 1, t)
    PROVE  CheckAt(ext, n, u, k)
<1>1. u[k] = s[k] /\ s[k] \in Calls /\ s[k].t \in Structs
  <2>1. k \in 1..k /\ s[k] \in Calls
    <3> HIDE DEF Calls
    <3> QED
      OBVIOUS
  <2> QED
    BY <2>1 DEF Calls
<1>2. OnPath(n, u, k)
  BY PathStays DEF CheckAt
<1>3. AtPlace(n, u[k])
  <2>1. Len(m[s[k].t]) \in Nat /\ Len(n[s[k].t]) \in Nat /\ Len(m[s[k].t]) <= Len(n[s[k].t])
    <3>1. m[s[k].t] \in Seq(Member) /\ n[s[k].t] \in Seq(Member)
      BY <1>1
    <3> QED
      BY <1>1, <3>1 DEF Grows
  <2>2. s[k].i \in Nat /\ s[k].j \in Nat
    BY <1>1 DEF Calls
  <2>3. PICK x, y, i, j : /\ x = Len(m[s[k].t]) /\ y = Len(n[s[k].t])
                          /\ i = s[k].i /\ j = s[k].j
    OBVIOUS
  <2>4. /\ x \in Nat /\ y \in Nat /\ x <= y /\ i \in Nat /\ j \in Nat
        /\ i \in 1..(x + 1) /\ j >= 1 /\ (i = x + 1 => j = 1)
    BY <2>1, <2>2, <2>3 DEF AtPlace, CheckAt
  <2>5. i \in 1..(y + 1) /\ j >= 1 /\ (i = y + 1 => j = 1)
    BY <2>4
  <2> QED
    BY <1>1, <2>3, <2>5 DEF AtPlace
<1>4. u[k].visited \ u[k].path \subseteq SafeAt(ext, n, u, k)
  BY <1>1 DEF CheckAt
<1>5. TermsDone(n, u, k, SafeAt(ext, n, u, k))
  <2> SUFFICES ASSUME NEW a \in DOMAIN n[u[k].t],
                      NEW b \in DOMAIN Terms(n[u[k].t][a]), Before(a, b, u[k])
               PROVE  \/ Terms(n[u[k].t][a])[b] \in SafeAt(ext, n, u, k)
                      \/ Enters(u, k + 1, Terms(n[u[k].t][a])[b])
    BY DEF TermsDone
  <2>1. a \in DOMAIN m[s[k].t] /\ n[s[k].t][a] = m[s[k].t][a]
    BY <1>1, TermsStay DEF CheckAt
  <2>2. \/ Terms(m[s[k].t][a])[b] \in SafeAt(ext, m, s, k)
        \/ Enters(s, k + 1, Terms(m[s[k].t][a])[b])
    BY <1>1, <2>1 DEF CheckAt, TermsDone
  <2> QED
    BY <1>1, <2>1, <2>2
<1> QED
  BY <1>2, <1>3, <1>4, <1>5 DEF CheckAt

Search == Searches(program.extends, memberVarDecls, stack)

(* Checks that keep what is below them and know as much stay right. *)
LEMMA SearchKept ==
    ASSUME NEW m \in [Structs -> Seq(Member)], NEW n \in [Structs -> Seq(Member)],
           Grows(m, n), NEW ext, NEW s \in Seq(Calls), NEW u \in Seq(Calls),
           Searches(ext, m, s),
           \A k \in DOMAIN u : u[k].op = "check" =>
              /\ k \in DOMAIN s /\ \A l \in 1..k : u[l] = s[l]
              /\ SafeAt(ext, m, s, k) \subseteq SafeAt(ext, n, u, k)
              /\ \A t : Enters(s, k + 1, t) => Enters(u, k + 1, t)
    PROVE  Searches(ext, n, u)
<1> SUFFICES ASSUME NEW k \in DOMAIN u, u[k].op = "check"
             PROVE  CheckAt(ext, n, u, k)
  BY DEF Searches
<1>1. /\ k \in DOMAIN s /\ \A l \in 1..k : u[l] = s[l]
      /\ SafeAt(ext, m, s, k) \subseteq SafeAt(ext, n, u, k)
      /\ \A t : Enters(s, k + 1, t) => Enters(u, k + 1, t)
  OBVIOUS
<1>2. k \in 1..k
  <2> HIDE DEF Calls
  <2> QED
    OBVIOUS
<1>3. CheckAt(ext, m, s, k)
  BY <1>1, <1>2 DEF Searches
<1> QED
  BY <1>1, <1>3, CheckStays

(* The calls s become u: above position n there are new calls, and the     *)
(* innermost call, at n, goes on without going on searching.               *)
LEMMA QuietCalls ==
    ASSUME NEW m \in [Structs -> Seq(Member)], NEW w \in [Structs -> Seq(Member)],
           Grows(m, w), NEW ext, NEW s \in Seq(Calls), NEW u \in Seq(Calls),
           Searches(ext, m, s), NEW n \in Nat \ {0}, Len(s) = n, Len(u) >= n - 1,
           \A l \in 1..(n - 1) : u[l] = s[l],
           s[n].op = "check" => Len(u) >= n /\ u[n] = s[n],
           \A k \in DOMAIN u : k >= n /\ u[k].op = "check" => k = n /\ u[n] = s[n],
           \A z \in Structs : w[z] # m[z] =>
              \E l \in DOMAIN u : /\ l >= n /\ u[l].op # "check"
                                  /\ z \in Opened(ext, u[l]),
           s[n].op # "check" =>
              \A y \in Structs : y \in Opened(ext, s[n]) =>
                \E l \in DOMAIN u, z \in Structs :
                   /\ l >= n - 1 /\ u[l].op # "check"
                   /\ z \in Opened(ext, u[l]) /\ Deps(m, y) \subseteq Deps(w, z)
    PROVE  Searches(ext, w, u)
<1>1. /\ DOMAIN s = 1..n /\ DOMAIN u = 1..Len(u) /\ Len(u) \in Nat
  <2> HIDE DEF Calls
  <2> QED
    OBVIOUS
<1>2. ASSUME NEW k \in DOMAIN u, u[k].op = "check"
      PROVE  /\ k \in DOMAIN s /\ \A l \in 1..k : u[l] = s[l]
             /\ SafeAt(ext, m, s, k) \subseteq SafeAt(ext, w, u, k)
             /\ \A t : Enters(s, k + 1, t) => Enters(u, k + 1, t)
  <2>1. k \in 1..n /\ k \in Nat /\ (k = n => u[n] = s[n])
    BY <1>1, <1>2
  <2>2. \A l \in 1..k : u[l] = s[l]
    <3>1. \A l \in 1..k : l \in 1..(n - 1) \/ (l = n /\ k = n)
      BY <2>1
    <3> QED
      BY <2>1, <3>1
  <2>3. \A z \in Structs : w[z] # m[z] => z \in OpenAbove(ext, u, k)
    <3> SUFFICES ASSUME NEW z \in Structs, w[z] # m[z]
                 PROVE  z \in OpenAbove(ext, u, k)
      OBVIOUS
    <3>1. PICK l \in DOMAIN u : l >= n /\ u[l].op # "check" /\ z \in Opened(ext, u[l])
      OBVIOUS
    <3>2. l > k
      BY <1>1, <1>2, <2>1, <3>1
    <3> QED
      BY <3>1, <3>2 DEF OpenAbove
  <2>4. \A y \in OpenAbove(ext, s, k) :
           \E z \in OpenAbove(ext, u, k) : Deps(m, y) \subseteq Deps(w, z)
    <3> SUFFICES ASSUME NEW y \in OpenAbove(ext, s, k)
                 PROVE  \E z \in OpenAbove(ext, u, k) : Deps(m, y) \subseteq Deps(w, z)
      OBVIOUS
    <3>1. y \in Structs
      BY DEF OpenAbove
    <3>2. PICK l \in DOMAIN s : l > k /\ y \in Opened(ext, s[l])
      BY DEF OpenAbove
    <3>3. Deps(m, y) \subseteq Deps(w, y)
      BY <3>1, DepsGrow
    <3>4. l \in 1..(n - 1) \/ l = n
      BY <1>1
    <3>5. ASSUME l \in DOMAIN u, u[l] = s[l]
          PROVE  \E z \in OpenAbove(ext, u, k) : Deps(m, y) \subseteq Deps(w, z)
      <4>1. y \in OpenAbove(ext, u, k)
        BY <3>1, <3>2, <3>5 DEF OpenAbove
      <4> QED
        BY <3>3, <4>1
    <3>6. CASE l \in 1..(n - 1)
      <4>1. l \in DOMAIN u /\ u[l] = s[l]
        BY <1>1, <3>6
      <4> QED
        BY <3>5, <4>1
    <3>7. CASE l = n
      <4>1. CASE s[n].op = "check"
        <5>1. l \in DOMAIN u /\ u[l] = s[l]
          BY <1>1, <3>7, <4>1
        <5> QED
          BY <3>5, <5>1
      <4>2. CASE s[n].op # "check"
        <5>1. PICK x \in DOMAIN u, z \in Structs :
                 /\ x >= n - 1 /\ u[x].op # "check"
                 /\ z \in Opened(ext, u[x]) /\ Deps(m, y) \subseteq Deps(w, z)
          BY <3>1, <3>2, <3>7, <4>2
        <5>2. x > k
          <6>1. x # k
            BY <1>2, <5>1
          <6>2. k # n
            BY <2>1, <1>2, <4>2
          <6> QED
            BY <1>1, <2>1, <5>1, <6>1, <6>2
        <5>3. z \in OpenAbove(ext, u, k)
          BY <5>1, <5>2 DEF OpenAbove
        <5> QED
          BY <5>1, <5>3
      <4> QED
        BY <4>1, <4>2
    <3> QED
      BY <3>4, <3>6, <3>7
  <2>5. SafeAt(ext, m, s, k) \subseteq SafeAt(ext, w, u, k)
    BY <2>3, <2>4, Covered
  <2>6. ASSUME NEW t, Enters(s, k + 1, t)
        PROVE  Enters(u, k + 1, t)
    <3>1. k + 1 \in 1..n /\ IsStep(s[k + 1]) /\ s[k + 1].t = t
      BY <1>1, <2>6 DEF Enters
    <3>2. s[k + 1].op = "check"
      BY <3>1 DEF IsStep
    <3>3. k + 1 \in DOMAIN u /\ u[k + 1] = s[k + 1]
      BY <1>1, <2>1, <3>1, <3>2
    <3> QED
      BY <3>1, <3>3 DEF Enters
  <2> QED
    BY <1>1, <2>1, <2>2, <2>5, <2>6
<1> QED
  <2> HIDE DEF Calls, Member
  <2> QED
    BY <1>2, SearchKept

(* The types an open call y covers with z, as the layouts change. *)
Covers(r, c) ==
    \A y \in Structs : y \in Opened(program.extends, r) =>
        \E z \in Structs : /\ z \in Opened(program.extends, c)
                           /\ Deps(memberVarDecls, y) \subseteq Deps(memberVarDecls', z)

(* The moves that do not go on searching. *)
LEMMA SearchMoves ==
    ASSUME TypeOK, TypeOK', Search, stack # <<>>, program' = program,
           NEW n, n = Len(stack), Grows(memberVarDecls, memberVarDecls')
    PROVE  /\ /\ Returns /\ memberVarDecls' = memberVarDecls /\ Top.op # "check"
              /\ n > 1 => \A y \in Structs : y \in Opened(program.extends, Top) =>
                             /\ stack[n - 1].op # "check"
                             /\ y \in Opened(program.extends, stack[n - 1])
              => Search'
           /\ \A c \in Calls :
              /\ Turns(c) /\ Top.op # "check" /\ c.op # "check"
              /\ \A z \in Structs : memberVarDecls'[z] # memberVarDecls[z] =>
                    z \in Opened(program.extends, c)
              /\ Covers(Top, c)
              => Search'
           /\ \A d \in Calls :
              /\ Turns2(Top, d) /\ d.op # "check"
              /\ memberVarDecls' = memberVarDecls
              => Search'
           /\ \A c, d, e \in Calls :
              /\ Turns3(c, d, e) /\ Top.op # "check" /\ Opened(program.extends, Top) = {}
              /\ c.op # "check" /\ d.op # "check" /\ e.op # "check"
              /\ memberVarDecls' = memberVarDecls
              => Search'
<1>1. PICK s, u, m, w, ext :
         /\ s = stack /\ u = stack' /\ m = memberVarDecls /\ w = memberVarDecls'
         /\ ext = program.extends
  OBVIOUS
<1>2. /\ m \in [Structs -> Seq(Member)] /\ w \in [Structs -> Seq(Member)]
      /\ s \in Seq(Calls) /\ u \in Seq(Calls)
  BY <1>1 DEF TypeOK
<1>3. Grows(m, w) /\ Searches(ext, m, s)
  BY <1>1 DEF Search
<1>4. n \in Nat \ {0} /\ Len(s) = n /\ Top = s[n] /\ Len(u) \in Nat
  <2>1. n \in Nat \ {0} /\ Len(s) = n /\ Top = s[n]
    BY <1>1, InCall
  <2>2. Len(u) \in Nat
    <3> HIDE DEF Calls
    <3> QED
      BY <1>2
  <2> QED
    BY <2>1, <2>2
<1>5. DOMAIN u = 1..Len(u)
  <2> HIDE DEF Calls
  <2> QED
    BY <1>2
<1>6. Searches(ext, w, u) => Search'
  BY <1>1 DEF Search
<1>7. \A z \in Structs : Deps(m, z) \subseteq Deps(w, z)
  BY <1>2, <1>3, DepsGrow
<1>8. \A y \in Structs : y \in Opened(program.extends, Top) <=> y \in Opened(ext, s[n])
  BY <1>1, <1>4
<1>9. Below => \A l \in 1..(n - 1) : u[l] = s[l]
  BY <1>1 DEF Below
<1>10. ASSUME /\ Len(u) >= n - 1 /\ Below
              /\ s[n].op = "check" => Len(u) >= n /\ u[n] = s[n]
              /\ \A k \in DOMAIN u : k >= n /\ u[k].op = "check" => k = n /\ u[n] = s[n]
              /\ \A z \in Structs : w[z] # m[z] =>
                    \E l \in DOMAIN u : /\ l >= n /\ u[l].op # "check"
                                        /\ z \in Opened(ext, u[l])
              /\ s[n].op # "check" =>
                    \A y \in Structs : y \in Opened(ext, s[n]) =>
                        \E l \in DOMAIN u, z \in Structs :
                           /\ l >= n - 1 /\ u[l].op # "check"
                           /\ z \in Opened(ext, u[l]) /\ Deps(m, y) \subseteq Deps(w, z)
       PROVE  Search'
  <2> HIDE DEF Calls, Member
  <2>1. Searches(ext, w, u)
    <3>1. \A l \in 1..(n - 1) : u[l] = s[l]
      BY <1>9, <1>10
    <3>2. /\ s[n].op = "check" => Len(u) >= n /\ u[n] = s[n]
          /\ \A k \in DOMAIN u : k >= n /\ u[k].op = "check" => k = n /\ u[n] = s[n]
      BY <1>10
    <3>3. /\ Len(u) >= n - 1
          /\ \A z \in Structs : w[z] # m[z] =>
                \E l \in DOMAIN u : /\ l >= n /\ u[l].op # "check"
                                    /\ z \in Opened(ext, u[l])
          /\ s[n].op # "check" =>
                \A y \in Structs : y \in Opened(ext, s[n]) =>
                    \E l \in DOMAIN u, z \in Structs :
                       /\ l >= n - 1 /\ u[l].op # "check"
                       /\ z \in Opened(ext, u[l]) /\ Deps(m, y) \subseteq Deps(w, z)
      BY <1>10
    <3>4. n \in Nat \ {0} /\ Len(s) = n
      BY <1>4
    <3> QED
      BY <1>2, <1>3, <3>1, <3>2, <3>3, <3>4, QuietCalls
  <2> QED
    BY <1>6, <2>1
<1>11. ASSUME Returns, memberVarDecls' = memberVarDecls, Top.op # "check",
              n > 1 => \A y \in Structs : y \in Opened(program.extends, Top) =>
                          /\ stack[n - 1].op # "check"
                          /\ y \in Opened(program.extends, stack[n - 1])
       PROVE  Search'
  <2>1. Len(u) = n - 1 /\ Below
    BY <1>1, <1>4, <1>11 DEF Returns
  <2>2. \A k \in DOMAIN u : ~(k >= n)
    BY <1>4, <1>5, <2>1
  <2>3. ASSUME NEW y \in Structs, y \in Opened(ext, s[n]), n > 1
        PROVE  \E l \in DOMAIN u, z \in Structs :
                  /\ l >= n - 1 /\ u[l].op # "check"
                  /\ z \in Opened(ext, u[l]) /\ Deps(m, y) \subseteq Deps(w, z)
    <3>1. s[n - 1].op # "check" /\ y \in Opened(ext, s[n - 1])
      BY <1>1, <1>8, <1>11, <2>3
    <3>2. n - 1 \in DOMAIN u /\ u[n - 1] = s[n - 1] /\ n - 1 >= n - 1
      BY <1>4, <1>5, <1>9, <2>1, <2>3
    <3> QED
      BY <1>7, <3>1, <3>2
  <2>4. CASE n > 1
    BY <1>1, <1>4, <1>10, <1>11, <2>1, <2>2, <2>3, <2>4
  <2>5. CASE ~(n > 1)
    <3>1. DOMAIN u = {}
      BY <1>4, <1>5, <2>1, <2>5
    <3> QED
      BY <1>6, <3>1 DEF Searches
  <2> QED
    BY <2>4, <2>5
<1>12. ASSUME NEW c \in Calls, Turns(c), Top.op # "check", c.op # "check",
              \A z \in Structs : memberVarDecls'[z] # memberVarDecls[z] =>
                    z \in Opened(program.extends, c),
              Covers(Top, c)
       PROVE  Search'
  <2>1. Len(u) = n /\ Below /\ u[n] = c
    BY <1>1, <1>4, <1>12 DEF Turns
  <2>2. n \in DOMAIN u /\ n >= n /\ n >= n - 1 /\ u[n].op # "check"
    BY <1>4, <1>5, <1>12, <2>1
  <2>3. \A k \in DOMAIN u : k >= n => k = n
    BY <1>4, <1>5, <2>1
  <2>4. \A z \in Structs : w[z] # m[z] => z \in Opened(ext, u[n])
    BY <1>1, <1>12, <2>1
  <2>5. \A y \in Structs : y \in Opened(ext, s[n]) =>
           \E z \in Structs : z \in Opened(ext, u[n]) /\ Deps(m, y) \subseteq Deps(w, z)
    BY <1>1, <1>8, <1>12, <2>1 DEF Covers
  <2> QED
    BY <1>4, <1>10, <1>12, <2>1, <2>2, <2>3, <2>4, <2>5
<1>13. ASSUME NEW d \in Calls, Turns2(Top, d), d.op # "check",
              memberVarDecls' = memberVarDecls
       PROVE  Search'
  <2>1. Len(u) = n + 1 /\ Below /\ u[n] = s[n] /\ u[n + 1] = d
    BY <1>1, <1>4, <1>13 DEF Turns2
  <2>2. n \in DOMAIN u /\ n >= n - 1
    BY <1>4, <1>5, <2>1
  <2>3. \A k \in DOMAIN u : k >= n => k = n \/ k = n + 1
    BY <1>4, <1>5, <2>1
  <2>4. w = m
    BY <1>1, <1>13
  <2> QED
    BY <1>4, <1>7, <1>10, <1>13, <2>1, <2>2, <2>3, <2>4
<1>14. ASSUME NEW c \in Calls, NEW d \in Calls, NEW e \in Calls, Turns3(c, d, e),
              Top.op # "check", Opened(program.extends, Top) = {},
              c.op # "check", d.op # "check", e.op # "check",
              memberVarDecls' = memberVarDecls
       PROVE  Search'
  <2>1. Len(u) = n + 2 /\ Below /\ u[n] = c /\ u[n + 1] = d /\ u[n + 2] = e
    BY <1>1, <1>4, <1>14 DEF Turns3
  <2>2. \A k \in DOMAIN u : k >= n => k = n \/ k = n + 1 \/ k = n + 2
    BY <1>4, <1>5, <2>1
  <2>3. w = m
    BY <1>1, <1>14
  <2> QED
    BY <1>4, <1>8, <1>10, <1>14, <2>1, <2>2, <2>3
<1> QED
  BY <1>11, <1>12, <1>13, <1>14

(* What each kind of call opens. *)
LEMMA OpenedIs ==
    ASSUME NEW ext, NEW c
    PROVE  /\ c.op = "complete" /\ c.i # 0 => Opened(ext, c) = {c.t}
           /\ c.op = "complete" /\ ext[c.t] \notin Structs => Opened(ext, c) = {c.t}
           /\ c.op = "complete" => Opened(ext, c) \subseteq {c.t, ext[c.t]}
           /\ c.op = "complete" => c.t \in Opened(ext, c)
           /\ c.op = "complete" /\ c.i = 0 /\ ext[c.t] \in Structs =>
                 ext[c.t] \in Opened(ext, c)
           /\ c.op = "call_check" \/ IsRoot(c) => Opened(ext, c) = {c.t}
           /\ IsStep(c) \/ c.op \in {"call_complete", "make", "defer"} =>
                 Opened(ext, c) = {}
BY DEF Opened, IsStep, IsRoot

(* Layouts only grow: a struct inherits before it has members of its own. *)
LEMMA LayoutsGrow ==
    ASSUME TypeOK, TypeOK', Layouts, [Next]_vars
    PROVE  /\ Grows(memberVarDecls, memberVarDecls')
           /\ \/ memberVarDecls' = memberVarDecls
              \/ /\ Inherit \/ DeclareMember
                 /\ \A z \in Structs : z # Top.t => memberVarDecls'[z] = memberVarDecls[z]
<1>1. CASE memberVarDecls' = memberVarDecls
  <2>1. \A t \in Structs : Len(memberVarDecls[t]) \in Nat
    <3>1. \A t \in Structs : memberVarDecls[t] \in Seq(Member)
      BY DEF TypeOK
    <3> QED
      BY <3>1
  <2> QED
    BY <1>1, <2>1 DEF Grows
<1>2. \/ Inherit \/ DeclareMember \/ memberVarDecls' = memberVarDecls
  BY DEF Next, Complete, MakeTemplate, Check, NextStruct, StageEnd, Enter, NoBase,
     MakeBase, ExtendsItself, CompleteBase, MakeMember,
     TypeMember, Leave, ExpandMember, CompleteInstance, DeferInstance, CheckBegin,
     MakeInCheck, Descend, Cycle, SkipVisited, NextDecl, CheckEnd, MakeFirst, Make,
     Fail, vars, layout
<1>3. CASE Inherit \/ DeclareMember
  <2>1. stack # <<>> /\ Top.op = "complete"
    BY <1>3 DEF Inherit, DeclareMember, AtBase, AtMember, Running
  <2>2. PICK t : t = Top.t /\ t \in Structs
    BY <2>1, InCall
  <2>3. \A z \in Structs \ {t} : memberVarDecls'[z] = memberVarDecls[z]
    BY <1>3, <2>2 DEF Inherit, DeclareMember, TypeOK
  <2>4. PICK a, b : a = memberVarDecls[t] /\ b = memberVarDecls'[t]
    OBVIOUS
  <2>5. a \in Seq(Member) /\ b \in Seq(Member)
    BY <2>2, <2>4 DEF TypeOK
  <2>6. Len(a) <= Len(b) /\ \A i \in 1..Len(a) : b[i] = a[i]
    <3>1. CASE Inherit
      <4>1. Top.i = 0
        BY <3>1 DEF Inherit, AtBase
      <4>2. Empty(t)
        BY <2>1, <2>2, <4>1, OwnMoves DEF InCompletion
      <4>3. a = <<>>
        BY <2>4, <4>2 DEF Empty
      <4> QED
        BY <2>5, <4>3
    <3>2. CASE DeclareMember
      <4>1. PICK mem : mem = Own(t)[Top.i] /\ mem \in Member
        <5>1. Top.i \in DOMAIN Own(t) /\ Own(t) \in Seq(Member)
          BY <2>2, <3>2, Sources DEF DeclareMember, AtMember
        <5> HIDE DEF Member
        <5> QED
          BY <5>1
      <4>2. b = Append(a, mem)
        BY <2>2, <2>4, <3>2, <4>1 DEF DeclareMember, TypeOK
      <4> HIDE DEF Member
      <4> QED
        BY <2>5, <4>1, <4>2, AppendProperties
    <3> QED
      BY <1>3, <3>1, <3>2
  <2>7. Grows(memberVarDecls, memberVarDecls')
    <3>1. \A z \in Structs \ {t} : Len(memberVarDecls[z]) \in Nat
      <4>1. \A z \in Structs : memberVarDecls[z] \in Seq(Member)
        BY DEF TypeOK
      <4> QED
        BY <4>1
    <3> QED
      BY <2>3, <2>4, <2>6, <3>1 DEF Grows
  <2> QED
    BY <1>3, <2>2, <2>3, <2>7
<1> QED
  BY <1>1, <1>2, <1>3

(* Completing types and making instances leaves the searches right. *)
LEMMA SearchOthers ==
    ASSUME TypeOK, TypeOK', Nested, Layouts, Search, program' = program,
           Grows(memberVarDecls, memberVarDecls'),
           stack # <<>>, Complete \/ MakeTemplate \/ MakeInCheck
    PROVE  Search'
<1>1. PICK n, ext : n = Len(stack) /\ ext = program.extends
  OBVIOUS
<1>2. n \in Nat \ {0} /\ Top = stack[n] /\ Top.t \in Structs /\ Top \in Calls
  BY <1>1, InCall
<1>3. Base(Top.t) = ext[Top.t]
  BY <1>1 DEF Base
<1>4. ASSUME NEW t \in Structs, Making(t)
      PROVE  Search'
  <2>1. PICK d : d = [Call("make", t) EXCEPT !.i = 1]
    OBVIOUS
  <2>2. d.op = "make" /\ d \in Calls
    BY <2>1, CallsMade DEF Call
  <2>3. Turns2(Top, d) /\ memberVarDecls' = memberVarDecls
    BY <1>4, <2>1, Moves DEF Making, Make, layout
  <2>4. d.op # "check"
    BY <2>2
  <2> HIDE DEF Calls
  <2> QED
    BY <1>1, <2>2, <2>3, <2>4, SearchMoves
<1>5. ASSUME NEW c \in Calls, Turns(c), Top.op # "check", c.op # "check",
             memberVarDecls' = memberVarDecls,
             \A y \in Structs : y \in Opened(ext, Top) => y \in Opened(ext, c)
      PROVE  Search'
  <2>1. Covers(Top, c)
    BY <1>1, <1>5 DEF Covers
  <2> HIDE DEF Calls
  <2> QED
    BY <1>1, <1>5, <2>1, SearchMoves
<1>6. ASSUME Returns, memberVarDecls' = memberVarDecls,
             Top.op \in {"call_complete", "defer"}
      PROVE  Search'
  <2>1. Opened(program.extends, Top) = {} /\ Top.op # "check"
    BY <1>6, OpenedIs
  <2> QED
    BY <1>1, <1>6, <2>1, SearchMoves
<1>7. CASE Enter
  <2>1. Top.op = "call_complete" /\ memberVarDecls' = memberVarDecls
    BY <1>7 DEF Enter, Running
  <2>2. CASE isComplete[Top.t]
    BY <1>6, <1>7, <2>1, <2>2, Moves
  <2>3. CASE ~isComplete[Top.t]
    <3>1. PICK c : c = Call("complete", Top.t)
      OBVIOUS
    <3>2. c \in Calls /\ c.op = "complete" /\ Turns(c)
      BY <1>2, <1>7, <2>3, <3>1, CallsMade, Moves DEF Call, Ops
    <3>3. Opened(ext, Top) = {}
      BY <2>1, OpenedIs
    <3>4. c.op # "check" /\ Top.op # "check"
      BY <2>1, <3>2
    <3> QED
      BY <1>5, <2>1, <3>2, <3>3, <3>4
  <2> QED
    BY <2>2, <2>3
<1>8. ASSUME Advance
      PROVE  \E c \in Calls : /\ Turns(c) /\ c.op = Top.op /\ c.t = Top.t
                              /\ c.i = Top.i + 1 /\ c.i # 0
  <2>1. PICK c : c = [Top EXCEPT !.i = @ + 1, !.j = 0]
    OBVIOUS
  <2>2. c \in Calls /\ Turns(c)
    BY <1>2, <1>8, <2>1, CallsMade, Moves
  <2>3. c.op = Top.op /\ c.t = Top.t /\ c.i = Top.i + 1
    BY <2>1, Fields
  <2>4. c.i # 0
    BY <1>2, <2>3 DEF Calls
  <2> QED
    BY <2>2, <2>3, <2>4
<1>9. CASE NoBase
  <2>1. /\ Top.op = "complete" /\ Top.i = 0 /\ Base(Top.t) = None /\ Advance
        /\ memberVarDecls' = memberVarDecls
    BY <1>9 DEF NoBase, AtBase, Running, layout
  <2>2. PICK c \in Calls : Turns(c) /\ c.op = Top.op /\ c.t = Top.t /\ c.i # 0
    BY <1>8, <2>1
  <2>3. Opened(ext, Top) = {Top.t} /\ Opened(ext, c) = {c.t}
    BY <1>3, <2>1, <2>2, OpenedIs, StructTypesAssumption
  <2>4. c.op # "check" /\ Top.op # "check"
    BY <2>1, <2>2
  <2> QED
    BY <1>5, <2>1, <2>2, <2>3, <2>4
<1>10. CASE CompleteBase
  <2>1. PICK d : d = Call("call_complete", Base(Top.t))
    OBVIOUS
  <2>2. d.op = "call_complete" /\ d \in Calls
    BY <1>10, <2>1, CallsMade DEF Call, Ops, CompleteBase
  <2>3. Turns2(Top, d) /\ memberVarDecls' = memberVarDecls
    BY <1>10, <2>1, Moves DEF CompleteBase, layout
  <2>4. d.op # "check"
    BY <2>2
  <2> HIDE DEF Calls
  <2> QED
    BY <1>1, <2>2, <2>3, <2>4, SearchMoves
<1>11. CASE Inherit
  <2>1. /\ Top.op = "complete" /\ Top.i = 0 /\ Base(Top.t) \in Structs \ {Top.t}
        /\ Advance
        /\ memberVarDecls' =
              [memberVarDecls EXCEPT ![Top.t] = memberVarDecls[Base(Top.t)]]
    BY <1>11 DEF Inherit, AtBase, Running
  <2>2. PICK c \in Calls : Turns(c) /\ c.op = Top.op /\ c.t = Top.t /\ c.i # 0
    BY <1>8, <2>1
  <2>3. Opened(ext, Top) \subseteq {Top.t, Base(Top.t)} /\ Opened(ext, c) = {Top.t}
    BY <1>3, <2>1, <2>2, OpenedIs
  <2>4. /\ \A z \in Structs : memberVarDecls'[z] # memberVarDecls[z] => z = Top.t
        /\ memberVarDecls'[Top.t] = memberVarDecls[Base(Top.t)]
    BY <1>2, <2>1 DEF TypeOK
  <2>5. Deps(memberVarDecls, Base(Top.t)) = Deps(memberVarDecls', Top.t)
    BY <2>4 DEF Deps
  <2>6. Deps(memberVarDecls, Top.t) \subseteq Deps(memberVarDecls', Top.t)
    <3>1. /\ memberVarDecls \in [Structs -> Seq(Member)]
          /\ memberVarDecls' \in [Structs -> Seq(Member)]
      BY DEF TypeOK
    <3> QED
      BY <1>2, <3>1, DepsGrow
  <2>7. Covers(Top, c)
    BY <1>1, <1>2, <2>3, <2>5, <2>6 DEF Covers
  <2>8. \A z \in Structs : memberVarDecls'[z] # memberVarDecls[z] =>
           z \in Opened(program.extends, c)
    BY <1>1, <2>3, <2>4
  <2>9. c.op # "check" /\ Top.op # "check"
    BY <2>1, <2>2
  <2> HIDE DEF Calls
  <2> QED
    BY <1>1, <2>2, <2>7, <2>8, <2>9, SearchMoves
<1>12. CASE DeclareMember
  <2>1. /\ Top.op = "complete" /\ Top.i \in DOMAIN Own(Top.t)
    BY <1>12 DEF DeclareMember, AtMember, Running
  <2>2. Top.i # 0
    <3>1. Own(Top.t) \in Seq(Member)
      BY <1>2, Sources
    <3> HIDE DEF Member
    <3> QED
      BY <2>1, <3>1
  <2>3. PICK c : c = [Top EXCEPT !.j = 1]
    OBVIOUS
  <2>4. c \in Calls /\ Turns(c)
    BY <1>2, <1>12, <2>3, CallsMade, Moves
  <2>5. c.op = Top.op /\ c.t = Top.t /\ c.i = Top.i
    BY <2>3, Fields
  <2>6. Opened(ext, Top) = {Top.t} /\ Opened(ext, c) = {Top.t}
    BY <2>1, <2>2, <2>5, OpenedIs
  <2>7. \A z \in Structs : memberVarDecls'[z] # memberVarDecls[z] => z = Top.t
    BY <1>2, <1>12 DEF DeclareMember, TypeOK
  <2>8. Deps(memberVarDecls, Top.t) \subseteq Deps(memberVarDecls', Top.t)
    <3>1. /\ memberVarDecls \in [Structs -> Seq(Member)]
          /\ memberVarDecls' \in [Structs -> Seq(Member)]
      BY DEF TypeOK
    <3> QED
      BY <1>2, <3>1, DepsGrow
  <2>9. Covers(Top, c)
    BY <1>1, <1>2, <2>6, <2>8 DEF Covers
  <2>10. \A z \in Structs : memberVarDecls'[z] # memberVarDecls[z] =>
           z \in Opened(program.extends, c)
    BY <1>1, <2>6, <2>7
  <2>11. c.op # "check" /\ Top.op # "check"
    BY <2>1, <2>5
  <2> HIDE DEF Calls
  <2> QED
    BY <1>1, <2>4, <2>9, <2>10, <2>11, SearchMoves
<1>13. CASE TypeMember
  <2>1. /\ Top.op = "complete" /\ Top.i \in DOMAIN Own(Top.t) /\ Advance
        /\ memberVarDecls' = memberVarDecls
    BY <1>13 DEF TypeMember, AtMember, Running
  <2>2. Top.i # 0
    <3>1. Own(Top.t) \in Seq(Member)
      BY <1>2, Sources
    <3> HIDE DEF Member
    <3> QED
      BY <2>1, <3>1
  <2>3. PICK c \in Calls : Turns(c) /\ c.op = Top.op /\ c.t = Top.t /\ c.i # 0
    BY <1>8, <2>1
  <2>4. Opened(ext, Top) = {Top.t} /\ Opened(ext, c) = {c.t}
    BY <2>1, <2>2, <2>3, OpenedIs
  <2>5. c.op # "check" /\ Top.op # "check"
    BY <2>1, <2>3
  <2> QED
    BY <1>5, <2>1, <2>3, <2>4, <2>5
<1>14. CASE Leave
  <2>1. /\ Top.op = "complete" /\ Top.i > Len(Own(Top.t))
        /\ memberVarDecls' = memberVarDecls
    BY <1>14 DEF Leave, Running, layout
  <2>2. Top.i # 0
    <3>1. Own(Top.t) \in Seq(Member)
      BY <1>2, Sources
    <3>2. Len(Own(Top.t)) \in Nat
      <4> HIDE DEF Member
      <4> QED
        BY <3>1
    <3> QED
      BY <2>1, <3>2
  <2>3. Opened(program.extends, Top) = {Top.t}
    BY <2>1, <2>2, OpenedIs
  <2>4. Returns
    BY <1>14, Moves
  <2>5. ASSUME n > 1
        PROVE  stack[n - 1].op # "check" /\ Top.t \in Opened(program.extends, stack[n - 1])
    <3>1. NestedAt(stack, n)
      BY <1>1, InCall DEF Nested
    <3>2. \/ /\ stack[n - 1].op = "complete" /\ stack[n - 1].i = 0
             /\ Base(stack[n - 1].t) = Top.t
          \/ stack[n - 1].op = "call_check" /\ stack[n - 1].t = Top.t
      BY <1>2, <2>1, <2>5, <3>1 DEF NestedAt
    <3>3. CASE stack[n - 1].op = "complete" /\ stack[n - 1].i = 0
               /\ Base(stack[n - 1].t) = Top.t
      <4>1. program.extends[stack[n - 1].t] = Top.t
        BY <3>3 DEF Base
      <4> QED
        BY <1>2, <3>3, <4>1, OpenedIs
    <3>4. CASE stack[n - 1].op = "call_check" /\ stack[n - 1].t = Top.t
      BY <3>4, OpenedIs
    <3> QED
      BY <3>2, <3>3, <3>4
  <2>6. Top.op # "check"
    BY <2>1
  <2>7. n > 1 => \A y \in Structs : y \in Opened(program.extends, Top) =>
                    /\ stack[n - 1].op # "check"
                    /\ y \in Opened(program.extends, stack[n - 1])
    BY <2>3, <2>5
  <2> QED
    BY <1>1, <2>1, <2>4, <2>6, <2>7, SearchMoves
<1>15. CASE /\ Running("make") /\ Advance
            /\ UNCHANGED <<program, pending, made, layout, deferredAST, outcome, early>>
  <2>1. Top.op = "make" /\ memberVarDecls' = memberVarDecls
    BY <1>15 DEF Running, layout
  <2>2. PICK c \in Calls : Turns(c) /\ c.op = Top.op
    BY <1>8, <1>15
  <2>3. Opened(ext, Top) = {}
    BY <2>1, OpenedIs
  <2>4. c.op # "check" /\ Top.op # "check"
    BY <2>1, <2>2
  <2> QED
    BY <1>5, <2>1, <2>2, <2>3, <2>4
<1>16. CASE CompleteInstance
  <2>1. Top.op = "make" /\ memberVarDecls' = memberVarDecls
    BY <1>16 DEF CompleteInstance, Running, layout
  <2>2. PICK c, d, e : /\ c = Call("defer", Top.t) /\ d = Call("call_check", Top.t)
                       /\ e = Call("call_complete", Top.t)
    OBVIOUS
  <2>3. /\ c \in Calls /\ d \in Calls /\ e \in Calls
        /\ c.op = "defer" /\ d.op = "call_check" /\ e.op = "call_complete"
    BY <1>2, <2>2, CallsMade DEF Call, Ops
  <2>4. Turns3(c, d, e)
    BY <1>16, <2>2, Moves
  <2>5. Opened(program.extends, Top) = {}
    BY <2>1, OpenedIs
  <2>6. Top.op # "check" /\ c.op # "check" /\ d.op # "check" /\ e.op # "check"
    BY <2>1, <2>3
  <2> HIDE DEF Calls
  <2> QED
    BY <1>1, <2>1, <2>3, <2>4, <2>5, <2>6, SearchMoves
<1>17. CASE DeferInstance
  <2>1. Top.op = "defer" /\ memberVarDecls' = memberVarDecls
    BY <1>17 DEF DeferInstance, Running, layout
  <2> QED
    BY <1>6, <1>17, <2>1, Moves
<1>18. CASE ExtendsItself
  <2>1. stack' = stack /\ memberVarDecls' = memberVarDecls
    BY <1>18 DEF ExtendsItself, Fail, layout
  <2> QED
    BY <2>1 DEF Search
<1>19. CASE MakeBase \/ MakeMember \/ MakeInCheck
  BY <1>4, <1>19, WhoMakes
<1>20. CASE ExpandMember
  BY <1>4, <1>15, <1>20, WhoMakes
<1> QED
  BY <1>7, <1>9, <1>10, <1>11, <1>12, <1>13, <1>14, <1>16, <1>17, <1>18, <1>19, <1>20
     DEF Complete, MakeTemplate

(* Nothing grows above the innermost call. *)
LEMMA TopKnows ==
    ASSUME NEW m, NEW ext, NEW s \in Seq(Calls), NEW n \in Nat, Len(s) = n
    PROVE  /\ SafeAt(ext, m, s, n) = Safe(Graph(m), {})
           /\ \A t : ~Enters(s, n + 1, t)
<1>1. DOMAIN s = 1..n
  <2> HIDE DEF Calls
  <2> QED
    OBVIOUS
<1>2. OpenAbove(ext, s, n) = {}
  BY <1>1 DEF OpenAbove
<1>3. Growing(ext, m, s, n) = {}
  BY <1>2 DEF Growing
<1>4. n + 1 \notin DOMAIN s
  BY <1>1
<1> QED
  BY <1>3, <1>4 DEF SafeAt, Enters

(* What is safe without exception is safe to every check. *)
LEMMA SafeToAll ==
    ASSUME NEW m, NEW ext, NEW s, NEW k
    PROVE  Safe(Graph(m), {}) \subseteq SafeAt(ext, m, s, k)
BY SafeFrame DEF SafeAt

TermOf(m, t, v) ==
    \E a \in DOMAIN m[t] : \E b \in DOMAIN Terms(m[t][a]) : v = Terms(m[t][a])[b]

(* The terms of a type are what it depends on. *)
LEMMA DepsAre == \A m, t, v : v \in Deps(m, t) <=> TermOf(m, t, v)
<1> SUFFICES ASSUME NEW m, NEW t, NEW v
             PROVE  v \in Deps(m, t) <=> TermOf(m, t, v)
  OBVIOUS
<1>2. \A mem : mem \in ToSet(m[t]) <=> \E a \in DOMAIN m[t] : mem = m[t][a]
  BY DEF ToSet
<1>3. \A terms, w : w \in ToSet(terms) <=> \E b \in DOMAIN terms : w = terms[b]
  BY DEF ToSet
<1>4. \A w : w \in Deps(m, t) <=> \E mem \in ToSet(m[t]) : w \in ToSet(Terms(mem))
  BY DEF Deps
<1>5. v \in Deps(m, t) <=>
          \E a \in DOMAIN m[t] : \E b \in DOMAIN Terms(m[t][a]) : v = Terms(m[t][a])[b]
  <2>1. \A a : v \in ToSet(Terms(m[t][a])) <=>
                 \E b \in DOMAIN Terms(m[t][a]) : v = Terms(m[t][a])[b]
    BY <1>3
  <2>2. v \in Deps(m, t) <=> \E a \in DOMAIN m[t] : v \in ToSet(Terms(m[t][a]))
    BY <1>2, <1>4
  <2> QED
    BY <2>1, <2>2, Zenon
<1> QED
  BY <1>5 DEF TermOf, Zenon

(* The members of a layout and their terms are counted from 1. *)
LEMMA TermsCount ==
    ASSUME NEW m \in [Structs -> Seq(Member)], NEW t \in Structs
    PROVE  /\ Len(m[t]) \in Nat /\ DOMAIN m[t] = 1..Len(m[t])
           /\ \A a \in DOMAIN m[t] :
                 /\ Terms(m[t][a]) \in Seq(Structs)
                 /\ Len(Terms(m[t][a])) \in Nat
                 /\ DOMAIN Terms(m[t][a]) = 1..Len(Terms(m[t][a]))
<1>1. PICK M : M = m[t] /\ M \in Seq(Member)
  OBVIOUS
<1>2. Len(M) \in Nat /\ DOMAIN M = 1..Len(M) /\ \A a \in DOMAIN M : M[a] \in Member
  <2> HIDE DEF Member
  <2> QED
    BY <1>1
<1>3. \A mem \in Member : Terms(mem) \in Seq(Structs)
  <2>1. <<>> \in Seq(Structs)
    OBVIOUS
  <2> QED
    BY <2>1 DEF Terms, Member
<1>4. \A a \in DOMAIN M : /\ Terms(M[a]) \in Seq(Structs)
                          /\ Len(Terms(M[a])) \in Nat
                          /\ DOMAIN Terms(M[a]) = 1..Len(Terms(M[a]))
  <2> SUFFICES ASSUME NEW a \in DOMAIN M
               PROVE  /\ Terms(M[a]) \in Seq(Structs)
                      /\ Len(Terms(M[a])) \in Nat
                      /\ DOMAIN Terms(M[a]) = 1..Len(Terms(M[a]))
    OBVIOUS
  <2>1. Terms(M[a]) \in Seq(Structs)
    BY <1>2, <1>3
  <2> QED
    BY <2>1
<1> QED
  BY <1>1, <1>2, <1>4

(* A type all of whose terms the innermost check has passed is safe. *)
LEMMA AllPassed ==
    ASSUME NEW m \in [Structs -> Seq(Member)], NEW ext, NEW s \in Seq(Calls),
           NEW n \in Nat \ {0}, Len(s) = n, CheckAt(ext, m, s, n),
           s[n].i > Len(m[s[n].t])
    PROVE  s[n].t \in Safe(Graph(m), {})
<1>1. s[n] \in Calls
  <2> HIDE DEF Calls
  <2> QED
    OBVIOUS
<1>2. PICK t : t = s[n].t /\ t \in Structs
  BY <1>1 DEF Calls
<1>3. s[n].i \in Nat
  BY <1>1 DEF Calls
<1>4. ASSUME NEW v \in Deps(m, t)
      PROVE  v \in Safe(Graph(m), {})
  <2>1. PICK a \in DOMAIN m[t] : \E b \in DOMAIN Terms(m[t][a]) : v = Terms(m[t][a])[b]
    <3>1. TermOf(m, t, v)
      BY <1>4, DepsAre, Zenon
    <3> QED
      BY <3>1 DEF TermOf, Zenon
  <2>2. PICK b \in DOMAIN Terms(m[t][a]) : v = Terms(m[t][a])[b]
    BY <2>1
  <2>3. Before(a, b, s[n])
    BY <1>2, <1>3, TermsCount DEF Before
  <2> QED
    BY <1>2, <2>2, <2>3, TopKnows DEF CheckAt, TermsDone
<1>5. Graph(m)[t] \subseteq Safe(Graph(m), {})
  BY <1>2, <1>4 DEF Graph
<1> QED
  BY <1>2, <1>5, SafeNode

(* A search that begins at a type has passed nothing. *)
LEMMA Begins ==
    ASSUME NEW m \in [Structs -> Seq(Member)], NEW s, NEW k, NEW known,
           s[k].t \in Structs, s[k].i = 1, s[k].j = 1
    PROVE  AtPlace(m, s[k]) /\ TermsDone(m, s, k, known)
<1>1. PICK t : t = s[k].t /\ t \in Structs
  OBVIOUS
<1>2. AtPlace(m, s[k])
  BY <1>1, TermsCount DEF AtPlace
<1>3. ASSUME NEW a \in DOMAIN m[t], NEW b \in DOMAIN Terms(m[t][a])
      PROVE  ~Before(a, b, s[k])
  BY <1>1, TermsCount DEF Before
<1> QED
  BY <1>1, <1>2, <1>3 DEF TermsDone

(* The checks below the innermost call. *)
LEMMA LowerStay ==
    ASSUME NEW m \in [Structs -> Seq(Member)], NEW ext, NEW s \in Seq(Calls),
           NEW u \in Seq(Calls), Searches(ext, m, s),
           NEW n \in Nat \ {0}, Len(s) = n, Len(u) >= n,
           \A l \in 1..(n - 1) : u[l] = s[l],
           Opened(ext, s[n]) \subseteq Opened(ext, u[n]),
           IsStep(s[n]) => IsStep(u[n]) /\ u[n].t = s[n].t
    PROVE  \A k \in 1..(n - 1) : u[k].op = "check" => CheckAt(ext, m, u, k)
<1> SUFFICES ASSUME NEW k \in 1..(n - 1), u[k].op = "check"
             PROVE  CheckAt(ext, m, u, k)
  OBVIOUS
<1>1. DOMAIN s = 1..n /\ DOMAIN u = 1..Len(u) /\ Len(u) \in Nat
  <2> HIDE DEF Calls
  <2> QED
    OBVIOUS
<1>2. Grows(m, m)
  BY TermsCount DEF Grows
<1>3. k \in DOMAIN s /\ k \in DOMAIN u /\ u[k] = s[k]
  BY <1>1
<1>4. CheckAt(ext, m, s, k)
  BY <1>3 DEF Searches
<1>5. \A l \in 1..k : u[l] = s[l]
  OBVIOUS
<1>6. ASSUME NEW y \in OpenAbove(ext, s, k)
      PROVE  y \in OpenAbove(ext, u, k)
  <2>1. PICK l \in DOMAIN s : y \in Structs /\ l > k /\ y \in Opened(ext, s[l])
    BY DEF OpenAbove
  <2>2. l \in DOMAIN u /\ (l \in 1..(n - 1) \/ l = n)
    BY <1>1
  <2>3. y \in Opened(ext, u[l])
    BY <2>1, <2>2
  <2> QED
    BY <2>1, <2>2, <2>3 DEF OpenAbove
<1>7. SafeAt(ext, m, s, k) \subseteq SafeAt(ext, m, u, k)
  BY <1>2, <1>6, Covered
<1>8. ASSUME NEW t, Enters(s, k + 1, t)
      PROVE  Enters(u, k + 1, t)
  <2>1. k + 1 \in 1..(n - 1) \/ k + 1 = n
    OBVIOUS
  <2>2. k + 1 \in DOMAIN u
    BY <1>1
  <2> QED
    BY <1>8, <2>1, <2>2 DEF Enters
<1> QED
  <2> HIDE DEF Calls, Member
  <2> QED
    BY <1>2, <1>3, <1>4, <1>5, <1>7, <1>8, CheckStays

(* A check that goes on at a later term, having passed safe ones.          *)
LEMMA GoesOn ==
    ASSUME NEW m \in [Structs -> Seq(Member)], NEW ext, NEW s \in Seq(Calls),
           NEW u \in Seq(Calls), Searches(ext, m, s),
           NEW n \in Nat \ {0}, Len(s) = n, Len(u) >= n, s[n].op = "check",
           \A l \in 1..(n - 1) : u[l] = s[l],
           u[n].op = s[n].op, u[n].t = s[n].t, u[n].path = s[n].path,
           u[n].visited = s[n].visited, AtPlace(m, u[n]),
           \A a \in DOMAIN m[u[n].t] : \A b \in DOMAIN Terms(m[u[n].t][a]) :
              Before(a, b, u[n]) =>
                 \/ Before(a, b, s[n])
                 \/ Terms(m[u[n].t][a])[b] \in Safe(Graph(m), {})
                 \/ Enters(u, n + 1, Terms(m[u[n].t][a])[b])
    PROVE  \A k \in 1..n : u[k].op = "check" => CheckAt(ext, m, u, k)
<1>1. DOMAIN s = 1..n /\ DOMAIN u = 1..Len(u) /\ Len(u) \in Nat
  <2> HIDE DEF Calls
  <2> QED
    OBVIOUS
<1>2. IsRoot(u[n]) <=> IsRoot(s[n])
  BY DEF IsRoot
<1>3. \A k \in 1..(n - 1) : u[k].op = "check" => CheckAt(ext, m, u, k)
  <2>1. Opened(ext, s[n]) \subseteq Opened(ext, u[n])
    BY <1>2 DEF Opened
  <2>2. IsStep(s[n]) => IsStep(u[n]) /\ u[n].t = s[n].t
    BY <1>2 DEF IsStep
  <2> HIDE DEF Calls, Member
  <2> QED
    BY <2>1, <2>2, LowerStay
<1>4. CheckAt(ext, m, s, n)
  BY <1>1 DEF Searches
<1>5. OnPath(m, u, n)
  <2>1. Grows(m, m)
    BY TermsCount DEF Grows
  <2>2. n \in DOMAIN s /\ n \in DOMAIN u /\ OnPath(m, s, n)
    BY <1>1, <1>4 DEF CheckAt
  <2>3. \A l \in 1..n : u[l].op = s[l].op /\ u[l].t = s[l].t /\ u[l].path = s[l].path
    <3>1. \A l \in 1..n : l \in 1..(n - 1) \/ l = n
      OBVIOUS
    <3> QED
      BY <3>1
  <2> HIDE DEF Calls, Member
  <2> QED
    BY <2>1, <2>2, <2>3, PathStays
<1>6. /\ SafeAt(ext, m, s, n) \subseteq SafeAt(ext, m, u, n)
      /\ Safe(Graph(m), {}) \subseteq SafeAt(ext, m, u, n)
  <2>1. SafeAt(ext, m, s, n) = Safe(Graph(m), {})
    <3> HIDE DEF Calls, Member
    <3> QED
      BY TopKnows
  <2>2. Safe(Graph(m), {}) \subseteq SafeAt(ext, m, u, n)
    BY SafeToAll
  <2> QED
    BY <2>1, <2>2
<1>7. u[n].visited \ u[n].path \subseteq SafeAt(ext, m, u, n)
  BY <1>4, <1>6 DEF CheckAt
<1>8. TermsDone(m, u, n, SafeAt(ext, m, u, n))
  <2> SUFFICES ASSUME NEW a \in DOMAIN m[u[n].t],
                      NEW b \in DOMAIN Terms(m[u[n].t][a]), Before(a, b, u[n])
               PROVE  \/ Terms(m[u[n].t][a])[b] \in SafeAt(ext, m, u, n)
                      \/ Enters(u, n + 1, Terms(m[u[n].t][a])[b])
    BY DEF TermsDone
  <2>1. Before(a, b, s[n]) => Terms(m[u[n].t][a])[b] \in SafeAt(ext, m, s, n)
    BY <1>4, TopKnows DEF CheckAt, TermsDone
  <2> QED
    BY <1>6, <2>1
<1>9. CheckAt(ext, m, u, n)
  BY <1>5, <1>7, <1>8 DEF CheckAt
<1>10. \A k \in 1..n : k \in 1..(n - 1) \/ k = n
  OBVIOUS
<1> QED
  BY <1>3, <1>9, <1>10

(* Every step of a search leaves the searches right. *)
LEMMA SearchChecks ==
    ASSUME TypeOK, TypeOK', Nested, Search, program' = program, stack # <<>>,
           memberVarDecls' = memberVarDecls,
           CheckBegin \/ Descend \/ SkipVisited \/ NextDecl \/ CheckEnd
    PROVE  Search'
<1>1. PICK s, u, m, ext, n :
         /\ s = stack /\ u = stack' /\ m = memberVarDecls /\ ext = program.extends
         /\ n = Len(stack)
  OBVIOUS
<1>2. /\ m \in [Structs -> Seq(Member)] /\ s \in Seq(Calls) /\ u \in Seq(Calls)
  BY <1>1 DEF TypeOK
<1>3. Searches(ext, m, s) /\ (Searches(ext, m, u) => Search')
  BY <1>1 DEF Search
<1>4. /\ n \in Nat \ {0} /\ Len(s) = n /\ n \in DOMAIN s /\ DOMAIN s = 1..n
      /\ Top = s[n] /\ s[n] \in Calls
  BY <1>1, InCall
<1>5. DOMAIN u = 1..Len(u) /\ Len(u) \in Nat
  <2> HIDE DEF Calls
  <2> QED
    BY <1>2
<1>6. PICK t, V, P : t = s[n].t /\ V = s[n].visited /\ P = s[n].path
  OBVIOUS
<1>7. /\ t \in Structs /\ V \in SUBSET Structs /\ P \in SUBSET Structs
      /\ s[n].i \in Nat /\ s[n].j \in Nat
  BY <1>4, <1>6 DEF Calls
<1>8. PICK safe : safe = Safe(Graph(m), {})
  OBVIOUS
<1>9. s[n].op = "check" => /\ CheckAt(ext, m, s, n) /\ V \ P \subseteq safe
                           /\ t \in P /\ P \subseteq V
                           /\ OnPath(m, s, n)
  <2> SUFFICES ASSUME s[n].op = "check"
               PROVE  /\ CheckAt(ext, m, s, n) /\ V \ P \subseteq safe
                      /\ t \in P /\ P \subseteq V
                      /\ OnPath(m, s, n)
    OBVIOUS
  <2>1. CheckAt(ext, m, s, n)
    BY <1>3, <1>4 DEF Searches
  <2>2. V \ P \subseteq SafeAt(ext, m, s, n) /\ OnPath(m, s, n)
    BY <1>6, <2>1 DEF CheckAt
  <2>3. SafeAt(ext, m, s, n) = safe
    BY <1>2, <1>4, <1>8, TopKnows
  <2>4. t \in P /\ P \subseteq V
    <3>1. NestedAt(s, n)
      BY <1>1, <1>4 DEF Nested
    <3> QED
      BY <1>6, <3>1 DEF NestedAt
  <2> QED
    BY <2>1, <2>2, <2>3, <2>4
<1>10. CASE CheckBegin
  <2>1. PICK c : c = CheckOf(Top.t, {}, {})
    OBVIOUS
  <2>2. /\ c.op = "check" /\ c.t = t /\ c.i = 1 /\ c.j = 1
        /\ c.path = {t} /\ c.visited = {t}
    BY <1>4, <1>6, <2>1 DEF CheckOf
  <2>3. Len(u) = n /\ u[n] = c /\ \A l \in 1..(n - 1) : u[l] = s[l]
    BY <1>1, <1>10, <2>1, Moves DEF Turns, Below
  <2>4. s[n].op = "call_check"
    BY <1>4, <1>10 DEF CheckBegin, Running
  <2>5. IsRoot(u[n]) /\ ~IsStep(u[n]) /\ ~IsStep(s[n])
    BY <2>2, <2>3, <2>4 DEF IsRoot, IsStep
  <2>6. \A k \in 1..(n - 1) : u[k].op = "check" => CheckAt(ext, m, u, k)
    <3>1. Opened(ext, s[n]) = {t} /\ Opened(ext, u[n]) = {t}
      BY <1>6, <2>2, <2>3, <2>4, <2>5, OpenedIs
    <3>2. Opened(ext, s[n]) \subseteq Opened(ext, u[n]) /\ Len(u) >= n
      BY <1>4, <2>3, <3>1
    <3> HIDE DEF Calls, Member
    <3> QED
      BY <1>2, <1>3, <1>4, <2>3, <2>5, <3>2, LowerStay
  <2>7. CheckAt(ext, m, u, n)
    <3>1. OnPath(m, u, n)
      <4>1. \A x \in (n + 1)..n : IsStep(u[x])
        BY <1>4
      <4>2. n \in 1..n
        BY <1>4
      <4> QED
        BY <2>2, <2>3, <2>5, <4>1, <4>2 DEF OnPath
    <3>2. u[n].visited \ u[n].path = {}
      BY <2>2, <2>3
    <3> QED
      BY <1>2, <1>7, <2>2, <2>3, <3>1, <3>2, Begins DEF CheckAt
  <2>8. \A k \in DOMAIN u : k \in 1..(n - 1) \/ k = n
    BY <1>4, <1>5, <2>3
  <2> QED
    BY <1>3, <2>6, <2>7, <2>8 DEF Searches
(* The innermost check goes on at a later term. *)
<1>11. ASSUME s[n].op = "check", Len(u) >= n,
              \A l \in 1..(n - 1) : u[l] = s[l],
              u[n].op = s[n].op, u[n].t = s[n].t, u[n].path = s[n].path,
              u[n].visited = s[n].visited, AtPlace(m, u[n]),
              \A a \in DOMAIN m[t] : \A b \in DOMAIN Terms(m[t][a]) :
                  Before(a, b, u[n]) =>
                     \/ Before(a, b, s[n])
                     \/ Terms(m[t][a])[b] \in safe
                     \/ Enters(u, n + 1, Terms(m[t][a])[b])
       PROVE  \A k \in 1..n : u[k].op = "check" => CheckAt(ext, m, u, k)
  <2>1. t = u[n].t
    BY <1>6, <1>11
  <2>2. \A a \in DOMAIN m[u[n].t] : \A b \in DOMAIN Terms(m[u[n].t][a]) :
           Before(a, b, u[n]) =>
              \/ Before(a, b, s[n])
              \/ Terms(m[u[n].t][a])[b] \in Safe(Graph(m), {})
              \/ Enters(u, n + 1, Terms(m[u[n].t][a])[b])
    BY <1>8, <1>11, <2>1
  <2> HIDE DEF Calls, Member
  <2> QED
    BY <1>2, <1>3, <1>4, <1>11, <2>2, GoesOn
<1>12. ASSUME AtTerm
       PROVE  /\ s[n].op = "check" /\ s[n].i \in DOMAIN m[t]
              /\ s[n].j \in DOMAIN Terms(m[t][s[n].i])
              /\ Term = Terms(m[t][s[n].i])[s[n].j]
              /\ Term \in Deps(m, t) /\ Term \in Structs
  <2>1. /\ s[n].op = "check" /\ s[n].i \in DOMAIN m[t]
        /\ s[n].j \in DOMAIN Terms(m[t][s[n].i])
        /\ Term = Terms(m[t][s[n].i])[s[n].j]
    BY <1>1, <1>4, <1>6, <1>12 DEF AtTerm, AtDecl, Running, CheckMember, Term
  <2>2. TermOf(m, t, Term)
    BY <2>1 DEF TermOf
  <2>3. Term \in Structs
    BY <1>2, <1>7, <2>1, TermsCount
  <2> QED
    BY <2>1, <2>2, <2>3, DepsAre
<1>13. ASSUME AtTerm, u[n].op = s[n].op, u[n].t = s[n].t,
              u[n].i = s[n].i, u[n].j = s[n].j + 1
       PROVE  /\ AtPlace(m, u[n])
              /\ \A a \in DOMAIN m[t] : \A b \in DOMAIN Terms(m[t][a]) :
                    Before(a, b, u[n]) =>
                       Before(a, b, s[n]) \/ Terms(m[t][a])[b] = Term
  <2>1. AtPlace(m, u[n])
    BY <1>2, <1>6, <1>7, <1>12, <1>13, TermsCount DEF AtPlace
  <2>2. ASSUME NEW a \in DOMAIN m[t], NEW b \in DOMAIN Terms(m[t][a]), Before(a, b, u[n])
        PROVE  Before(a, b, s[n]) \/ (a = s[n].i /\ b = s[n].j)
    <3>1. b \in Nat
      BY <1>2, <1>7, <2>2, TermsCount
    <3> QED
      BY <1>7, <1>13, <2>2, <3>1 DEF Before
  <2> QED
    BY <1>12, <1>13, <2>1, <2>2
<1>14. CASE SkipVisited
  <2>1. AtTerm /\ Term \in V \ P
    BY <1>4, <1>6, <1>14 DEF SkipVisited
  <2>2. Len(u) = n /\ u[n] = NextTerm /\ \A l \in 1..(n - 1) : u[l] = s[l]
    BY <1>1, <1>14, Moves DEF Turns, Below
  <2>3. /\ u[n].op = s[n].op /\ u[n].t = s[n].t /\ u[n].i = s[n].i
        /\ u[n].j = s[n].j + 1 /\ u[n].visited = s[n].visited /\ u[n].path = s[n].path
    BY <1>4, <2>2, Fields
  <2>4. Term \in safe /\ s[n].op = "check"
    BY <1>9, <1>12, <2>1
  <2>5. AtPlace(m, u[n])
        /\ \A a \in DOMAIN m[t] : \A b \in DOMAIN Terms(m[t][a]) :
              Before(a, b, u[n]) =>
                 \/ Before(a, b, s[n])
                 \/ Terms(m[t][a])[b] \in safe
                 \/ Enters(u, n + 1, Terms(m[t][a])[b])
    BY <1>13, <2>1, <2>3, <2>4
  <2>6. \A k \in 1..n : u[k].op = "check" => CheckAt(ext, m, u, k)
    BY <1>4, <1>11, <2>2, <2>3, <2>4, <2>5
  <2> QED
    BY <1>3, <1>5, <2>2, <2>6 DEF Searches
<1>15. CASE Descend
  <2>1. AtTerm /\ Term \notin V
    BY <1>4, <1>6, <1>15 DEF Descend
  <2>2. PICK c, v : c = CheckOf(Term, Top.visited, Top.path) /\ v = Term
    OBVIOUS
  <2>3. /\ c.op = "check" /\ c.t = v /\ c.i = 1 /\ c.j = 1
        /\ c.path = P \cup {v} /\ c.visited = V \cup {v}
    BY <1>4, <1>6, <2>2 DEF CheckOf
  <2>4. /\ Len(u) = n + 1 /\ u[n] = NextTerm /\ u[n + 1] = c
        /\ \A l \in 1..(n - 1) : u[l] = s[l]
    BY <1>1, <1>15, <2>2, Moves DEF Turns2, Below
  <2>5. /\ u[n].op = s[n].op /\ u[n].t = s[n].t /\ u[n].i = s[n].i
        /\ u[n].j = s[n].j + 1 /\ u[n].visited = s[n].visited /\ u[n].path = s[n].path
    BY <1>4, <2>4, Fields
  <2>6. s[n].op = "check" /\ v \in Deps(m, t) /\ v \in Structs /\ v \notin V
    BY <1>12, <2>1, <2>2
  <2>7. IsStep(c)
    <3>1. t \in P /\ t # v
      BY <1>9, <2>6
    <3> QED
      BY <2>3, <3>1 DEF IsStep, IsRoot
  <2>8. Enters(u, n + 1, v)
    BY <1>4, <1>5, <2>3, <2>4, <2>7 DEF Enters
  <2>9. AtPlace(m, u[n])
        /\ \A a \in DOMAIN m[t] : \A b \in DOMAIN Terms(m[t][a]) :
              Before(a, b, u[n]) =>
                 \/ Before(a, b, s[n])
                 \/ Terms(m[t][a])[b] \in safe
                 \/ Enters(u, n + 1, Terms(m[t][a])[b])
    BY <1>13, <2>1, <2>2, <2>5, <2>8
  <2>10. \A k \in 1..n : u[k].op = "check" => CheckAt(ext, m, u, k)
    BY <1>4, <1>11, <2>4, <2>5, <2>6, <2>9
  <2>11. CheckAt(ext, m, u, n + 1)
    <3>1. OnPath(m, u, n + 1)
      <4>2. ASSUME NEW p \in u[n + 1].path
            PROVE  \E l \in 1..(n + 1) : /\ u[l].t = p
                                         /\ \A x \in (l + 1)..(n + 1) : IsStep(u[x])
        <5>1. CASE p = v
          <6>1. \A x \in (n + 1 + 1)..(n + 1) : IsStep(u[x])
            BY <1>4
          <6>2. n + 1 \in 1..(n + 1)
            BY <1>4
          <6> QED
            BY <2>3, <2>4, <5>1, <6>1, <6>2
        <5>2. CASE p \in P
          <6>1. PICK l \in 1..n : s[l].t = p /\ \A x \in (l + 1)..n : IsStep(s[x])
            BY <1>6, <1>9, <2>6, <5>2 DEF OnPath
          <6>2. IsStep(u[n]) <=> IsStep(s[n])
            BY <2>5 DEF IsStep, IsRoot
          <6>3. \A x \in 1..n : u[x].t = s[x].t /\ (IsStep(u[x]) <=> IsStep(s[x]))
            <7>1. \A x \in 1..n : x \in 1..(n - 1) \/ x = n
              BY <1>4
            <7> QED
              BY <2>4, <2>5, <6>2, <7>1
          <6>4. \A x \in (l + 1)..(n + 1) : x = n + 1 \/ (x \in (l + 1)..n /\ x \in 1..n)
            BY <1>4
          <6>5. \A x \in (l + 1)..(n + 1) : IsStep(u[x])
            BY <2>4, <2>7, <6>1, <6>3, <6>4
          <6>6. l \in 1..(n + 1)
            BY <1>4
          <6> QED
            BY <6>1, <6>3, <6>5, <6>6
        <5> QED
          BY <2>3, <2>4, <4>2, <5>1, <5>2
      <4> QED
        <5>1. PICK k : k = n + 1
          OBVIOUS
        <5>2. k > 1 /\ u[k].t \in Deps(m, u[k - 1].t)
          <6>1. k - 1 = n /\ k > 1
            BY <1>4, <5>1
          <6>2. u[k].t = v /\ u[n].t = t
            BY <1>6, <2>3, <2>4, <2>5, <5>1
          <6> QED
            BY <2>6, <6>1, <6>2
        <5>3. \A p \in u[k].path : \E l \in 1..k : /\ u[l].t = p
                                                  /\ \A x \in (l + 1)..k : IsStep(u[x])
          BY <4>2, <5>1, Zenon
        <5>4. OnPath(m, u, k)
          BY <5>2, <5>3 DEF OnPath
        <5> QED
          BY <5>1, <5>4, Zenon
    <3>2. u[n + 1].visited \ u[n + 1].path \subseteq SafeAt(ext, m, u, n + 1)
      <4>1. u[n + 1].visited \ u[n + 1].path \subseteq V \ P
        BY <2>3, <2>4
      <4>2. safe \subseteq SafeAt(ext, m, u, n + 1)
        BY <1>8, SafeToAll
      <4> QED
        BY <1>9, <2>6, <4>1, <4>2
    <3>3. u[n + 1].t \in Structs /\ u[n + 1].i = 1 /\ u[n + 1].j = 1
      BY <2>3, <2>4, <2>6
    <3>4. AtPlace(m, u[n + 1]) /\ TermsDone(m, u, n + 1, SafeAt(ext, m, u, n + 1))
      <4> HIDE DEF Member
      <4> QED
        BY <1>2, <3>3, Begins
    <3> QED
      BY <3>1, <3>2, <3>4 DEF CheckAt
  <2>12. \A k \in DOMAIN u : k \in 1..n \/ k = n + 1
    BY <1>4, <1>5, <2>4
  <2> QED
    BY <1>3, <2>10, <2>11, <2>12 DEF Searches
<1>16. CASE NextDecl
  <2>1. /\ s[n].op = "check" /\ s[n].i \in DOMAIN m[t]
        /\ s[n].j > Len(Terms(m[t][s[n].i]))
    BY <1>1, <1>4, <1>6, <1>16 DEF NextDecl, AtDecl, Running, CheckMember
  <2>2. PICK c : c = [Top EXCEPT !.i = @ + 1, !.j = 1]
    OBVIOUS
  <2>3. Len(u) = n /\ u[n] = c /\ \A l \in 1..(n - 1) : u[l] = s[l]
    BY <1>1, <1>16, <2>2, Moves DEF Turns, Below
  <2>4. /\ u[n].op = s[n].op /\ u[n].t = s[n].t /\ u[n].i = s[n].i + 1
        /\ u[n].j = 1 /\ u[n].visited = s[n].visited /\ u[n].path = s[n].path
    BY <1>4, <2>2, <2>3, Fields
  <2>5. AtPlace(m, u[n])
    BY <1>2, <1>6, <1>7, <2>1, <2>4, TermsCount DEF AtPlace
  <2>6. ASSUME NEW a \in DOMAIN m[t], NEW b \in DOMAIN Terms(m[t][a]), Before(a, b, u[n])
        PROVE  Before(a, b, s[n])
    <3>1. /\ a \in Nat /\ b \in Nat /\ b >= 1 /\ b <= Len(Terms(m[t][a]))
          /\ Len(Terms(m[t][a])) \in Nat
      BY <1>2, <1>7, <2>6, TermsCount
    <3>2. a < s[n].i + 1 \/ (a = s[n].i + 1 /\ b < 1)
      BY <2>4, <2>6 DEF Before
    <3>3. a < s[n].i \/ a = s[n].i
      BY <1>7, <3>1, <3>2
    <3>4. a = s[n].i => b < s[n].j
      BY <1>7, <2>1, <3>1
    <3> QED
      BY <3>3, <3>4 DEF Before
  <2>7. \A k \in 1..n : u[k].op = "check" => CheckAt(ext, m, u, k)
    BY <1>4, <1>11, <2>1, <2>3, <2>4, <2>5, <2>6
  <2> QED
    BY <1>3, <1>5, <2>3, <2>7 DEF Searches
<1>17. CASE CheckEnd
  <2>1. s[n].op = "check" /\ s[n].i > Len(m[t])
    BY <1>1, <1>4, <1>6, <1>17 DEF CheckEnd, CheckReturns, Running
  <2>2. t \in safe
    <3> HIDE DEF Calls, Member
    <3> QED
      BY <1>2, <1>4, <1>6, <1>8, <1>9, <2>1, AllPassed
  <2>3. Grows(m, m)
    BY <1>2, TermsCount DEF Grows
  <2>4. CASE IsRoot(Top)
    <3>1. Len(u) = n - 1 /\ \A l \in 1..(n - 1) : u[l] = s[l]
      BY <1>1, <1>17, <2>4, Moves DEF Returns, Below
    <3>2. Opened(ext, s[n]) = {t}
      BY <1>4, <1>6, <2>4, OpenedIs
    <3>3. ASSUME NEW k \in DOMAIN u, u[k].op = "check"
          PROVE  /\ k \in DOMAIN s /\ \A l \in 1..k : u[l] = s[l]
                 /\ SafeAt(ext, m, s, k) \subseteq SafeAt(ext, m, u, k)
                 /\ \A v : Enters(s, k + 1, v) => Enters(u, k + 1, v)
      <4>1. k \in 1..(n - 1) /\ k \in DOMAIN s
        BY <1>4, <1>5, <3>1, <3>3
      <4>2. \A l \in 1..k : u[l] = s[l]
        BY <1>4, <3>1, <4>1
      <4>3. OpenAbove(ext, u, k) \subseteq OpenAbove(ext, s, k)
        <5>1. \A l \in DOMAIN u : l \in DOMAIN s /\ u[l] = s[l]
          BY <1>4, <1>5, <3>1
        <5> QED
          BY <5>1 DEF OpenAbove
      <4>4. \A y \in OpenAbove(ext, s, k) : y \in OpenAbove(ext, u, k) \/ y = t
        <5> SUFFICES ASSUME NEW y \in OpenAbove(ext, s, k)
                     PROVE  y \in OpenAbove(ext, u, k) \/ y = t
          OBVIOUS
        <5>1. PICK l \in DOMAIN s : y \in Structs /\ l > k /\ y \in Opened(ext, s[l])
          BY DEF OpenAbove
        <5>2. l = n \/ (l \in DOMAIN u /\ u[l] = s[l])
          BY <1>4, <1>5, <3>1
        <5> QED
          BY <3>2, <5>1, <5>2 DEF OpenAbove
      <4>5. PICK G, H : G = Growing(ext, m, s, k) /\ H = Growing(ext, m, u, k)
        OBVIOUS
      <4>6. H \subseteq G /\ G \subseteq Structs
        BY <4>3, <4>5 DEF Growing
      <4>7. \A e \in G \ H : Graph(m)[e] \subseteq Graph(m)[t]
        <5> SUFFICES ASSUME NEW e \in G \ H
                     PROVE  Graph(m)[e] \subseteq Graph(m)[t]
          OBVIOUS
        <5>1. PICK y \in OpenAbove(ext, s, k) : e \in Structs /\ Deps(m, e) \subseteq Deps(m, y)
          BY <4>5 DEF Growing
        <5>2. y \notin OpenAbove(ext, u, k)
          BY <4>5, <5>1 DEF Growing
        <5> QED
          BY <1>7, <4>4, <5>1, <5>2 DEF Graph
      <4>8. Safe(Graph(m), G) \subseteq Safe(Graph(m), H)
        BY <1>8, <2>2, <4>6, <4>7, SafeOver
      <4>9. ASSUME NEW v, Enters(s, k + 1, v)
            PROVE  Enters(u, k + 1, v)
        <5>1. k + 1 # n
          BY <1>4, <2>4, <4>9 DEF Enters, IsStep
        <5>2. k + 1 \in DOMAIN u /\ k + 1 \in 1..(n - 1)
          BY <1>4, <1>5, <3>1, <4>1, <5>1
        <5> QED
          BY <3>1, <4>9, <5>2 DEF Enters
      <4> QED
        BY <4>1, <4>2, <4>5, <4>8, <4>9 DEF SafeAt
    <3>4. Searches(ext, m, u)
      <4> HIDE DEF Calls, Member
      <4> QED
        BY <1>2, <1>3, <2>3, <3>3, SearchKept
    <3> QED
      BY <1>3, <3>4
  <2>5. CASE ~IsRoot(Top)
    <3>1. n > 1 /\ s[n - 1].op = "check" /\ P = s[n - 1].path \cup {t}
      <4>1. NestedAt(s, n)
        BY <1>1, <1>4 DEF Nested
      <4> QED
        BY <1>4, <1>6, <2>1, <2>5, <4>1 DEF NestedAt
    <3>2. PICK q : q = n - 1 /\ q \in Nat \ {0} /\ q + 1 = n
      BY <1>4, <3>1
    <3>3. PICK r, c : r = s[q] /\ c = [r EXCEPT !.visited = V]
      OBVIOUS
    <3>4. r \in Calls /\ r.op = "check" /\ P = r.path \cup {t} /\ q \in DOMAIN s
      <4>1. q \in DOMAIN s
        BY <1>4, <3>2
      <4>2. r \in Calls
        <5> HIDE DEF Calls
        <5> QED
          BY <1>2, <3>3, <4>1
      <4> QED
        BY <3>1, <3>2, <3>3, <4>1, <4>2
    <3>5. /\ c.op = r.op /\ c.t = r.t /\ c.i = r.i /\ c.j = r.j
          /\ c.path = r.path /\ c.visited = V
      BY <3>3, <3>4 DEF Calls
    <3>6. Len(u) = q /\ u[q] = c /\ \A l \in 1..(q - 1) : u[l] = s[l]
      <4>1. /\ Len(u) = n - 1 /\ \A l \in 1..(n - 2) : u[l] = s[l]
            /\ u[n - 1] = [s[n - 1] EXCEPT !.visited = V]
        BY <1>1, <1>4, <1>6, <1>17, <2>5, <3>1, MovesBack
      <4>2. q - 1 = n - 2
        BY <1>4, <3>2
      <4> QED
        BY <3>2, <3>3, <4>1, <4>2
    <3>7. (IsRoot(c) <=> IsRoot(r)) /\ (IsStep(c) <=> IsStep(r))
          /\ Opened(ext, c) = Opened(ext, r)
      BY <3>5 DEF IsRoot, IsStep, Opened
    <3>8. IsStep(s[n]) /\ Opened(ext, s[n]) = {}
      <4>1. IsStep(s[n])
        BY <1>4, <2>1, <2>5 DEF IsStep
      <4> QED
        BY <4>1, OpenedIs
    <3>9. DOMAIN u = 1..q
      BY <1>5, <3>6
    <3>10. ASSUME NEW k \in 1..(q - 1), u[k].op = "check"
           PROVE  CheckAt(ext, m, u, k)
      <4>1. k \in DOMAIN s /\ k \in DOMAIN u /\ \A l \in 1..k : u[l] = s[l]
        BY <1>4, <3>2, <3>6, <3>9, <3>10
      <4>2. k \in 1..k /\ u[k] = s[k]
        BY <3>6, <3>10
      <4>3. CheckAt(ext, m, s, k)
        BY <1>3, <3>10, <4>1, <4>2 DEF Searches
      <4>4. ASSUME NEW y \in OpenAbove(ext, s, k)
            PROVE  y \in OpenAbove(ext, u, k)
        <5>1. PICK l \in DOMAIN s : y \in Structs /\ l > k /\ y \in Opened(ext, s[l])
          BY <4>4 DEF OpenAbove
        <5>2. l # n
          BY <3>8, <5>1
        <5>3. l \in 1..(q - 1) \/ l = q
          BY <1>4, <3>2, <5>2
        <5>4. l \in DOMAIN u
          BY <3>2, <3>9, <5>3
        <5>5. y \in Opened(ext, u[l])
          BY <3>3, <3>6, <3>7, <5>1, <5>3
        <5> QED
          BY <5>1, <5>4, <5>5 DEF OpenAbove
      <4>5. SafeAt(ext, m, s, k) \subseteq SafeAt(ext, m, u, k)
        BY <1>2, <2>3, <4>4, Covered
      <4>6. ASSUME NEW v, Enters(s, k + 1, v)
            PROVE  Enters(u, k + 1, v)
        <5>1. k + 1 \in 1..(q - 1) \/ k + 1 = q
          BY <3>2, <3>10
        <5>2. k + 1 \in DOMAIN u
          BY <3>2, <3>9, <5>1
        <5> QED
          BY <3>3, <3>5, <3>6, <3>7, <4>6, <5>1, <5>2 DEF Enters
      <4> HIDE DEF Calls, Member
      <4> QED
        BY <1>2, <2>3, <4>1, <4>3, <4>5, <4>6, CheckStays
    <3>11. CheckAt(ext, m, u, q)
      <4>1. CheckAt(ext, m, s, q)
        BY <1>3, <3>3, <3>4 DEF Searches
      <4>2. SafeAt(ext, m, s, q) = safe
        <5>1. OpenAbove(ext, s, q) = {}
          <6>1. \A l \in DOMAIN s : l > q => l = n
            BY <1>4, <3>2
          <6> QED
            BY <3>8, <6>1 DEF OpenAbove
        <5>2. Growing(ext, m, s, q) = {}
          BY <5>1 DEF Growing
        <5> QED
          BY <1>8, <5>2 DEF SafeAt
      <4>3. safe \subseteq SafeAt(ext, m, u, q)
        BY <1>8, SafeToAll
      <4>4. OnPath(m, u, q)
        <5>1. OnPath(m, s, q)
          BY <4>1 DEF CheckAt
        <5>2. \A l \in 1..q : u[l].op = s[l].op /\ u[l].t = s[l].t /\ u[l].path = s[l].path
          <6>1. \A l \in 1..q : l \in 1..(q - 1) \/ l = q
            BY <3>2
          <6> QED
            BY <3>3, <3>5, <3>6, <6>1
        <5>3. q \in DOMAIN u
          BY <3>2, <3>9
        <5> HIDE DEF Calls, Member
        <5> QED
          BY <1>2, <2>3, <3>4, <5>1, <5>2, <5>3, PathStays
      <4>5. AtPlace(m, u[q])
        BY <3>3, <3>5, <3>6, <4>1 DEF CheckAt, AtPlace
      <4>6. u[q].visited \ u[q].path \subseteq SafeAt(ext, m, u, q)
        <5>1. u[q].visited \ u[q].path \subseteq (V \ P) \cup {t}
          BY <3>4, <3>5, <3>6
        <5> QED
          BY <1>9, <2>1, <2>2, <4>3, <5>1
      <4>7. TermsDone(m, u, q, SafeAt(ext, m, u, q))
        <5> SUFFICES ASSUME NEW a \in DOMAIN m[u[q].t],
                            NEW b \in DOMAIN Terms(m[u[q].t][a]), Before(a, b, u[q])
                     PROVE  Terms(m[u[q].t][a])[b] \in SafeAt(ext, m, u, q)
          BY DEF TermsDone
        <5>1. Before(a, b, s[q]) /\ u[q].t = s[q].t
          BY <3>3, <3>5, <3>6 DEF Before
        <5>2. PICK v : v = Terms(m[u[q].t][a])[b]
          OBVIOUS
        <5>3. v \in safe \/ Enters(s, q + 1, v)
          BY <4>1, <4>2, <5>1, <5>2 DEF CheckAt, TermsDone
        <5>4. Enters(s, q + 1, v) => v = t
          BY <1>6, <3>2 DEF Enters
        <5> QED
          BY <2>2, <4>3, <5>2, <5>3, <5>4
      <4> QED
        BY <4>4, <4>5, <4>6, <4>7 DEF CheckAt
    <3>12. \A k \in DOMAIN u : k \in 1..(q - 1) \/ k = q
      BY <3>2, <3>9
    <3> QED
      BY <1>3, <3>10, <3>11, <3>12 DEF Searches
  <2> QED
    BY <2>4, <2>5
<1> QED
  BY <1>10, <1>14, <1>15, <1>16, <1>17

(* When the check reports a cycle, it stands at one. *)
CycleMet == outcome = "cycle" =>
    stack # <<>> /\ Top.op = "check" /\ \E p \in Top.path : p \in Deps(memberVarDecls, Top.t)

SearchInv == Search /\ CycleMet

(* Every step of the stage leaves the searches right. *)
LEMMA SearchStep ==
    ASSUME TypeOK, TypeOK', Nested, Layouts, Search, [Next]_vars
    PROVE  Search'
<1>1. Grows(memberVarDecls, memberVarDecls')
  BY LayoutsGrow
<1>2. program' = program
  BY DEF Next, Complete, MakeTemplate, Check, NextStruct, StageEnd, Enter, NoBase,
     MakeBase, ExtendsItself, CompleteBase, Inherit, DeclareMember, MakeMember,
     TypeMember, Leave, ExpandMember, CompleteInstance, DeferInstance, CheckBegin,
     MakeInCheck, Descend, Cycle, SkipVisited, NextDecl, CheckEnd, MakeFirst, Make,
     Fail, vars
<1>3. CASE stack' = stack /\ memberVarDecls' = memberVarDecls
  BY <1>2, <1>3 DEF Search
<1>4. ASSUME NEW t \in Structs, NextStruct(t)
      PROVE  Search'
  <2>1. stack' = <<Call("call_complete", t), Call("call_check", t)>>
    BY <1>4 DEF NextStruct
  <2>2. \A k \in DOMAIN stack' : stack'[k].op # "check"
    BY <2>1 DEF Call
  <2> QED
    BY <2>2 DEF Search, Searches
<1>5. CASE Complete \/ MakeTemplate \/ MakeInCheck
  <2>1. stack # <<>>
    BY <1>5 DEF Complete, MakeTemplate, Enter, NoBase,
     MakeBase, ExtendsItself, CompleteBase, Inherit, DeclareMember, MakeMember,
     TypeMember, Leave, ExpandMember, CompleteInstance, DeferInstance,
     MakeInCheck, AtBase, AtMember, AtDecl, Running
  <2> QED
    BY <1>1, <1>2, <1>5, <2>1, SearchOthers
<1>6. CASE CheckBegin \/ Descend \/ SkipVisited \/ NextDecl \/ CheckEnd
  <2>1. stack # <<>> /\ memberVarDecls' = memberVarDecls
    BY <1>6 DEF CheckBegin, Descend, SkipVisited, NextDecl, CheckEnd, CheckReturns,
       AtTerm, AtDecl, Running, layout
  <2> QED
    BY <1>2, <1>6, <2>1, SearchChecks
<1>7. CASE StageEnd \/ Cycle \/ UNCHANGED vars
  <2>1. stack' = stack /\ memberVarDecls' = memberVarDecls
    BY <1>7 DEF StageEnd, Cycle, Fail, layout, vars
  <2> QED
    BY <1>3, <2>1
<1> QED
  BY <1>4, <1>5, <1>6, <1>7 DEF Next, Check

(* Only the check of a term on the path reports a cycle. *)
LEMMA CycleStep ==
    ASSUME TypeOK, Search, CycleMet, [Next]_vars
    PROVE  CycleMet'
<1>1. CASE UNCHANGED vars
  <2>1. UNCHANGED <<outcome, stack, memberVarDecls>>
    BY <1>1 DEF vars, layout
  <2> QED
    BY <2>1 DEF CycleMet, Top
<1>2. CASE Cycle
  <2>1. /\ stack # <<>> /\ Top.op = "check" /\ AtTerm /\ Term \in Top.path
        /\ UNCHANGED <<stack, memberVarDecls>>
    BY <1>2 DEF Cycle, AtTerm, AtDecl, Running, Fail, layout
  <2>2. /\ Top.i \in DOMAIN memberVarDecls[Top.t]
        /\ Top.j \in DOMAIN Terms(memberVarDecls[Top.t][Top.i])
        /\ Term = Terms(memberVarDecls[Top.t][Top.i])[Top.j]
    BY <2>1 DEF AtTerm, AtDecl, CheckMember, Term
  <2>3. TermOf(memberVarDecls, Top.t, Term)
    BY <2>2 DEF TermOf
  <2>4. Term \in Deps(memberVarDecls, Top.t)
    BY <2>3, DepsAre
  <2>5. Top' = Top
    BY <2>1 DEF Top
  <2> QED
    BY <2>1, <2>4, <2>5 DEF CycleMet
<1>3. ASSUME Next, ~Cycle
      PROVE  outcome' # "cycle"
  BY <1>3 DEF Next, Complete, MakeTemplate, Check, NextStruct, StageEnd, Enter, NoBase,
     MakeBase, ExtendsItself, CompleteBase, Inherit, DeclareMember, MakeMember,
     TypeMember, Leave, ExpandMember, CompleteInstance, DeferInstance, CheckBegin,
     MakeInCheck, Descend, SkipVisited, NextDecl, CheckEnd, CheckReturns, MakeFirst,
     Make, Fail, AtBase, AtMember, AtTerm, AtDecl, Running
<1> QED
  BY <1>1, <1>2, <1>3 DEF CycleMet

(* The searches stay right, with the invariant of the layouts. *)
THEOREM SearchInductive == Spec => []SearchInv
<1>1. Init => SearchInv
  <2> SUFFICES ASSUME Init PROVE SearchInv
    OBVIOUS
  <2>1. DOMAIN stack = {} /\ outcome # "cycle"
    BY DEF Init
  <2>2. Search
    BY <2>1 DEF Search, Searches
  <2>3. CycleMet
    BY <2>1 DEF CycleMet
  <2> QED
    BY <2>2, <2>3 DEF SearchInv
<1>2. ASSUME IInv, IInv', SearchInv, [Next]_vars
      PROVE  SearchInv'
  <2>1. Search' /\ CycleMet'
    BY <1>2, SearchStep, CycleStep DEF IInv, SearchInv
  <2> QED
    BY <2>1 DEF SearchInv
<1> QED
  BY <1>1, <1>2, StructTypesInductive, PTL DEF Spec

(* What Acyclic says is that a type is safe without exception. *)
LEMMA AcyclicIsSafe ==
    \A t \in Structs : Acyclic(t) <=> t \in Safe(Graph(memberVarDecls), {})
<1> SUFFICES ASSUME NEW t \in Structs
             PROVE  Acyclic(t) <=> t \in Safe(Graph(memberVarDecls), {})
  OBVIOUS
<1>1. PICK d : d = Graph(memberVarDecls)
  OBVIOUS
<1>2. \A z \in Structs : DependsOn(z) = d[z]
  BY <1>1 DEF Graph, Deps, DependsOn
<1>3. ASSUME NEW Z \in SUBSET Structs
      PROVE  /\ (\A z \in Z : DependsOn(z) \subseteq Z) <=> Closed(d, Z, {})
             /\ (\A X \in (SUBSET Z) \ {{}} : \E x \in X : DependsOn(x) \cap X = {})
                    <=> Sinks(d, Z \ {})
  <2>1. (\A z \in Z : DependsOn(z) \subseteq Z) <=> Closed(d, Z, {})
    BY <1>2 DEF Closed
  <2>2. ASSUME NEW X \in SUBSET Z
        PROVE  (\E x \in X : DependsOn(x) \cap X = {}) <=> (\E x \in X : d[x] \cap X = {})
    BY <1>2
  <2>3. (\A X \in (SUBSET Z) \ {{}} : \E x \in X : DependsOn(x) \cap X = {})
           <=> Sinks(d, Z)
    <3>1. \A X : X \in (SUBSET Z) \ {{}} <=> X \in SUBSET Z /\ X # {}
      OBVIOUS
    <3>2. (\A X \in (SUBSET Z) \ {{}} : \E x \in X : DependsOn(x) \cap X = {})
             <=> \A X \in SUBSET Z : X # {} => \E x \in X : d[x] \cap X = {}
      <4>1. ASSUME \A X \in (SUBSET Z) \ {{}} : \E x \in X : DependsOn(x) \cap X = {},
                   NEW X \in SUBSET Z, X # {}
            PROVE  \E x \in X : d[x] \cap X = {}
        <5>1. X \in (SUBSET Z) \ {{}}
          BY <3>1, <4>1
        <5>2. \E x \in X : DependsOn(x) \cap X = {}
          BY <4>1, <5>1, Zenon
        <5> QED
          BY <2>2, <5>2, Zenon
      <4>2. ASSUME \A X \in SUBSET Z : X # {} => \E x \in X : d[x] \cap X = {},
                   NEW X \in (SUBSET Z) \ {{}}
            PROVE  \E x \in X : DependsOn(x) \cap X = {}
        <5>1. X \in SUBSET Z /\ X # {}
          BY <3>1, <4>2
        <5>2. \E x \in X : d[x] \cap X = {}
          BY <4>2, <5>1, Zenon
        <5> QED
          BY <2>2, <5>1, <5>2, Zenon
      <4> QED
        BY <4>1, <4>2, Zenon
    <3> QED
      BY <3>2 DEF Sinks, Zenon
  <2>4. Z \ {} = Z
    OBVIOUS
  <2> QED
    BY <2>1, <2>3, <2>4
<1>4. \A Z \in SUBSET Structs : Shows(d, Z, {}) <=>
         /\ \A z \in Z : DependsOn(z) \subseteq Z
         /\ \A X \in (SUBSET Z) \ {{}} : \E x \in X : DependsOn(x) \cap X = {}
  BY <1>3 DEF Shows
<1> QED
  BY <1>1, <1>4 DEF Acyclic, Safe

(* A path that ends at one of its types is a cycle; a search that has      *)
(* passed every term leaves its type safe.                                 *)
LEMMA ExactFromInv == IInv /\ SearchInv => CheckIsExact
<1> SUFFICES ASSUME IInv, SearchInv PROVE CheckIsExact
  OBVIOUS
<1>1. PICK s, m, n, ext : /\ s = stack /\ m = memberVarDecls /\ n = Len(stack)
                          /\ ext = program.extends
  OBVIOUS
<1>2. /\ TypeOK /\ Search /\ CycleMet
      /\ m \in [Structs -> Seq(Member)] /\ s \in Seq(Calls) /\ Searches(ext, m, s)
  BY <1>1 DEF IInv, SearchInv, TypeOK, Search
<1>3. ASSUME stack # <<>>
      PROVE  /\ n \in Nat \ {0} /\ Len(s) = n /\ DOMAIN s = 1..n
             /\ Top = s[n] /\ Top.t \in Structs
             /\ \A k \in 1..n : s[k].t \in Structs
  BY <1>1, <1>2, <1>3, InCall
<1>4. ASSUME outcome = "cycle"
      PROVE  ~Acyclic(Top.t)
  <2>1. /\ stack # <<>> /\ Top.op = "check"
        /\ \E p \in Top.path : p \in Deps(m, Top.t)
    BY <1>1, <1>2, <1>4 DEF CycleMet
  <2>2. PICK p \in Top.path : p \in Deps(m, Top.t)
    BY <2>1
  <2>3. CheckAt(ext, m, s, n)
    BY <1>2, <1>3, <2>1 DEF Searches
  <2>4. PICK l \in 1..n : s[l].t = p /\ \A x \in (l + 1)..n : IsStep(s[x])
    BY <1>3, <2>1, <2>2, <2>3 DEF CheckAt, OnPath
  <2>5. PICK C : C = {s[x].t : x \in l..n}
    OBVIOUS
  <2>6. ASSUME NEW x \in l..n
        PROVE  Graph(m)[s[x].t] \cap C # {}
    <3>1. x \in 1..n /\ Graph(m)[s[x].t] = Deps(m, s[x].t)
      BY <1>3, <2>1, <2>4 DEF Graph
    <3>2. CASE x = n
      <4>1. p \in Deps(m, s[x].t)
        BY <1>3, <2>1, <2>2, <3>2
      <4>2. p \in C
        BY <1>3, <2>1, <2>4, <2>5
      <4> QED
        BY <3>1, <4>1, <4>2
    <3>3. CASE x # n
      <4>1. PICK y : y = x + 1 /\ y \in (l + 1)..n /\ y \in l..n /\ y - 1 = x /\ y \in 1..n
        BY <1>3, <2>1, <2>4, <3>1, <3>3
      <4>2. IsStep(s[y])
        BY <2>4, <4>1
      <4>3. CheckAt(ext, m, s, y)
        BY <1>2, <1>3, <2>1, <4>1, <4>2 DEF Searches, IsStep
      <4>4. s[y].t \in Deps(m, s[x].t)
        BY <4>1, <4>2, <4>3 DEF CheckAt, OnPath
      <4>5. s[y].t \in C
        BY <2>5, <4>1
      <4> QED
        BY <3>1, <4>4, <4>5
    <3> QED
      BY <3>2, <3>3
  <2>7. \A x \in C : Graph(m)[x] \cap C # {}
    BY <2>5, <2>6
  <2>8. C \cap Safe(Graph(m), {}) = {}
    BY <2>7, CycleUnsafe
  <2>9. Top.t \in C
    BY <1>3, <2>1, <2>4, <2>5
  <2> QED
    BY <1>1, <1>3, <2>1, <2>8, <2>9, AcyclicIsSafe
<1>5. ASSUME CheckReturns, IsRoot(Top)
      PROVE  Acyclic(Top.t)
  <2>1. stack # <<>> /\ Top.op = "check" /\ Top.i > Len(m[Top.t])
    BY <1>1, <1>5 DEF CheckReturns, Running
  <2>2. CheckAt(ext, m, s, n)
    BY <1>2, <1>3, <2>1 DEF Searches
  <2>3. Top.t \in Safe(Graph(m), {})
    <3> HIDE DEF Calls, Member
    <3> QED
      BY <1>2, <1>3, <2>1, <2>2, AllPassed
  <2> QED
    BY <1>1, <1>3, <2>1, <2>3, AcyclicIsSafe
<1> QED
  BY <1>4, <1>5 DEF CheckIsExact

(* Type::checkForCycles reports a cycle only where there is one, and a     *)
(* check that ends without an error has left none behind, although it      *)
(* visits a type once, remembers one path and may make types as it runs.   *)
THEOREM ChecksAreExact == Spec => []CheckIsExact
BY StructTypesInductive, SearchInductive, ExactFromInv, PTL
=============================================================================
