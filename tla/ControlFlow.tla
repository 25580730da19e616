----------------------------- MODULE ControlFlow -----------------------------
(***************************************************************************)
(* What the compiler makes of the statements of a procedure: semantic      *)
(* analysis refuses some (src/src/ASTNode.cpp), the back end turns the     *)
(* others into basic blocks (src/src/LLVMBackEnd.cpp), LLVM verifies them  *)
(* and the program runs.  Its steps are compared with those of the         *)
(* statements it was made from (SourceFlow).                               *)
(*                                                                         *)
(* Expressions are reduced to what moves control: tests, "and", "or" and   *)
(* expression blocks.  A jump's label is the number of a block; 0 is what  *)
(* the top of an empty stack of loops gives.                               *)
(***************************************************************************)
EXTENDS SourceFlow, FiniteSets

CONSTANTS
    Bodies,        \* the lists of statements compiled
    Kinds          \* what they are the body of: "void", "int", "main"

VARIABLES
    body, kind,    \* the statements, and of what
    phase,         \* what the compiler has done with them
    blocks,        \* the basic blocks made of them
    machine,       \* the state of the compiled program
    source         \* the program the statements mean, as far as it has run

vars == <<body, kind, phase, blocks, machine, source>>

Jumps == {"return", "break", "continue"}

-----------------------------------------------------------------------------
(* Analysis.                                                               *)
RECURSIVE Ends(_)

\* HAS_TOP_LEVEL_RETURN of what has these statements: handleTerminators has
\* met a jump, or a conditional whose alternatives both have the flag.
AlwaysReturns(n) == Len(n.kids) = 3 /\ Ends(n.kids[2]) /\ Ends(n.kids[3])
EndsAt(n) == CASE n.k = "if"    -> AlwaysReturns(n)
               [] n.k = "multi" -> Ends(n.kids[1])
               [] OTHER         -> n.k \in Jumps
Ends(nodes) == \E i \in DOMAIN nodes : EndsAt(nodes[i])

\* searchUnreach: after a jump there may be only what generates no code.  Of a
\* jump in a MultiNode only the rest of the MultiNode is searched.
RECURSIVE Reached(_)
ReachedAfter(nodes, i) ==
    CASE nodes[i].k \in Jumps   -> \A j \in (i + 1)..Len(nodes) : nodes[j].k = "ignore"
      [] nodes[i].k = "multi"   -> Reached(nodes[i].kids[1])
      [] OTHER                  -> TRUE
Reached(nodes) == \A i \in DOMAIN nodes : ReachedAfter(nodes, i)

\* The lists of statements that are searched: not those of expression blocks.
IfLists(n)    == {n.kids[i] : i \in 2..Len(n.kids)}
LoopList(n)   == n.kids[Len(n.kids)]
WithList(n)   == n.kids[2]
Statements(n) == CASE n.k = "if"     -> IfLists(n)
                   [] n.k \in Loops  -> {LoopList(n)}
                   [] n.k = "match"  -> {WithList(n)}
                   [] OTHER          -> {}

\* The yields of an expression block: not those of the blocks in it.
RECURSIVE Yields(_)
YieldsAt(n)   == n.k = "yield" \/ (n.k # "block" /\ \E i \in DOMAIN n.kids : Yields(n.kids[i]))
Yields(nodes) == \E i \in DOMAIN nodes : YieldsAt(nodes[i])

\* break and continue look for a loop among their parents as long as these are
\* statements.  A MultiNode is not one; getParent skips it, but the search begins
\* at the parent itself.  return looks for a procedure, yield for a block.
Directly(nodes) == \A i \in DOMAIN nodes : nodes[i].k \notin {"break", "continue"}
RECURSIVE Legal(_, _, _, _)
LegalAt(n, proc, loop, block) ==
    /\ n.k = "return" => proc
    /\ n.k \in {"break", "continue"} => loop
    /\ n.k = "yield" => block
    /\ n.k = "block" => Yields(n.kids[1])
    /\ n.k = "multi" => Directly(n.kids[1])
    /\ \A nodes \in Statements(n) : Reached(nodes)
    /\ \A i \in DOMAIN n.kids :
          Legal(n.kids[i], proc, n.k \in Loops \/ loop, block \/ n.k = "block")
Legal(nodes, proc, loop, block) == \A i \in DOMAIN nodes : LegalAt(nodes[i], proc, loop, block)

\* Procedure::analyze; the statements of the program itself are only analyzed.
Accepted == /\ Legal(body, kind # "main", FALSE, FALSE)
            /\ kind # "main" => Reached(body)
            /\ kind = "int" => Ends(body)

-----------------------------------------------------------------------------
(* Instructions, and the builder: the blocks so far, the one it appends    *)
(* to, and the stacks of where to break, to continue and to yield.         *)
Instr(op, id, to) == [op |-> op, id |-> id, to |-> to]
Br(b)         == Instr("br", <<>>, <<b>>)
CondBr(b, c)  == Instr("condbr", <<>>, <<b, c>>)
Load(id)      == Instr("load", id, <<>>)
Store(id)     == Instr("store", id, <<>>)
Phi(op, incoming) == Instr(op, <<>>, incoming)
Ret           == Instr("ret", <<>>, <<>>)
RetVoid       == Instr("retvoid", <<>>, <<>>)

Builder == [blocks |-> <<>>, in |-> 0, breaks |-> <<>>, continues |-> <<>>, yields |-> <<>>]

Emit(g, i)   == [g EXCEPT !.blocks[g.in] = Append(@, i)]
Fresh(g, n)  == [g EXCEPT !.blocks = @ \o [j \in 1..n |-> <<>>]]
In(g, b)     == [g EXCEPT !.in = b]
NextBlock(g) == Len(g.blocks) + 1
Top(stack)   == IF stack = <<>> THEN 0 ELSE Head(stack)
Breaking(g, b)   == [g EXCEPT !.breaks = <<b>> \o @]
Continuing(g, b) == [g EXCEPT !.continues = <<b>> \o @]
Yielding(g, id)  == [g EXCEPT !.yields = <<id>> \o @]
LoopDone(g, b)   == [In(g, b) EXCEPT !.breaks = Tail(@), !.continues = Tail(@)]

\* Faulty: flagged or not.
FallsAlways(g, nodes, b) == Emit(g, Br(b))

\* The branch at the end of a list of statements, unless they are flagged.
Falls(g, nodes, b) == IF Ends(nodes) THEN g ELSE Emit(g, Br(b))

RECURSIVE Generate(_, _)
List(g, b, nodes)       == Generate(nodes, In(g, b))
Falling(g, b, nodes, c) == Falls(List(g, b, nodes), nodes, c)
Goto(g, b)              == Emit(g, Br(b))
Split(g, b, c)          == Emit(g, CondBr(b, c))

\* If both alternatives are flagged no block is made for what follows.
IfBoth(n, g, then)   == List(List(Split(g, then, then + 1), then, n.kids[2]), then + 1, n.kids[3])
IfElse(n, g, then, merge) ==
    In(Falling(Falling(Split(g, then, then + 1), then, n.kids[2], merge), then + 1, n.kids[3], merge), merge)
IfOnly(n, g, then, merge) == In(Falling(Split(g, then, merge), then, n.kids[2], merge), merge)
If(n, g) ==
    CASE AlwaysReturns(n)                       -> IfBoth(n, Fresh(g, 2), NextBlock(g))
      [] ~AlwaysReturns(n) /\ Len(n.kids) = 3  -> IfElse(n, Fresh(g, 3), NextBlock(g), NextBlock(g) + 2)
      [] OTHER                                  -> IfOnly(n, Fresh(g, 2), NextBlock(g), NextBlock(g) + 1)

\* Faulty: continue leaves the afterthoughts out.
ForInitToCheck(n, g, check) == Goto(Generate(n.kids[1], Breaking(Continuing(g, check), check + 3)), check)

\* Blocks: check, then, after, merge.
ForInit(n, g, check)  == Goto(Generate(n.kids[1], Breaking(Continuing(g, check + 2), check + 3)), check)
ForCheck(n, g, check) == Split(List(g, check, n.kids[2]), check + 1, check + 3)
ForThen(n, g, check)  == Falling(g, check + 1, n.kids[4], check + 2)
ForAfter(n, g, check) == Goto(List(g, check + 2, n.kids[3]), check)
ForLoop(n, g, check)  == ForAfter(n, ForThen(n, ForCheck(n, ForInit(n, g, check), check), check), check)
For(n, g)             == LoopDone(ForLoop(n, Fresh(g, 4), NextBlock(g)), NextBlock(g) + 3)

\* Foreach::desugar: a counter is compared with the length, the element is
\* the first statement of the loop.
Desugared(n) == Node("for", n.id, <<<<>>, <<Mark("test", n.id)>>, <<>>, n.kids[1]>>)

\* The stack of breaks is pushed after the condition has been generated.
WhileCheck(n, g, check) == List(Goto(Continuing(Fresh(g, 1), check), check), check, n.kids[1])
WhileThen(n, g, check, then) ==
    Falling(Split(Breaking(Fresh(g, 2), then + 1), then, then + 1), then, n.kids[2], check)
WhileLoop(n, g, check) == LoopDone(WhileThen(n, g, check, NextBlock(g)), NextBlock(g) + 1)
While(n, g)            == WhileLoop(n, WhileCheck(n, g, NextBlock(g)), NextBlock(g))

\* Blocks: top, check.  The condition is generated before the statements.
DoCheck(n, g, top) == List(Goto(Continuing(Fresh(g, 2), top + 1), top), top + 1, n.kids[1])
DoTop(n, g, top, merge) ==
    Falling(Split(Breaking(Fresh(g, 1), merge), top, merge), top, n.kids[2], top + 1)
DoLoop(n, g, top) == LoopDone(DoTop(n, g, top, NextBlock(g)), NextBlock(g))
DoWhile(n, g)     == DoLoop(n, DoCheck(n, g, NextBlock(g)), NextBlock(g))

\* Blocks: then or else, condfalse, mergephi.
LazyRight(n, g, right) == Split(List(g, right, n.kids[2]), right + 2, right + 1)
LazyMerge(n, g, right, origin) ==
    Emit(In(Goto(In(g, right + 1), right + 2), right + 2), Phi(n.k, <<origin, g.in, right + 1>>))
Lazy(n, g, right, origin) == LazyMerge(n, LazyRight(n, g, right), right, origin)
LogAnd(n, g) == Lazy(n, Split(Fresh(g, 3), NextBlock(g), NextBlock(g) + 2), NextBlock(g), g.in)
LogOr(n, g)  == Lazy(n, Split(Fresh(g, 3), NextBlock(g) + 2, NextBlock(g)), NextBlock(g), g.in)

BlockDone(g)    == [g EXCEPT !.yields = Tail(@)]
ExprBlock(n, g) == Emit(BlockDone(Generate(n.kids[1], Yielding(g, n.id))), Load(n.id))
Yield(n, g)     == Emit(Generate(n.kids[1], g), Store(Top(g.yields)))

Code(n, g) ==
    CASE n.k \in Seen     -> Emit(g, Instr(n.k, n.id, <<>>))
      [] n.k = "return"   -> Emit(g, Ret)
      [] n.k = "break"    -> Emit(g, Br(Top(g.breaks)))
      [] n.k = "continue" -> Emit(g, Br(Top(g.continues)))
      [] n.k = "multi"    -> Generate(n.kids[1], g)
      [] n.k = "if"       -> If(n, Generate(n.kids[1], g))
      [] n.k = "for"      -> For(n, g)
      [] n.k = "foreach"  -> For(Desugared(n), g)
      [] n.k = "while"    -> While(n, g)
      [] n.k = "do"       -> DoWhile(n, g)
      [] n.k = "and"      -> LogAnd(n, Generate(n.kids[1], g))
      [] n.k = "or"       -> LogOr(n, Generate(n.kids[1], g))
      [] n.k = "block"    -> ExprBlock(n, g)
      [] n.k = "yield"    -> Yield(n, g)
      [] OTHER            -> g           \* match and ignore have no generate()

Generate(nodes, g) == IF nodes = <<>> THEN g ELSE Generate(Tail(nodes), Code(Head(nodes), g))

\* A procedure has a block for its variables before the first of its statements.
Procedure(g) == Emit(In(IF Ends(body) THEN g ELSE Emit(g, RetVoid), 1), Br(2)).blocks
MainEntry(g) == Emit(g, Ret).blocks
Compiled == IF kind = "main" THEN MainEntry(Generate(body, In(Fresh(Builder, 1), 1)))
                             ELSE Procedure(Generate(body, In(Fresh(Builder, 2), 2)))

\* The nodes of a program for which code is made.
RECURSIVE Parts(_)
Part(n)      == {n} \cup UNION {Parts(n.kids[i]) : i \in IF n.k = "match" THEN {} ELSE DOMAIN n.kids}
Parts(nodes) == UNION {Part(nodes[i]) : i \in DOMAIN nodes}

\* The value of an expression block, the counter and the element of a foreach.
NeedsMemory == \E n \in Parts(body) : n.k \in {"block", "foreach"}

-----------------------------------------------------------------------------
(* What LLVM's verifier requires of the blocks.                            *)
Terminators == {"br", "condbr", "ret", "retvoid"}
Joins == {"and", "or"}
At(b) == {blocks[b][i] : i \in DOMAIN blocks[b]}
Targets(b) == UNION {{i.to[t] : t \in DOMAIN i.to} : i \in {j \in At(b) : j.op \in Terminators}}

EndsOnce(b) == /\ blocks[b] # <<>>
               /\ \A i \in DOMAIN blocks[b] : blocks[b][i].op \in Terminators <=> i = Len(blocks[b])
Before(b)    == {c \in DOMAIN blocks : b \in Targets(c)}
PhisAgree(b) == \A i \in At(b) : i.op \in Joins => {i.to[t] : t \in DOMAIN i.to} = Before(b)
Verified(b) == /\ EndsOnce(b)
               /\ Targets(b) \subseteq DOMAIN blocks
               /\ PhisAgree(b)
               /\ kind = "int" => RetVoid \notin At(b)

-----------------------------------------------------------------------------
(* The compiled program.                                                   *)
Machine == [block |-> 1, index |-> 1, from |-> 0, value |-> "undefined",
            slots |-> [id \in {} |-> "undefined"]]
Instruction(m) == blocks[m.block][m.index]

Jump(m, b) == [m EXCEPT !.block = b, !.index = 1, !.from = m.block]
Then(m)    == [m EXCEPT !.index = @ + 1]
\* The constants that come with the edges into a phi: from the left operand, the
\* right one, and the block made for a right one that is false.
Constants(op)   == IF op = "and" THEN <<"false", "true", "false">> ELSE <<"true", "true", "false">>
Joined(i, from) == Constants(i.op)[CHOOSE t \in DOMAIN i.to : i.to[t] = from]

Slot(m, id) == IF id \in DOMAIN m.slots THEN m.slots[id] ELSE "undefined"

Execute(m, i) ==
    CASE i.op = "br"     -> Jump(m, i.to[1])
      [] i.op = "condbr" -> Jump(m, i.to[IF m.value = "true" THEN 1 ELSE 2])
      [] i.op = "load"   -> [Then(m) EXCEPT !.value = Slot(m, i.id)]
      [] i.op = "store"  -> [Then(m) EXCEPT !.slots = With(i.id, m.value, @)]
      [] i.op \in Joins  -> [Then(m) EXCEPT !.value = Joined(i, m.from)]

\* What can be seen next: a call, a test, the end, a branch on no value.
Shown(m, i) == \/ i.op \in Seen \cup {"ret", "retvoid"}
               \/ i.op = "condbr" /\ m.value = "undefined"
RECURSIVE Run(_)
Run(m) == IF Shown(m, Instruction(m)) THEN m ELSE Run(Execute(m, Instruction(m)))

-----------------------------------------------------------------------------
Init == /\ body \in Bodies /\ kind \in Kinds
        /\ phase = "parsed" /\ blocks = <<>>
        /\ machine = Machine /\ source = Begun(body)

Analyze == /\ phase = "parsed"
           /\ phase' = IF Accepted THEN "analyzed" ELSE "refused"
           /\ UNCHANGED <<body, kind, blocks, machine, source>>

Compile == /\ phase = "analyzed" /\ (kind = "main" => ~NeedsMemory)
           /\ blocks' = Compiled
           /\ phase' = "compiled"
           /\ UNCHANGED <<body, kind, machine, source>>

\* The block for local memory is the top of a stack, empty when the statements
\* of the program itself are generated; what it gives is no block of theirs.
Crash   == /\ phase = "analyzed" /\ kind = "main" /\ NeedsMemory
           /\ phase' = "crashed"
           /\ UNCHANGED <<body, kind, blocks, machine, source>>

\* The program starts only if the verifier has nothing to say.
Start == /\ phase = "compiled" /\ \A b \in DOMAIN blocks : Verified(b)
         /\ phase' = "running"
         /\ machine' = Run(machine) /\ source' = Ready(source)
         /\ UNCHANGED <<body, kind, blocks>>
Fail  == /\ phase = "compiled" /\ \E b \in DOMAIN blocks : ~Verified(b)
         /\ phase' = "broken"
         /\ UNCHANGED <<body, kind, blocks, machine, source>>

\* What both show next; a program without more to do shows its end.
Doing == LET i == Instruction(machine) IN
         CASE i.op \in Seen   -> <<i.op, i.id>>
           [] i.op = "condbr" -> <<"undefined">>
           [] OTHER           -> <<"end">>
Meant == CASE source.todo = <<>> -> <<"end">>
           [] Undefined(source)  -> <<"undefined">>
           [] OTHER              -> <<Head(source.todo).k, Head(source.todo).id>>

\* A call or a test; a call has no value.
Perform(v) == /\ machine' = Run([Then(machine) EXCEPT !.value = v])
              /\ source' = Seeing(source, v)
              /\ UNCHANGED <<body, kind, phase, blocks>>
Both(op) == phase = "running" /\ Doing = Meant /\ Doing[1] = op
Call     == Both("call") /\ Perform("undefined")
Test     == Both("test") /\ \E v \in {"true", "false"} : Perform(v)

Next == Analyze \/ Compile \/ Crash \/ Start \/ Fail \/ Call \/ Test
Spec == Init /\ [][Next]_vars

-----------------------------------------------------------------------------
(* Where the back end is known to go wrong.                                *)
RECURSIVE Flat(_)
FlatAt(n)   == IF n.k = "multi" THEN Flat(n.kids[1]) ELSE <<n>>
Flat(nodes) == IF nodes = <<>> THEN <<>> ELSE FlatAt(Head(nodes)) \o Flat(Tail(nodes))
NoCode == {"ignore", "match"}
\* Code is made for a node after one that has ended the block.
Dangles(flat) == \E j \in DOMAIN flat : /\ flat[j].k \notin NoCode
                                        /\ \E i \in 1..(j - 1) : EndsAt(flat[i])

\* The block of an expression does not end with a jump: its value is loaded after it.
HasDangling == \/ Dangles(Flat(body))
               \/ \E n \in Parts(body) : \/ \E i \in DOMAIN n.kids : Dangles(Flat(n.kids[i]))
                                         \/ n.k = "block" /\ Ends(n.kids[1])
\* A jump in the condition of a loop, which the loop's own stacks do not know yet.
RECURSIVE JumpsOut(_, _)
JumpsAt(n, k) == n.k = k \/ (n.k \notin Loops /\ \E i \in DOMAIN n.kids : JumpsOut(n.kids[i], k))
JumpsOut(nodes, k) == \E i \in DOMAIN nodes : JumpsAt(nodes[i], k)
EarlyBreak    == \E n \in Parts(body) : n.k \in {"while", "do"} /\ JumpsOut(n.kids[1], "break")
EarlyContinue == \E n \in Parts(body) : n.k = "do" /\ JumpsOut(n.kids[1], "continue")
Ungenerated   == \E n \in Parts(body) : n.k = "match"

(***************************************************************************)
(* What analysis accepts becomes code that the verifier accepts, whatever  *)
(* conditionals, loops and jumps it is made of, unless a block that has    *)
(* ended is continued, and then never; or a jump out of the condition of a *)
(* loop finds no loop around it.                                           *)
(***************************************************************************)
CodeIsSound == /\ phase = "broken" => HasDangling \/ EarlyBreak
               /\ phase = "running" => ~HasDangling

(***************************************************************************)
(* The compiled program does what the statements mean, step by step, and   *)
(* ends where they end.  Left out are jumps in the condition of a loop,    *)
(* match, for which there is no code, and what follows a branch on a block *)
(* that has yielded nothing.                                               *)
(***************************************************************************)
CodeFollowsSource ==
    phase = "running" => \/ Doing = Meant
                         \/ Undefined(source)
                         \/ EarlyBreak \/ EarlyContinue \/ Ungenerated
=============================================================================
