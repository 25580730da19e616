----------------------------- MODULE SourceFlow -----------------------------
(***************************************************************************)
(* The statements of a procedure as the nodes of its tree, and what they   *)
(* mean: in which order a program performs them.                           *)
(*                                                                         *)
(* A node has the lists of its children in kids:                           *)
(*   if                   condition, then, and else if there is one        *)
(*   while, do            condition, body                                  *)
(*   for                  initializations, condition, afterthoughts, body  *)
(*   foreach, multi       body                                             *)
(*   match                expression, body of the only with                *)
(*   and, or              left, right                                      *)
(*   block                statements of the expression block               *)
(*   yield                expression                                       *)
(* Leaves are return, break, continue, ignore, a call, which is seen when  *)
(* it is performed, and a test, which is seen and has a value.             *)
(***************************************************************************)
EXTENDS Naturals, Sequences

Node(k, id, kids) == [k |-> k, id |-> id, kids |-> kids]
Mark(k, id)       == Node(k, id, <<>>)

Loops == {"for", "foreach", "while", "do"}

\* The index of the first node of kind k, or one past the end.
FirstOf(nodes, k) ==
    CHOOSE i \in 1..(Len(nodes) + 1) : /\ \A j \in 1..(i - 1) : nodes[j].k # k
                                       /\ i <= Len(nodes) => nodes[i].k = k
Beyond(nodes, k) == SubSeq(nodes, FirstOf(nodes, k) + 1, Len(nodes))

-----------------------------------------------------------------------------
(* A program in progress: what is still to do, the value of the expression *)
(* evaluated last, and what the expression blocks begun have yielded.      *)
Begun(body) == [todo |-> body, value |-> "undefined", yielded |-> << >>]

\* A choice between two lists by the value of what was evaluated before it.
Choose(yes, no) == Node("choose", <<>>, <<yes, no>>)

\* A round of a loop: its statements if the condition holds, then what comes
\* after them; "again" begins the next one.
Again(n)    == <<Node("again", n.id, <<<<n>>>>)>>
Finished(n) == <<Mark("next", n.id)>>
Guarded(n, condition, statements, after) ==
    condition \o <<Choose(statements, <<Mark("break", n.id)>>)>> \o Finished(n) \o after \o Again(n)
Round(n) ==
    CASE n.k = "while"   -> Guarded(n, n.kids[1], n.kids[2], <<>>)
      [] n.k = "do"      -> n.kids[2] \o Finished(n) \o n.kids[1] \o <<Choose(Again(n), <<>>)>>
      [] n.k = "for"     -> Guarded(n, n.kids[2], n.kids[4], n.kids[3])
      [] n.k = "foreach" -> Guarded(n, <<Mark("test", n.id)>>, n.kids[1], <<>>)

Else(n) == IF Len(n.kids) = 3 THEN n.kids[3] ELSE <<>>

\* What a node that is no leaf stands for, in terms of its children.
Meaning(n) ==
    CASE n.k = "if"     -> n.kids[1] \o <<Choose(n.kids[2], Else(n))>>
      [] n.k = "match"  -> n.kids[1] \o <<Choose(n.kids[2], <<>>)>>
      [] n.k = "and"    -> n.kids[1] \o <<Choose(n.kids[2], <<>>)>>
      [] n.k = "or"     -> n.kids[1] \o <<Choose(<<>>, n.kids[2])>>
      [] n.k = "multi"  -> n.kids[1]
      [] n.k = "block"  -> <<Mark("begin", n.id)>> \o n.kids[1] \o <<Mark("end", n.id)>>
      [] n.k = "yield"  -> n.kids[1] \o <<Mark("keep", n.id)>>
      [] n.k = "for"    -> n.kids[1] \o Round(n) \o <<Mark("leave", n.id)>>
      [] n.k \in Loops  -> Round(n) \o <<Mark("leave", n.id)>>
      [] n.k = "again"  -> Round(n.kids[1][1])
      [] OTHER          -> <<>>       \* ignore and the marks next and leave

Seen == {"call", "test"}

\* Nothing is left to do, what is next can be seen, or it depends on a value
\* that no yield has given.
Undefined(s) == s.todo # <<>> /\ Head(s.todo).k = "choose" /\ s.value = "undefined"
Waits(s)     == s.todo = <<>> \/ Head(s.todo).k \in Seen \/ Undefined(s)

\* The block a yield belongs to is the one that ends next.
EndsNext(nodes) == nodes[FirstOf(nodes, "end")].id

With(id, value, yielded) ==
    [i \in DOMAIN yielded \cup {id} |-> IF i = id THEN value ELSE yielded[i]]

\* One step that cannot be seen.
Silent(s) ==
    LET n == Head(s.todo) rest == Tail(s.todo) IN
    CASE n.k = "choose"   -> [s EXCEPT !.todo = n.kids[IF s.value = "true" THEN 1 ELSE 2] \o rest]
      [] n.k = "break"    -> [s EXCEPT !.todo = Beyond(rest, "leave")]
      [] n.k = "continue" -> [s EXCEPT !.todo = Beyond(rest, "next")]
      [] n.k = "return"   -> [s EXCEPT !.todo = <<>>]
      [] n.k = "begin"    -> [s EXCEPT !.todo = rest, !.yielded = With(n.id, "undefined", @)]
      [] n.k = "keep"     -> [s EXCEPT !.todo = rest, !.yielded = With(EndsNext(rest), s.value, @)]
      [] n.k = "end"      -> [s EXCEPT !.todo = rest, !.value = s.yielded[n.id]]
      [] OTHER            -> [s EXCEPT !.todo = Meaning(n) \o rest]

\* The program up to the next step that can be seen.
RECURSIVE Ready(_)
Ready(s) == IF Waits(s) THEN s ELSE Ready(Silent(s))

\* The program after the step that was seen; a test had the given value.
Seeing(s, value) == Ready([s EXCEPT !.todo = Tail(@), !.value = value])
=============================================================================
