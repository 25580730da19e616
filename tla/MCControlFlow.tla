--------------------------- MODULE MCControlFlow ---------------------------
(***************************************************************************)
(* Bodies for ControlFlow: a statement around a statement around jumps,    *)
(* with conditions that contain control flow themselves.  Every node is    *)
(* given its place in the tree as its id.                                  *)
(***************************************************************************)
EXTENDS ControlFlow

RECURSIVE Placed(_, _)
Kids(n, place)       == [i \in DOMAIN n.kids |-> Placed(n.kids[i], Append(place, i))]
PlacedAt(n, place)   == Node(n.k, place, Kids(n, place))
Placed(nodes, place) == [i \in DOMAIN nodes |-> PlacedAt(nodes[i], Append(place, i))]

One(k, kids) == <<Node(k, <<>>, kids)>>
Leaf(k)      == One(k, <<>>)
Tests == Leaf("test")
Calls == Leaf("call")
Yields1 == One("yield", <<Tests>>)

\* A block that yields on one path only, or that leaves it on one.
Block(nodes)     == One("block", <<nodes>>)
BlockWith(nodes) == Block(One("if", <<Tests, nodes>>) \o Yields1)
Partly           == Block(One("if", <<Tests, Yields1>>))

Short == {Leaf(k) : k \in {"break", "continue", "return", "call"}}
Lists == Short \cup {<<>>, Calls \o Leaf("ignore"), Leaf("return") \o Leaf("ignore"),
                     Leaf("break") \o Calls}

Conditions == {Tests, Partly} \cup {BlockWith(nodes) : nodes \in Short}
              \cup {One(k, <<Tests, r>>) : k \in {"and", "or"}, r \in {Tests, BlockWith(Leaf("break"))}}
              \cup {Block(Yields1 \o Leaf(k)) : k \in {"return", "call"}}

Around(conditions, lists) ==
    UNION {{One(k, <<c, l>>) : k \in {"if", "while", "do", "match"}, c \in conditions, l \in lists},
           {One("if", <<c, l1, l2>>) : c \in conditions, l1 \in lists, l2 \in lists},
           {One("for", <<i, c, <<>>, l>>) :
                i \in {<<>>, BlockWith(Leaf("continue"))}, c \in conditions, l \in lists},
           {One("for", <<Calls, c, Calls, l>>) : c \in conditions, l \in lists},
           {One(k, <<l>>) : k \in {"foreach", "multi"}, l \in lists}}

Inner  == Around({Tests}, Lists) \cup Around(Conditions, Short)
Middle == Inner \cup {l \o Calls : l \in Inner}
Outer  == UNION {{One(k, <<Tests, l>>) : k \in {"while", "do"}, l \in Middle},
                 {One("for", <<<<>>, Tests, Calls, l>>) : l \in Middle},
                 {One("if", <<Tests, l, Leaf("return")>>) : l \in Middle},
                 {One(k, <<l>>) : k \in {"foreach", "multi"}, l \in Middle},
                 {One("while", <<Block(l \o Yields1), Calls>>) : l \in Middle}}

AllBodies == {Placed(b, <<>>) :
                 b \in UNION {{l \o Calls : l \in Inner}, Inner, Outer,
                              {l \o Leaf("return") : l \in Inner \cup Outer}}}
AllKinds  == {"void", "int", "main"}
=============================================================================
