------------------------------ MODULE MCModules ------------------------------
(* Instances of ModuleActivation for TLC: three families of programs.      *)
EXTENDS ModuleActivation, TLC

CONSTANTS a, b, c,     (* files *)
          lib_b, gone, (* names *)
          x, y, z      (* ids   *)

ThreeFiles == {a, b, c}
AllNames == ThreeFiles \cup {lib_b, gone}
Resolved == [n \in AllNames |-> IF n \in ThreeFiles THEN n
                                ELSE IF n = lib_b THEN b ELSE NoFile]

ItemsOver(names, cts) == [name : names, ct : cts]
UpTo(k, S) == UNION {[1..i -> S] : i \in 0..k}
Machines == 0..2

(* Mistakes: missing files, files without a declaration, two files that    *)
(* declare the same id, two names for one file, syntax errors.  Two files  *)
(* and Main import at most one, one and two names.                         *)
Mistaken ==
    LET Items == ItemsOver({a, b, lib_b, gone}, {FALSE})
    IN { [nthreaded |-> t,
          imports   |-> (Main :> m) @@ (a :> i) @@ (b :> j) @@ (c :> <<>>),
          declares  |-> (a :> da) @@ (b :> db) @@ (c :> NoId),
          broken    |-> br] :
         t \in Machines, m \in UpTo(2, Items) \ {<<>>}, i \in UpTo(1, Items),
         j \in UpTo(1, ItemsOver({a, b}, {FALSE})),
         da \in {x, NoId}, db \in {x, y, NoId}, br \in {{}, {b}} }

(* Modules inside and outside \ct, in every order, with cycles. *)
WithCT ==
    LET Items(k) == UpTo(k, ItemsOver(ThreeFiles, BOOLEAN))
        Plain == UpTo(1, ItemsOver(ThreeFiles, {FALSE}))
    IN { [nthreaded |-> 0,
          imports   |-> (Main :> m) @@ (a :> i) @@ (b :> j) @@ (c :> k),
          declares  |-> (a :> x) @@ (b :> y) @@ (c :> z),
          broken    |-> {}] :
         m \in Items(2) \ {<<>>},
         i \in UpTo(2, ItemsOver({b, c}, {FALSE})) \cup Items(1),
         j \in Items(1), k \in Plain }

(* As many parsers as the loop ever starts. *)
Wide ==
    LET In(names) == [i \in DOMAIN names |-> [name |-> names[i], ct |-> FALSE]]
    IN { [nthreaded |-> t,
          imports   |-> (Main :> In(m)) @@ (a :> In(<<c, b>>)) @@ (b :> In(i))
                        @@ (c :> In(<<a>>)),
          declares  |-> (a :> x) @@ (b :> db) @@ (c :> z),
          broken    |-> br] :
         t \in Machines, m \in {<<a, b, c>>, <<b, a>>, <<c, b, a, b>>},
         i \in {<<>>, <<c, a>>}, db \in {y, z}, br \in {{}, {c}} }

AllPrograms == Mistaken \cup WithCT \cup Wide
=============================================================================
