---------------------------- MODULE MCThreadPool ----------------------------
(* Instances of ThreadPool for TLC. *)
EXTENDS ThreadPool

CONSTANTS c1, c2,      (* clients *)
          t1, t2       (* tasks   *)

TwoClients == {c1, c2}
TwoTasks == {t1, t2}
=============================================================================
