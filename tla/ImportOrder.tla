----------------------------- MODULE ImportOrder -----------------------------
(***************************************************************************)
(* What importing promises, whatever the number of threads: imports are    *)
(* served strictly first come, first served, one at a time.  The first     *)
(* file to be served that declares a module id provides that id, and only  *)
(* a file that provides an id has its own imports queued.                  *)
(***************************************************************************)
EXTENDS Sequences

CONSTANTS Ids, NoFile, NoId

VARIABLES
    program,  (* fixed: root, the import nodes of the program; importsOf,  *)
              (* those of a file; fileOf, the file a node names or NoFile; *)
              (* declares, the id of a file or NoId                        *)
    queue,    (* import nodes not yet served                               *)
    provider  (* the file that provides an id                              *)

Init ==
    /\ queue = program.root
    /\ provider = [id \in Ids |-> NoFile]

Provides(f) ==
    /\ f # NoFile
    /\ program.declares[f] # NoId
    /\ provider[program.declares[f]] = NoFile

ServeNew(f) ==
    /\ Provides(f)
    /\ provider' = [provider EXCEPT ![program.declares[f]] = f]
    /\ queue' = Tail(queue) \o program.importsOf[f]

ServeOther(f) ==
    /\ ~Provides(f)
    /\ queue' = Tail(queue)
    /\ UNCHANGED provider

Serve ==
    /\ queue # <<>>
    /\ LET f == program.fileOf[Head(queue)] IN ServeNew(f) \/ ServeOther(f)
    /\ UNCHANGED program

Spec == Init /\ [][Serve]_<<program, queue, provider>>
=============================================================================
