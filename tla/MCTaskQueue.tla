------------------------------ MODULE MCTaskQueue ------------------------------
(* TLC instances of TaskQueue: a worker on each of two invokers, two       *)
(* workers on one, or a single worker.                                     *)
EXTENDS TaskQueue, TLC

CONSTANTS n1, n2, w1, w2

Apart == (w1 :> n1) @@ (w2 :> n2)
Together == (w1 :> n1) @@ (w2 :> n1)

Postgres == [postgres |-> Apart]
Both == [postgres |-> Apart, sqlite |-> Together]
Alone == [postgres |-> (w1 :> n1)]
================================================================================
