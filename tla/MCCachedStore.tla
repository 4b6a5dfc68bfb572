----------------------------- MODULE MCCachedStore -----------------------------
(* TLC instance of CachedStore: two writers and the store loop, or two     *)
(* writers of one object, the store loop and a reader.                     *)
EXTENDS CachedStore

CONSTANTS o1, k1

VARIABLE part

MCInit == Init /\ part \in {"writes", "reads"}

\* the objects and keys that are written, and when
Written ==
    \A t \in Txs : tx'[t].state = "none" \/ (tx'[t].obj = o1 /\ tx'[t].row.key \in {k1, NoKey})
MCNext ==
    /\ UNCHANGED part /\ Next
    /\ part = "writes" => now' = 0 /\ \A p \in Readers : pc'[p] = "idle"
    /\ part = "reads" => Written /\ next' + Cardinality({t \in Txs : tx'[t].state = "written"}) <= 3
MCSpec == MCInit /\ [][MCNext]_<<vars, part>> /\ Fairness
================================================================================
