---------------------------- MODULE TaskQueueProofs ----------------------------
(***************************************************************************)
(* The task queue for any number of workers, invokers and tasks, any lease *)
(* and any number of failures, lost answers and crashes.                   *)
(*                                                                         *)
(* The inductive invariant has one part for each thing that two goroutines *)
(* or two workers could disagree about.  Most parts are about one worker;  *)
(* what another worker can do to it is said by Locks and OneWorkerPerTask. *)
(***************************************************************************)
EXTENDS TaskQueue, TLAPS, NaturalsInduction, WellFoundedInduction

\* Where a worker can be when it has no task, and what it then has.
ControlOf(w) ==
    /\ guard[w].task = 0 => guard[w] = NoGuard
    /\ pc[w] \in {"idle", "stopped"} => guard[w].task = 0
    /\ pc[w] \in {"idle", "pop", "stopped"} =>
        pinger[w] = "off" /\ ~cancelled[w] /\ call[w] = NoCall
    /\ pc[w] \notin {"idle", "pop", "stopped"} => guard[w].task # 0

\* Whose call is in flight.
CallsOf(w) ==
    /\ call[w].by = "none" => call[w] = NoCall
    /\ call[w].by = "pinger" <=> pinger[w] = "ping"
    /\ call[w].by = "worker" <=> pc[w] = "status"
    /\ call[w].by # "none" => /\ guard[w].status = "running" /\ call[w].stage = guard[w].stage
                              /\ call[w].status \notin {"none", "queued"}
    /\ call[w].by = "pinger" => call[w].status = "running"
    /\ call[w].by = "worker" => call[w].status # "running"

\* A task that is being popped is queued, one that was popped is not.
RowsOf(w) ==
    guard[w].task # 0 =>
        /\ pc[w] = "pop" => /\ status[guard[w].task] = "queued"
                            /\ guard[w].status = "running"
                            /\ guard[w].stage = stage[guard[w].task]
        /\ pc[w] # "pop" => /\ status[guard[w].task] \notin {"none", "queued"}
                            /\ guard[w].status \notin {"none", "queued"}
                            /\ stage[guard[w].task] <= guard[w].stage

\* As long as no answer is lost, the guard knows the status of its row.
RowFollowsGuardOf(w) ==
    lost = 0 /\ guard[w].task # 0 /\ pc[w] # "pop" =>
        status[guard[w].task] = IF call[w].applied THEN call[w].status ELSE guard[w].status

\* A pinger ends only when its context is cancelled.
PingerAliveOf(w) ==
    guard[w].task # 0 /\ pc[w] # "pop" /\ ~cancelled[w] => pinger[w] \in {"wait", "ask", "ping"}

\* The lease is in its first half, or a ping is under way.
LeaseKeptOf(w) ==
    faults = 0 /\ lost = 0 /\ guard[w].status = "running" /\ ~cancelled[w] =>
        /\ guard[w].left > 0
        /\ \/ 2 * guard[w].left > Lease
           \/ pinger[w] = "wait" /\ due[w]
           \/ pinger[w] \in {"ask", "ping"}
        /\ call[w].by = "pinger" => call[w].left = Lease

\* Who pops holds the mutex of its invoker and the lock of the table, and
\* nobody else does.
Locks ==
    /\ \A n \in Nodes : popMutex[n] # None => pc[popMutex[n]] = "pop" /\ NodeOf[popMutex[n]] = n
    /\ tableLock # None => pc[tableLock] = "pop"
    /\ \A w \in Workers :
        pc[w] = "pop" => popMutex[NodeOf[w]] = w /\ (LocksTable => tableLock = w)

WorkerInv(w) ==
    /\ ControlOf(w) /\ CallsOf(w) /\ RowsOf(w)
    /\ RowFollowsGuardOf(w) /\ PingerAliveOf(w) /\ LeaseKeptOf(w)

IInv == TypeOK /\ Locks /\ OneWorkerPerTask /\ \A w \in Workers : WorkerInv(w)

--------------------------------------------------------------------------------
(* Operators of the model *)

\* What PopQueued returns is a row that was queued.
LEMMA PoppedType ==
  ASSUME TypeOK
  PROVE  Popped \in 0..MaxTask /\ (Popped # 0 => Popped \in Tasks /\ status[Popped] = "queued")
<1> DEFINE rows == QueuedRows \ Unsupported
<1>1. CASE rows = {}
  BY <1>1, QueueAssumption DEF Popped
<1>2. CASE rows # {}
  <2>1. rows \subseteq Nat /\ rows \subseteq Tasks
    BY QueueAssumption DEF QueuedRows, Tasks
  <2>2. PICK t \in rows : \A s \in rows : ~ (<<s, t>> \in OpToRel(<, Nat))
    BY <1>2, <2>1, NatLessThanWellFounded, WFMin
  <2>3. \A s \in rows : t <= s
    <3> SUFFICES ASSUME NEW s \in rows PROVE t <= s
      OBVIOUS
    <3>1. s \in Nat /\ t \in Nat /\ ~(s < t)
      BY <2>1, <2>2 DEF OpToRel
    <3> QED BY <3>1
  <2>4. Popped \in rows
    BY <1>2, <2>3 DEF Popped
  <2> QED BY <2>1, <2>4, QueueAssumption DEF QueuedRows, Tasks
<1> QED BY <1>1, <1>2

\* Every worker belongs to an invoker; with SQLite all of them to one.
LEMMA NodeOfType ==
  ASSUME TypeOK
  PROVE  /\ NodeOf \in [Workers -> Nodes]
         /\ ~LocksTable => \A v, w \in Workers : NodeOf[v] = NodeOf[w]
BY QueueAssumption DEF TypeOK, NodeOf, LocksTable

\* The parts of a guard and of a call have their types.
LEMMA GuardType ==
  ASSUME TypeOK, NEW w \in Workers
  PROVE  /\ guard[w] \in Guards /\ guard[w].task \in Nat /\ guard[w].stage \in Nat
         /\ guard[w].left \in Int
         /\ (guard[w].task # 0 => guard[w].task \in Tasks)
         /\ call[w] \in UpdateCalls /\ call[w].left \in Int
<1>1. guard[w] \in Guards /\ call[w] \in UpdateCalls
  BY DEF TypeOK
<1>2. guard[w].task \in 0..MaxTask /\ guard[w].stage \in 0..MaxStage /\ guard[w].left \in -1..Lease
  BY <1>1 DEF Guards
<1>3. call[w].left \in -1..Lease
  BY <1>1 DEF UpdateCalls
<1> QED BY <1>1, <1>2, <1>3, QueueAssumption DEF Tasks

\* The guard of no task and the call of nobody have their types.
LEMMA NoneType == NoGuard \in Guards /\ NoCall \in UpdateCalls
BY QueueAssumption DEF NoGuard, NoCall, Guards, UpdateCalls, Statuses

\* Nobody pops at the same time as another worker.
LEMMA OnePops ==
  ASSUME TypeOK, Locks, NEW v \in Workers, NEW w \in Workers, pc[v] = "pop", pc[w] = "pop"
  PROVE  v = w
<1>1. CASE LocksTable
  BY <1>1 DEF Locks
<1>2. CASE ~LocksTable
  BY <1>2, NodeOfType DEF Locks
<1> QED BY <1>1, <1>2

\* Two workers have different tasks, popped or about to be popped.
LEMMA DistinctTasks ==
  ASSUME TypeOK, Locks, OneWorkerPerTask, NEW v \in Workers, NEW w \in Workers,
         RowsOf(v), RowsOf(w), v # w, guard[v].task # 0
  PROVE  guard[v].task # guard[w].task
<1> SUFFICES ASSUME guard[v].task = guard[w].task PROVE FALSE
  OBVIOUS
<1>1. guard[v].task \in Tasks
  BY GuardType
<1>2. pc[v] # "pop" \/ pc[w] # "pop"
  BY OnePops
<1>3. CASE pc[v] # "pop" /\ pc[w] # "pop"
  BY <1>1, <1>3 DEF OneWorkerPerTask, Holds
<1>4. CASE pc[v] = "pop" /\ pc[w] # "pop"
  BY <1>4 DEF RowsOf
<1>5. CASE pc[v] # "pop" /\ pc[w] = "pop"
  BY <1>5 DEF RowsOf
<1> QED BY <1>2, <1>3, <1>4, <1>5

\* A step that leaves the locks and the popping workers alone keeps Locks.
LEMMA LocksFrame ==
  ASSUME TypeOK, Locks, UNCHANGED <<dialect, popVars>>,
         \A v \in Workers : (pc'[v] = "pop") = (pc[v] = "pop")
  PROVE  Locks'
<1>1. NodeOf' = NodeOf /\ LocksTable' = LocksTable /\ popMutex' = popMutex /\ tableLock' = tableLock
  BY DEF NodeOf, LocksTable, popVars
<1>2. \A n \in Nodes : popMutex[n] \in Workers \cup {None}
  BY DEF TypeOK
<1>3. tableLock \in Workers \cup {None}
  BY DEF TypeOK
<1> QED BY <1>1, <1>2, <1>3 DEF Locks

\* So does the end of a transaction, for the other workers.
LEMMA LocksDrop ==
  ASSUME TypeOK, Locks, NEW w \in Workers, pc[w] = "pop", DropLocks(w), dialect' = dialect,
         pc'[w] # "pop", \A v \in Workers \ {w} : pc'[v] = pc[v]
  PROVE  Locks'
<1>1. NodeOf' = NodeOf /\ LocksTable' = LocksTable
  BY DEF NodeOf, LocksTable
<1>2. \A n \in Nodes : popMutex[n] \in Workers \cup {None}
  BY DEF TypeOK
<1>3. tableLock \in Workers \cup {None} /\ None \notin Workers
  BY QueueAssumption DEF TypeOK
<1>4. \A v \in Workers : pc'[v] # "pop"
  BY OnePops
<1>5. \A n \in Nodes : popMutex'[n] = IF popMutex[n] = w THEN None ELSE popMutex[n]
  BY DEF DropLocks
<1>6. tableLock' = IF tableLock = w THEN None ELSE tableLock
  BY DEF DropLocks
<1>7. \A n \in Nodes : popMutex[n] # None => popMutex[n] = w
  BY <1>2, OnePops DEF Locks
<1>8. tableLock # None => tableLock = w
  BY <1>3, OnePops DEF Locks
<1> QED BY <1>1, <1>4, <1>5, <1>6, <1>7, <1>8 DEF Locks

\* A step after which nobody holds a task that it did not hold before.
LEMMA OneWorkerFrame ==
  ASSUME OneWorkerPerTask,
         \A v \in Workers : \A t \in Tasks : Holds(v, t)' => Holds(v, t)
  PROVE  OneWorkerPerTask'
<1>1. \A t \in Tasks : \A v, w \in Workers : Holds(v, t)' /\ Holds(w, t)' => v = w
  BY DEF OneWorkerPerTask
<1>2. Tasks' = Tasks
  BY DEF Tasks
<1> QED BY <1>1, <1>2 DEF OneWorkerPerTask

\* What a worker knows stays true as long as the step is not about it, or its
\* task, and no call starts to fail.
LEMMA WorkerFrame ==
  ASSUME NEW v \in Workers, WorkerInv(v),
         pc'[v] = pc[v], guard'[v] = guard[v], call'[v] = call[v],
         pinger'[v] = pinger[v], due'[v] = due[v], cancelled'[v] = cancelled[v],
         guard[v].task # 0 => /\ status'[guard[v].task] = status[guard[v].task]
                              /\ stage'[guard[v].task] = stage[guard[v].task],
         faults' = 0 => faults = 0, lost' = 0 => lost = 0
  PROVE  WorkerInv(v)'
<1> USE DEF WorkerInv
<1>1. ControlOf(v)' /\ CallsOf(v)'
  BY DEF ControlOf, CallsOf
<1>2. RowsOf(v)' /\ RowFollowsGuardOf(v)'
  BY DEF RowsOf, RowFollowsGuardOf
<1>3. PingerAliveOf(v)' /\ LeaseKeptOf(v)'
  BY DEF PingerAliveOf, LeaseKeptOf
<1> QED BY <1>1, <1>2, <1>3

\* A worker without a task keeps nothing.
LEMMA WorkerIdle ==
  ASSUME NEW v \in Workers, pc'[v] = "idle", guard'[v] = NoGuard, call'[v] = NoCall,
         pinger'[v] = "off", ~cancelled'[v]
  PROVE  WorkerInv(v)'
BY DEF WorkerInv, ControlOf, CallsOf, RowsOf, RowFollowsGuardOf, PingerAliveOf, LeaseKeptOf,
       NoGuard, NoCall

--------------------------------------------------------------------------------
(* The invariant is inductive *)

\* The queue starts in the invariant.
LEMMA InitInvariant == Init => IInv
<1> SUFFICES ASSUME Init PROVE IInv
  OBVIOUS
<1>1. TypeOK
  BY QueueAssumption, NoneType DEF Init, TypeOK, Statuses, Tasks
<1>2. Locks /\ OneWorkerPerTask
  BY DEF Init, Locks, OneWorkerPerTask, Holds, Tasks, NoGuard
<1>3. ASSUME NEW w \in Workers PROVE WorkerInv(w)
  <2>1. /\ pc[w] = "idle" /\ guard[w] = NoGuard /\ call[w] = NoCall
        /\ pinger[w] = "off" /\ ~cancelled[w]
    BY DEF Init
  <2> QED BY <2>1 DEF WorkerInv, ControlOf, CallsOf, RowsOf, RowFollowsGuardOf, PingerAliveOf,
                      LeaseKeptOf, NoGuard, NoCall
<1> QED BY <1>1, <1>2, <1>3 DEF IInv

\* A row of a task that nobody knows of yet.
LEMMA CreateInvariant ==
  ASSUME IInv, NEW t \in Tasks, Create(t)
  PROVE  IInv'
<1> USE DEF IInv
<1>1. UNCHANGED <<dialect, stage, tableLock, popMutex, stopping, pc, guard, call, pinger, due,
          cancelled, faults, lost, crashes>>
  BY DEF Create, rowVars, popVars, pingVars, faultVars
<1>2. status[t] = "none" /\ status'[t] = "queued" /\ \A s \in Tasks \ {t} : status'[s] = status[s]
  BY DEF TypeOK, Create
<1>3. \A v \in Workers : guard[v].task # 0 => guard[v].task \in Tasks
          /\ status'[guard[v].task] = status[guard[v].task]
  BY <1>2, GuardType DEF WorkerInv, RowsOf
<1>4. status' \in [Tasks -> Statuses]
  BY DEF TypeOK, Create, Statuses
<1>5. TypeOK'
  BY <1>1, <1>4 DEF TypeOK
<1>6. Locks'
  BY <1>1 DEF Locks, NodeOf, LocksTable
<1>7. OneWorkerPerTask'
  BY <1>1 DEF OneWorkerPerTask, Holds
<1>8. ASSUME NEW v \in Workers PROVE WorkerInv(v)'
  BY <1>1, <1>3, WorkerFrame
<1> QED BY <1>5, <1>6, <1>7, <1>8

\* Who gets the locks is the only one to pop, and what it pops was queued.
LEMMA PopBeginInvariant ==
  ASSUME IInv, NEW w \in Workers, PopBegin(w)
  PROVE  IInv'
<1> USE DEF IInv
<1>1. UNCHANGED <<dialect, status, stage, stopping, call, pinger, due, cancelled, faults, lost,
          crashes>>
  BY DEF PopBegin, TakeLocks, At, rowVars, popVars, pingVars, faultVars
<1>2. \A v \in Workers \ {w} : pc'[v] = pc[v] /\ guard'[v] = guard[v]
  BY DEF TypeOK, PopBegin, TakeLocks, At
<1>3. pc[w] = "idle" /\ pc'[w] = "pop"
  BY DEF TypeOK, PopBegin, TakeLocks, At
<1>4. /\ popMutex[NodeOf[w]] = None /\ popMutex'[NodeOf[w]] = w
      /\ \A n \in Nodes \ {NodeOf[w]} : popMutex'[n] = popMutex[n]
  BY NodeOfType DEF TypeOK, PopBegin, TakeLocks, At
<1>5. IF LocksTable THEN tableLock = None /\ tableLock' = w ELSE tableLock' = tableLock
  BY DEF PopBegin, TakeLocks, At
<1>6. guard'[w] = IF Popped = 0 THEN NoGuard
      ELSE [task |-> Popped, status |-> "running", stage |-> stage[Popped], left |-> Lease]
  BY DEF TypeOK, PopBegin, TakeLocks, At
<1>7. /\ guard'[w] \in Guards /\ guard'[w].task = Popped
      /\ (Popped = 0 => guard'[w] = NoGuard)
      /\ (Popped # 0 => /\ guard'[w].status = "running" /\ guard'[w].stage = stage[Popped]
                        /\ guard'[w].left = Lease)
  BY <1>6, PoppedType, NoneType, QueueAssumption DEF TypeOK, Guards, Statuses, NoGuard
<1>8. Popped # 0 => Popped \in Tasks /\ status[Popped] = "queued"
  BY PoppedType
<1>9. TypeOK'
  BY <1>1, <1>2, <1>3, <1>4, <1>5, <1>6, <1>7, <1>8, GuardType, NoneType, QueueAssumption
     DEF TypeOK, PopBegin, TakeLocks, At
<1>10. Locks'
  <2>1. NodeOf' = NodeOf /\ LocksTable' = LocksTable
    BY <1>1 DEF NodeOf, LocksTable
  <2>2. None \notin Workers /\ NodeOf[w] \in Nodes
          /\ \A n \in Nodes : popMutex[n] \in Workers \cup {None}
    BY NodeOfType, QueueAssumption DEF TypeOK
  <2>3. tableLock \in Workers \cup {None}
    BY DEF TypeOK
  <2>4. \A v \in Workers : pc[v] = "pop" => v # w /\ popMutex[NodeOf[v]] = v
    BY <1>3 DEF Locks
  <2>5. \A v \in Workers : pc[v] = "pop" => NodeOf[v] # NodeOf[w] /\ NodeOf[v] \in Nodes
    BY <2>2, <2>4, <1>4, NodeOfType
  <2>6. \A v \in Workers : pc[v] # "pop" \/ ~LocksTable
    BY <1>5, QueueAssumption DEF Locks
  <2>7. \A v \in Workers \ {w} : pc'[v] = "pop" => popMutex'[NodeOf[v]] = v /\ ~LocksTable
    BY <1>2, <1>4, <2>4, <2>5, <2>6
  <2>8. \A n \in Nodes : popMutex'[n] # None => pc'[popMutex'[n]] = "pop"
          /\ NodeOf[popMutex'[n]] = n
    BY <1>2, <1>3, <1>4, <2>2 DEF Locks
  <2>9. tableLock' # None => pc'[tableLock'] = "pop"
    BY <1>2, <1>3, <1>5, <2>3 DEF Locks
  <2> QED BY <1>3, <1>4, <1>5, <2>1, <2>7, <2>8, <2>9 DEF Locks
<1>11. OneWorkerPerTask'
  BY <1>1, <1>2, <1>3, OneWorkerFrame DEF Holds, Final
<1>12. \A v \in Workers \ {w} : WorkerInv(v)'
  BY <1>1, <1>2, WorkerFrame
<1>13. ControlOf(w) /\ CallsOf(w) /\ RowsOf(w) /\ RowFollowsGuardOf(w) /\ PingerAliveOf(w)
          /\ LeaseKeptOf(w)
  BY DEF WorkerInv
<1>14. /\ (guard[w].task # 0 => guard[w].task \in Tasks) /\ guard[w].stage \in Nat
       /\ guard[w].left \in Int /\ Lease \in Nat /\ Lease > 1
  BY GuardType, QueueAssumption
<1>15. WorkerInv(w)'
  <2>1. ControlOf(w)'
    BY <1>1, <1>3, <1>7, <1>8, <1>13, <1>14 DEF ControlOf, CallsOf, NoGuard, NoCall, Final
  <2>2. CallsOf(w)'
    BY <1>1, <1>3, <1>7, <1>8, <1>13, <1>14 DEF ControlOf, CallsOf, RowsOf, NoGuard, NoCall, Final
  <2>3. RowsOf(w)'
    BY <1>1, <1>3, <1>7, <1>8, <1>13, <1>14 DEF RowsOf, ControlOf, CallsOf, NoGuard, NoCall, Final
  <2>4. RowFollowsGuardOf(w)'
    BY <1>1, <1>3, <1>7, <1>8, <1>13, <1>14 DEF RowFollowsGuardOf, RowsOf, CallsOf, ControlOf,
       NoGuard, NoCall, Final
  <2>5. PingerAliveOf(w)'
    BY <1>1, <1>3, <1>7, <1>8, <1>13, <1>14 DEF PingerAliveOf, ControlOf, CallsOf, NoGuard,
       NoCall, Final
  <2>6. LeaseKeptOf(w)'
    BY <1>1, <1>3, <1>7, <1>8, <1>13, <1>14 DEF LeaseKeptOf, PingerAliveOf, ControlOf, CallsOf,
       RowsOf, NoGuard, NoCall, Final
  <2> QED BY <2>1, <2>2, <2>3, <2>4, <2>5, <2>6 DEF WorkerInv
<1> QED BY <1>9, <1>10, <1>11, <1>12, <1>15

\* The worker that popped a task is its only one.
LEMMA PopCommitInvariant ==
  ASSUME IInv, NEW w \in Workers, PopCommit(w)
  PROVE  IInv'
<1> USE DEF IInv
<1>1. UNCHANGED <<dialect, stopping, guard, call, due, faults, lost, crashes>>
  BY DEF PopCommit, Commit, At, rowVars, popVars, pingVars, faultVars
<1>2. \A v \in Workers \ {w} : pc'[v] = pc[v] /\ pinger'[v] = pinger[v]
          /\ cancelled'[v] = cancelled[v]
  BY DEF TypeOK, PopCommit, Commit, At
<1>3. pc[w] = "pop" /\ pc'[w] = "exec" /\ guard[w].task # 0 /\ pinger'[w] = "wait" /\ DropLocks(w)
  BY DEF TypeOK, PopCommit, Commit, At
<1>4. guard[w].task \in Tasks
  BY <1>3, GuardType
<1>5. /\ status' = [status EXCEPT ![guard[w].task] = "running"]
      /\ stage' = [stage EXCEPT ![guard[w].task] = guard[w].stage]
  BY DEF PopCommit, Commit, At
<1>6. \A v \in Workers \ {w} : guard[v].task # 0 => guard[v].task # guard[w].task
          /\ guard[v].task \in Tasks
  BY DistinctTasks, GuardType DEF WorkerInv
<1>7. /\ status'[guard[w].task] = "running" /\ stage'[guard[w].task] = guard[w].stage
      /\ \A v \in Workers \ {w} : guard[v].task # 0 =>
            /\ status'[guard[v].task] = status[guard[v].task]
            /\ stage'[guard[v].task] = stage[guard[v].task]
  BY <1>4, <1>5, <1>6 DEF TypeOK
<1>8. guard[w].stage \in 0..MaxStage /\ "running" \in Statuses /\ stopping[NodeOf[w]] \in BOOLEAN
  BY GuardType, NodeOfType DEF Guards, Statuses, TypeOK
<1>9. TypeOK'
  <2>1. status' \in [Tasks -> Statuses] /\ stage' \in [Tasks -> 0..MaxStage]
    BY <1>5, <1>8 DEF TypeOK
  <2>2. tableLock' \in Workers \cup {None} /\ popMutex' \in [Nodes -> Workers \cup {None}]
    BY <1>3 DEF TypeOK, DropLocks
  <2>3. cancelled' \in [Workers -> BOOLEAN] /\ pinger' \in [Workers -> {"off", "wait", "ask",
          "ping", "stuck"}]
    BY <1>8 DEF TypeOK, PopCommit
  <2>4. pc' \in [Workers -> {"idle", "pop", "exec", "status", "close", "join",
          "stopped"} \cup Final]
    BY DEF TypeOK, PopCommit, At
  <2> QED BY <1>1, <2>1, <2>2, <2>3, <2>4 DEF TypeOK
<1>10. Locks'
  BY <1>1, <1>2, <1>3, LocksDrop
<1>11. OneWorkerPerTask'
  <2>1. \A v \in Workers \ {w} : guard'[v] = guard[v] /\ pc'[v] = pc[v]
    BY <1>1, <1>2
  <2>2. guard'[w].task = guard[w].task /\ Tasks' = Tasks
    BY <1>1 DEF Tasks
  <2>3. \A v \in Workers \ {w} : \A t \in Tasks : guard[v].task = t => guard[w].task # t
    BY <1>6 DEF Tasks
  <2> QED BY <2>1, <2>2, <2>3 DEF OneWorkerPerTask, Holds
<1>12. \A v \in Workers \ {w} : WorkerInv(v)'
  BY <1>1, <1>2, <1>7, WorkerFrame
<1>13. ControlOf(w) /\ CallsOf(w) /\ RowsOf(w) /\ RowFollowsGuardOf(w) /\ PingerAliveOf(w)
          /\ LeaseKeptOf(w)
  BY DEF WorkerInv
<1>14. /\ (guard[w].task # 0 => guard[w].task \in Tasks) /\ guard[w].stage \in Nat
       /\ guard[w].left \in Int /\ Lease \in Nat /\ Lease > 1
  BY GuardType, QueueAssumption
<1>15. WorkerInv(w)'
  <2>1. ControlOf(w)'
    BY <1>1, <1>3, <1>4, <1>6, <1>7, <1>8, <1>13, <1>14 DEF ControlOf, CallsOf, NoGuard, NoCall,
       Final
  <2>2. CallsOf(w)'
    BY <1>1, <1>3, <1>4, <1>6, <1>7, <1>8, <1>13, <1>14 DEF ControlOf, CallsOf, RowsOf, NoGuard,
       NoCall, Final
  <2>3. RowsOf(w)'
    BY <1>1, <1>3, <1>4, <1>6, <1>7, <1>8, <1>13, <1>14 DEF RowsOf, ControlOf, CallsOf, NoGuard,
       NoCall, Final
  <2>4. RowFollowsGuardOf(w)'
    BY <1>1, <1>3, <1>4, <1>6, <1>7, <1>8, <1>13, <1>14 DEF RowFollowsGuardOf, RowsOf, CallsOf,
       ControlOf, NoGuard, NoCall, Final
  <2>5. PingerAliveOf(w)'
    BY <1>1, <1>3, <1>4, <1>6, <1>7, <1>8, <1>13, <1>14 DEF PingerAliveOf, ControlOf, CallsOf,
       NoGuard, NoCall, Final
  <2>6. LeaseKeptOf(w)'
    BY <1>1, <1>3, <1>4, <1>6, <1>7, <1>8, <1>13, <1>14 DEF LeaseKeptOf, PingerAliveOf, ControlOf,
       CallsOf, RowsOf, NoGuard, NoCall, Final
  <2> QED BY <2>1, <2>2, <2>3, <2>4, <2>5, <2>6 DEF WorkerInv
<1> QED BY <1>9, <1>10, <1>11, <1>12, <1>15

\* Nothing was popped.
LEMMA PopEmptyInvariant ==
  ASSUME IInv, NEW w \in Workers, PopEmpty(w)
  PROVE  IInv'
<1> USE DEF IInv
<1>1. UNCHANGED <<dialect, status, stage, stopping, call, pinger, due, cancelled, faults, lost,
          crashes>>
  BY DEF PopEmpty, PopReturns, At, rowVars, popVars, pingVars, faultVars
<1>2. \A v \in Workers \ {w} : pc'[v] = pc[v] /\ guard'[v] = guard[v]
  BY DEF TypeOK, PopEmpty, PopReturns, At
<1>3. pc[w] = "pop" /\ pc'[w] = "idle" /\ guard'[w] = NoGuard /\ DropLocks(w)
  BY DEF TypeOK, PopEmpty, PopReturns, At
<1>4. TypeOK'
  BY <1>1, NoneType, QueueAssumption DEF TypeOK, PopEmpty, PopReturns, At, DropLocks
<1>5. Locks'
  BY <1>1, <1>2, <1>3, LocksDrop
<1>6. OneWorkerPerTask'
  <2>1. guard'[w].task = 0
    BY <1>3 DEF NoGuard
  <2>2. 0 \notin Tasks
    BY DEF Tasks
  <2> QED BY <1>2, <2>1, <2>2, OneWorkerFrame DEF Holds
<1>7. \A v \in Workers \ {w} : WorkerInv(v)'
  BY <1>1, <1>2, WorkerFrame
<1>8. WorkerInv(w)'
  <2>1. pinger[w] = "off" /\ ~cancelled[w] /\ call[w] = NoCall
    BY <1>3 DEF WorkerInv, ControlOf
  <2> QED BY <1>1, <1>3, <2>1, WorkerIdle
<1> QED BY <1>4, <1>5, <1>6, <1>7, <1>8

\* The row is still queued.
LEMMA PopFailInvariant ==
  ASSUME IInv, NEW w \in Workers, PopFail(w)
  PROVE  IInv'
<1> USE DEF IInv
<1>1. UNCHANGED <<dialect, status, stage, stopping, call, pinger, due, cancelled, lost, crashes>>
  BY DEF PopFail, Mishap, PopReturns, At, rowVars, popVars, pingVars, faultVars
<1>2. \A v \in Workers \ {w} : pc'[v] = pc[v] /\ guard'[v] = guard[v]
  BY DEF TypeOK, PopFail, Mishap, PopReturns, At
<1>3. pc[w] = "pop" /\ pc'[w] = "idle" /\ guard'[w] = NoGuard /\ DropLocks(w)
  BY DEF TypeOK, PopFail, Mishap, PopReturns, At
<1>4. faults' \in Nat /\ (faults' = 0 => faults = 0)
  BY DEF TypeOK, PopFail, Mishap, PopReturns, At
<1>5. TypeOK'
  BY <1>1, NoneType, QueueAssumption DEF TypeOK, PopFail, Mishap, PopReturns, At, DropLocks
<1>6. Locks'
  BY <1>1, <1>2, <1>3, LocksDrop
<1>7. OneWorkerPerTask'
  <2>1. guard'[w].task = 0
    BY <1>3 DEF NoGuard
  <2>2. 0 \notin Tasks
    BY DEF Tasks
  <2> QED BY <1>2, <2>1, <2>2, OneWorkerFrame DEF Holds
<1>8. \A v \in Workers \ {w} : WorkerInv(v)'
  BY <1>1, <1>2, <1>4, WorkerFrame
<1>9. WorkerInv(w)'
  <2>1. pinger[w] = "off" /\ ~cancelled[w] /\ call[w] = NoCall
    BY <1>3 DEF WorkerInv, ControlOf
  <2> QED BY <1>1, <1>3, <2>1, WorkerIdle
<1> QED BY <1>5, <1>6, <1>7, <1>8, <1>9

\* The row is running, and nobody executes it.
LEMMA PopLostInvariant ==
  ASSUME IInv, NEW w \in Workers, PopLost(w)
  PROVE  IInv'
<1> USE DEF IInv
<1>1. UNCHANGED <<dialect, stopping, call, pinger, due, cancelled, faults, crashes>>
  BY DEF PopLost, Mishap, Commit, PopReturns, At, rowVars, popVars, pingVars, faultVars
<1>2. \A v \in Workers \ {w} : pc'[v] = pc[v] /\ guard'[v] = guard[v]
  BY DEF TypeOK, PopLost, Mishap, Commit, PopReturns, At
<1>3. pc[w] = "pop" /\ pc'[w] = "idle" /\ guard'[w] = NoGuard /\ DropLocks(w)
  BY DEF TypeOK, PopLost, Mishap, Commit, PopReturns, At
<1>4. lost' = lost + 1 /\ lost' \in Nat /\ lost' # 0
  BY DEF TypeOK, PopLost, Mishap, Commit, PopReturns, At
<1>5. guard[w].task # 0
  BY DEF PopLost, Mishap, Commit, PopReturns, At
<1>6. guard[w].task \in Tasks
  BY <1>5, GuardType
<1>7. /\ status' = [status EXCEPT ![guard[w].task] = "running"]
      /\ stage' = [stage EXCEPT ![guard[w].task] = guard[w].stage]
  BY DEF PopLost, Mishap, Commit, PopReturns, At
<1>8. \A v \in Workers \ {w} : guard[v].task # 0 => guard[v].task # guard[w].task
          /\ guard[v].task \in Tasks
  BY DistinctTasks, GuardType DEF WorkerInv
<1>9. /\ status'[guard[w].task] = "running" /\ stage'[guard[w].task] = guard[w].stage
      /\ \A v \in Workers \ {w} : guard[v].task # 0 =>
            /\ status'[guard[v].task] = status[guard[v].task]
            /\ stage'[guard[v].task] = stage[guard[v].task]
  BY <1>6, <1>7, <1>8 DEF TypeOK
<1>10. guard[w].stage \in 0..MaxStage /\ "running" \in Statuses
  BY GuardType DEF Guards, Statuses
<1>11. TypeOK'
  <2>1. status' \in [Tasks -> Statuses] /\ stage' \in [Tasks -> 0..MaxStage]
    BY <1>7, <1>10 DEF TypeOK
  <2>2. tableLock' \in Workers \cup {None} /\ popMutex' \in [Nodes -> Workers \cup {None}]
    BY <1>3 DEF TypeOK, DropLocks
  <2>3. lost' \in 0..MaxLost
    BY QueueAssumption DEF TypeOK, PopLost
  <2>4. /\ pc' \in [Workers -> {"idle", "pop", "exec", "status", "close", "join",
          "stopped"} \cup Final]
        /\ guard' \in [Workers -> Guards]
    BY NoneType DEF TypeOK, PopLost, PopReturns, At
  <2> QED BY <1>1, <2>1, <2>2, <2>3, <2>4 DEF TypeOK
<1>12. Locks'
  BY <1>1, <1>2, <1>3, LocksDrop
<1>13. OneWorkerPerTask'
  <2>1. guard'[w].task = 0
    BY <1>3 DEF NoGuard
  <2>2. 0 \notin Tasks
    BY DEF Tasks
  <2> QED BY <1>2, <2>1, <2>2, OneWorkerFrame DEF Holds
<1>14. \A v \in Workers \ {w} : WorkerInv(v)'
  BY <1>1, <1>2, <1>4, <1>9, WorkerFrame
<1>15. WorkerInv(w)'
  <2>1. pinger[w] = "off" /\ ~cancelled[w] /\ call[w] = NoCall
    BY <1>3 DEF WorkerInv, ControlOf
  <2> QED BY <1>1, <1>3, <2>1, WorkerIdle
<1> QED BY <1>11, <1>12, <1>13, <1>14, <1>15

\* The row takes over the call, and no other worker has the task.
LEMMA ApplyInvariant ==
  ASSUME IInv, NEW w \in Workers, Apply(w)
  PROVE  IInv'
<1> USE DEF IInv
<1>1. UNCHANGED <<dialect, tableLock, popMutex, stopping, pc, guard, pinger, due, cancelled,
          faults, lost, crashes>>
  BY DEF Apply, rowVars, popVars, pingVars, faultVars
<1>2. \A v \in Workers \ {w} : call'[v] = call[v]
  BY DEF TypeOK, Apply
<1>3. call[w].by # "none" /\ ~call[w].applied
  BY DEF Apply
<1>4. /\ call'[w] = [call[w] EXCEPT !.applied = TRUE]
  BY DEF TypeOK, Apply
<1>5. /\ call'[w] \in UpdateCalls /\ call'[w].by = call[w].by /\ call'[w].status = call[w].status
      /\ call'[w].stage = call[w].stage /\ call'[w].left = call[w].left /\ call'[w].applied
  BY <1>4, GuardType DEF UpdateCalls
<1>6. pc[w] # "pop" /\ guard[w].task # 0 /\ call[w].by \in {"pinger", "worker"}
  BY <1>3, GuardType DEF WorkerInv, ControlOf, NoCall, UpdateCalls
<1>7. guard[w].task \in Tasks
  BY <1>6, GuardType
<1>8. /\ status' = [status EXCEPT ![guard[w].task] = call[w].status]
      /\ stage' = [stage EXCEPT ![guard[w].task] = call[w].stage]
  BY DEF Apply
<1>9. \A v \in Workers \ {w} : guard[v].task # 0 => guard[v].task # guard[w].task
          /\ guard[v].task \in Tasks
  BY DistinctTasks, GuardType DEF WorkerInv
<1>10. /\ status'[guard[w].task] = call[w].status /\ stage'[guard[w].task] = call[w].stage
       /\ \A v \in Workers \ {w} : guard[v].task # 0 =>
             /\ status'[guard[v].task] = status[guard[v].task]
             /\ stage'[guard[v].task] = stage[guard[v].task]
  BY <1>7, <1>8, <1>9 DEF TypeOK
<1>11. call[w].status \in Statuses /\ call[w].stage \in 0..MaxStage
  BY GuardType DEF UpdateCalls
<1>12. TypeOK'
  BY <1>1, <1>2, <1>3, <1>4, <1>5, <1>6, <1>7, <1>8, <1>9, <1>10, <1>11, GuardType, NoneType,
     QueueAssumption DEF TypeOK, Apply
<1>13. Locks'
  BY <1>1 DEF Locks, NodeOf, LocksTable
<1>14. OneWorkerPerTask'
  BY <1>1 DEF OneWorkerPerTask, Holds
<1>15. \A v \in Workers \ {w} : WorkerInv(v)'
  BY <1>1, <1>2, <1>10, WorkerFrame
<1>16. ControlOf(w) /\ CallsOf(w) /\ RowsOf(w) /\ RowFollowsGuardOf(w) /\ PingerAliveOf(w)
          /\ LeaseKeptOf(w)
  BY DEF WorkerInv
<1>17. /\ (guard[w].task # 0 => guard[w].task \in Tasks) /\ guard[w].stage \in Nat
       /\ guard[w].left \in Int /\ Lease \in Nat /\ Lease > 1
  BY GuardType, QueueAssumption
<1>18. WorkerInv(w)'
  <2>1. PingerAliveOf(w)'
    BY <1>1, <1>16 DEF PingerAliveOf
  <2>2. ControlOf(w)'
    BY <1>1, <1>3, <1>5, <1>6, <1>7, <1>9, <1>10, <1>11, <1>16, <1>17 DEF ControlOf, CallsOf,
       NoGuard, NoCall, Final
  <2>3. CallsOf(w)'
    BY <1>1, <1>3, <1>5, <1>6, <1>7, <1>9, <1>10, <1>11, <1>16, <1>17 DEF ControlOf, CallsOf,
       RowsOf, NoGuard, NoCall, Final
  <2>4. RowsOf(w)'
    BY <1>1, <1>3, <1>5, <1>6, <1>7, <1>9, <1>10, <1>11, <1>16, <1>17 DEF RowsOf, ControlOf,
       CallsOf, NoGuard, NoCall, Final
  <2>5. RowFollowsGuardOf(w)'
    BY <1>1, <1>3, <1>5, <1>6, <1>7, <1>9, <1>10, <1>11, <1>16, <1>17 DEF RowFollowsGuardOf,
       RowsOf, CallsOf, ControlOf, NoGuard, NoCall, Final
  <2>6. LeaseKeptOf(w)'
    BY <1>1, <1>3, <1>5, <1>6, <1>7, <1>9, <1>10, <1>11, <1>16, <1>17 DEF LeaseKeptOf,
       PingerAliveOf, ControlOf, CallsOf, RowsOf, NoGuard, NoCall, Final
  <2> QED BY <2>1, <2>2, <2>3, <2>4, <2>5, <2>6 DEF WorkerInv
<1> QED BY <1>12, <1>13, <1>14, <1>15, <1>18

\* The guard takes over the call.
LEMMA UpdateOKInvariant ==
  ASSUME IInv, NEW w \in Workers, UpdateOK(w)
  PROVE  IInv'
<1> USE DEF IInv
<1>1. UNCHANGED <<dialect, status, stage, tableLock, popMutex, stopping, due, cancelled, faults,
          lost, crashes>>
  BY DEF UpdateOK, Return, At, rowVars, popVars, pingVars, faultVars
<1>2. \A v \in Workers \ {w} : pc'[v] = pc[v] /\ guard'[v] = guard[v] /\ call'[v] = call[v]
          /\ pinger'[v] = pinger[v]
  BY DEF TypeOK, UpdateOK, Return, At
<1>3. /\ call'[w] = NoCall
      /\ \/ call[w].by = "pinger" /\ pinger'[w] = "wait" /\ pc'[w] = pc[w]
         \/ call[w].by = "worker" /\ pc'[w] = "close" /\ pinger'[w] = pinger[w]
  BY DEF TypeOK, UpdateOK, Return, At
<1>4. call[w].applied
  BY DEF UpdateOK, Return, At
<1>5. guard'[w] = [guard[w] EXCEPT !.status = call[w].status, !.stage = call[w].stage,
          !.left = call[w].left]
  BY DEF TypeOK, UpdateOK, Return, At
<1>6. /\ guard'[w] \in Guards /\ guard'[w].task = guard[w].task /\ guard'[w].status = call[w].status
      /\ guard'[w].stage = call[w].stage /\ guard'[w].left = call[w].left
  BY <1>5, GuardType DEF Guards, UpdateCalls
<1>7. pc[w] # "pop" /\ pc'[w] # "pop"
  BY <1>3 DEF WorkerInv, ControlOf, NoCall
<1>8. TypeOK'
  <2>1. guard' \in [Workers -> Guards]
    BY <1>6 DEF TypeOK, UpdateOK
  <2>2. call' \in [Workers -> UpdateCalls]
    BY NoneType DEF TypeOK, UpdateOK, Return
  <2>3. /\ pc' \in [Workers -> {"idle", "pop", "exec", "status", "close", "join",
          "stopped"} \cup Final]
        /\ pinger' \in [Workers -> {"off", "wait", "ask", "ping", "stuck"}]
    BY DEF TypeOK, UpdateOK, Return, At
  <2> QED BY <1>1, <2>1, <2>2, <2>3 DEF TypeOK
<1>9. Locks'
  BY <1>1, <1>2, <1>7, LocksFrame DEF popVars, Final
<1>10. OneWorkerPerTask'
  BY <1>1, <1>2, <1>6, <1>7, OneWorkerFrame DEF Holds, Final
<1>11. \A v \in Workers \ {w} : WorkerInv(v)'
  BY <1>1, <1>2, WorkerFrame
<1>12. ControlOf(w) /\ CallsOf(w) /\ RowsOf(w) /\ RowFollowsGuardOf(w) /\ PingerAliveOf(w)
          /\ LeaseKeptOf(w)
  BY DEF WorkerInv
<1>13. /\ (guard[w].task # 0 => guard[w].task \in Tasks) /\ guard[w].stage \in Nat
       /\ guard[w].left \in Int /\ Lease \in Nat /\ Lease > 1
  BY GuardType, QueueAssumption
<1>14. WorkerInv(w)'
  <2>1. ControlOf(w)'
    BY <1>1, <1>3, <1>4, <1>6, <1>7, <1>12, <1>13 DEF ControlOf, CallsOf, NoGuard, NoCall, Final
  <2>2. CallsOf(w)'
    BY <1>1, <1>3, <1>4, <1>6, <1>7, <1>12, <1>13 DEF ControlOf, CallsOf, RowsOf, NoGuard, NoCall,
       Final
  <2>3. RowsOf(w)'
    BY <1>1, <1>3, <1>4, <1>6, <1>7, <1>12, <1>13 DEF RowsOf, ControlOf, CallsOf, NoGuard, NoCall,
       Final
  <2>4. RowFollowsGuardOf(w)'
    BY <1>1, <1>3, <1>4, <1>6, <1>7, <1>12, <1>13 DEF RowFollowsGuardOf, RowsOf, CallsOf,
       ControlOf, NoGuard, NoCall, Final
  <2>5. PingerAliveOf(w)'
    BY <1>1, <1>3, <1>4, <1>6, <1>7, <1>12, <1>13 DEF PingerAliveOf, ControlOf, CallsOf, NoGuard,
       NoCall, Final
  <2>6. LeaseKeptOf(w)'
    BY <1>1, <1>3, <1>4, <1>6, <1>7, <1>12, <1>13 DEF LeaseKeptOf, PingerAliveOf, ControlOf,
       CallsOf, RowsOf, NoGuard, NoCall, Final
  <2> QED BY <2>1, <2>2, <2>3, <2>4, <2>5, <2>6 DEF WorkerInv
<1> QED BY <1>8, <1>9, <1>10, <1>11, <1>14

\* The guard is as it was, and so is the row.
LEMMA UpdateFailInvariant ==
  ASSUME IInv, NEW w \in Workers, UpdateFail(w)
  PROVE  IInv'
<1> USE DEF IInv
<1>1. UNCHANGED <<dialect, status, stage, tableLock, popMutex, stopping, guard, due, cancelled,
          lost, crashes>>
  BY DEF UpdateFail, Mishap, Return, At, rowVars, popVars, pingVars, faultVars
<1>2. \A v \in Workers \ {w} : pc'[v] = pc[v] /\ call'[v] = call[v] /\ pinger'[v] = pinger[v]
  BY DEF TypeOK, UpdateFail, Mishap, Return, At
<1>3. /\ call'[w] = NoCall
      /\ \/ call[w].by = "pinger" /\ pinger'[w] = "wait" /\ pc'[w] = pc[w]
         \/ call[w].by = "worker" /\ pc'[w] = "close" /\ pinger'[w] = pinger[w]
  BY DEF TypeOK, UpdateFail, Mishap, Return, At
<1>4. call[w].by # "none" /\ ~call[w].applied
  BY DEF UpdateFail, Mishap, Return, At
<1>5. \/ guard[w].left <= 0 /\ faults' = faults
      \/ call[w].by = "pinger" /\ cancelled[w] /\ faults' = faults
      \/ faults' = faults + 1
  BY DEF UpdateFail, Mishap, Return, At
<1>6. faults \in Nat /\ faults' \in Nat
  BY DEF TypeOK, UpdateFail, Mishap, Return, At
<1>7. pc[w] # "pop" /\ pc'[w] # "pop"
  BY <1>3 DEF WorkerInv, ControlOf, NoCall
<1>8. TypeOK'
  <2>1. call' \in [Workers -> UpdateCalls]
    BY NoneType DEF TypeOK, UpdateFail, Return
  <2>2. /\ pc' \in [Workers -> {"idle", "pop", "exec", "status", "close", "join",
          "stopped"} \cup Final]
        /\ pinger' \in [Workers -> {"off", "wait", "ask", "ping", "stuck"}]
    BY DEF TypeOK, UpdateFail, Return, At
  <2>3. faults' \in 0..MaxMishaps
    BY QueueAssumption DEF TypeOK, UpdateFail, Mishap
  <2> QED BY <1>1, <2>1, <2>2, <2>3 DEF TypeOK
<1>9. Locks'
  BY <1>1, <1>2, <1>7, LocksFrame DEF popVars, Final
<1>10. OneWorkerPerTask'
  BY <1>1, <1>2, <1>7, OneWorkerFrame DEF Holds, Final
<1>11. \A v \in Workers \ {w} : WorkerInv(v)'
  BY <1>1, <1>2, <1>5, <1>6, WorkerFrame
<1>12. ControlOf(w) /\ CallsOf(w) /\ RowsOf(w) /\ RowFollowsGuardOf(w) /\ PingerAliveOf(w)
          /\ LeaseKeptOf(w)
  BY DEF WorkerInv
<1>13. /\ (guard[w].task # 0 => guard[w].task \in Tasks) /\ guard[w].stage \in Nat
       /\ guard[w].left \in Int /\ Lease \in Nat /\ Lease > 1
  BY GuardType, QueueAssumption
<1>14. WorkerInv(w)'
  <2>1. ControlOf(w)'
    BY <1>1, <1>3, <1>4, <1>5, <1>6, <1>7, <1>12, <1>13 DEF ControlOf, CallsOf, NoGuard, NoCall,
       Final
  <2>2. CallsOf(w)'
    BY <1>1, <1>3, <1>4, <1>5, <1>6, <1>7, <1>12, <1>13 DEF ControlOf, CallsOf, RowsOf, NoGuard,
       NoCall, Final
  <2>3. RowsOf(w)'
    BY <1>1, <1>3, <1>4, <1>5, <1>6, <1>7, <1>12, <1>13 DEF RowsOf, ControlOf, CallsOf, NoGuard,
       NoCall, Final
  <2>4. RowFollowsGuardOf(w)'
    BY <1>1, <1>3, <1>4, <1>5, <1>6, <1>7, <1>12, <1>13 DEF RowFollowsGuardOf, RowsOf, CallsOf,
       ControlOf, NoGuard, NoCall, Final
  <2>5. PingerAliveOf(w)'
    BY <1>1, <1>3, <1>4, <1>5, <1>6, <1>7, <1>12, <1>13 DEF PingerAliveOf, ControlOf, CallsOf,
       NoGuard, NoCall, Final
  <2>6. LeaseKeptOf(w)'
    BY <1>1, <1>3, <1>4, <1>5, <1>6, <1>7, <1>12, <1>13 DEF LeaseKeptOf, PingerAliveOf, ControlOf,
       CallsOf, RowsOf, NoGuard, NoCall, Final
  <2> QED BY <2>1, <2>2, <2>3, <2>4, <2>5, <2>6 DEF WorkerInv
<1> QED BY <1>8, <1>9, <1>10, <1>11, <1>14

\* The row is ahead of the guard, which RowFollowsGuardOf allows from now on.
LEMMA UpdateLostInvariant ==
  ASSUME IInv, NEW w \in Workers, UpdateLost(w)
  PROVE  IInv'
<1> USE DEF IInv
<1>1. UNCHANGED <<dialect, status, stage, tableLock, popMutex, stopping, guard, due, cancelled,
          faults, crashes>>
  BY DEF UpdateLost, Mishap, Return, At, rowVars, popVars, pingVars, faultVars
<1>2. \A v \in Workers \ {w} : pc'[v] = pc[v] /\ call'[v] = call[v] /\ pinger'[v] = pinger[v]
  BY DEF TypeOK, UpdateLost, Mishap, Return, At
<1>3. /\ call'[w] = NoCall
      /\ \/ call[w].by = "pinger" /\ pinger'[w] = "wait" /\ pc'[w] = pc[w]
         \/ call[w].by = "worker" /\ pc'[w] = "close" /\ pinger'[w] = pinger[w]
  BY DEF TypeOK, UpdateLost, Mishap, Return, At
<1>4. lost' = lost + 1 /\ lost' \in Nat /\ lost' # 0
  BY DEF TypeOK, UpdateLost, Mishap, Return, At
<1>5. pc[w] # "pop" /\ pc'[w] # "pop"
  BY <1>3 DEF WorkerInv, ControlOf, NoCall
<1>6. TypeOK'
  BY SMTT(30), <1>1, <1>2, <1>3, <1>4, <1>5, GuardType, NoneType, QueueAssumption DEF TypeOK, UpdateLost,
     Mishap, Return, At
<1>7. Locks'
  BY <1>1, <1>2, <1>5, LocksFrame DEF popVars, Final
<1>8. OneWorkerPerTask'
  BY <1>1, <1>2, <1>5, OneWorkerFrame DEF Holds, Final
<1>9. \A v \in Workers \ {w} : WorkerInv(v)'
  BY <1>1, <1>2, <1>4, WorkerFrame
<1>10. ControlOf(w) /\ CallsOf(w) /\ RowsOf(w) /\ RowFollowsGuardOf(w) /\ PingerAliveOf(w)
          /\ LeaseKeptOf(w)
  BY DEF WorkerInv
<1>11. /\ (guard[w].task # 0 => guard[w].task \in Tasks) /\ guard[w].stage \in Nat
       /\ guard[w].left \in Int /\ Lease \in Nat /\ Lease > 1
  BY GuardType, QueueAssumption
<1>12. WorkerInv(w)'
  <2>1. ControlOf(w)'
    BY <1>1, <1>3, <1>4, <1>5, <1>10, <1>11 DEF ControlOf, CallsOf, NoGuard, NoCall, Final
  <2>2. CallsOf(w)'
    BY <1>1, <1>3, <1>4, <1>5, <1>10, <1>11 DEF ControlOf, CallsOf, RowsOf, NoGuard, NoCall, Final
  <2>3. RowsOf(w)'
    BY <1>1, <1>3, <1>4, <1>5, <1>10, <1>11 DEF RowsOf, ControlOf, CallsOf, NoGuard, NoCall, Final
  <2>4. RowFollowsGuardOf(w)'
    BY <1>1, <1>3, <1>4, <1>5, <1>10, <1>11 DEF RowFollowsGuardOf, RowsOf, CallsOf, ControlOf,
       NoGuard, NoCall, Final
  <2>5. PingerAliveOf(w)'
    BY <1>1, <1>3, <1>4, <1>5, <1>10, <1>11 DEF PingerAliveOf, ControlOf, CallsOf, NoGuard,
       NoCall, Final
  <2>6. LeaseKeptOf(w)'
    BY <1>1, <1>3, <1>4, <1>5, <1>10, <1>11 DEF LeaseKeptOf, PingerAliveOf, ControlOf, CallsOf,
       RowsOf, NoGuard, NoCall, Final
  <2> QED BY <2>1, <2>2, <2>3, <2>4, <2>5, <2>6 DEF WorkerInv
<1> QED BY <1>6, <1>7, <1>8, <1>9, <1>12

\* A ticker that fires in the second half of the lease leads to a ping.
LEMMA PingTickInvariant ==
  ASSUME IInv, NEW w \in Workers, PingTick(w)
  PROVE  IInv'
<1> USE DEF IInv
<1>1. UNCHANGED <<dialect, status, stage, tableLock, popMutex, stopping, pc, guard, call, faults,
          lost, crashes>>
  BY DEF PingTick, Unlocked, rowVars, popVars, pingVars, faultVars
<1>2. \A v \in Workers \ {w} : pinger'[v] = pinger[v] /\ due'[v] = due[v]
          /\ cancelled'[v] = cancelled[v]
  BY DEF TypeOK, PingTick, Unlocked
<1>3. pinger[w] = "wait" /\ due[w] /\ call[w] = NoCall
  BY DEF PingTick, Unlocked
<1>4. \/ guard[w].left < 0 /\ pinger'[w] = "stuck" /\ cancelled'[w]
      \/ guard[w].left >= 0 /\ 2 * guard[w].left > Lease /\ pinger'[w] = "wait"
          /\ cancelled'[w] = cancelled[w]
      \/ guard[w].left >= 0 /\ pinger'[w] = "ask" /\ cancelled'[w] = cancelled[w]
  BY DEF TypeOK, NoPingYet, PingTick, Unlocked
<1>5. /\ due' \in [Workers -> BOOLEAN] /\ cancelled' \in [Workers -> BOOLEAN]
      /\ pinger' \in [Workers -> {"off", "wait", "ask", "ping", "stuck"}]
  BY DEF TypeOK, PingTick, Unlocked
<1>6. TypeOK'
  BY <1>1, <1>5 DEF TypeOK
<1>7. Locks'
  BY <1>1 DEF Locks, NodeOf, LocksTable
<1>8. OneWorkerPerTask'
  BY <1>1 DEF OneWorkerPerTask, Holds
<1>9. \A v \in Workers \ {w} : WorkerInv(v)'
  BY <1>1, <1>2, WorkerFrame
<1>10. ControlOf(w) /\ CallsOf(w) /\ RowsOf(w) /\ RowFollowsGuardOf(w) /\ PingerAliveOf(w)
          /\ LeaseKeptOf(w)
  BY DEF WorkerInv
<1>11. /\ (guard[w].task # 0 => guard[w].task \in Tasks) /\ guard[w].stage \in Nat
       /\ guard[w].left \in Int /\ Lease \in Nat /\ Lease > 1
  BY GuardType, QueueAssumption
<1>12. WorkerInv(w)'
  <2>1. RowsOf(w)' /\ RowFollowsGuardOf(w)'
    BY <1>1, <1>10 DEF RowsOf, RowFollowsGuardOf
  <2>2. ControlOf(w)'
    BY <1>1, <1>3, <1>4, <1>5, <1>10, <1>11 DEF ControlOf, CallsOf, NoGuard, NoCall, Final
  <2>3. CallsOf(w)'
    BY <1>1, <1>3, <1>4, <1>5, <1>10, <1>11 DEF ControlOf, CallsOf, RowsOf, NoGuard, NoCall, Final
  <2>4. PingerAliveOf(w)'
    BY <1>1, <1>3, <1>4, <1>5, <1>10, <1>11 DEF PingerAliveOf, ControlOf, CallsOf, NoGuard,
       NoCall, Final
  <2>5. LeaseKeptOf(w)'
    BY <1>1, <1>3, <1>4, <1>5, <1>10, <1>11 DEF LeaseKeptOf, PingerAliveOf, ControlOf, CallsOf,
       RowsOf, NoGuard, NoCall, Final
  <2> QED BY <2>1, <2>2, <2>3, <2>4, <2>5 DEF WorkerInv
<1> QED BY <1>6, <1>7, <1>8, <1>9, <1>12

\* A ping asks for a whole lease.
LEMMA PingInvariant ==
  ASSUME IInv, NEW w \in Workers, Ping(w)
  PROVE  IInv'
<1> USE DEF IInv
<1>1. UNCHANGED <<dialect, status, stage, tableLock, popMutex, stopping, pc, guard, due,
          cancelled, faults, lost, crashes>>
  BY DEF Ping, Unlocked, Check, Update, rowVars, popVars, pingVars, faultVars
<1>2. \A v \in Workers \ {w} : call'[v] = call[v] /\ pinger'[v] = pinger[v]
  BY DEF TypeOK, Ping, Unlocked, Check, Update
<1>3. pinger[w] = "ask" /\ call[w] = NoCall
  BY DEF Ping, Unlocked, Check, Update
<1>4. \/ /\ guard[w].status = "running" /\ guard[w].left > 0 /\ pinger'[w] = "ping"
         /\ call'[w] = [by |-> "pinger", status |-> guard[w].status, stage |-> guard[w].stage,
                        left |-> Lease, applied |-> FALSE]
      \/ /\ ~(guard[w].status = "running" /\ guard[w].left > 0) /\ pinger'[w] = "wait"
         /\ call'[w] = NoCall
  BY DEF TypeOK, Ping, Unlocked, Check, Update
<1>5. guard[w].status \in Statuses /\ guard[w].stage \in 0..MaxStage /\ Lease \in -1..Lease
  BY GuardType, QueueAssumption DEF Guards
<1>6. call'[w] \in UpdateCalls
  <2>1. CASE call'[w] = NoCall
    BY <2>1, NoneType
  <2>2. CASE call'[w] # NoCall
    <3>1. call'[w] = [by |-> "pinger", status |-> guard[w].status, stage |-> guard[w].stage,
                      left |-> Lease, applied |-> FALSE]
      BY <1>4, <2>2
    <3> QED BY <1>5, <3>1 DEF UpdateCalls
  <2> QED BY <2>1, <2>2
<1>7. TypeOK'
  BY <1>1, <1>4, <1>6, QueueAssumption DEF TypeOK, Ping, Unlocked, Check, Update
<1>8. Locks'
  BY <1>1 DEF Locks, NodeOf, LocksTable
<1>9. OneWorkerPerTask'
  BY <1>1 DEF OneWorkerPerTask, Holds
<1>10. \A v \in Workers \ {w} : WorkerInv(v)'
  BY <1>1, <1>2, WorkerFrame
<1>11. ControlOf(w) /\ CallsOf(w) /\ RowsOf(w) /\ RowFollowsGuardOf(w) /\ PingerAliveOf(w)
          /\ LeaseKeptOf(w)
  BY DEF WorkerInv
<1>12. /\ (guard[w].task # 0 => guard[w].task \in Tasks) /\ guard[w].stage \in Nat
       /\ guard[w].left \in Int /\ Lease \in Nat /\ Lease > 1
  BY GuardType, QueueAssumption
<1>13. WorkerInv(w)'
  <2>1. RowsOf(w)'
    BY <1>1, <1>11 DEF RowsOf
  <2>2. ControlOf(w)'
    BY <1>1, <1>3, <1>4, <1>5, <1>6, <1>11, <1>12 DEF ControlOf, CallsOf, NoGuard, NoCall, Final
  <2>3. CallsOf(w)'
    BY <1>1, <1>3, <1>4, <1>5, <1>6, <1>11, <1>12 DEF ControlOf, CallsOf, RowsOf, NoGuard, NoCall,
       Final
  <2>4. RowFollowsGuardOf(w)'
    BY <1>1, <1>3, <1>4, <1>5, <1>6, <1>11, <1>12 DEF RowFollowsGuardOf, RowsOf, CallsOf,
       ControlOf, NoGuard, NoCall, Final
  <2>5. PingerAliveOf(w)'
    BY <1>1, <1>3, <1>4, <1>5, <1>6, <1>11, <1>12 DEF PingerAliveOf, ControlOf, CallsOf, NoGuard,
       NoCall, Final
  <2>6. LeaseKeptOf(w)'
    BY <1>1, <1>3, <1>4, <1>5, <1>6, <1>11, <1>12 DEF LeaseKeptOf, PingerAliveOf, ControlOf,
       CallsOf, RowsOf, NoGuard, NoCall, Final
  <2> QED BY <2>1, <2>2, <2>3, <2>4, <2>5, <2>6 DEF WorkerInv
<1> QED BY <1>7, <1>8, <1>9, <1>10, <1>13

\* The pinger of a cancelled context.
LEMMA PingerExitInvariant ==
  ASSUME IInv, NEW w \in Workers, PingerExit(w)
  PROVE  IInv'
<1> USE DEF IInv
<1>1. UNCHANGED <<dialect, status, stage, tableLock, popMutex, stopping, pc, guard, call,
          cancelled, faults, lost, crashes>>
  BY DEF PingerExit, rowVars, popVars, pingVars, faultVars
<1>2. \A v \in Workers \ {w} : pinger'[v] = pinger[v] /\ due'[v] = due[v]
  BY DEF TypeOK, PingerExit
<1>3. pinger[w] = "wait" /\ cancelled[w] /\ pinger'[w] = "off"
  BY DEF TypeOK, PingerExit
<1>4. TypeOK'
  BY <1>1, <1>2, <1>3, GuardType, NoneType, QueueAssumption DEF TypeOK, PingerExit
<1>5. Locks'
  BY <1>1 DEF Locks, NodeOf, LocksTable
<1>6. OneWorkerPerTask'
  BY <1>1 DEF OneWorkerPerTask, Holds
<1>7. \A v \in Workers \ {w} : WorkerInv(v)'
  BY <1>1, <1>2, WorkerFrame
<1>8. ControlOf(w) /\ CallsOf(w) /\ RowsOf(w) /\ RowFollowsGuardOf(w) /\ PingerAliveOf(w)
          /\ LeaseKeptOf(w)
  BY DEF WorkerInv
<1>9. /\ (guard[w].task # 0 => guard[w].task \in Tasks) /\ guard[w].stage \in Nat
      /\ guard[w].left \in Int /\ Lease \in Nat /\ Lease > 1
  BY GuardType, QueueAssumption
<1>10. WorkerInv(w)'
  <2>1. RowsOf(w)' /\ RowFollowsGuardOf(w)'
    BY <1>1, <1>8 DEF RowsOf, RowFollowsGuardOf
  <2>2. ControlOf(w)'
    BY <1>1, <1>3, <1>8, <1>9 DEF ControlOf, CallsOf, NoGuard, NoCall, Final
  <2>3. CallsOf(w)'
    BY <1>1, <1>3, <1>8, <1>9 DEF ControlOf, CallsOf, RowsOf, NoGuard, NoCall, Final
  <2>4. PingerAliveOf(w)'
    BY <1>1, <1>3, <1>8, <1>9 DEF PingerAliveOf, ControlOf, CallsOf, NoGuard, NoCall, Final
  <2>5. LeaseKeptOf(w)'
    BY <1>1, <1>3, <1>8, <1>9 DEF LeaseKeptOf, PingerAliveOf, ControlOf, CallsOf, RowsOf, NoGuard,
       NoCall, Final
  <2> QED BY <2>1, <2>2, <2>3, <2>4, <2>5 DEF WorkerInv
<1> QED BY <1>4, <1>5, <1>6, <1>7, <1>10

\* The guard's stage grows, with no update under way.
LEMMA SetDeferredStateInvariant ==
  ASSUME IInv, NEW w \in Workers, SetDeferredState(w)
  PROVE  IInv'
<1> USE DEF IInv
<1>1. UNCHANGED <<dialect, status, stage, tableLock, popMutex, stopping, pc, call, pinger, due,
          cancelled, faults, lost, crashes>>
  BY DEF SetDeferredState, Unlocked, Check, rowVars, popVars, pingVars, faultVars
<1>2. \A v \in Workers \ {w} : guard'[v] = guard[v]
  BY DEF TypeOK, SetDeferredState, Unlocked, Check
<1>3. pc[w] = "exec" /\ call[w] = NoCall /\ guard[w].stage < MaxStage
  BY DEF SetDeferredState, Unlocked, Check
<1>4. guard'[w] = [guard[w] EXCEPT !.stage = @ + 1]
  BY DEF TypeOK, SetDeferredState, Unlocked, Check
<1>5. /\ guard'[w] \in Guards /\ guard'[w].task = guard[w].task
          /\ guard'[w].status = guard[w].status
      /\ guard'[w].stage = guard[w].stage + 1 /\ guard'[w].left = guard[w].left
  BY <1>3, <1>4, GuardType, QueueAssumption DEF Guards
<1>6. guard[w].stage \in Nat
  BY GuardType
<1>7. \A t \in Tasks : stage[t] \in Nat
  BY QueueAssumption DEF TypeOK
<1>8. TypeOK'
  BY <1>1, <1>2, <1>3, <1>4, <1>5, <1>6, <1>7, GuardType, NoneType, QueueAssumption DEF TypeOK,
     SetDeferredState, Unlocked, Check
<1>9. Locks'
  BY <1>1 DEF Locks, NodeOf, LocksTable
<1>10. OneWorkerPerTask'
  BY <1>1, <1>2, <1>5, OneWorkerFrame DEF Holds, Final
<1>11. \A v \in Workers \ {w} : WorkerInv(v)'
  BY <1>1, <1>2, WorkerFrame
<1>12. ControlOf(w) /\ CallsOf(w) /\ RowsOf(w) /\ RowFollowsGuardOf(w) /\ PingerAliveOf(w)
          /\ LeaseKeptOf(w)
  BY DEF WorkerInv
<1>13. /\ (guard[w].task # 0 => guard[w].task \in Tasks) /\ guard[w].stage \in Nat
       /\ guard[w].left \in Int /\ Lease \in Nat /\ Lease > 1
  BY GuardType, QueueAssumption
<1>14. WorkerInv(w)'
  <2>1. ControlOf(w)'
    BY <1>1, <1>3, <1>5, <1>6, <1>7, <1>12, <1>13 DEF ControlOf, CallsOf, NoGuard, NoCall, Final
  <2>2. CallsOf(w)'
    BY <1>1, <1>3, <1>5, <1>6, <1>7, <1>12, <1>13 DEF ControlOf, CallsOf, RowsOf, NoGuard, NoCall,
       Final
  <2>3. RowsOf(w)'
    BY <1>1, <1>3, <1>5, <1>6, <1>7, <1>12, <1>13 DEF RowsOf, ControlOf, CallsOf, NoGuard, NoCall,
       Final
  <2>4. RowFollowsGuardOf(w)'
    BY <1>1, <1>3, <1>5, <1>6, <1>7, <1>12, <1>13 DEF RowFollowsGuardOf, RowsOf, CallsOf,
       ControlOf, NoGuard, NoCall, Final
  <2>5. PingerAliveOf(w)'
    BY <1>1, <1>3, <1>5, <1>6, <1>7, <1>12, <1>13 DEF PingerAliveOf, ControlOf, CallsOf, NoGuard,
       NoCall, Final
  <2>6. LeaseKeptOf(w)'
    BY <1>1, <1>3, <1>5, <1>6, <1>7, <1>12, <1>13 DEF LeaseKeptOf, PingerAliveOf, ControlOf,
       CallsOf, RowsOf, NoGuard, NoCall, Final
  <2> QED BY <2>1, <2>2, <2>3, <2>4, <2>5, <2>6 DEF WorkerInv
<1> QED BY <1>8, <1>9, <1>10, <1>11, <1>14

\* Only the worker moves.
LEMMA ExecuteReturnsInvariant ==
  ASSUME IInv, NEW w \in Workers, ExecuteReturns(w)
  PROVE  IInv'
<1> USE DEF IInv
<1>1. UNCHANGED <<dialect, status, stage, tableLock, popMutex, stopping, guard, call, pinger,
          due, cancelled, faults, lost, crashes>>
  BY DEF ExecuteReturns, At, rowVars, popVars, pingVars, faultVars
<1>2. \A v \in Workers \ {w} : pc'[v] = pc[v]
  BY DEF TypeOK, ExecuteReturns, At
<1>3. pc[w] = "exec" /\ pc'[w] \in Final
  BY DEF TypeOK, ExecuteReturns, At
<1>4. TypeOK'
  BY <1>1, <1>2, <1>3, GuardType, NoneType, QueueAssumption DEF TypeOK, ExecuteReturns, At
<1>5. Locks'
  BY <1>1, <1>2, <1>3, LocksFrame DEF popVars, Final
<1>6. OneWorkerPerTask'
  BY <1>1, <1>2, <1>3, OneWorkerFrame DEF Holds, Final
<1>7. \A v \in Workers \ {w} : WorkerInv(v)'
  BY <1>1, <1>2, WorkerFrame
<1>8. ControlOf(w) /\ CallsOf(w) /\ RowsOf(w) /\ RowFollowsGuardOf(w) /\ PingerAliveOf(w)
          /\ LeaseKeptOf(w)
  BY DEF WorkerInv
<1>9. /\ (guard[w].task # 0 => guard[w].task \in Tasks) /\ guard[w].stage \in Nat
      /\ guard[w].left \in Int /\ Lease \in Nat /\ Lease > 1
  BY GuardType, QueueAssumption
<1>10. WorkerInv(w)'
  <2>1. LeaseKeptOf(w)'
    BY <1>1, <1>8 DEF LeaseKeptOf
  <2>2. ControlOf(w)'
    BY <1>1, <1>3, <1>8, <1>9 DEF ControlOf, CallsOf, NoGuard, NoCall, Final
  <2>3. CallsOf(w)'
    BY <1>1, <1>3, <1>8, <1>9 DEF ControlOf, CallsOf, RowsOf, NoGuard, NoCall, Final
  <2>4. RowsOf(w)'
    BY <1>1, <1>3, <1>8, <1>9 DEF RowsOf, ControlOf, CallsOf, NoGuard, NoCall, Final
  <2>5. RowFollowsGuardOf(w)'
    BY <1>1, <1>3, <1>8, <1>9 DEF RowFollowsGuardOf, RowsOf, CallsOf, ControlOf, NoGuard, NoCall,
       Final
  <2>6. PingerAliveOf(w)'
    BY <1>1, <1>3, <1>8, <1>9 DEF PingerAliveOf, ControlOf, CallsOf, NoGuard, NoCall, Final
  <2> QED BY <2>1, <2>2, <2>3, <2>4, <2>5, <2>6 DEF WorkerInv
<1> QED BY <1>4, <1>5, <1>6, <1>7, <1>10

\* The call for the final status.
LEMMA SetStatusInvariant ==
  ASSUME IInv, NEW w \in Workers, SetStatus(w)
  PROVE  IInv'
<1> USE DEF IInv
<1>1. UNCHANGED <<dialect, status, stage, tableLock, popMutex, stopping, guard, pinger, due,
          cancelled, faults, lost, crashes>>
  BY DEF SetStatus, Unlocked, Check, Update, At, rowVars, popVars, pingVars, faultVars
<1>2. \A v \in Workers \ {w} : pc'[v] = pc[v] /\ call'[v] = call[v]
  BY DEF TypeOK, SetStatus, Unlocked, Check, Update, At
<1>3. pc[w] \in Final /\ call[w] = NoCall
  BY DEF SetStatus, Unlocked, Check, Update, At
<1>4. \/ /\ guard[w].status = "running" /\ guard[w].left > 0 /\ pc'[w] = "status"
         /\ call'[w] = [by |-> "worker", status |-> pc[w], stage |-> guard[w].stage,
                        left |-> guard[w].left, applied |-> FALSE]
      \/ pc'[w] = "close" /\ call'[w] = NoCall
  BY DEF TypeOK, SetStatus, Unlocked, Check, Update, At
<1>5. pc[w] \in Statuses /\ guard[w].stage \in 0..MaxStage /\ guard[w].left \in -1..Lease
  BY <1>3, GuardType DEF Guards, Statuses
<1>6. call'[w] \in UpdateCalls
  <2>1. CASE call'[w] = NoCall
    BY <2>1, NoneType
  <2>2. CASE call'[w] # NoCall
    <3>1. call'[w] = [by |-> "worker", status |-> pc[w], stage |-> guard[w].stage,
                      left |-> guard[w].left, applied |-> FALSE]
      BY <1>4, <2>2
    <3> QED BY <1>5, <3>1 DEF UpdateCalls
  <2> QED BY <2>1, <2>2
<1>7. /\ pc[w] \notin {"idle", "pop", "stopped", "status", "none", "queued"}
      /\ pc'[w] \in {"status", "close"} /\ ~call'[w].applied
  BY <1>3, <1>4 DEF Final, NoCall
<1>8. TypeOK'
  BY <1>1, <1>4, <1>6 DEF TypeOK, SetStatus, At, Update
<1>9. Locks'
  BY <1>1, <1>2, <1>7, LocksFrame DEF popVars, Final
<1>10. OneWorkerPerTask'
  BY <1>1, <1>2, <1>7, OneWorkerFrame DEF Holds, Final
<1>11. \A v \in Workers \ {w} : WorkerInv(v)'
  BY <1>1, <1>2, WorkerFrame
<1>12. ControlOf(w) /\ CallsOf(w) /\ RowsOf(w) /\ RowFollowsGuardOf(w) /\ PingerAliveOf(w)
          /\ LeaseKeptOf(w)
  BY DEF WorkerInv
<1>13. /\ (guard[w].task # 0 => guard[w].task \in Tasks) /\ guard[w].stage \in Nat
       /\ guard[w].left \in Int /\ Lease \in Nat /\ Lease > 1
  BY GuardType, QueueAssumption
<1>14. WorkerInv(w)'
  <2>1. ControlOf(w)'
    BY <1>1, <1>3, <1>4, <1>5, <1>6, <1>7, <1>12, <1>13 DEF ControlOf, CallsOf, NoGuard, NoCall,
       Final
  <2>2. CallsOf(w)'
    BY <1>1, <1>3, <1>4, <1>5, <1>6, <1>7, <1>12, <1>13 DEF ControlOf, CallsOf, RowsOf, NoGuard,
       NoCall, Final
  <2>3. RowsOf(w)'
    BY <1>1, <1>3, <1>4, <1>5, <1>6, <1>7, <1>12, <1>13 DEF RowsOf, ControlOf, CallsOf, NoGuard,
       NoCall, Final
  <2>4. RowFollowsGuardOf(w)'
    BY <1>1, <1>3, <1>4, <1>5, <1>6, <1>7, <1>12, <1>13 DEF RowFollowsGuardOf, RowsOf, CallsOf,
       ControlOf, NoGuard, NoCall, Final
  <2>5. PingerAliveOf(w)'
    BY <1>1, <1>3, <1>4, <1>5, <1>6, <1>7, <1>12, <1>13 DEF PingerAliveOf, ControlOf, CallsOf,
       NoGuard, NoCall, Final
  <2>6. LeaseKeptOf(w)'
    BY <1>1, <1>3, <1>4, <1>5, <1>6, <1>7, <1>12, <1>13 DEF LeaseKeptOf, PingerAliveOf, ControlOf,
       CallsOf, RowsOf, NoGuard, NoCall, Final
  <2> QED BY <2>1, <2>2, <2>3, <2>4, <2>5, <2>6 DEF WorkerInv
<1> QED BY <1>8, <1>9, <1>10, <1>11, <1>14

\* The context is cancelled.
LEMMA CloseInvariant ==
  ASSUME IInv, NEW w \in Workers, Close(w)
  PROVE  IInv'
<1> USE DEF IInv
<1>1. UNCHANGED <<dialect, status, stage, tableLock, popMutex, stopping, guard, call, pinger,
          due, faults, lost, crashes>>
  BY DEF Close, At, rowVars, popVars, pingVars, faultVars
<1>2. \A v \in Workers \ {w} : pc'[v] = pc[v] /\ cancelled'[v] = cancelled[v]
  BY DEF TypeOK, Close, At
<1>3. pc[w] = "close" /\ pc'[w] = "join" /\ cancelled'[w]
  BY DEF TypeOK, Close, At
<1>4. TypeOK'
  BY <1>1, <1>2, <1>3, GuardType, NoneType, QueueAssumption DEF TypeOK, Close, At
<1>5. Locks'
  BY <1>1, <1>2, <1>3, LocksFrame DEF popVars, Final
<1>6. OneWorkerPerTask'
  BY <1>1, <1>2, <1>3, OneWorkerFrame DEF Holds, Final
<1>7. \A v \in Workers \ {w} : WorkerInv(v)'
  BY <1>1, <1>2, WorkerFrame
<1>8. ControlOf(w) /\ CallsOf(w) /\ RowsOf(w) /\ RowFollowsGuardOf(w) /\ PingerAliveOf(w)
          /\ LeaseKeptOf(w)
  BY DEF WorkerInv
<1>9. /\ (guard[w].task # 0 => guard[w].task \in Tasks) /\ guard[w].stage \in Nat
      /\ guard[w].left \in Int /\ Lease \in Nat /\ Lease > 1
  BY GuardType, QueueAssumption
<1>10. WorkerInv(w)'
  <2>1. ControlOf(w)'
    BY <1>1, <1>3, <1>8, <1>9 DEF ControlOf, CallsOf, NoGuard, NoCall, Final
  <2>2. CallsOf(w)'
    BY <1>1, <1>3, <1>8, <1>9 DEF ControlOf, CallsOf, RowsOf, NoGuard, NoCall, Final
  <2>3. RowsOf(w)'
    BY <1>1, <1>3, <1>8, <1>9 DEF RowsOf, ControlOf, CallsOf, NoGuard, NoCall, Final
  <2>4. RowFollowsGuardOf(w)'
    BY <1>1, <1>3, <1>8, <1>9 DEF RowFollowsGuardOf, RowsOf, CallsOf, ControlOf, NoGuard, NoCall,
       Final
  <2>5. PingerAliveOf(w)'
    BY <1>1, <1>3, <1>8, <1>9 DEF PingerAliveOf, ControlOf, CallsOf, NoGuard, NoCall, Final
  <2>6. LeaseKeptOf(w)'
    BY <1>1, <1>3, <1>8, <1>9 DEF LeaseKeptOf, PingerAliveOf, ControlOf, CallsOf, RowsOf, NoGuard,
       NoCall, Final
  <2> QED BY <2>1, <2>2, <2>3, <2>4, <2>5, <2>6 DEF WorkerInv
<1> QED BY <1>4, <1>5, <1>6, <1>7, <1>10

\* The pinger is off, so that the worker can forget the task.
LEMMA JoinInvariant ==
  ASSUME IInv, NEW w \in Workers, Join(w)
  PROVE  IInv'
<1> USE DEF IInv
<1>1. UNCHANGED <<dialect, status, stage, tableLock, popMutex, stopping, call, pinger, due,
          faults, lost, crashes>>
  BY DEF Join, At, rowVars, popVars, pingVars, faultVars
<1>2. \A v \in Workers \ {w} : pc'[v] = pc[v] /\ guard'[v] = guard[v]
          /\ cancelled'[v] = cancelled[v]
  BY DEF TypeOK, Join, At
<1>3. pc[w] = "join" /\ pc'[w] = "idle" /\ pinger[w] = "off" /\ guard'[w] = NoGuard
          /\ ~cancelled'[w]
  BY DEF TypeOK, Join, At
<1>4. call[w] = NoCall
  BY <1>3, GuardType DEF WorkerInv, CallsOf, UpdateCalls
<1>5. TypeOK'
  BY <1>1, <1>2, <1>3, <1>4, GuardType, NoneType, QueueAssumption DEF TypeOK, Join, At
<1>6. Locks'
  BY <1>1, <1>2, <1>3, LocksFrame DEF popVars, Final
<1>7. OneWorkerPerTask'
  <2>1. guard'[w].task = 0
    BY <1>3 DEF NoGuard
  <2>2. 0 \notin Tasks
    BY DEF Tasks
  <2> QED BY <1>2, <2>1, <2>2, OneWorkerFrame DEF Holds
<1>8. \A v \in Workers \ {w} : WorkerInv(v)'
  BY <1>1, <1>2, WorkerFrame
<1>9. WorkerInv(w)'
  BY <1>1, <1>3, <1>4, WorkerIdle
<1> QED BY <1>5, <1>6, <1>7, <1>8, <1>9

\* An idle worker stops.
LEMMA WorkerExitInvariant ==
  ASSUME IInv, NEW w \in Workers, WorkerExit(w)
  PROVE  IInv'
<1> USE DEF IInv
<1>1. UNCHANGED <<dialect, status, stage, tableLock, popMutex, stopping, guard, call, pinger,
          due, cancelled, faults, lost, crashes>>
  BY DEF WorkerExit, At, rowVars, popVars, pingVars, faultVars
<1>2. \A v \in Workers \ {w} : pc'[v] = pc[v]
  BY DEF TypeOK, WorkerExit, At
<1>3. pc[w] = "idle" /\ pc'[w] = "stopped"
  BY DEF TypeOK, WorkerExit, At
<1>4. TypeOK'
  BY <1>1, <1>2, <1>3, GuardType, NoneType, QueueAssumption DEF TypeOK, WorkerExit, At
<1>5. Locks'
  BY <1>1, <1>2, <1>3, LocksFrame DEF popVars, Final
<1>6. OneWorkerPerTask'
  BY <1>1, <1>2, <1>3, OneWorkerFrame DEF Holds, Final
<1>7. \A v \in Workers \ {w} : WorkerInv(v)'
  BY <1>1, <1>2, WorkerFrame
<1>8. ControlOf(w) /\ CallsOf(w) /\ RowsOf(w) /\ RowFollowsGuardOf(w) /\ PingerAliveOf(w)
          /\ LeaseKeptOf(w)
  BY DEF WorkerInv
<1>9. /\ (guard[w].task # 0 => guard[w].task \in Tasks) /\ guard[w].stage \in Nat
      /\ guard[w].left \in Int /\ Lease \in Nat /\ Lease > 1
  BY GuardType, QueueAssumption
<1>10. WorkerInv(w)'
  <2>1. LeaseKeptOf(w)'
    BY <1>1, <1>8 DEF LeaseKeptOf
  <2>2. ControlOf(w)'
    BY <1>1, <1>3, <1>8, <1>9 DEF ControlOf, CallsOf, NoGuard, NoCall, Final
  <2>3. CallsOf(w)'
    BY <1>1, <1>3, <1>8, <1>9 DEF ControlOf, CallsOf, RowsOf, NoGuard, NoCall, Final
  <2>4. RowsOf(w)'
    BY <1>1, <1>3, <1>8, <1>9 DEF RowsOf, ControlOf, CallsOf, NoGuard, NoCall, Final
  <2>5. RowFollowsGuardOf(w)'
    BY <1>1, <1>3, <1>8, <1>9 DEF RowFollowsGuardOf, RowsOf, CallsOf, ControlOf, NoGuard, NoCall,
       Final
  <2>6. PingerAliveOf(w)'
    BY <1>1, <1>3, <1>8, <1>9 DEF PingerAliveOf, ControlOf, CallsOf, NoGuard, NoCall, Final
  <2> QED BY <2>1, <2>2, <2>3, <2>4, <2>5, <2>6 DEF WorkerInv
<1> QED BY <1>4, <1>5, <1>6, <1>7, <1>10

\* Contexts are cancelled.
LEMMA StopInvariant ==
  ASSUME IInv, NEW n \in Nodes, Stop(n)
  PROVE  IInv'
<1> USE DEF IInv
<1>1. UNCHANGED <<dialect, status, stage, tableLock, popMutex, pc, guard, call, pinger, due,
          faults, lost, crashes>>
  BY DEF Stop, rowVars, popVars, pingVars, faultVars
<1>2. \A v \in Workers : (cancelled[v] => cancelled'[v]) /\ (pinger[v] = "off"
          => cancelled'[v] = cancelled[v])
  BY DEF TypeOK, Stop
<1>3. TypeOK'
  BY <1>1, <1>2, GuardType, NoneType, QueueAssumption DEF TypeOK, Stop
<1>4. Locks'
  BY <1>1 DEF Locks, NodeOf, LocksTable
<1>5. OneWorkerPerTask'
  BY <1>1 DEF OneWorkerPerTask, Holds
<1>6. ASSUME NEW v \in Workers PROVE WorkerInv(v)'
  <2>1. ControlOf(v)' /\ CallsOf(v)' /\ RowsOf(v)' /\ RowFollowsGuardOf(v)'
    BY <1>1, <1>2 DEF WorkerInv, ControlOf, CallsOf, RowsOf, RowFollowsGuardOf
  <2>2. PingerAliveOf(v)' /\ LeaseKeptOf(v)'
    BY <1>1, <1>2 DEF WorkerInv, PingerAliveOf, LeaseKeptOf
  <2> QED BY <2>1, <2>2 DEF WorkerInv
<1> QED BY <1>3, <1>4, <1>5, <1>6

\* The workers of the invoker start again, the others go on.
LEMMA CrashInvariant ==
  ASSUME IInv, NEW n \in Nodes, Crash(n)
  PROVE  IInv'
<1> USE DEF IInv
<1>1. UNCHANGED <<dialect, status, stage, faults, lost>>
  BY DEF Crash, Mishap, rowVars, popVars, pingVars, faultVars
<1>2. \A v \in Workers : NodeOf[v] = n =>
          pc'[v] = "idle" /\ guard'[v] = NoGuard /\ call'[v] = NoCall /\ pinger'[v] = "off"
          /\ ~cancelled'[v]
  BY DEF Crash, Mishap, Reset, WorkersOf
<1>3. \A v \in Workers : NodeOf[v] # n =>
          /\ pc'[v] = pc[v] /\ guard'[v] = guard[v] /\ call'[v] = call[v] /\ pinger'[v] = pinger[v]
          /\ due'[v] = due[v] /\ cancelled'[v] = cancelled[v]
  BY DEF Crash, Mishap, Reset, WorkersOf
<1>4. popMutex'[n] = None /\ \A m \in Nodes \ {n} : popMutex'[m] = popMutex[m]
  BY DEF TypeOK, Crash, Mishap
<1>5. \/ tableLock' = None /\ tableLock \in Workers /\ NodeOf[tableLock] = n
      \/ tableLock' = tableLock /\ ~(tableLock \in Workers /\ NodeOf[tableLock] = n)
  BY DEF Crash, Mishap, WorkersOf
<1>6. TypeOK'
  <2>1. guard' \in [Workers -> Guards] /\ call' \in [Workers -> UpdateCalls]
    BY NoneType DEF TypeOK, Crash, Reset
  <2>2. /\ pc' \in [Workers -> {"idle", "pop", "exec", "status", "close", "join",
          "stopped"} \cup Final]
        /\ pinger' \in [Workers -> {"off", "wait", "ask", "ping", "stuck"}]
    BY DEF TypeOK, Crash, Reset
  <2>3. /\ due' \in [Workers -> BOOLEAN] /\ cancelled' \in [Workers -> BOOLEAN]
        /\ stopping' \in [Nodes -> BOOLEAN]
    BY DEF TypeOK, Crash, Reset
  <2>4. tableLock' \in Workers \cup {None} /\ popMutex' \in [Nodes -> Workers \cup {None}]
    BY DEF TypeOK, Crash
  <2>5. crashes' \in 0..MaxCrashes
    BY QueueAssumption DEF TypeOK, Crash
  <2> QED BY <1>1, <2>1, <2>2, <2>3, <2>4, <2>5 DEF TypeOK
<1>7. Locks'
  <2>1. NodeOf' = NodeOf /\ LocksTable' = LocksTable
    BY <1>1 DEF NodeOf, LocksTable
  <2>2. \A m \in Nodes : popMutex[m] \in Workers \cup {None}
    BY DEF TypeOK
  <2>3. tableLock \in Workers \cup {None} /\ None \notin Workers
          /\ \A v \in Workers : NodeOf[v] \in Nodes
    BY QueueAssumption, NodeOfType DEF TypeOK
  <2>4. \A m \in Nodes : popMutex'[m] # None => pc'[popMutex'[m]] = "pop"
          /\ NodeOf[popMutex'[m]] = m
    BY <1>2, <1>3, <1>4, <2>2 DEF Locks
  <2>5. tableLock' # None => pc'[tableLock'] = "pop"
    BY <1>3, <1>5, <2>3 DEF Locks
  <2>6. \A v \in Workers : pc'[v] = "pop" => pc[v] = "pop" /\ NodeOf[v] # n
    BY <1>2, <1>3
  <2>7. \A v \in Workers : pc'[v] = "pop" => popMutex'[NodeOf[v]] = v
    BY <1>4, <2>3, <2>6 DEF Locks
  <2>8. \A v \in Workers : pc'[v] = "pop" => (LocksTable => tableLock' = v)
    BY <1>5, <2>3, <2>6 DEF Locks
  <2> QED BY <2>1, <2>4, <2>5, <2>7, <2>8 DEF Locks
<1>8. OneWorkerPerTask'
  <2>1. \A v \in Workers : NodeOf[v] = n => guard'[v].task = 0
    BY <1>2 DEF NoGuard
  <2>2. 0 \notin Tasks
    BY DEF Tasks
  <2> QED BY <1>3, <2>1, <2>2, OneWorkerFrame DEF Holds
<1>9. ASSUME NEW v \in Workers PROVE WorkerInv(v)'
  <2>1. CASE NodeOf[v] = n
    BY <1>2, <2>1, WorkerIdle
  <2>2. CASE NodeOf[v] # n
    BY <1>1, <1>3, <2>2, WorkerFrame
  <2> QED BY <2>1, <2>2
<1> QED BY <1>6, <1>7, <1>8, <1>9

\* A second passes: with nothing late, a pinger was waiting and its lease in the first half.
LEMMA TickInvariant ==
  ASSUME IInv, Tick
  PROVE  IInv'
<1> USE DEF IInv
<1>1. UNCHANGED <<dialect, status, stage, tableLock, popMutex, stopping, pc, pinger, cancelled,
          lost, crashes>>
  BY DEF Tick, Mishap, rowVars, popVars, pingVars, faultVars
<1>2. \A v \in Workers :
        guard'[v] = IF guard[v].task = 0 THEN guard[v] ELSE [guard[v] EXCEPT !.left = Later(@)]
  BY DEF Tick, Mishap
<1>3. \A v \in Workers :
        call'[v] = IF call[v] = NoCall THEN NoCall ELSE [call[v] EXCEPT !.left = Later(@)]
  BY DEF Tick, Mishap, Unlocked
<1>4. \A x \in -1..Lease : Later(x) \in -1..Lease
  BY QueueAssumption DEF Later
<1>5. \A v \in Workers :
          /\ guard'[v] \in Guards /\ guard'[v].task = guard[v].task
          /\ guard'[v].status = guard[v].status
          /\ guard'[v].stage = guard[v].stage /\ (guard[v].task = 0 => guard'[v] = guard[v])
          /\ (guard[v].task # 0 => guard'[v].left = Later(guard[v].left))
  <2> SUFFICES ASSUME NEW v \in Workers
               PROVE  /\ guard'[v] \in Guards /\ guard'[v].task = guard[v].task
          /\ guard'[v].status = guard[v].status
                      /\ guard'[v].stage = guard[v].stage /\ (guard[v].task = 0
          => guard'[v] = guard[v])
                      /\ (guard[v].task # 0 => guard'[v].left = Later(guard[v].left))
    OBVIOUS
  <2>1. guard[v] \in Guards
    BY GuardType
  <2>2. Later(guard[v].left) \in -1..Lease
    BY <1>4, <2>1 DEF Guards
  <2>3. CASE guard[v].task = 0
    BY <1>2, <2>1, <2>3
  <2>4. CASE guard[v].task # 0
    BY <1>2, <2>1, <2>2, <2>4 DEF Guards
  <2> QED BY <2>3, <2>4
<1>6. \A v \in Workers :
          /\ call'[v] \in UpdateCalls /\ call'[v].by = call[v].by
          /\ call'[v].status = call[v].status
          /\ call'[v].stage = call[v].stage /\ call'[v].applied = call[v].applied
          /\ (call[v] = NoCall => call'[v] = NoCall)
  <2> SUFFICES ASSUME NEW v \in Workers
               PROVE  /\ call'[v] \in UpdateCalls /\ call'[v].by = call[v].by
          /\ call'[v].status = call[v].status
                      /\ call'[v].stage = call[v].stage /\ call'[v].applied = call[v].applied
                      /\ (call[v] = NoCall => call'[v] = NoCall)
    OBVIOUS
  <2>1. call[v] \in UpdateCalls
    BY GuardType
  <2>2. Later(call[v].left) \in -1..Lease
    BY <1>4, <2>1 DEF UpdateCalls
  <2>3. CASE call[v] = NoCall
    BY <1>3, <2>1, <2>3
  <2>4. CASE call[v] # NoCall
    <3>1. call'[v] = [call[v] EXCEPT !.left = Later(@)]
      BY <1>3, <2>4
    <3> QED BY <2>1, <2>2, <2>4, <3>1 DEF UpdateCalls
  <2> QED BY <2>3, <2>4
<1>7. faults' = 0 => faults = 0 /\ Prompt
  BY DEF TypeOK, Tick, Mishap
<1>8. \A v \in Workers : due'[v] = (pinger[v] \in {"wait", "ask", "ping"})
  BY DEF Tick, Mishap
<1>9. TypeOK'
  BY <1>1, <1>5, <1>6, QueueAssumption DEF TypeOK, Tick, Mishap
<1>10. Locks'
  BY <1>1, LocksFrame DEF popVars, Final
<1>11. OneWorkerPerTask'
  BY <1>1, <1>5, OneWorkerFrame DEF Holds, Final
<1>12. ASSUME NEW v \in Workers PROVE WorkerInv(v)'
  <2>1. WorkerInv(v) /\ guard[v].stage \in Nat
    BY GuardType
  <2>2. ControlOf(v)' /\ CallsOf(v)'
    BY <1>1, <1>5, <1>6, <2>1 DEF WorkerInv, ControlOf, CallsOf, NoGuard, NoCall
  <2>3. RowsOf(v)' /\ RowFollowsGuardOf(v)'
    BY <1>1, <1>5, <1>6, <2>1 DEF WorkerInv, RowsOf, RowFollowsGuardOf
  <2>4. PingerAliveOf(v)'
    BY <1>1, <1>5, <2>1 DEF WorkerInv, PingerAliveOf
  <2>5. LeaseKeptOf(v)'
    <3> SUFFICES ASSUME faults' = 0, lost' = 0, guard'[v].status = "running", ~cancelled'[v]
                 PROVE  LeaseKeptOf(v)'
      BY DEF LeaseKeptOf
    <3>1. LeaseKeptOf(v) /\ PingerAliveOf(v) /\ ControlOf(v) /\ CallsOf(v)
      BY DEF WorkerInv
    <3>2. guard[v].status = "running" /\ ~cancelled[v] /\ faults = 0 /\ lost = 0 /\ Prompt
      BY <1>1, <1>5, <1>7
    <3>3. call[v] = NoCall /\ pc[v] # "pop" /\ ~due[v] /\ pinger[v] # "ask"
      BY <3>2 DEF Prompt, Unlocked
    <3>4. pinger[v] # "ping"
      BY <3>1, <3>3 DEF CallsOf, NoCall
    <3>5. guard[v].task # 0
      BY <3>1, <3>2 DEF ControlOf, NoGuard
    <3>6. pinger[v] = "wait"
      BY <3>1, <3>2, <3>3, <3>4, <3>5 DEF PingerAliveOf
    <3>7. pinger'[v] = "wait" /\ due'[v] /\ call'[v] = NoCall
      BY <1>1, <1>6, <1>8, <3>3, <3>6
    <3>8. 2 * guard[v].left > Lease
      BY <3>1, <3>2, <3>3, <3>6 DEF LeaseKeptOf
    <3>9. guard'[v].left > 0
      BY <1>5, <3>5, <3>8, GuardType, QueueAssumption DEF Later
    <3> QED BY <3>7, <3>9 DEF LeaseKeptOf, NoCall
  <2> QED BY <2>2, <2>3, <2>4, <2>5 DEF WorkerInv
<1> QED BY <1>9, <1>10, <1>11, <1>12

--------------------------------------------------------------------------------
(* What follows from it *)

\* Every step of the specification keeps the invariant.
LEMMA NextInvariant == IInv /\ [Next]_vars => IInv'
<1> SUFFICES ASSUME IInv, [Next]_vars PROVE IInv'
  OBVIOUS
<1>1. CASE UNCHANGED vars
  <2>1. UNCHANGED <<dialect, status, stage, tableLock, popMutex, stopping, pc, guard, call,
                    pinger, due, cancelled, faults, lost, crashes>>
    BY <1>1 DEF vars, rowVars, popVars, pingVars, faultVars
  <2>2. TypeOK'
    BY <2>1 DEF IInv, TypeOK
  <2>3. Locks' /\ OneWorkerPerTask'
    BY <2>1 DEF IInv, Locks, NodeOf, LocksTable, OneWorkerPerTask, Holds
  <2>4. \A w \in Workers : WorkerInv(w)'
    BY <2>1, WorkerFrame DEF IInv
  <2> QED BY <2>2, <2>3, <2>4 DEF IInv
<1>2. CASE \E t \in Tasks : Create(t)
  BY <1>2, CreateInvariant
<1>3. CASE \E n \in Nodes : Stop(n) \/ Crash(n)
  BY <1>3, StopInvariant, CrashInvariant
<1>4. CASE Tick
  BY <1>4, TickInvariant
<1>5. ASSUME NEW w \in Workers, WorkerStep(w) PROVE IInv'
  <2>1. CASE PopBegin(w)
    BY <2>1, PopBeginInvariant
  <2>2. CASE PopCommit(w)
    BY <2>2, PopCommitInvariant
  <2>3. CASE PopEmpty(w)
    BY <2>3, PopEmptyInvariant
  <2>4. CASE PopFail(w)
    BY <2>4, PopFailInvariant
  <2>5. CASE PopLost(w)
    BY <2>5, PopLostInvariant
  <2>6. CASE Apply(w)
    BY <2>6, ApplyInvariant
  <2>7. CASE UpdateOK(w)
    BY <2>7, UpdateOKInvariant
  <2>8. CASE UpdateFail(w)
    BY <2>8, UpdateFailInvariant
  <2>9. CASE UpdateLost(w)
    BY <2>9, UpdateLostInvariant
  <2>10. CASE PingTick(w)
    BY <2>10, PingTickInvariant
  <2>11. CASE Ping(w)
    BY <2>11, PingInvariant
  <2>12. CASE PingerExit(w)
    BY <2>12, PingerExitInvariant
  <2>13. CASE SetDeferredState(w)
    BY <2>13, SetDeferredStateInvariant
  <2>14. CASE ExecuteReturns(w)
    BY <2>14, ExecuteReturnsInvariant
  <2>15. CASE SetStatus(w)
    BY <2>15, SetStatusInvariant
  <2>16. CASE Close(w)
    BY <2>16, CloseInvariant
  <2>17. CASE Join(w)
    BY <2>17, JoinInvariant
  <2>18. CASE WorkerExit(w)
    BY <2>18, WorkerExitInvariant
  <2> QED BY <1>5, <2>1, <2>2, <2>3, <2>4, <2>5, <2>6, <2>7, <2>8, <2>9, <2>10, <2>11, <2>12,
             <2>13, <2>14, <2>15, <2>16, <2>17, <2>18 DEF WorkerStep, PopStep, UpdateStep,
             PingerStep
<1> QED BY <1>1, <1>2, <1>3, <1>4, <1>5 DEF Next

\* In every reachable state the invariant holds.
THEOREM Invariant == Spec => []IInv
BY InitInvariant, NextInvariant, PTL DEF Spec

(* PopQueued hands a task to one worker: whatever the number of invokers,  *)
(* and whatever is lost, fails or crashes on the way, no two workers       *)
(* execute one task, with the lock of the table on PostgreSQL and with the *)
(* mutex alone on SQLite.                                                  *)
THEOREM QueueSafe == Spec => []QueueInv
<1>1. IInv => QueueInv
  BY DEF IInv, QueueInv
<1> QED BY <1>1, Invariant, PTL

(* With the ticker of the pinger and a database that answers in time, the  *)
(* lease of a running task never ends under its worker.                    *)
THEOREM LeaseIsKept == Spec => []PromptPingsKeepLease
<1>1. IInv => PromptPingsKeepLease
  BY DEF IInv, WorkerInv, LeaseKeptOf, PromptPingsKeepLease
<1> QED BY <1>1, Invariant, PTL

\* One step of the rows: only an update of a running task, a commit of
\* PopQueued and the creation of a task write them.
LEMMA RowStep ==
  ASSUME IInv, [Next]_vars
  PROVE  /\ lost = 0 => \A t \in Tasks : status[t] \in Final => status'[t] = status[t]
         /\ \A t \in Tasks : stage'[t] >= stage[t]
<1> USE DEF IInv
<1>0. /\ \A t \in Tasks : stage[t] \in Nat
      /\ status \in [Tasks -> Statuses] /\ stage \in [Tasks -> 0..MaxStage]
  BY QueueAssumption DEF TypeOK
<1>1. CASE UNCHANGED <<status, stage>>
  BY <1>0, <1>1
<1>2. ASSUME NEW t \in Tasks, Create(t)
      PROVE  /\ lost = 0 => \A s \in Tasks : status[s] \in Final => status'[s] = status[s]
             /\ \A s \in Tasks : stage'[s] >= stage[s]
  <2>1. status[t] = "none" /\ stage' = stage /\ \A s \in Tasks \ {t} : status'[s] = status[s]
    BY <1>0, <1>2 DEF Create
  <2> QED BY <1>0, <2>1 DEF Final
<1>3. ASSUME NEW w \in Workers, Commit(w)
      PROVE  /\ lost = 0 => \A s \in Tasks : status[s] \in Final => status'[s] = status[s]
             /\ \A s \in Tasks : stage'[s] >= stage[s]
  <2>1. RowsOf(w) /\ guard[w].task \in Tasks /\ pc[w] = "pop"
    BY <1>3, GuardType DEF WorkerInv, Commit
  <2>2. /\ status[guard[w].task] = "queued" /\ guard[w].stage = stage[guard[w].task]
        /\ \A s \in Tasks \ {guard[w].task} : status'[s] = status[s] /\ stage'[s] = stage[s]
        /\ stage'[guard[w].task] = guard[w].stage
    BY <1>0, <1>3, <2>1 DEF Commit, RowsOf, Tasks
  <2> QED BY <1>0, <2>1, <2>2 DEF Final
<1>4. ASSUME NEW w \in Workers, Apply(w)
      PROVE  /\ lost = 0 => \A s \in Tasks : status[s] \in Final => status'[s] = status[s]
             /\ \A s \in Tasks : stage'[s] >= stage[s]
  <2>1. ControlOf(w) /\ CallsOf(w) /\ RowsOf(w) /\ RowFollowsGuardOf(w)
    BY DEF WorkerInv
  <2>2. call[w].by # "none" /\ ~call[w].applied /\ guard[w].status = "running"
    BY <1>4, <2>1 DEF Apply, CallsOf
  <2>3. pc[w] # "pop" /\ guard[w].task # 0
    BY <2>1, <2>2 DEF ControlOf, NoCall
  <2>4. guard[w].task \in Tasks /\ guard[w].stage \in Nat
    BY <2>3, GuardType
  <2>5. lost = 0 => status[guard[w].task] = "running"
    BY <2>1, <2>2, <2>3 DEF RowFollowsGuardOf
  <2>6. call[w].stage = guard[w].stage /\ guard[w].stage >= stage[guard[w].task]
    BY <2>1, <2>2, <2>3, <2>4, <1>0 DEF CallsOf, RowsOf
  <2>7. /\ \A s \in Tasks \ {guard[w].task} : status'[s] = status[s] /\ stage'[s] = stage[s]
        /\ stage'[guard[w].task] = call[w].stage
    BY <1>0, <1>4, <2>4 DEF Apply
  <2> QED BY <1>0, <2>4, <2>5, <2>6, <2>7 DEF Final
<1>5. ASSUME NEW w \in Workers, WorkerStep(w)
      PROVE  UNCHANGED <<status, stage>> \/ Commit(w) \/ Apply(w)
  BY <1>5 DEF WorkerStep, PopStep, UpdateStep, PingerStep, PopBegin, PopCommit, PopEmpty, PopFail,
     PopLost, UpdateOK, UpdateFail, UpdateLost, PingTick, Ping, PingerExit, SetDeferredState,
     ExecuteReturns, SetStatus, Close, Join, WorkerExit, rowVars
<1>6. ASSUME NEW n \in Nodes, Stop(n) \/ Crash(n) PROVE UNCHANGED <<status, stage>>
  BY <1>6 DEF Stop, Crash, rowVars
<1>7. CASE Tick
  BY <1>1, <1>7 DEF Tick, rowVars
<1>8. CASE UNCHANGED vars
  BY <1>1, <1>8 DEF vars, rowVars
<1> QED BY <1>1, <1>2, <1>3, <1>4, <1>5, <1>6, <1>7, <1>8 DEF Next

\* One step of a guard: within one task its stage does not fall.
LEMMA GuardStep ==
  ASSUME IInv, [Next]_vars, NEW v \in Workers, guard'[v].task = guard[v].task
  PROVE  guard'[v].stage >= guard[v].stage
<1> USE DEF IInv
<1>0. guard[v].stage \in Nat /\ guard \in [Workers -> Guards]
  BY GuardType DEF TypeOK
<1>1. guard[v].task = 0 => guard[v] = NoGuard
  BY DEF WorkerInv, ControlOf
<1>2. CASE guard'[v] = guard[v] \/ guard'[v] = NoGuard
  BY <1>0, <1>1, <1>2 DEF NoGuard
<1>3. ASSUME NEW w \in Workers, PopBegin(w) PROVE guard'[v].stage >= guard[v].stage
  <2>1. CASE v # w
    BY <1>0, <1>2, <1>3, <2>1 DEF PopBegin
  <2>2. CASE v = w
    <3>1. pc[w] = "idle" /\ guard'[w] = IF Popped = 0 THEN NoGuard
            ELSE [task |-> Popped, status |-> "running", stage |-> stage[Popped], left |-> Lease]
      BY <1>0, <1>3 DEF PopBegin
    <3>2. guard[w].task = 0
      BY <3>1 DEF WorkerInv, ControlOf
    <3>3. guard'[v] = NoGuard
      BY <2>2, <3>1, <3>2
    <3> QED BY <1>2, <3>3
  <2> QED BY <2>1, <2>2
<1>4. ASSUME NEW w \in Workers, UpdateOK(w) PROVE guard'[v].stage >= guard[v].stage
  <2>1. CASE v # w
    BY <1>0, <1>2, <1>4, <2>1 DEF UpdateOK
  <2>2. CASE v = w
    <3>1. call[w].applied /\ guard'[w].stage = call[w].stage
      BY <1>0, <1>4 DEF UpdateOK, Guards
    <3>2. call[w].stage = guard[w].stage
      BY <3>1 DEF WorkerInv, CallsOf, NoCall
    <3> QED BY <1>0, <2>2, <3>1, <3>2
  <2> QED BY <2>1, <2>2
<1>5. ASSUME NEW w \in Workers, SetDeferredState(w) PROVE guard'[v].stage >= guard[v].stage
  <2>1. CASE v # w
    BY <1>0, <1>2, <1>5, <2>1 DEF SetDeferredState
  <2>2. CASE v = w
    <3>1. guard'[w].stage = guard[w].stage + 1
      BY <1>0, <1>5 DEF SetDeferredState, Guards
    <3> QED BY <1>0, <2>2, <3>1
  <2> QED BY <2>1, <2>2
<1>6. CASE Tick
  <2>1. guard'[v] = IF guard[v].task = 0 THEN guard[v] ELSE [guard[v] EXCEPT !.left = Later(@)]
    BY <1>6 DEF Tick
  <2>2. guard'[v].stage = guard[v].stage
    BY <1>0, <2>1 DEF Guards
  <2> QED BY <1>0, <2>2
<1>7. ASSUME NEW w \in Workers, WorkerStep(w)
      PROVE  \/ PopBegin(w) \/ UpdateOK(w) \/ SetDeferredState(w)
             \/ UNCHANGED guard \/ guard' = [guard EXCEPT ![w] = NoGuard]
  BY <1>7 DEF WorkerStep, PopStep, UpdateStep, PingerStep, PopCommit, PopEmpty, PopFail,
     PopLost, PopReturns, Apply, UpdateFail, UpdateLost, PingTick, Ping, PingerExit,
     ExecuteReturns, SetStatus, Close, Join, WorkerExit
<1>8. ASSUME NEW n \in Nodes, Stop(n) \/ Crash(n) PROVE guard'[v] = guard[v] \/ guard'[v] = NoGuard
  BY <1>8 DEF Stop, Crash, Reset
<1>9. ASSUME NEW w \in Workers, guard' = [guard EXCEPT ![w] = NoGuard]
      PROVE  guard'[v] = guard[v] \/ guard'[v] = NoGuard
  BY <1>0, <1>9
<1>10. CASE UNCHANGED vars \/ \E t \in Tasks : Create(t)
  BY <1>2, <1>10 DEF vars, Create
<1> QED BY <1>2, <1>3, <1>4, <1>5, <1>6, <1>7, <1>8, <1>9, <1>10 DEF Next

(* The final status of a task is final, for every interleaving of the      *)
(* pinger with SetStatus: as long as no answer is lost, the guard knows    *)
(* the status of the row and check keeps a ping from bringing back the     *)
(* running one.                                                            *)
THEOREM FinalIsFinal == Spec => FinalStatusStays
<1>1. IInv /\ [Next]_vars =>
        [lost = 0 => \A t \in Tasks : status[t] \in Final => status'[t] = status[t]]_vars
  BY RowStep
<1> QED BY <1>1, Invariant, PTL DEF Spec, FinalStatusStays

(* No stage that a task has reported is lost, in the guard or in the row:  *)
(* the guard's mutex is held from the clone of the task to its update.     *)
THEOREM StagesAreKept == Spec => StageNeverGoesBack
<1>1. IInv /\ [Next]_vars =>
        [/\ \A w \in Workers : guard'[w].task = guard[w].task => guard'[w].stage >= guard[w].stage
         /\ \A t \in Tasks : stage'[t] >= stage[t]]_vars
  BY RowStep, GuardStep
<1> QED BY <1>1, Invariant, PTL DEF Spec, StageNeverGoesBack
================================================================================
