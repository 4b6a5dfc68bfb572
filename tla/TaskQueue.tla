------------------------------- MODULE TaskQueue -------------------------------
(***************************************************************************)
(* The queue of asynchronous tasks (internal/models/task.go) and the       *)
(* workers of the invokers that run them (internal/invoker, tasks.go and   *)
(* invoker.go).                                                            *)
(*                                                                         *)
(* A worker pops a queued task, executes it while a pinger of its own      *)
(* extends the lease, writes the final status and waits for the pinger to  *)
(* end.  The pinger and the worker share a guard, whose mutex is held for  *)
(* the whole of every update of the row.                                   *)
(*                                                                         *)
(* Only differences of times matter, so a guard keeps the seconds left of  *)
(* its lease: 0 is the second of expire_time itself, -1 any later one.     *)
(* What a task does is abstracted to the stages it reports.                *)
(***************************************************************************)
EXTENDS Integers, FiniteSets

CONSTANTS
    Workers, Nodes,
    Deployment,      \* dialects: the invoker process a worker is a goroutine of
    MaxTask,         \* tasks are created with ids 1, 2, ... up to this bound
    Unsupported,     \* tasks of a kind the invokers do not know
    Limit,           \* rows that PopQueued looks at
    Lease,           \* pingDuration
    MaxStage,        \* bound on the stages a task reports
    MayStop,         \* invokers that may be shut down
    MaxMishaps,      \* bound on failed and slow calls of the database, lost answers and crashes
    MaxLost,         \* of these, the bound on commits whose answer is lost
    MaxCrashes,      \* of these, the bound on crashes of an invoker
    None

Tasks == 1..MaxTask
Final == {"succeeded", "failed"}

ASSUME QueueAssumption ==
    /\ \A d \in DOMAIN Deployment : Deployment[d] \in [Workers -> Nodes]
    \* an SQLite database is a file of one process
    /\ "sqlite" \in DOMAIN Deployment =>
           \A v, w \in Workers : Deployment["sqlite"][v] = Deployment["sqlite"][w]
    /\ MayStop \subseteq Nodes /\ None \notin Workers
    /\ Unsupported \subseteq Tasks
    /\ MaxTask \in Nat /\ Limit \in Nat \ {0} /\ MaxStage \in Nat
    \* the ticker fires before half of the lease is over
    /\ Lease \in Nat \ {0, 1}
    /\ MaxMishaps \in Nat /\ MaxLost \in Nat /\ MaxCrashes \in Nat

VARIABLES
    dialect,         \* the database that is configured
    status, stage,   \* the rows: Status, and the stage in State
    tableLock,       \* the worker whose transaction holds the table, or None
    popMutex,        \* invokers: the worker that holds popTaskMutex, or None
    stopping,        \* invokers: taskContext is cancelled
    pc,              \* workers
    guard,           \* workers: the task as taskGuard knows it
    call,            \* workers: the update in flight under the guard's mutex
    pinger,          \* workers: the goroutine of taskContext
    due,             \* workers: the ticker of the pinger has fired
    cancelled,       \* workers: taskContext.ctx is cancelled
    faults, lost, crashes

rowVars == <<status, stage>>
popVars == <<tableLock, popMutex>>
pingVars == <<pinger, due, cancelled>>
faultVars == <<faults, lost, crashes>>
vars == <<dialect, rowVars, popVars, stopping, pc, guard, call, pingVars, faultVars>>

NodeOf == Deployment[dialect]

\* lockStore locks the table; on SQLite it does nothing.
LocksTable == dialect # "sqlite"

NoGuard == [task |-> 0, status |-> "none", stage |-> 0, left |-> 0]
NoCall == [by |-> "none", status |-> "none", stage |-> 0, left |-> 0, applied |-> FALSE]

Init ==
    /\ dialect \in DOMAIN Deployment
    /\ status = [t \in Tasks |-> "none"] /\ stage = [t \in Tasks |-> 0]
    /\ tableLock = None /\ popMutex = [n \in Nodes |-> None]
    /\ stopping = [n \in Nodes |-> FALSE]
    /\ pc = [w \in Workers |-> "idle"] /\ guard = [w \in Workers |-> NoGuard]
    /\ call = [w \in Workers |-> NoCall]
    /\ pinger = [w \in Workers |-> "off"] /\ due = [w \in Workers |-> FALSE]
    /\ cancelled = [w \in Workers |-> FALSE]
    /\ faults = 0 /\ lost = 0 /\ crashes = 0

--------------------------------------------------------------------------------
(* PopQueued *)

\* Something may go wrong once more.
Mishap == faults + lost + crashes < MaxMishaps

At(w, p) == pc' = [pc EXCEPT ![w] = p]

\* The server queues a task: ids ascend.
Create(t) ==
    /\ status[t] = "none" /\ \A s \in 1..(t - 1) : status[s] # "none"
    /\ status' = [status EXCEPT ![t] = "queued"]
    /\ tableLock = None
    /\ UNCHANGED <<stage, popVars, dialect, stopping, pc, guard, call, pingVars, faultVars>>

\* The rows of the query, which is ordered by id.
QueuedRows ==
    {t \in Tasks :
        /\ status[t] = "queued"
        /\ Cardinality({s \in 1..(t - 1) : status[s] = "queued"}) < Limit}

\* Mutant of Popped: the loop ends at the first task the filter refuses.
PoppedHead ==
    IF QueuedRows = {} THEN 0
    ELSE LET t == CHOOSE t \in QueuedRows : \A s \in QueuedRows : t <= s
         IN  IF t \in Unsupported THEN 0 ELSE t

\* The task that is popped, or 0 when there is none.
Popped ==
    LET rows == QueuedRows \ Unsupported
    IN  IF rows = {} THEN 0 ELSE CHOOSE t \in rows : \A s \in rows : t <= s

\* Mutant of TakeLocks: the table is not locked.
TakeMutex(w) ==
    /\ popMutex[NodeOf[w]] = None
    /\ popMutex' = [popMutex EXCEPT ![NodeOf[w]] = w]
    /\ UNCHANGED tableLock

\* Mutant of TakeLocks: there is no mutex.
TakeTable(w) ==
    /\ LocksTable => tableLock = None
    /\ tableLock' = IF LocksTable THEN w ELSE tableLock
    /\ UNCHANGED popMutex

\* popTaskMutex.Lock and lockStore.
TakeLocks(w) ==
    /\ popMutex[NodeOf[w]] = None
    /\ LocksTable => tableLock = None
    /\ popMutex' = [popMutex EXCEPT ![NodeOf[w]] = w]
    /\ tableLock' = IF LocksTable THEN w ELSE tableLock

\* The transaction ends and popQueuedTask returns.
DropLocks(w) ==
    /\ tableLock' = IF tableLock = w THEN None ELSE tableLock
    /\ popMutex' = [n \in Nodes |-> IF popMutex[n] = w THEN None ELSE popMutex[n]]

(* The transaction begins and reads the queue. *)
PopBegin(w) ==
    /\ pc[w] = "idle" /\ ~stopping[NodeOf[w]]
    /\ TakeLocks(w)
    /\ guard' = [guard EXCEPT ![w] =
            IF Popped = 0 THEN NoGuard
            ELSE [task |-> Popped, status |-> "running", stage |-> stage[Popped], left |-> Lease]]
    /\ At(w, "pop")
    /\ UNCHANGED <<rowVars, dialect, stopping, call, pingVars, faultVars>>

\* The row is updated and the transaction commits.
Commit(w) ==
    /\ pc[w] = "pop" /\ guard[w].task # 0
    /\ status' = [status EXCEPT ![guard[w].task] = "running"]
    /\ stage' = [stage EXCEPT ![guard[w].task] = guard[w].stage]
    /\ DropLocks(w)

(* newTaskContext starts the pinger. *)
PopCommit(w) ==
    /\ Commit(w)
    /\ At(w, "exec")
    /\ pinger' = [pinger EXCEPT ![w] = "wait"]
    /\ cancelled' = [cancelled EXCEPT ![w] = stopping[NodeOf[w]]]
    /\ UNCHANGED <<dialect, stopping, guard, call, due, faultVars>>

\* popQueuedTask returns an error, and the worker waits for its ticker.
PopReturns(w) ==
    /\ At(w, "idle") /\ guard' = [guard EXCEPT ![w] = NoGuard]
    /\ UNCHANGED <<dialect, stopping, call, pingVars, crashes>>

(* sql.ErrNoRows *)
PopEmpty(w) ==
    /\ pc[w] = "pop" /\ guard[w].task = 0
    /\ DropLocks(w) /\ PopReturns(w)
    /\ UNCHANGED <<rowVars, faults, lost>>

(* The transaction is rolled back. *)
PopFail(w) ==
    /\ pc[w] = "pop"
    /\ \/ stopping[NodeOf[w]] /\ UNCHANGED faults
       \/ Mishap /\ faults' = faults + 1
    /\ DropLocks(w) /\ PopReturns(w)
    /\ UNCHANGED <<rowVars, lost>>

(* It commits, but the worker is told of an error. *)
PopLost(w) ==
    /\ Mishap /\ lost < MaxLost /\ lost' = lost + 1
    /\ Commit(w) /\ PopReturns(w)
    /\ UNCHANGED faults

--------------------------------------------------------------------------------
(* taskGuard *)

\* check
Check(w) == guard[w].status = "running" /\ guard[w].left > 0

\* The mutex is held for the whole of an update.
Unlocked(w) == call[w] = NoCall

\* update is called with a clone of the task: by is the goroutine that called it.
Update(w, by, st, left) ==
    call' = [call EXCEPT ![w] =
        [by |-> by, status |-> st, stage |-> guard[w].stage, left |-> left, applied |-> FALSE]]

(* The row is written, whole and by its id. *)
Apply(w) ==
    /\ call[w].by # "none" /\ ~call[w].applied /\ tableLock = None
    /\ status' = [status EXCEPT ![guard[w].task] = call[w].status]
    /\ stage' = [stage EXCEPT ![guard[w].task] = call[w].stage]
    /\ call' = [call EXCEPT ![w].applied = TRUE]
    /\ UNCHANGED <<popVars, dialect, stopping, pc, guard, pingVars, faultVars>>

\* Ping or SetStatus returns.
Return(w) ==
    /\ call' = [call EXCEPT ![w] = NoCall]
    /\ \/ call[w].by = "pinger" /\ pinger' = [pinger EXCEPT ![w] = "wait"] /\ UNCHANGED pc
       \/ call[w].by = "worker" /\ At(w, "close") /\ UNCHANGED pinger
    /\ UNCHANGED <<popVars, dialect, stopping, due, cancelled, crashes>>

\* Mutant of UpdateOK: the guard keeps the task it had.
UpdateForgets(w) ==
    /\ call[w].applied
    /\ Return(w)
    /\ UNCHANGED <<rowVars, guard, faults, lost>>

(* The guard takes over the task that was written. *)
UpdateOK(w) ==
    /\ call[w].applied
    /\ guard' = [guard EXCEPT ![w].status = call[w].status, ![w].stage = call[w].stage,
                              ![w].left = call[w].left]
    /\ Return(w)
    /\ UNCHANGED <<rowVars, faults, lost>>

(* The update fails: the database fails, the lease ends first, or Ping's   *)
(* context is cancelled.                                                   *)
UpdateFail(w) ==
    /\ call[w].by # "none" /\ ~call[w].applied
    /\ \/ guard[w].left <= 0 /\ UNCHANGED faults
       \/ call[w].by = "pinger" /\ cancelled[w] /\ UNCHANGED faults
       \/ Mishap /\ faults' = faults + 1
    /\ Return(w)
    /\ UNCHANGED <<rowVars, guard, lost>>

(* It was committed, but its answer is lost. *)
UpdateLost(w) ==
    /\ call[w].applied
    /\ Mishap /\ lost < MaxLost /\ lost' = lost + 1
    /\ Return(w)
    /\ UNCHANGED <<rowVars, guard, faults>>

--------------------------------------------------------------------------------
(* The pinger *)

\* Mutant of NoPingYet: there is time as long as the lease lasts.
NoPingUntilExpired(w) == guard[w].left > 0

\* now.Add(pingDuration / 2).Before(deadline)
NoPingYet(w) == 2 * guard[w].left > Lease

(* The ticker fires.  Close, called by the pinger itself, cancels the      *)
(* context and waits for the pinger.                                       *)
PingTick(w) ==
    /\ pinger[w] = "wait" /\ due[w] /\ Unlocked(w)
    /\ due' = [due EXCEPT ![w] = FALSE]
    /\ \/ /\ guard[w].left < 0
          /\ pinger' = [pinger EXCEPT ![w] = "stuck"]
          /\ cancelled' = [cancelled EXCEPT ![w] = TRUE]
       \/ /\ guard[w].left >= 0 /\ NoPingYet(w)
          /\ UNCHANGED <<pinger, cancelled>>
       \/ /\ guard[w].left >= 0 /\ ~NoPingYet(w)
          /\ pinger' = [pinger EXCEPT ![w] = "ask"]
          /\ UNCHANGED cancelled
    /\ UNCHANGED <<rowVars, popVars, dialect, stopping, pc, guard, call, faultVars>>

\* Mutant of Ping: the lease is added to what is left of it.
PingExtends(w) ==
    /\ pinger[w] = "ask" /\ Unlocked(w) /\ Check(w)
    /\ Update(w, "pinger", guard[w].status, guard[w].left + Lease)
    /\ pinger' = [pinger EXCEPT ![w] = "ping"]
    /\ UNCHANGED <<rowVars, popVars, dialect, stopping, pc, guard, due, cancelled, faultVars>>

(* Ping, once it has the mutex. *)
Ping(w) ==
    /\ pinger[w] = "ask" /\ Unlocked(w)
    /\ \/ /\ Check(w)
          /\ Update(w, "pinger", guard[w].status, Lease)
          /\ pinger' = [pinger EXCEPT ![w] = "ping"]
       \/ /\ ~Check(w)
          /\ pinger' = [pinger EXCEPT ![w] = "wait"]
          /\ UNCHANGED call
    /\ UNCHANGED <<rowVars, popVars, dialect, stopping, pc, guard, due, cancelled, faultVars>>

\* Mutant of PingerExit: a pinger watches its ticker only.
PingerExpires(w) ==
    /\ pinger[w] = "wait" /\ guard[w].left < 0
    /\ pinger' = [pinger EXCEPT ![w] = "off"]
    /\ due' = [due EXCEPT ![w] = FALSE]
    /\ UNCHANGED <<rowVars, popVars, dialect, stopping, pc, guard, call, cancelled, faultVars>>

(* The context is done. *)
PingerExit(w) ==
    /\ pinger[w] = "wait" /\ cancelled[w]
    /\ pinger' = [pinger EXCEPT ![w] = "off"]
    /\ due' = [due EXCEPT ![w] = FALSE]
    /\ UNCHANGED <<rowVars, popVars, dialect, stopping, pc, guard, call, cancelled, faultVars>>

--------------------------------------------------------------------------------
(* runDaemonTick *)

\* Mutant of SetDeferredState: the mutex is not taken.
SetStateUnlocked(w) ==
    /\ pc[w] = "exec" /\ Check(w)
    /\ guard[w].stage < MaxStage
    /\ guard' = [guard EXCEPT ![w].stage = @ + 1]
    /\ UNCHANGED <<rowVars, popVars, dialect, stopping, pc, call, pingVars, faultVars>>

(* The task reports a stage; the next update of the row will write it. *)
SetDeferredState(w) ==
    /\ pc[w] = "exec" /\ Unlocked(w) /\ Check(w)
    /\ guard[w].stage < MaxStage
    /\ guard' = [guard EXCEPT ![w].stage = @ + 1]
    /\ UNCHANGED <<rowVars, popVars, dialect, stopping, pc, call, pingVars, faultVars>>

(* Execute returns. *)
ExecuteReturns(w) ==
    /\ pc[w] = "exec"
    /\ \E result \in Final : At(w, result)
    /\ UNCHANGED <<rowVars, popVars, dialect, stopping, guard, call, pingVars, faultVars>>

(* SetStatus, once it has the mutex. *)
SetStatus(w) ==
    /\ pc[w] \in Final /\ Unlocked(w)
    /\ \/ Check(w) /\ Update(w, "worker", pc[w], guard[w].left) /\ At(w, "status")
       \/ ~Check(w) /\ At(w, "close") /\ UNCHANGED call
    /\ UNCHANGED <<rowVars, popVars, dialect, stopping, guard, pingVars, faultVars>>

(* taskCtx.Close cancels the context ... *)
Close(w) ==
    /\ pc[w] = "close"
    /\ cancelled' = [cancelled EXCEPT ![w] = TRUE]
    /\ At(w, "join")
    /\ UNCHANGED <<rowVars, popVars, dialect, stopping, guard, call, pinger, due, faultVars>>

(* ... and waits for the pinger. *)
Join(w) ==
    /\ pc[w] = "join" /\ pinger[w] = "off"
    /\ At(w, "idle")
    /\ guard' = [guard EXCEPT ![w] = NoGuard]
    /\ cancelled' = [cancelled EXCEPT ![w] = FALSE]
    /\ UNCHANGED <<rowVars, popVars, dialect, stopping, call, pinger, due, faultVars>>

(* runDaemon returns. *)
WorkerExit(w) ==
    /\ pc[w] = "idle" /\ stopping[NodeOf[w]]
    /\ At(w, "stopped")
    /\ UNCHANGED <<rowVars, popVars, dialect, stopping, guard, call, pingVars, faultVars>>

--------------------------------------------------------------------------------
(* Invokers, crashes and the clock *)

WorkersOf(n) == {w \in Workers : NodeOf[w] = n}

(* Core.Stop cancels taskContext, and then waits for the workers. *)
Stop(n) ==
    /\ n \in MayStop /\ ~stopping[n] /\ WorkersOf(n) # {}
    /\ stopping' = [stopping EXCEPT ![n] = TRUE]
    /\ cancelled' = [w \in Workers |-> cancelled[w] \/ (w \in WorkersOf(n) /\ pinger[w] # "off")]
    /\ UNCHANGED <<dialect, rowVars, popVars, pc, guard, call, pinger, due, faultVars>>

\* f without what the workers of n had in memory.
Reset(f, n, x) == [w \in Workers |-> IF w \in WorkersOf(n) THEN x ELSE f[w]]

(* The process dies and is started again: its transactions are rolled back. *)
Crash(n) ==
    /\ Mishap /\ crashes < MaxCrashes /\ crashes' = crashes + 1
    /\ WorkersOf(n) # {}
    /\ tableLock' = IF tableLock \in WorkersOf(n) THEN None ELSE tableLock
    /\ popMutex' = [popMutex EXCEPT ![n] = None]
    /\ stopping' = [stopping EXCEPT ![n] = FALSE]
    /\ pc' = Reset(pc, n, "idle") /\ guard' = Reset(guard, n, NoGuard)
    /\ call' = Reset(call, n, NoCall) /\ pinger' = Reset(pinger, n, "off")
    /\ due' = Reset(due, n, FALSE) /\ cancelled' = Reset(cancelled, n, FALSE)
    /\ UNCHANGED <<dialect, rowVars, faults, lost>>

\* Everything that was to be done in this second has been done.
Prompt ==
    \A w \in Workers :
        /\ Unlocked(w) /\ pc[w] \notin {"pop", "close"} \cup Final
        /\ ~due[w] /\ pinger[w] # "ask" /\ ~(pinger[w] = "wait" /\ cancelled[w])

Later(x) == IF x < 0 THEN x ELSE x - 1

(* A second passes, and the tickers of the pingers fire. *)
Tick ==
    /\ \/ Prompt /\ UNCHANGED faults
       \/ ~Prompt /\ Mishap /\ faults' = faults + 1
    /\ guard' = [w \in Workers |->
            IF guard[w].task = 0 THEN guard[w] ELSE [guard[w] EXCEPT !.left = Later(@)]]
    /\ call' = [w \in Workers |->
            IF Unlocked(w) THEN NoCall ELSE [call[w] EXCEPT !.left = Later(@)]]
    /\ due' = [w \in Workers |-> pinger[w] \in {"wait", "ask", "ping"}]
    /\ UNCHANGED <<rowVars, popVars, dialect, stopping, pc, pinger, cancelled, lost, crashes>>

PopStep(w) == PopCommit(w) \/ PopEmpty(w) \/ PopFail(w) \/ PopLost(w)
UpdateStep(w) == UpdateOK(w) \/ UpdateFail(w) \/ UpdateLost(w)
PingerStep(w) == PingTick(w) \/ Ping(w)

WorkerStep(w) ==
    \/ PopBegin(w) \/ PopStep(w) \/ Apply(w) \/ UpdateStep(w)
    \/ PingerStep(w) \/ PingerExit(w)
    \/ SetDeferredState(w) \/ ExecuteReturns(w) \/ SetStatus(w) \/ Close(w) \/ Join(w)
    \/ WorkerExit(w)

Next ==
    \/ \E t \in Tasks : Create(t)
    \/ \E w \in Workers : WorkerStep(w)
    \/ \E n \in Nodes : Stop(n) \/ Crash(n)
    \/ Tick

Spec == Init /\ [][Next]_vars

(* Goroutines are scheduled, calls of the database end one way or the      *)
(* other, and Execute returns (what it runs has time limits).  Who waits   *)
(* for the lock of the table or for the guard's mutex gets it in the end.  *)
(* Nothing is said about tasks being created, stages, time, stops, crashes. *)
FairSpec ==
    /\ Spec
    /\ \A w \in Workers :
        /\ WF_vars(PopBegin(w)) /\ WF_vars(PopStep(w))
        /\ SF_vars(Apply(w)) /\ WF_vars(UpdateStep(w))
        /\ WF_vars(PingerStep(w)) /\ WF_vars(PingerExit(w))
        /\ WF_vars(ExecuteReturns(w)) /\ SF_vars(SetStatus(w))
        /\ WF_vars(Close(w)) /\ WF_vars(Join(w)) /\ WF_vars(WorkerExit(w))

--------------------------------------------------------------------------------
Statuses == {"none", "queued", "running"} \cup Final
Guards == [task : 0..MaxTask, status : Statuses, stage : 0..MaxStage, left : -1..Lease]
UpdateCalls ==
    [by : {"none", "pinger", "worker"}, status : Statuses, stage : 0..MaxStage, left : -1..Lease,
     applied : BOOLEAN]

(* The rows, the guards, the calls and the goroutines have their types.    *)
TypeOK ==
    /\ dialect \in DOMAIN Deployment
    /\ status \in [Tasks -> Statuses] /\ stage \in [Tasks -> 0..MaxStage]
    /\ tableLock \in Workers \cup {None} /\ popMutex \in [Nodes -> Workers \cup {None}]
    /\ stopping \in [Nodes -> BOOLEAN]
    /\ pc \in [Workers -> {"idle", "pop", "exec", "status", "close", "join", "stopped"} \cup Final]
    /\ guard \in [Workers -> Guards] /\ call \in [Workers -> UpdateCalls]
    /\ pinger \in [Workers -> {"off", "wait", "ask", "ping", "stuck"}]
    /\ due \in [Workers -> BOOLEAN] /\ cancelled \in [Workers -> BOOLEAN]
    /\ faults \in 0..MaxMishaps /\ lost \in 0..MaxLost /\ crashes \in 0..MaxCrashes

\* The worker has popped its task.
Holds(w, t) == guard[w].task = t /\ pc[w] # "pop"

(* A task is executed by one worker: PopQueued never hands a task to two   *)
(* of them, on one invoker or on several, whatever fails or crashes.       *)
OneWorkerPerTask ==
    \A t \in Tasks : \A v, w \in Workers : Holds(v, t) /\ Holds(w, t) => v = w

(* The queue in all: its types, and one worker for a task.                 *)
QueueInv == TypeOK /\ OneWorkerPerTask

(* The final status of a task is final: no ping that follows it, or that   *)
(* it overtakes, writes "running" over it.  Only when the answer to the    *)
(* final SetStatus was lost does the guard still think the task running,   *)
(* and a ping may write that.                                              *)
FinalStatusStays ==
    [][lost = 0 => \A t \in Tasks : status[t] \in Final => status'[t] = status[t]]_vars

(* No stage that a task has reported is lost: an update of the row that    *)
(* was under way does not bring an older state back into the guard, or     *)
(* into the row.                                                           *)
StageNeverGoesBack ==
    [][/\ \A w \in Workers : guard'[w].task = guard[w].task => guard'[w].stage >= guard[w].stage
       /\ \A t \in Tasks : stage'[t] >= stage[t]]_vars

(* As long as the database answers in time the lease of a running task     *)
(* does not end, unless its worker is cancelled: the pinger extends it     *)
(* early enough.                                                           *)
PromptPingsKeepLease ==
    faults = 0 /\ lost = 0 =>
        \A w \in Workers : guard[w].status = "running" /\ ~cancelled[w] => guard[w].left > 0

\* The invoker that executes t is being shut down: the pinger has ended, and a
\* task that does not return at once outlives its lease.
Interrupted(t) == \E w \in Workers : Holds(w, t) /\ stopping[NodeOf[w]]

(* A queued task is popped, executed and finished, or a shutdown           *)
(* interrupts it, when no call of the database fails and one invoker goes  *)
(* on: tasks of unknown kinds do not keep the others waiting as long as    *)
(* they are fewer than the limit.                                          *)
QueuedIsFinished ==
    \A t \in Tasks \ Unsupported :
        status[t] = "queued" ~> status[t] \in Final \/ Interrupted(t)

(* Core.Stop does not wait for ever: every worker of the invoker returns.  *)
StopEnds == \A n \in Nodes : stopping[n] ~> \A w \in WorkersOf(n) : pc[w] = "stopped"

(* "QueuedTask means that task in queue and should be processed."          *)
QueuedIsPopped ==
    \A t \in Tasks \ Unsupported : status[t] = "queued" ~> status[t] # "queued"

(* "RunningTask means that task already in processing."  When an invoker   *)
(* has died, and no call fails, a running task that no worker holds is not *)
(* left like that: some worker takes it, or its status changes.            *)
AbandonedIsTaken ==
    \A t \in Tasks :
        LET held == \E w \in Workers : Holds(w, t)
        IN  faults = 0 /\ lost = 0 /\ status[t] = "running" /\ ~held
                ~> status[t] # "running" \/ held
================================================================================
