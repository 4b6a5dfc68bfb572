----------------------------- MODULE UniqueDaemon -----------------------------
(***************************************************************************)
(* Unique daemons: StartUniqueDaemon and startUniqueTask of internal/core  *)
(* (core.go) over the lock rows of internal/models (lock.go).              *)
(*                                                                         *)
(* Several processes try to run the same task.  A lock row holds a token   *)
(* and an expiration time; it is only ever changed by an UPDATE that names *)
(* the token and the time the writer last saw (LockGuard.update).  Every   *)
(* update is three steps here: it is sent, the database executes it, the   *)
(* answer comes back; the answer may be lost, and a request whose caller   *)
(* has given up may still be executed later.                               *)
(*                                                                         *)
(* The clock is one clock in whole seconds, as time.Now().Unix(): nodes    *)
(* are assumed to be synchronised, which the code relies on too.  Tokens   *)
(* are random 63 bit numbers and never repeat here.                        *)
(***************************************************************************)
EXTENDS Naturals, FiniteSets

CONSTANTS
    Nodes,           \* processes that start the daemon
    Lease,           \* lockTimeout (15 seconds)
    MaxTime,         \* bound on the clock
    MaxToken,        \* bound on the tokens drawn
    MaxFaults        \* bound on crashes and lost answers

ASSUME LeaseAssumption ==
    Lease \in Nat /\ MaxTime \in Nat /\ MaxToken \in Nat /\ MaxFaults \in Nat

VARIABLES
    now,
    created, row,    \* the lock row: does it exist, its token and expire_time
    token,           \* last token drawn
    stage,           \* nodes: waiting for the ticker, running, or stopping
    task,            \* nodes: task(ctx) is executing
    guard,           \* nodes: LockGuard.lock
    op, st, want,    \* nodes: the update in progress, its state, its new values
    late,            \* updates whose callers have given up on them
    faults

dbVars == <<created, row>>
nodeVars == <<stage, task, guard, op, st, want>>
vars == <<now, dbVars, token, nodeVars, late, faults>>

Lock == [token : Nat, expire : Nat]
Free == [token |-> 0, expire |-> 0]

--------------------------------------------------------------------------------
Init ==
    /\ now = 1
    /\ created = FALSE /\ row = Free
    /\ token = 0
    /\ stage = [n \in Nodes |-> "idle"] /\ task = [n \in Nodes |-> FALSE]
    /\ guard = [n \in Nodes |-> Free]
    /\ op = [n \in Nodes |-> "none"] /\ st = [n \in Nodes |-> "none"]
    /\ want = [n \in Nodes |-> Free]
    /\ late = {} /\ faults = 0

Tick ==
    /\ now < MaxTime
    /\ now' = now + 1
    /\ UNCHANGED <<dbVars, token, nodeVars, late, faults>>

(* GetByName finds no row: the node creates it and waits for the next tick. *)
(* The name is unique, so a second insert fails and changes nothing.       *)
CreateLock(n) ==
    /\ stage[n] = "idle" /\ op[n] = "none" /\ ~created
    /\ created' = TRUE
    /\ UNCHANGED <<now, row, token, nodeVars, late, faults>>

--------------------------------------------------------------------------------
(* LockGuard.update *)

\* The node's next operation, about to be sent.
Begin(n, o) == op' = [op EXCEPT ![n] = o] /\ st' = [st EXCEPT ![n] = "ready"]

\* The new values of the row, computed when the request is built.
Values(n) ==
    CASE op[n] = "take"    -> [token |-> token + 1, expire |-> now + Lease]
      [] op[n] = "ping"    -> [token |-> guard[n].token, expire |-> now + Lease]
      [] op[n] = "release" -> Free

Send(n) ==
    /\ st[n] = "ready"
    /\ op[n] = "take" => token < MaxToken
    /\ token' = IF op[n] = "take" THEN token + 1 ELSE token
    /\ want' = [want EXCEPT ![n] = Values(n)]
    /\ st' = [st EXCEPT ![n] = "sent"]
    /\ UNCHANGED <<now, dbVars, stage, task, guard, op, late, faults>>

\* Mutant: expire_time is left out of the WHERE clause.
MatchesToken(lock) == row.token = lock.token

\* WHERE id = .. AND token = .. AND expire_time = ..
Matches(lock) == row = lock

Execute(n) ==
    /\ st[n] = "sent"
    /\ \/ /\ Matches(guard[n])
          /\ row' = want[n] /\ st' = [st EXCEPT ![n] = "applied"]
       \/ /\ ~Matches(guard[n])
          /\ st' = [st EXCEPT ![n] = "refused"] /\ UNCHANGED row
    /\ UNCHANGED <<now, created, token, stage, task, guard, op, want, late, faults>>

ExecuteLate ==
    /\ \E r \in late :
        /\ late' = late \ {r}
        /\ row' = IF Matches(r.from) THEN r.to ELSE row
    /\ UNCHANGED <<now, created, token, nodeVars, faults>>

\* The update has returned.
Done(n) ==
    /\ op' = [op EXCEPT ![n] = "none"] /\ st' = [st EXCEPT ![n] = "none"]
    /\ want' = [want EXCEPT ![n] = Free]

\* startUniqueTask has returned: its guard is gone.
Leave(n) ==
    /\ stage' = [stage EXCEPT ![n] = "idle"]
    /\ guard' = [guard EXCEPT ![n] = Free]

\* What an error means: no guard, the end of the pinger, or a lock that is left
\* to expire.
Failed(n) ==
    \/ op[n] \in {"take", "release"} /\ Leave(n)
    \/ op[n] = "ping" /\ stage' = [stage EXCEPT ![n] = "stop"] /\ UNCHANGED guard

Refused(n) ==
    /\ st[n] = "refused"
    /\ Failed(n) /\ Done(n)
    /\ UNCHANGED <<now, dbVars, token, task, late, faults>>

\* The request of a caller that gives up is lost, or still on its way.
GiveUp(n) ==
    \/ UNCHANGED late
    \/ st[n] = "sent" /\ late' = late \cup {[from |-> guard[n], to |-> want[n]]}

(* The update returns an error that says nothing about the row. *)
AnswerLost(n) ==
    /\ op[n] # "none" /\ faults < MaxFaults
    /\ faults' = faults + 1
    /\ GiveUp(n) /\ Failed(n) /\ Done(n)
    /\ UNCHANGED <<now, dbVars, token, task>>

--------------------------------------------------------------------------------
(* startUniqueTask *)

\* Mutant: the lock may be taken in its last second.
AcquireEarly(n) ==
    /\ stage[n] = "idle" /\ op[n] = "none" /\ created
    /\ row.expire <= now
    /\ guard' = [guard EXCEPT ![n] = row]
    /\ Begin(n, "take")
    /\ UNCHANGED <<now, dbVars, token, stage, task, want, late, faults>>

\* Mutant: only a released lock may be taken.
AcquireReleased(n) ==
    /\ stage[n] = "idle" /\ op[n] = "none" /\ created
    /\ row.expire < now /\ row.token = 0
    /\ guard' = [guard EXCEPT ![n] = row]
    /\ Begin(n, "take")
    /\ UNCHANGED <<now, dbVars, token, stage, task, want, late, faults>>

(* AcquireByName reads the row and finds it expired. *)
AcquireByName(n) ==
    /\ stage[n] = "idle" /\ op[n] = "none" /\ created
    /\ row.expire < now
    /\ guard' = [guard EXCEPT ![n] = row]
    /\ Begin(n, "take")
    /\ UNCHANGED <<now, dbVars, token, stage, task, want, late, faults>>

Acquired(n) ==
    /\ st[n] = "applied" /\ op[n] = "take"
    /\ guard' = [guard EXCEPT ![n] = want[n]]
    /\ stage' = [stage EXCEPT ![n] = "run"] /\ task' = [task EXCEPT ![n] = TRUE]
    /\ Done(n)
    /\ UNCHANGED <<now, dbVars, token, late, faults>>

(* The pinger's ticker fires. *)
Ping(n) ==
    /\ stage[n] = "run" /\ op[n] = "none"
    /\ \/ guard[n].expire >= now /\ Begin(n, "ping") /\ UNCHANGED stage
       \/ guard[n].expire < now /\ stage' = [stage EXCEPT ![n] = "stop"]
                                /\ UNCHANGED <<op, st>>
    /\ UNCHANGED <<now, dbVars, token, task, guard, want, late, faults>>

Pinged(n) ==
    /\ st[n] = "applied" /\ op[n] = "ping"
    /\ guard' = [guard EXCEPT ![n] = want[n]]
    /\ Done(n)
    /\ UNCHANGED <<now, dbVars, token, stage, task, late, faults>>

(* The context of the task is cancelled: the setting disables the task, or *)
(* the core stops.  An update of the pinger may still be in progress.      *)
Cancel(n) ==
    /\ stage[n] = "run"
    /\ stage' = [stage EXCEPT ![n] = "stop"]
    /\ UNCHANGED <<now, dbVars, token, task, guard, op, st, want, late, faults>>

(* The task returns, by itself or because it was cancelled. *)
TaskReturns(n) ==
    /\ task[n]
    /\ task' = [task EXCEPT ![n] = FALSE]
    /\ stage' = [stage EXCEPT ![n] = "stop"]
    /\ UNCHANGED <<now, dbVars, token, guard, op, st, want, late, faults>>

\* Mutant: Release is deferred last, so it runs before the task has returned.
ReleaseFirst(n) ==
    /\ stage[n] = "stop" /\ op[n] = "none"
    /\ \/ guard[n].expire >= now /\ Begin(n, "release") /\ UNCHANGED <<stage, guard>>
       \/ guard[n].expire < now /\ Leave(n) /\ UNCHANGED <<op, st>>
    /\ UNCHANGED <<now, dbVars, token, task, want, late, faults>>

(* The deferred calls: wait for the pinger, then Release. *)
Release(n) ==
    /\ stage[n] = "stop" /\ ~task[n] /\ op[n] = "none"
    /\ \/ guard[n].expire >= now /\ Begin(n, "release") /\ UNCHANGED <<stage, guard>>
       \/ guard[n].expire < now /\ Leave(n) /\ UNCHANGED <<op, st>>
    /\ UNCHANGED <<now, dbVars, token, task, want, late, faults>>

Released(n) ==
    /\ st[n] = "applied" /\ op[n] = "release"
    /\ Leave(n) /\ Done(n)
    /\ UNCHANGED <<now, dbVars, token, task, late, faults>>

(* The process dies, and is started again. *)
Crash(n) ==
    /\ stage[n] # "idle" \/ op[n] # "none"
    /\ faults < MaxFaults /\ faults' = faults + 1
    /\ GiveUp(n) /\ Leave(n) /\ Done(n)
    /\ task' = [task EXCEPT ![n] = FALSE]
    /\ UNCHANGED <<now, dbVars, token>>

Step(n) ==
    \/ CreateLock(n) \/ Send(n) \/ Execute(n) \/ Refused(n) \/ AnswerLost(n)
    \/ AcquireByName(n) \/ Acquired(n) \/ Ping(n) \/ Pinged(n) \/ Cancel(n)
    \/ TaskReturns(n) \/ Release(n) \/ Released(n) \/ Crash(n)

Next == Tick \/ ExecuteLate \/ \E n \in Nodes : Step(n)

Spec == Init /\ [][Next]_vars

(* Time passes, the database answers, the ticker of StartUniqueDaemon and  *)
(* the pinger fire, and a cancelled task returns; a task that is not       *)
(* cancelled and a node that does not fail may go on for ever.             *)
FairSpec ==
    /\ Spec /\ WF_vars(Tick) /\ WF_vars(ExecuteLate)
    /\ \A n \in Nodes :
        /\ WF_vars(CreateLock(n)) /\ WF_vars(AcquireByName(n))
        /\ WF_vars(Send(n)) /\ WF_vars(Execute(n)) /\ WF_vars(Refused(n))
        /\ WF_vars(Acquired(n) \/ Pinged(n) \/ Released(n))
        /\ WF_vars(Ping(n)) /\ WF_vars(Release(n))
        /\ WF_vars(stage[n] = "stop" /\ TaskReturns(n))

--------------------------------------------------------------------------------
Stages == {"idle", "run", "stop"}
Ops == {"none", "take", "ping", "release"}
States == {"none", "ready", "sent", "applied", "refused"}

(* The lock row, the guards and the requests have their types.             *)
TypeOK ==
    /\ now \in Nat
    /\ created \in BOOLEAN /\ row \in Lock
    /\ token \in Nat /\ faults \in Nat
    /\ stage \in [Nodes -> Stages] /\ task \in [Nodes -> BOOLEAN]
    /\ guard \in [Nodes -> Lock] /\ want \in [Nodes -> Lock]
    /\ op \in [Nodes -> Ops] /\ st \in [Nodes -> States]
    /\ late \in SUBSET [from : Lock, to : Lock]

\* The task runs under a guard that has not expired.
Live(n) == task[n] /\ guard[n].expire >= now

(* At most one node runs the task under a guard that has not expired,      *)
(* whatever answers are lost, updates come late or nodes crash.            *)
AtMostOneLive == \A m, n \in Nodes : Live(m) /\ Live(n) => m = n

(* A node with such a guard still owns the row, and the row expires no     *)
(* earlier than the guard believes.                                        *)
LiveGuardOwnsRow ==
    \A n \in Nodes : Live(n) =>
        row.token = guard[n].token /\ row.expire >= guard[n].expire

(* The lock passes from one owner to another without a release only after  *)
(* it has expired, also when the owner's last ping arrives late.           *)
NoStealing ==
    [][row'.token # row.token /\ row.token # 0 /\ row'.token # 0
          => row.expire < now]_vars

(* The row is freed only when the task it was taken for has returned.      *)
ReleasedAfterTask ==
    [][row.token # 0 /\ row'.token = 0
          => \A n \in Nodes : task[n] => guard[n].token # row.token]_vars

\* The bounds on tokens and time are used up.
Spent == token = MaxToken \/ row.expire >= MaxTime

(* Once faults have stopped, a lock nobody runs under (its owner crashed,  *)
(* or lost an answer) comes back to a running task, unless the bounds of   *)
(* the instance are used up first.                                         *)
LockComesBack ==
    faults = MaxFaults /\ late = {} /\ created ~> (\E n \in Nodes : task[n]) \/ Spent
================================================================================
