--------------------------- MODULE UniqueDaemonProofs ---------------------------
(***************************************************************************)
(* Mutual exclusion of unique daemons for any number of nodes, any lease   *)
(* and any number of crashes, lost answers and late updates.               *)
(***************************************************************************)
EXTENDS UniqueDaemon, TLAPS

\* t is the token node n holds, or is about to hold.
Mine(n, t) ==
    \/ stage[n] # "idle" /\ guard[n].token = t
    \/ op[n] = "take" /\ st[n] \in {"sent", "applied"} /\ want[n].token = t

\* An update was executed and its answer is about to make the guard live.
Granted(n) ==
    op[n] \in {"take", "ping"} /\ st[n] = "applied" /\ want[n].expire >= now

\* Which operations are possible at which stage.
Control ==
    \A n \in Nodes :
        /\ op[n] = "none" <=> st[n] = "none"
        /\ op[n] = "take" => stage[n] = "idle"
        /\ op[n] = "ping" => stage[n] # "idle"
        /\ op[n] = "release" => stage[n] = "stop" /\ ~task[n]
        /\ task[n] => stage[n] # "idle"

\* What an operation in progress may do to the row.
Requests ==
    \A n \in Nodes :
        /\ stage[n] # "idle" => guard[n].token # 0
        /\ op[n] = "take" => guard[n].expire < now
        /\ st[n] \in {"sent", "applied"} =>
            /\ op[n] = "take" => want[n].token # 0
            /\ op[n] = "ping" => /\ want[n].token = guard[n].token
                                /\ want[n].expire >= guard[n].expire
            /\ op[n] = "release" => want[n] = Free

\* No token was drawn in the future and no lease is longer than Lease.
Bounded ==
    /\ row.token <= token /\ row.expire <= now + Lease
    /\ \A n \in Nodes : /\ guard[n].token <= token /\ guard[n].expire <= now + Lease
                        /\ want[n].token <= token /\ want[n].expire <= now + Lease

Distinct ==
    \A m, n \in Nodes : \A t \in Nat \ {0} : Mine(m, t) /\ Mine(n, t) => m = n

\* A granted update is in the row, or the row has been extended since.
GrantedOwnsRow ==
    \A n \in Nodes : Granted(n) =>
        row.token = want[n].token /\ row.expire >= want[n].expire

\* A late update takes an expired lock, extends one, or frees one whose token
\* nobody holds.
LateIsHarmless ==
    \A r \in late :
        /\ r.from.token <= token /\ r.to.token <= token /\ r.to.expire <= now + Lease
        /\ \/ r.from.expire < now /\ r.to.token # 0
           \/ r.to.token = r.from.token /\ r.to.expire >= r.from.expire
           \/ r.to = Free /\ r.from.token # 0 /\ \A n \in Nodes : ~Mine(n, r.from.token)

IInv ==
    /\ TypeOK /\ Control /\ Requests /\ Bounded /\ Distinct
    /\ LiveGuardOwnsRow /\ GrantedOwnsRow /\ LateIsHarmless


\* A step that grants nothing leaves what was granted in the row.
LEMMA GrantedKept ==
  ASSUME GrantedOwnsRow, row' = row,
         \A m \in Nodes : Granted(m)' => Granted(m) /\ want'[m] = want[m]
  PROVE  GrantedOwnsRow'
BY DEF GrantedOwnsRow

LEMMA InitInvariant == Init => IInv
<1> SUFFICES ASSUME Init PROVE IInv
  OBVIOUS
<1>1. TypeOK
  BY DEF Init, TypeOK, Lock, Free, Stages, Ops, States
<1>2. Control /\ Requests
  BY DEF Init, Control, Requests
<1>3. Bounded
  BY LeaseAssumption DEF Init, Bounded, Free
<1>4. Distinct /\ LiveGuardOwnsRow /\ GrantedOwnsRow /\ LateIsHarmless
  BY DEF Init, Distinct, Mine, LiveGuardOwnsRow, Live, GrantedOwnsRow, Granted, LateIsHarmless
<1> QED BY <1>1, <1>2, <1>3, <1>4 DEF IInv

LEMMA NextInvariant == IInv /\ [Next]_vars => IInv'
<1> SUFFICES ASSUME IInv, [Next]_vars PROVE IInv'
  OBVIOUS
<1> USE LeaseAssumption DEF IInv
<1>1. ASSUME NEW n \in Nodes, CreateLock(n) PROVE IInv'
  <2>1. TypeOK'
    BY <1>1 DEF CreateLock, TypeOK, dbVars, nodeVars, Lock, Free, Stages, Ops, States
  <2>2. Control'
    BY <1>1 DEF CreateLock, TypeOK, Control, dbVars, nodeVars, Stages, Ops, States
  <2>3. Requests'
    BY <1>1 DEF CreateLock, TypeOK, Control, Requests, Bounded, dbVars, nodeVars, Lock,
        Free, Stages, Ops, States
  <2>4. Bounded'
    BY <1>1 DEF CreateLock, TypeOK, Bounded, LateIsHarmless, dbVars, nodeVars, Lock,
        Free
  <2>5. Distinct'
    BY <1>1 DEF CreateLock, TypeOK, Control, Requests, Bounded, Distinct, Mine, dbVars,
        nodeVars, Lock, Free
  <2>6. LiveGuardOwnsRow'
    BY <1>1 DEF CreateLock, TypeOK, Control, Requests, Bounded, Distinct,
        LiveGuardOwnsRow, GrantedOwnsRow, LateIsHarmless, Live, Granted, Mine, dbVars,
        nodeVars, Lock, Free
  <2>7. GrantedOwnsRow'
    <3>1. ASSUME NEW m \in Nodes, Granted(m)' PROVE Granted(m) /\ want'[m] = want[m]
      BY <1>1, <3>1 DEF CreateLock, Granted, TypeOK, dbVars, nodeVars
    <3>2. row' = row
      BY <1>1 DEF CreateLock, dbVars
    <3> QED BY <3>1, <3>2, GrantedKept
  <2>8. LateIsHarmless'
    BY <1>1 DEF CreateLock, TypeOK, Control, Requests, Bounded, Distinct,
        LateIsHarmless, Mine, dbVars, nodeVars, Lock, Free, Stages, Ops, States
  <2> QED BY <2>1, <2>2, <2>3, <2>4, <2>5, <2>6, <2>7, <2>8
<1>2. ASSUME NEW n \in Nodes, Send(n) PROVE IInv'
  <2>0. /\ op[n] \in {"take", "ping", "release"}
        /\ token' \in Nat /\ token <= token'
        /\ Values(n) \in Lock /\ Values(n).token <= token' /\ Values(n).expire <= now + Lease
    <3>1. op[n] \in {"take", "ping", "release"}
      BY <1>2 DEF Send, TypeOK, Control, Ops
    <3>2. CASE op[n] = "take"
      BY <1>2, <3>2 DEF Send, Values, TypeOK, Lock
    <3>3. CASE op[n] = "ping"
      BY <1>2, <3>3 DEF Send, Values, TypeOK, Bounded, Lock
    <3>4. CASE op[n] = "release"
      BY <1>2, <3>4 DEF Send, Values, TypeOK, Lock, Free
    <3> QED BY <3>1, <3>2, <3>3, <3>4
  <2>1. TypeOK'
    BY <1>2, <2>0 DEF Send, TypeOK, dbVars, States
  <2>2. Control'
    BY <1>2 DEF Send, Values, TypeOK, Control, dbVars, nodeVars, Stages, Ops, States
  <2>3. Requests'
    BY <1>2 DEF Send, Values, TypeOK, Control, Requests, Bounded, dbVars, nodeVars,
        Lock, Free, Stages, Ops, States
  <2>4. Bounded'
    BY <1>2, <2>0 DEF Send, TypeOK, Bounded, Lock, dbVars
  <2>5. Distinct'
    BY <1>2 DEF Send, Values, TypeOK, Control, Requests, Bounded, Distinct, Mine,
        dbVars, nodeVars, Lock, Free
  <2>6. LiveGuardOwnsRow'
    BY <1>2 DEF Send, Values, TypeOK, Control, Requests, Bounded, Distinct,
        LiveGuardOwnsRow, GrantedOwnsRow, LateIsHarmless, Live, Granted, Mine, dbVars,
        nodeVars, Lock, Free
  <2>7. GrantedOwnsRow'
    <3>1. ASSUME NEW m \in Nodes, Granted(m)' PROVE Granted(m) /\ want'[m] = want[m]
      BY <1>2, <3>1 DEF Send, Values, Granted, TypeOK, dbVars, nodeVars
    <3>2. row' = row
      BY <1>2 DEF Send, dbVars
    <3> QED BY <3>1, <3>2, GrantedKept
  <2>8. LateIsHarmless'
    BY <1>2 DEF Send, Values, TypeOK, Control, Requests, Bounded, Distinct,
        LateIsHarmless, Mine, dbVars, nodeVars, Lock, Free, Stages, Ops, States
  <2> QED BY <2>1, <2>2, <2>3, <2>4, <2>5, <2>6, <2>7, <2>8
<1>3. ASSUME NEW n \in Nodes, Execute(n) PROVE IInv'
  <2>0. op[n] \in {"take", "ping", "release"}
    BY <1>3 DEF Execute, TypeOK, Control, Ops
  <2>1. TypeOK'
    BY <1>3 DEF Execute, Matches, TypeOK, dbVars, nodeVars, Lock, Free, Stages, Ops,
        States
  <2>2. Control'
    BY <1>3 DEF Execute, Matches, TypeOK, Control, dbVars, nodeVars, Stages, Ops,
        States
  <2>3. Requests'
    BY <1>3 DEF Execute, Matches, TypeOK, Control, Requests, Bounded, dbVars, nodeVars,
        Lock, Free, Stages, Ops, States
  <2>4. Bounded'
    BY <1>3 DEF Execute, Matches, TypeOK, Bounded, LateIsHarmless, dbVars, nodeVars,
        Lock, Free
  <2>5. Distinct'
    BY <1>3 DEF Execute, Matches, TypeOK, Control, Requests, Bounded, Distinct, Mine,
        dbVars, nodeVars, Lock, Free
  <2>6. LiveGuardOwnsRow'
    <3> SUFFICES ASSUME NEW m \in Nodes, Live(m), Matches(guard[n]), row' = want[n]
                 PROVE  want[n].token = guard[m].token /\ want[n].expire >= guard[m].expire
      BY <1>3 DEF Execute, LiveGuardOwnsRow, Live
    <3>1. row = guard[n] /\ row.token = guard[m].token /\ row.expire >= guard[m].expire
      BY DEF Matches, LiveGuardOwnsRow
    <3>2. CASE op[n] = "take"
      BY <3>1, <3>2 DEF Requests, TypeOK, Lock, Live
    <3>3. CASE op[n] = "ping"
      BY <1>3, <3>1, <3>3 DEF Execute, Requests, TypeOK, Lock
    <3>4. CASE op[n] = "release"
      BY SMTT(30), <3>1, <3>4 DEF Control, Requests, Distinct, Mine, TypeOK, Lock, Live
    <3> QED BY <2>0, <3>2, <3>3, <3>4
  <2>7. GrantedOwnsRow'
    <3> SUFFICES ASSUME NEW m \in Nodes, Granted(m)', m # n, Matches(guard[n]), row' = want[n]
                 PROVE  want[n].token = want[m].token /\ want[n].expire >= want[m].expire
      BY <1>3 DEF Execute, GrantedOwnsRow, Granted, TypeOK, Lock
    <3>0. Granted(m)
      BY <1>3 DEF Execute, Granted, TypeOK
    <3>1. row = guard[n] /\ row.token = want[m].token /\ row.expire >= want[m].expire
      BY <3>0 DEF Matches, GrantedOwnsRow
    <3>2. CASE op[n] = "take"
      BY <3>0, <3>1, <3>2 DEF Requests, TypeOK, Lock, Granted
    <3>3. CASE op[n] = "ping"
      BY <1>3, <3>1, <3>3 DEF Execute, Requests, TypeOK, Lock
    <3>4. CASE op[n] = "release"
      <4>1. Mine(n, row.token) /\ row.token \in Nat \ {0}
        BY <3>1, <3>4 DEF Control, Requests, Mine, TypeOK, Lock
      <4>2. Mine(m, row.token)
        BY <3>0, <3>1 DEF Control, Requests, Mine, Granted
      <4> QED BY <4>1, <4>2 DEF Distinct
    <3> QED BY <2>0, <3>2, <3>3, <3>4
  <2>8. LateIsHarmless'
    BY <1>3 DEF Execute, Matches, TypeOK, Control, Requests, Bounded, Distinct,
        LateIsHarmless, Mine, dbVars, nodeVars, Lock, Free, Stages, Ops, States
  <2> QED BY <2>1, <2>2, <2>3, <2>4, <2>5, <2>6, <2>7, <2>8
<1>4. ASSUME NEW n \in Nodes, Refused(n) PROVE IInv'
  <2>1. TypeOK'
    <3>1. CASE Leave(n)
      BY <1>4, <3>1 DEF Refused, Failed, Done, Leave, TypeOK, Lock, Free, Stages, Ops, States, dbVars
    <3>2. CASE UNCHANGED guard
      BY <1>4, <3>2 DEF Refused, Failed, Done, Leave, TypeOK, Lock, Free, Stages, Ops, States, dbVars
    <3> QED BY <1>4, <3>1, <3>2 DEF Refused, Failed, Done
  <2>2. Control'
    BY <1>4 DEF Refused, Failed, Done, Leave, TypeOK, Control, dbVars, nodeVars,
        Stages, Ops, States
  <2>3. Requests'
    BY <1>4 DEF Refused, Failed, Done, Leave, TypeOK, Control, Requests, Bounded,
        dbVars, nodeVars, Lock, Free, Stages, Ops, States
  <2>4. Bounded'
    BY <1>4 DEF Refused, Failed, Done, Leave, TypeOK, Bounded, LateIsHarmless, dbVars,
        nodeVars, Lock, Free
  <2>5. Distinct'
    BY <1>4 DEF Refused, Failed, Done, Leave, TypeOK, Control, Requests, Bounded,
        Distinct, Mine, dbVars, nodeVars, Lock, Free
  <2>6. LiveGuardOwnsRow'
    <3> SUFFICES ASSUME NEW m \in Nodes, Live(m)'
                 PROVE  row.token = guard'[m].token /\ row.expire >= guard'[m].expire
      BY <1>4 DEF Refused, LiveGuardOwnsRow, dbVars
    <3>1. Live(m) /\ guard'[m] = guard[m]
      BY <1>4 DEF Refused, Failed, Leave, Control, TypeOK, Live, Ops
    <3> QED BY <3>1 DEF LiveGuardOwnsRow
  <2>7. GrantedOwnsRow'
    <3>1. ASSUME NEW m \in Nodes, Granted(m)' PROVE Granted(m) /\ want'[m] = want[m]
      BY <1>4, <3>1 DEF Refused, Failed, Done, Leave, Granted, TypeOK, dbVars, nodeVars
    <3>2. row' = row
      BY <1>4 DEF Refused, dbVars
    <3> QED BY <3>1, <3>2, GrantedKept
  <2>8. LateIsHarmless'
    BY <1>4 DEF Refused, Failed, Done, Leave, TypeOK, Control, Requests, Bounded,
        Distinct, LateIsHarmless, Mine, dbVars, nodeVars, Lock, Free, Stages, Ops,
        States
  <2> QED BY <2>1, <2>2, <2>3, <2>4, <2>5, <2>6, <2>7, <2>8
<1>5. ASSUME NEW n \in Nodes, AnswerLost(n) PROVE IInv'
  <2>1. TypeOK'
    <3>1. CASE Leave(n)
      BY <1>5, <3>1 DEF AnswerLost, GiveUp, Failed, Done, Leave, TypeOK, Lock, Free, Stages, Ops, States, dbVars
    <3>2. CASE UNCHANGED guard
      BY <1>5, <3>2 DEF AnswerLost, GiveUp, Failed, Done, Leave, TypeOK, Lock, Free, Stages, Ops, States, dbVars
    <3> QED BY <1>5, <3>1, <3>2 DEF AnswerLost, GiveUp, Failed, Done
  <2>2. Control'
    BY <1>5 DEF AnswerLost, GiveUp, Failed, Done, Leave, TypeOK, Control, dbVars,
        nodeVars, Stages, Ops, States
  <2>3. Requests'
    BY <1>5 DEF AnswerLost, GiveUp, Failed, Done, Leave, TypeOK, Control, Requests,
        Bounded, dbVars, nodeVars, Lock, Free, Stages, Ops, States
  <2>4. Bounded'
    BY <1>5 DEF AnswerLost, GiveUp, Failed, Done, Leave, TypeOK, Bounded,
        LateIsHarmless, dbVars, nodeVars, Lock, Free
  <2>5. Distinct'
    BY <1>5 DEF AnswerLost, GiveUp, Failed, Done, Leave, TypeOK, Control, Requests,
        Bounded, Distinct, Mine, dbVars, nodeVars, Lock, Free
  <2>6. LiveGuardOwnsRow'
    BY SMTT(30), <1>5 DEF AnswerLost, GiveUp, Failed, Done, Leave, TypeOK, Control, Requests,
        Bounded, Distinct, LiveGuardOwnsRow, GrantedOwnsRow, LateIsHarmless, Live,
        Granted, Mine, dbVars, nodeVars, Lock, Free
  <2>7. GrantedOwnsRow'
    <3>1. ASSUME NEW m \in Nodes, Granted(m)' PROVE Granted(m) /\ want'[m] = want[m]
      BY <1>5, <3>1 DEF AnswerLost, GiveUp, Failed, Done, Leave, Granted, TypeOK, dbVars, nodeVars
    <3>2. row' = row
      BY <1>5 DEF AnswerLost, dbVars
    <3> QED BY <3>1, <3>2, GrantedKept
  <2>8. LateIsHarmless'
    BY <1>5 DEF AnswerLost, GiveUp, Failed, Done, Leave, TypeOK, Control, Requests,
        Bounded, Distinct, LateIsHarmless, Mine, dbVars, nodeVars, Lock, Free, Stages,
        Ops, States
  <2> QED BY <2>1, <2>2, <2>3, <2>4, <2>5, <2>6, <2>7, <2>8
<1>6. ASSUME NEW n \in Nodes, AcquireByName(n) PROVE IInv'
  <2>1. TypeOK'
    BY <1>6 DEF AcquireByName, Begin, TypeOK, dbVars, nodeVars, Lock, Free, Stages,
        Ops, States
  <2>2. Control'
    BY <1>6 DEF AcquireByName, Begin, TypeOK, Control, dbVars, nodeVars, Stages, Ops,
        States
  <2>3. Requests'
    BY <1>6 DEF AcquireByName, Begin, TypeOK, Control, Requests, Bounded, dbVars,
        nodeVars, Lock, Free, Stages, Ops, States
  <2>4. Bounded'
    BY <1>6 DEF AcquireByName, Begin, TypeOK, Bounded, LateIsHarmless, dbVars,
        nodeVars, Lock, Free
  <2>5. Distinct'
    BY <1>6 DEF AcquireByName, Begin, TypeOK, Control, Requests, Bounded, Distinct,
        Mine, dbVars, nodeVars, Lock, Free
  <2>6. LiveGuardOwnsRow'
    BY <1>6 DEF AcquireByName, Begin, TypeOK, Control, Requests, Bounded, Distinct,
        LiveGuardOwnsRow, GrantedOwnsRow, LateIsHarmless, Live, Granted, Mine, dbVars,
        nodeVars, Lock, Free
  <2>7. GrantedOwnsRow'
    <3>1. ASSUME NEW m \in Nodes, Granted(m)' PROVE Granted(m) /\ want'[m] = want[m]
      BY <1>6, <3>1 DEF AcquireByName, Begin, Granted, TypeOK, dbVars, nodeVars
    <3>2. row' = row
      BY <1>6 DEF AcquireByName, dbVars
    <3> QED BY <3>1, <3>2, GrantedKept
  <2>8. LateIsHarmless'
    BY <1>6 DEF AcquireByName, Begin, TypeOK, Control, Requests, Bounded, Distinct,
        LateIsHarmless, Mine, dbVars, nodeVars, Lock, Free, Stages, Ops, States
  <2> QED BY <2>1, <2>2, <2>3, <2>4, <2>5, <2>6, <2>7, <2>8
<1>7. ASSUME NEW n \in Nodes, Acquired(n) PROVE IInv'
  <2>1. TypeOK'
    BY <1>7 DEF Acquired, Done, TypeOK, dbVars, nodeVars, Lock, Free, Stages, Ops,
        States
  <2>2. Control'
    BY <1>7 DEF Acquired, Done, TypeOK, Control, dbVars, nodeVars, Stages, Ops, States
  <2>3. Requests'
    BY <1>7 DEF Acquired, Done, TypeOK, Control, Requests, Bounded, dbVars, nodeVars,
        Lock, Free, Stages, Ops, States
  <2>4. Bounded'
    BY <1>7 DEF Acquired, Done, TypeOK, Bounded, LateIsHarmless, dbVars, nodeVars,
        Lock, Free
  <2>5. Distinct'
    BY <1>7 DEF Acquired, Done, TypeOK, Control, Requests, Bounded, Distinct, Mine,
        dbVars, nodeVars, Lock, Free
  <2>6. LiveGuardOwnsRow'
    BY <1>7 DEF Acquired, Done, TypeOK, Control, Requests, Bounded, Distinct,
        LiveGuardOwnsRow, GrantedOwnsRow, LateIsHarmless, Live, Granted, Mine, dbVars,
        nodeVars, Lock, Free
  <2>7. GrantedOwnsRow'
    <3>1. ASSUME NEW m \in Nodes, Granted(m)' PROVE Granted(m) /\ want'[m] = want[m]
      BY <1>7, <3>1 DEF Acquired, Done, Granted, TypeOK, dbVars, nodeVars
    <3>2. row' = row
      BY <1>7 DEF Acquired, dbVars
    <3> QED BY <3>1, <3>2, GrantedKept
  <2>8. LateIsHarmless'
    BY <1>7 DEF Acquired, Done, TypeOK, Control, Requests, Bounded, Distinct,
        LateIsHarmless, Mine, dbVars, nodeVars, Lock, Free, Stages, Ops, States
  <2> QED BY <2>1, <2>2, <2>3, <2>4, <2>5, <2>6, <2>7, <2>8
<1>8. ASSUME NEW n \in Nodes, Ping(n) PROVE IInv'
  <2>1. TypeOK'
    BY <1>8 DEF Ping, Begin, TypeOK, dbVars, nodeVars, Lock, Free, Stages, Ops, States
  <2>2. Control'
    BY <1>8 DEF Ping, Begin, TypeOK, Control, dbVars, nodeVars, Stages, Ops, States
  <2>3. Requests'
    BY <1>8 DEF Ping, Begin, TypeOK, Control, Requests, Bounded, dbVars, nodeVars,
        Lock, Free, Stages, Ops, States
  <2>4. Bounded'
    BY <1>8 DEF Ping, Begin, TypeOK, Bounded, LateIsHarmless, dbVars, nodeVars, Lock,
        Free
  <2>5. Distinct'
    BY <1>8 DEF Ping, Begin, TypeOK, Control, Requests, Bounded, Distinct, Mine,
        dbVars, nodeVars, Lock, Free
  <2>6. LiveGuardOwnsRow'
    BY <1>8 DEF Ping, Begin, TypeOK, Control, Requests, Bounded, Distinct,
        LiveGuardOwnsRow, GrantedOwnsRow, LateIsHarmless, Live, Granted, Mine, dbVars,
        nodeVars, Lock, Free
  <2>7. GrantedOwnsRow'
    <3>1. ASSUME NEW m \in Nodes, Granted(m)' PROVE Granted(m) /\ want'[m] = want[m]
      BY <1>8, <3>1 DEF Ping, Begin, Granted, TypeOK, dbVars, nodeVars
    <3>2. row' = row
      BY <1>8 DEF Ping, dbVars
    <3> QED BY <3>1, <3>2, GrantedKept
  <2>8. LateIsHarmless'
    BY <1>8 DEF Ping, Begin, TypeOK, Control, Requests, Bounded, Distinct,
        LateIsHarmless, Mine, dbVars, nodeVars, Lock, Free, Stages, Ops, States
  <2> QED BY <2>1, <2>2, <2>3, <2>4, <2>5, <2>6, <2>7, <2>8
<1>9. ASSUME NEW n \in Nodes, Pinged(n) PROVE IInv'
  <2>1. TypeOK'
    BY <1>9 DEF Pinged, Done, TypeOK, dbVars, nodeVars, Lock, Free, Stages, Ops,
        States
  <2>2. Control'
    BY <1>9 DEF Pinged, Done, TypeOK, Control, dbVars, nodeVars, Stages, Ops, States
  <2>3. Requests'
    BY <1>9 DEF Pinged, Done, TypeOK, Control, Requests, Bounded, dbVars, nodeVars,
        Lock, Free, Stages, Ops, States
  <2>4. Bounded'
    BY <1>9 DEF Pinged, Done, TypeOK, Bounded, LateIsHarmless, dbVars, nodeVars, Lock,
        Free
  <2>5. Distinct'
    BY <1>9 DEF Pinged, Done, TypeOK, Control, Requests, Bounded, Distinct, Mine,
        dbVars, nodeVars, Lock, Free
  <2>6. LiveGuardOwnsRow'
    BY <1>9 DEF Pinged, Done, TypeOK, Control, Requests, Bounded, Distinct,
        LiveGuardOwnsRow, GrantedOwnsRow, LateIsHarmless, Live, Granted, Mine, dbVars,
        nodeVars, Lock, Free
  <2>7. GrantedOwnsRow'
    <3>1. ASSUME NEW m \in Nodes, Granted(m)' PROVE Granted(m) /\ want'[m] = want[m]
      BY <1>9, <3>1 DEF Pinged, Done, Granted, TypeOK, dbVars, nodeVars
    <3>2. row' = row
      BY <1>9 DEF Pinged, dbVars
    <3> QED BY <3>1, <3>2, GrantedKept
  <2>8. LateIsHarmless'
    BY <1>9 DEF Pinged, Done, TypeOK, Control, Requests, Bounded, Distinct,
        LateIsHarmless, Mine, dbVars, nodeVars, Lock, Free, Stages, Ops, States
  <2> QED BY <2>1, <2>2, <2>3, <2>4, <2>5, <2>6, <2>7, <2>8
<1>10. ASSUME NEW n \in Nodes, Cancel(n) PROVE IInv'
  <2>1. TypeOK'
    BY <1>10 DEF Cancel, TypeOK, dbVars, nodeVars, Lock, Free, Stages, Ops, States
  <2>2. Control'
    BY <1>10 DEF Cancel, TypeOK, Control, dbVars, nodeVars, Stages, Ops, States
  <2>3. Requests'
    BY <1>10 DEF Cancel, TypeOK, Control, Requests, Bounded, dbVars, nodeVars, Lock,
        Free, Stages, Ops, States
  <2>4. Bounded'
    BY <1>10 DEF Cancel, TypeOK, Bounded, LateIsHarmless, dbVars, nodeVars, Lock, Free
  <2>5. Distinct'
    BY <1>10 DEF Cancel, TypeOK, Control, Requests, Bounded, Distinct, Mine, dbVars,
        nodeVars, Lock, Free
  <2>6. LiveGuardOwnsRow'
    BY <1>10 DEF Cancel, TypeOK, Control, Requests, Bounded, Distinct,
        LiveGuardOwnsRow, GrantedOwnsRow, LateIsHarmless, Live, Granted, Mine, dbVars,
        nodeVars, Lock, Free
  <2>7. GrantedOwnsRow'
    <3>1. ASSUME NEW m \in Nodes, Granted(m)' PROVE Granted(m) /\ want'[m] = want[m]
      BY <1>10, <3>1 DEF Cancel, Granted, TypeOK, dbVars, nodeVars
    <3>2. row' = row
      BY <1>10 DEF Cancel, dbVars
    <3> QED BY <3>1, <3>2, GrantedKept
  <2>8. LateIsHarmless'
    BY <1>10 DEF Cancel, TypeOK, Control, Requests, Bounded, Distinct, LateIsHarmless,
        Mine, dbVars, nodeVars, Lock, Free, Stages, Ops, States
  <2> QED BY <2>1, <2>2, <2>3, <2>4, <2>5, <2>6, <2>7, <2>8
<1>11. ASSUME NEW n \in Nodes, TaskReturns(n) PROVE IInv'
  <2>1. TypeOK'
    BY <1>11 DEF TaskReturns, TypeOK, dbVars, nodeVars, Lock, Free, Stages, Ops,
        States
  <2>2. Control'
    BY <1>11 DEF TaskReturns, TypeOK, Control, dbVars, nodeVars, Stages, Ops, States
  <2>3. Requests'
    BY <1>11 DEF TaskReturns, TypeOK, Control, Requests, Bounded, dbVars, nodeVars,
        Lock, Free, Stages, Ops, States
  <2>4. Bounded'
    BY <1>11 DEF TaskReturns, TypeOK, Bounded, LateIsHarmless, dbVars, nodeVars, Lock,
        Free
  <2>5. Distinct'
    BY <1>11 DEF TaskReturns, TypeOK, Control, Requests, Bounded, Distinct, Mine,
        dbVars, nodeVars, Lock, Free
  <2>6. LiveGuardOwnsRow'
    BY <1>11 DEF TaskReturns, TypeOK, Control, Requests, Bounded, Distinct,
        LiveGuardOwnsRow, GrantedOwnsRow, LateIsHarmless, Live, Granted, Mine, dbVars,
        nodeVars, Lock, Free
  <2>7. GrantedOwnsRow'
    <3>1. ASSUME NEW m \in Nodes, Granted(m)' PROVE Granted(m) /\ want'[m] = want[m]
      BY <1>11, <3>1 DEF TaskReturns, Granted, TypeOK, dbVars, nodeVars
    <3>2. row' = row
      BY <1>11 DEF TaskReturns, dbVars
    <3> QED BY <3>1, <3>2, GrantedKept
  <2>8. LateIsHarmless'
    BY <1>11 DEF TaskReturns, TypeOK, Control, Requests, Bounded, Distinct,
        LateIsHarmless, Mine, dbVars, nodeVars, Lock, Free, Stages, Ops, States
  <2> QED BY <2>1, <2>2, <2>3, <2>4, <2>5, <2>6, <2>7, <2>8
<1>12. ASSUME NEW n \in Nodes, Release(n) PROVE IInv'
  <2>1. TypeOK'
    <3>1. CASE Leave(n)
      BY <1>12, <3>1 DEF Release, Begin, Leave, TypeOK, Lock, Free, Stages, Ops, States, dbVars
    <3>2. CASE UNCHANGED guard
      BY <1>12, <3>2 DEF Release, Begin, Leave, TypeOK, Lock, Free, Stages, Ops, States, dbVars
    <3> QED BY <1>12, <3>1, <3>2 DEF Release, Begin
  <2>2. Control'
    BY <1>12 DEF Release, Begin, Leave, TypeOK, Control, dbVars, nodeVars, Stages, Ops,
        States
  <2>3. Requests'
    BY SMTT(30), <1>12 DEF Release, Begin, Leave, TypeOK, Control, Requests, Bounded, dbVars,
        nodeVars, Lock, Free, Stages, Ops, States
  <2>4. Bounded'
    BY <1>12 DEF Release, Begin, Leave, TypeOK, Bounded, LateIsHarmless, dbVars,
        nodeVars, Lock, Free
  <2>5. Distinct'
    BY <1>12 DEF Release, Begin, Leave, TypeOK, Control, Requests, Bounded, Distinct,
        Mine, dbVars, nodeVars, Lock, Free
  <2>6. LiveGuardOwnsRow'
    <3> SUFFICES ASSUME NEW m \in Nodes, Live(m)'
                 PROVE  row.token = guard'[m].token /\ row.expire >= guard'[m].expire
      BY <1>12 DEF Release, LiveGuardOwnsRow, dbVars
    <3>1. Live(m) /\ guard'[m] = guard[m]
      BY <1>12 DEF Release, Begin, Leave, Control, TypeOK, Live, Ops
    <3> QED BY <3>1 DEF LiveGuardOwnsRow
  <2>7. GrantedOwnsRow'
    <3>1. ASSUME NEW m \in Nodes, Granted(m)' PROVE Granted(m) /\ want'[m] = want[m]
      BY <1>12, <3>1 DEF Release, Begin, Leave, Granted, TypeOK, dbVars, nodeVars
    <3>2. row' = row
      BY <1>12 DEF Release, dbVars
    <3> QED BY <3>1, <3>2, GrantedKept
  <2>8. LateIsHarmless'
    BY <1>12 DEF Release, Begin, Leave, TypeOK, Control, Requests, Bounded, Distinct,
        LateIsHarmless, Mine, dbVars, nodeVars, Lock, Free, Stages, Ops, States
  <2> QED BY <2>1, <2>2, <2>3, <2>4, <2>5, <2>6, <2>7, <2>8
<1>13. ASSUME NEW n \in Nodes, Released(n) PROVE IInv'
  <2>1. TypeOK'
    BY <1>13 DEF Released, Leave, Done, TypeOK, dbVars, nodeVars, Lock, Free, Stages,
        Ops, States
  <2>2. Control'
    BY <1>13 DEF Released, Leave, Done, TypeOK, Control, dbVars, nodeVars, Stages, Ops,
        States
  <2>3. Requests'
    BY <1>13 DEF Released, Leave, Done, TypeOK, Control, Requests, Bounded, dbVars,
        nodeVars, Lock, Free, Stages, Ops, States
  <2>4. Bounded'
    BY <1>13 DEF Released, Leave, Done, TypeOK, Bounded, LateIsHarmless, dbVars,
        nodeVars, Lock, Free
  <2>5. Distinct'
    BY <1>13 DEF Released, Leave, Done, TypeOK, Control, Requests, Bounded, Distinct,
        Mine, dbVars, nodeVars, Lock, Free
  <2>6. LiveGuardOwnsRow'
    BY <1>13 DEF Released, Leave, Done, TypeOK, Control, Requests, Bounded, Distinct,
        LiveGuardOwnsRow, GrantedOwnsRow, LateIsHarmless, Live, Granted, Mine, dbVars,
        nodeVars, Lock, Free
  <2>7. GrantedOwnsRow'
    <3>1. ASSUME NEW m \in Nodes, Granted(m)' PROVE Granted(m) /\ want'[m] = want[m]
      BY <1>13, <3>1 DEF Released, Leave, Done, Granted, TypeOK, dbVars, nodeVars
    <3>2. row' = row
      BY <1>13 DEF Released, dbVars
    <3> QED BY <3>1, <3>2, GrantedKept
  <2>8. LateIsHarmless'
    BY <1>13 DEF Released, Leave, Done, TypeOK, Control, Requests, Bounded, Distinct,
        LateIsHarmless, Mine, dbVars, nodeVars, Lock, Free, Stages, Ops, States
  <2> QED BY <2>1, <2>2, <2>3, <2>4, <2>5, <2>6, <2>7, <2>8
<1>14. ASSUME NEW n \in Nodes, Crash(n) PROVE IInv'
  <2>1. TypeOK'
    BY <1>14 DEF Crash, GiveUp, Leave, Done, TypeOK, dbVars, nodeVars, Lock, Free,
        Stages, Ops, States
  <2>2. Control'
    BY <1>14 DEF Crash, GiveUp, Leave, Done, TypeOK, Control, dbVars, nodeVars, Stages,
        Ops, States
  <2>3. Requests'
    BY <1>14 DEF Crash, GiveUp, Leave, Done, TypeOK, Control, Requests, Bounded,
        dbVars, nodeVars, Lock, Free, Stages, Ops, States
  <2>4. Bounded'
    BY <1>14 DEF Crash, GiveUp, Leave, Done, TypeOK, Bounded, LateIsHarmless, dbVars,
        nodeVars, Lock, Free
  <2>5. Distinct'
    BY <1>14 DEF Crash, GiveUp, Leave, Done, TypeOK, Control, Requests, Bounded,
        Distinct, Mine, dbVars, nodeVars, Lock, Free
  <2>6. LiveGuardOwnsRow'
    BY <1>14 DEF Crash, GiveUp, Leave, Done, TypeOK, Control, Requests, Bounded,
        Distinct, LiveGuardOwnsRow, GrantedOwnsRow, LateIsHarmless, Live, Granted,
        Mine, dbVars, nodeVars, Lock, Free
  <2>7. GrantedOwnsRow'
    <3>1. ASSUME NEW m \in Nodes, Granted(m)' PROVE Granted(m) /\ want'[m] = want[m]
      BY <1>14, <3>1 DEF Crash, GiveUp, Leave, Done, Granted, TypeOK, dbVars, nodeVars
    <3>2. row' = row
      BY <1>14 DEF Crash, dbVars
    <3> QED BY <3>1, <3>2, GrantedKept
  <2>8. LateIsHarmless'
    BY <1>14 DEF Crash, GiveUp, Leave, Done, TypeOK, Control, Requests, Bounded,
        Distinct, LateIsHarmless, Mine, dbVars, nodeVars, Lock, Free, Stages, Ops,
        States
  <2> QED BY <2>1, <2>2, <2>3, <2>4, <2>5, <2>6, <2>7, <2>8
<1>15. CASE Tick
  <2>1. TypeOK'
    BY <1>15 DEF Tick, TypeOK, dbVars, nodeVars, Lock, Free
  <2>2. Control'
    BY <1>15 DEF Tick, TypeOK, Control, dbVars, nodeVars, Lock, Free
  <2>3. Requests'
    BY <1>15 DEF Tick, TypeOK, Control, Requests, Bounded, dbVars, nodeVars, Lock, Free
  <2>4. Bounded'
    BY <1>15 DEF Tick, TypeOK, Bounded, LateIsHarmless, dbVars, nodeVars, Lock, Free
  <2>5. Distinct'
    BY <1>15 DEF Tick, TypeOK, Control, Requests, Bounded, Distinct, Mine, dbVars, nodeVars, Lock, Free
  <2>6. LiveGuardOwnsRow'
    BY <1>15 DEF Tick, TypeOK, Control, Requests, Bounded, Distinct, LiveGuardOwnsRow, GrantedOwnsRow, LateIsHarmless, Live, Granted, Mine, dbVars, nodeVars, Lock, Free
  <2>7. GrantedOwnsRow'
    BY <1>15 DEF Tick, TypeOK, Control, Requests, Bounded, Distinct, LiveGuardOwnsRow, GrantedOwnsRow, LateIsHarmless, Live, Granted, Mine, dbVars, nodeVars, Lock, Free
  <2>8. LateIsHarmless'
    BY <1>15 DEF Tick, TypeOK, Control, Requests, Bounded, Distinct, LateIsHarmless, Mine, dbVars, nodeVars, Lock, Free
  <2> QED BY <2>1, <2>2, <2>3, <2>4, <2>5, <2>6, <2>7, <2>8
<1>16. CASE ExecuteLate
  <2>1. TypeOK'
    BY <1>16 DEF ExecuteLate, TypeOK, Matches, nodeVars, Lock, Free
  <2>2. Control'
    BY <1>16 DEF ExecuteLate, TypeOK, Control, Matches, nodeVars, Lock, Free
  <2>3. Requests'
    BY <1>16 DEF ExecuteLate, TypeOK, Control, Requests, Bounded, Matches, nodeVars, Lock, Free
  <2>4. Bounded'
    BY <1>16 DEF ExecuteLate, TypeOK, Bounded, LateIsHarmless, Matches, nodeVars, Lock, Free
  <2>5. Distinct'
    BY <1>16 DEF ExecuteLate, TypeOK, Control, Requests, Bounded, Distinct, Mine, Matches, nodeVars, Lock, Free
  <2>6. LiveGuardOwnsRow'
    BY SMTT(30), <1>16 DEF ExecuteLate, TypeOK, Control, Requests, Bounded, Distinct, LiveGuardOwnsRow, GrantedOwnsRow, LateIsHarmless, Live, Granted, Mine, Matches, nodeVars, Lock, Free
  <2>7. GrantedOwnsRow'
    BY SMTT(30), <1>16 DEF ExecuteLate, TypeOK, Control, Requests, Bounded, Distinct, LiveGuardOwnsRow, GrantedOwnsRow, LateIsHarmless, Live, Granted, Mine, Matches, nodeVars, Lock, Free
  <2>8. LateIsHarmless'
    BY <1>16 DEF ExecuteLate, TypeOK, Control, Requests, Bounded, Distinct, LateIsHarmless, Mine, Matches, nodeVars, Lock, Free
  <2> QED BY <2>1, <2>2, <2>3, <2>4, <2>5, <2>6, <2>7, <2>8
<1>17. CASE UNCHANGED vars
  BY <1>17
  DEF vars, dbVars, nodeVars, TypeOK, Control, Requests, Bounded, Distinct, Mine,
      LiveGuardOwnsRow, Live, GrantedOwnsRow, Granted, LateIsHarmless
<1> QED
  BY <1>1, <1>2, <1>3, <1>4, <1>5, <1>6, <1>7, <1>8, <1>9, <1>10, <1>11, <1>12, <1>13, <1>14, <1>15, <1>16, <1>17
  DEF Next, Step

LEMMA Invariance == Spec => []IInv
BY InitInvariant, NextInvariant, PTL DEF Spec

--------------------------------------------------------------------------------
(* The variables keep their types. *)
THEOREM TypeCorrect == Spec => []TypeOK
BY Invariance, PTL DEF IInv

(* A node whose task runs under an unexpired guard owns the lock row.       *)
THEOREM LiveGuardsOwnTheRow == Spec => []LiveGuardOwnsRow
BY Invariance, PTL DEF IInv

(* At most one node runs the task under a guard that has not expired.       *)
THEOREM MutualExclusion == Spec => []AtMostOneLive
<1>1. IInv => AtMostOneLive
  <2> SUFFICES ASSUME IInv, NEW m \in Nodes, NEW n \in Nodes, Live(m), Live(n)
               PROVE  m = n
    BY DEF AtMostOneLive
  <2>1. guard[m].token = row.token /\ guard[n].token = row.token
    BY DEF IInv, LiveGuardOwnsRow
  <2>2. Mine(m, row.token) /\ Mine(n, row.token) /\ row.token \in Nat \ {0}
    BY <2>1 DEF IInv, Control, Requests, Mine, Live, TypeOK, Lock
  <2> QED BY <2>2 DEF IInv, Distinct
<1> QED BY <1>1, Invariance, PTL

\* The steps that write the row, and what they may write.
LEMMA RowSteps ==
    ASSUME IInv, [Next]_vars, row' # row
    PROVE  \/ \E n \in Nodes :
                /\ st[n] = "sent" /\ row = guard[n] /\ row' = want[n]
                /\ op[n] \in {"take", "ping", "release"}
           \/ \E r \in late : row = r.from /\ row' = r.to
<1>1. ASSUME NEW n \in Nodes, Execute(n)
      PROVE  /\ st[n] = "sent" /\ row = guard[n] /\ row' = want[n]
             /\ op[n] \in {"take", "ping", "release"}
  BY <1>1 DEF Execute, Matches, IInv, TypeOK, Control, Ops
<1>2. CASE ExecuteLate
  BY <1>2 DEF ExecuteLate, Matches
<1> QED
  BY <1>1, <1>2
  DEF Next, Step, Tick, CreateLock, Send, Refused, AnswerLost, AcquireByName, Acquired, Ping,
      Pinged, Cancel, TaskReturns, Release, Released, Crash, vars, dbVars

(* An unexpired lock is never taken over from its owner.                    *)
THEOREM LocksAreNotStolen == Spec => NoStealing
<1>1. ASSUME IInv, [Next]_vars, row'.token # row.token, row.token # 0, row'.token # 0
      PROVE  row.expire < now
  <2>1. CASE \E n \in Nodes : /\ st[n] = "sent" /\ row = guard[n] /\ row' = want[n]
                             /\ op[n] \in {"take", "ping", "release"}
    BY <1>1, <2>1 DEF IInv, Requests, Free
  <2>2. CASE \E r \in late : row = r.from /\ row' = r.to
    BY <1>1, <2>2 DEF IInv, LateIsHarmless, Free
  <2> QED BY <1>1, <2>1, <2>2, RowSteps
<1> QED BY <1>1, Invariance, PTL DEF Spec, NoStealing

(* The lock row is freed only when the task that ran under it has returned. *)
THEOREM LocksOutliveTasks == Spec => ReleasedAfterTask
<1>1. ASSUME IInv, [Next]_vars, row.token # 0, row'.token = 0,
             NEW m \in Nodes, task[m], guard[m].token = row.token
      PROVE  FALSE
  <2>0. Mine(m, row.token) /\ row.token \in Nat \ {0}
    BY <1>1 DEF IInv, Control, Mine, TypeOK, Lock
  <2>1. ASSUME NEW n \in Nodes, st[n] = "sent", row = guard[n], row' = want[n],
               op[n] \in {"take", "ping", "release"}
        PROVE  FALSE
    <3>1. op[n] = "release"
      BY <1>1, <2>1 DEF IInv, Requests
    <3>2. Mine(n, row.token) /\ ~task[n]
      BY <1>1, <2>1, <3>1 DEF IInv, Control, Mine
    <3> QED BY <1>1, <2>0, <3>2 DEF IInv, Distinct
  <2>2. ASSUME NEW r \in late, row = r.from, row' = r.to
        PROVE  FALSE
    BY <1>1, <2>0, <2>2 DEF IInv, LateIsHarmless
  <2> QED BY <1>1, <2>1, <2>2, RowSteps
<1>2. IInv /\ [Next]_vars =>
        [row.token # 0 /\ row'.token = 0
            => \A n \in Nodes : task[n] => guard[n].token # row.token]_vars
  BY <1>1
<1> QED BY <1>2, Invariance, PTL DEF Spec, ReleasedAfterTask
================================================================================
