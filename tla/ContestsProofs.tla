---------------------------- MODULE ContestsProofs ----------------------------
(***************************************************************************)
(* A contest for any number of requests, accounts, groups and rows.        *)
(*                                                                         *)
(* A request carries the participant it has read to its second half, while *)
(* others write and the contest is moved: the invariant says what that     *)
(* participant still has in common with its row, and what it knew of the   *)
(* solutions before it when the quota let it through.                      *)
(***************************************************************************)
EXTENDS Contests, TLAPS, FiniteSetTheorems, NaturalsInduction, WellFoundedInduction

--------------------------------------------------------------------------------
(* The invariant *)

Accounts == Users \cup GroupAccounts
UniqueIds(table) == \A p, q \in table : p.id = q.id => p = q
Ids == 1..lastId

ClockTyped == contest.begin \in Nat /\ now \in 1..MaxTime /\ lastId \in Nat /\ cached \subseteq Ids
ProblemsTyped ==
    contestProblem \subseteq [id : Ids, code : ProblemCodes] /\ UniqueIds(contestProblem)
ParticipantsTyped ==
    /\ participant \subseteq [id : Ids, account : Accounts, kind : ParticipantKinds, begin : Nat]
    /\ UniqueIds(participant)
SolutionsTyped ==
    /\ solution \subseteq
           [id : Ids, participant : Ids, problem : Ids, create : 1..now, report : {0} \cup Ids,
            seen : SUBSET Ids]
    /\ UniqueIds(solution) /\ IsFiniteSet(solution)
TasksTyped ==
    /\ judgeTask \subseteq
           [id : Ids, solution : Ids, status : {"open", "succeeded", "failed"}, written : BOOLEAN]
    /\ UniqueIds(judgeTask)
MessagesTyped ==
    message \subseteq [id : Ids, kind : {"question", "answer", "regular"},
                       participant : {0} \cup Ids, parent : {0} \cup Ids]
RowsTyped ==
    /\ ClockTyped /\ ProblemsTyped /\ ParticipantsTyped /\ SolutionsTyped
    /\ TasksTyped /\ MessagesTyped

\* What a participant that a request has read has in common with its row: its account
\* and kind, and its time, if it was set already.
SameAccount(p) == \A q \in participant : q.id = p.id => q.account = p.account /\ q.kind = p.kind
KnowsBegin(p) == \A q \in participant : q.id = p.id /\ p.begin # 0 => q.begin # 0
PendingParticipant(q) ==
    /\ q.row.problem \in {0} \cup Ids
    /\ q.row.row \in [id : {0} \cup Ids, account : Users, kind : ParticipantKinds, begin : Nat]
    /\ q.pc # "write" => q.row.row.id # 0
    /\ q.row.row.id # 0 => SameAccount(q.row.row)
    /\ q.op = "submit" /\ q.row.row.kind = "regular" => q.row.row.begin # 0
    /\ q.pc = "write" => \/ q.row.was = q.row.row /\ (q.row.row.id # 0 => KnowsBegin(q.row.row))
                         \/ q.row.was # q.row.row /\ q.op = "submit" /\ q.row.row.begin # 0
    /\ q.pc # "write" /\ q.op = "submit" => KnowsBegin(q.row.row)
    /\ q.pc = "allowed" => q.row.seen \subseteq Ids
RequestOK(q) ==
    /\ q = [pc |-> q.pc, op |-> q.op, row |-> q.row, now |-> q.now]
    /\ q.pc \in {"idle", "write", "saved", "allowed"} /\ (q.pc = "idle" <=> q.op = "none")
    /\ q.pc # "idle" => q.now \in 1..now
    /\ q.pc \in {"saved", "allowed"} => q.op \in {"submit", "question"}
    /\ q.op = "contest" => q.row \in Configs
    /\ q.op = "create problem" => q.row \in [id : {0}, code : ProblemCodes]
    /\ q.op = "update problem" => q.row \in [id : Ids, code : ProblemCodes]
    /\ q.op = "create participant" =>
           /\ q.row \in [id : {0}, account : Accounts, kind : ParticipantKinds, begin : Nat]
           /\ q.row.account \in GroupAccounts => q.row.kind # "virtual" /\ q.row.begin = 0
    /\ q.op = "rejudge" => q.row.id \in Ids
    /\ q.op = "message" =>
           /\ q.row \in [id : {0}, kind : {"answer", "regular"},
                         participant : {0} \cup Ids, parent : {0} \cup Ids]
           /\ q.row.kind = "answer" =>
                  \E m \in message : m.kind # "regular" /\ m.participant = q.row.participant
    /\ q.op \in {"submit", "question"} => PendingParticipant(q)
RequestsOK ==
    /\ DOMAIN contestClient = ContestClients
    /\ \A c \in ContestClients : RequestOK(contestClient[c])

\* The parts of ContestRowsConsistent.
CodesUnique == \A p, q \in contestProblem : p.code = q.code => p = q
KindsUnique == \A p, q \in participant : p.account = q.account /\ p.kind = q.kind => p = q
SolutionsRefer ==
    \A s \in solution :
        RowsWith(participant, s.participant) # {} /\ RowsWith(contestProblem, s.problem) # {}

\* Groups are not virtual, and their members take part in the time of the contest.
GroupsUnstarted ==
    \A p \in participant : p.account \in GroupAccounts => p.kind # "virtual" /\ p.begin = 0
\* A regular participant that has submitted knows when it began.
SubmittedHasBegun ==
    \A s \in solution : \A p \in participant :
        p.id = s.participant /\ p.kind = "regular" => p.begin # 0
\* Who has asked is a user that still takes part.
Asked(i) == \E p \in participant : p.id = i /\ p.account \in Users
QuestionsKeepAsker == \A m \in message : m.kind # "regular" => Asked(m.participant)
\* The newest task of a solution that wrote its report is not undone.
Newest(t) == \A r \in judgeTask : r.solution = t.solution => r.id <= t.id
WrittenIsReported ==
    \A t \in judgeTask :
        /\ t.status = "succeeded" => t.written
        /\ t.written /\ Newest(t) => \A s \in RowsWith(solution, t.solution) : s.report # 0

\* Of the solutions that were seen, those of a participant in the window before t are
\* less than the quota, when a request was let through and in the row that it makes.
QuotaOrOne == IF QuotaAmount = 0 THEN 1 ELSE QuotaAmount
Counted(i, seen, t) ==
    {k \in seen : \E s \in solution :
        s.id = k /\ s.participant = i /\ s.create + QuotaWindow > t /\ s.create <= t}
Within(i, seen, t) == Cardinality(Counted(i, seen, t)) < QuotaOrOne
LetThrough(q) == q.pc = "allowed" /\ q.op = "submit" /\ q.row.row.kind # "manager"
RequestsWithin ==
    \A c \in ContestClients : LetThrough(contestClient[c]) =>
        Within(contestClient[c].row.row.id, contestClient[c].row.seen, contestClient[c].now)
SolutionsWithin ==
    \A s \in solution, p \in participant : p.id = s.participant /\ p.kind # "manager" =>
        Within(s.participant, s.seen, s.create)

IInv ==
    /\ RowsTyped /\ RequestsOK /\ CodesUnique /\ KindsUnique /\ SolutionsRefer
    /\ GroupsUnstarted /\ SubmittedHasBegun /\ QuestionsKeepAsker /\ WrittenIsReported
    /\ RequestsWithin /\ SolutionsWithin

--------------------------------------------------------------------------------
(* Operators of the model *)

\* Nonempty sets of numbers have a least one.
LEMMA LeastNumber ==
  ASSUME NEW S, S \subseteq Nat, S # {}
  PROVE  \E x \in S : \A y \in S : x <= y
<1>1. PICK x \in S : \A y \in S : ~ (<<y, x>> \in OpToRel(<, Nat))
  BY NatLessThanWellFounded, WFMin
<1>2. ASSUME NEW y \in S PROVE x <= y
  <2>1. x \in Nat /\ y \in Nat /\ ~(y < x)
    BY <1>1 DEF OpToRel
  <2> QED BY <2>1
<1> QED BY <1>2

\* No candidate comes before some one.
LEMMA FirstIsLeast ==
  ASSUME NEW S, S # {}, \A a \in S : a.at \in Nat /\ a.id \in Nat
  PROVE  \E a \in S : \A b \in S : ~Comes(b, a)
<1>1. PICK ats : ats = {a.at : a \in S}
  OBVIOUS
<1>2. ats \subseteq Nat /\ ats # {}
  BY <1>1
<1>3. PICK x \in ats : \A y \in ats : x <= y
  BY <1>2, LeastNumber
<1>4. PICK ids : ids = {a.id : a \in {b \in S : b.at = x}}
  OBVIOUS
<1>5. ids \subseteq Nat /\ ids # {}
  BY <1>1, <1>3, <1>4
<1>6. PICK i \in ids : \A j \in ids : i <= j
  BY <1>5, LeastNumber
<1>7. PICK a \in S : a.at = x /\ a.id = i
  BY <1>4, <1>6
<1>8. ASSUME NEW b \in S PROVE ~Comes(b, a)
  <2>1. b.at \in ats /\ x <= b.at
    BY <1>1, <1>3
  <2>2. b.at = x => b.id \in ids /\ i <= b.id
    BY <1>4, <1>6
  <2>3. a.at \in Nat /\ a.id \in Nat /\ b.at \in Nat /\ b.id \in Nat
    OBVIOUS
  <2> QED BY <1>7, <2>1, <2>2, <2>3 DEF Comes
<1> QED BY <1>7, <1>8

\* Some candidate comes first (BuildContext takes the first that is able).
LEMMA FirstIsOne ==
  ASSUME NEW S, S # {}, \A a \in S : a.at \in Nat /\ a.id \in Nat
  PROVE  FirstOf(S) \in S
BY FirstIsLeast DEF FirstOf

\* The parts of a context.
Own(u) == RowsOf(participant, u, 0)
OfGroups(u) == GroupRows(participant, GroupsOf[u])
Has(u) == Kinds(Own(u)) \cup (Kinds(OfGroups(u)) \cap MemberKinds)
MayRegister(u) == contest.registration /\ "register contests" \in AccountPermissions[u]
Stage == ParticipantStage(contest, NoParticipant, now)
AsOwner(u) == (contest.owner = u) /\ "manager" \notin Has(u)
AsUpsolving(u) ==
    contest.upsolving /\ ("regular" \in Has(u) \/ MayRegister(u)) /\ "upsolving" \notin Has(u)
        /\ Stage = "finished"
Members(u) == GroupParticipants(contest, Own(u), OfGroups(u), u, now)
Candidates(u) ==
    Own(u) \cup Members(u)
        \cup (IF AsOwner(u) THEN {Added(Len(GroupsOf[u]) + 1, u, "manager")} ELSE {})
        \cup (IF AsUpsolving(u) THEN {Added(Len(GroupsOf[u]) + 2, u, "upsolving")} ELSE {})
Able(u) ==
    {a \in Candidates(u) :
        ~(disableUpsolving /\ a.row.kind = "upsolving") /\ CheckEffectiveParticipant(contest, a.row, now)}

\* A context consists of these parts.
LEMMA ContextParts ==
  ASSUME NEW u
  PROVE  /\ Context(u).cfg = contest /\ Context(u).now = now
         /\ Context(u).effective =
                IF Able(u) = {} THEN NoParticipant ELSE FirstOf(Able(u)).row
BY DEF Context, BuildContext, Own, OfGroups, Has, MayRegister, Stage, AsOwner, AsUpsolving,
       Members, Candidates, Able

\* Its participants are those of the candidates.
LEMMA ContextParticipants ==
  ASSUME NEW u
  PROVE  Context(u).participants = {a.row : a \in Candidates(u)}
BY DEF Context, BuildContext, Own, OfGroups, Has, MayRegister, Stage, AsOwner, AsUpsolving,
       Members, Candidates

\* Its permissions are those of the account, of the rows, of the owner, and of what the contest offers.
ToRegister(u) == "regular" \notin Has(u) /\ Stage = "not started" /\ MayRegister(u)
ToBeVirtual(u) ==
    "virtual" \notin Has(u) /\ Stage /= "not planned" /\ MayRegister(u) /\ contest.virtual
LEMMA ContextPermissions ==
  ASSUME NEW u
  PROVE  \A x : x \in Context(u).permissions <=>
            \/ x \in AccountPermissions[u]
            \/ x \in RowPermissions(contest, Own(u), now)
            \/ x \in RowPermissions(contest, OfGroups(u), now) /\ x # "deregister"
            \/ contest.owner = u /\ x = "delete"
            \/ AsOwner(u) /\ x \in ManagerPermissions
            \/ ToRegister(u) /\ x \in {"observe", "register"}
            \/ ToBeVirtual(u) /\ x \in {"observe", "register virtual"}
            \/ AsUpsolving(u) /\ x \in UpsolvingPermissions(Stage, contest)
            \/ (contest.observing /\ Candidates(u) = {}) /\ x \in ObserverPermissions(Stage, contest)
<1>1. Context(u).permissions =
                AccountPermissions[u] \cup RowPermissions(contest, Own(u), now)
                \cup (RowPermissions(contest, OfGroups(u), now) \ {"deregister"})
                \cup (IF contest.owner = u THEN {"delete"} ELSE {})
                \cup (IF AsOwner(u) THEN ManagerPermissions ELSE {})
                \cup (IF ToRegister(u) THEN {"observe", "register"} ELSE {})
                \cup (IF ToBeVirtual(u) THEN {"observe", "register virtual"} ELSE {})
                \cup (IF AsUpsolving(u) THEN UpsolvingPermissions(Stage, contest) ELSE {})
                \cup (IF contest.observing /\ Candidates(u) = {}
                      THEN ObserverPermissions(Stage, contest) ELSE {})
  BY DEF Context, BuildContext, Own, OfGroups, Has, MayRegister, Stage, AsOwner, AsUpsolving,
         Members, Candidates, ToRegister, ToBeVirtual
<1> QED BY <1>1

\* Own candidates are rows, and all of them.
LEMMA OwnRows ==
  ASSUME NEW u
  PROVE  /\ \A a \in Own(u) :
                /\ a.row \in participant /\ a.row.account = u
                /\ a.at = 0 /\ a.id = a.row.id
         /\ \A p \in participant : p.account = u => \E a \in Own(u) : a.row = p
<1>1. ASSUME NEW a \in Own(u)
      PROVE  a.row \in participant /\ a.row.account = u /\ a.at = 0 /\ a.id = a.row.id
  <2>1. PICK p \in participant : p.account = u /\ a = [at |-> 0, id |-> p.id, row |-> p]
    BY <1>1 DEF Own, RowsOf
  <2> QED BY <2>1
<1>2. ASSUME NEW p \in participant, p.account = u PROVE \E a \in Own(u) : a.row = p
  <2>1. [at |-> 0, id |-> p.id, row |-> p] \in Own(u)
    BY <1>2 DEF Own, RowsOf
  <2> QED BY <2>1
<1> QED BY <1>1, <1>2

\* The candidates of groups are rows of one of the groups.
LEMMA RowsOfGroups ==
  ASSUME NEW u \in Users, NEW a \in OfGroups(u)
  PROVE  /\ a.at \in DOMAIN GroupsOf[u] /\ a.at \in Nat
         /\ a = [at |-> a.at, id |-> a.row.id, row |-> a.row]
         /\ a.row \in participant /\ a.row.account \in GroupAccounts
<1>1. PICK g \in DOMAIN GroupsOf[u] : a \in RowsOf(participant, GroupsOf[u][g], g)
  BY DEF OfGroups, GroupRows
<1>2. PICK p \in participant : p.account = GroupsOf[u][g] /\ a = [at |-> g, id |-> p.id, row |-> p]
  BY <1>1 DEF RowsOf
<1>3. GroupsOf[u][g] \in GroupAccounts
  BY DEF GroupAccounts
<1>4. DOMAIN GroupsOf[u] \subseteq Nat
  BY ContestAssumption
<1> QED BY <1>1, <1>2, <1>3, <1>4

\* A member is the row of a group with the account of the user and no ID.
LEMMA MemberRows ==
  ASSUME RowsTyped, NEW u \in Users, NEW a \in Members(u)
  PROVE  \E b \in OfGroups(u) :
            /\ a.at = b.at /\ a.id = b.id /\ a.row = AsMember(b.row, u)
            /\ b.row.kind \in MemberKinds \ Kinds(Own(u))
            /\ \A c \in OfGroups(u) : c.row.kind = b.row.kind => ~Comes(c, b)
            /\ ParticipantStage(contest, b.row, now) \in MemberStages(b.row.kind)
<1>1. PICK b \in OfGroups(u) :
            /\ b.row.kind \in MemberKinds \ Kinds(Own(u))
            /\ \A c \in OfGroups(u) : c.row.kind = b.row.kind => ~Comes(c, b)
            /\ ParticipantStage(contest, b.row, now) \in MemberStages(b.row.kind)
            /\ a = [at |-> b.at, id |-> b.id, row |-> AsMember(b.row, u)]
  BY DEF Members, GroupParticipants
<1>3. a.at = b.at /\ a.id = b.id /\ a.row = AsMember(b.row, u)
  BY <1>1
<1> QED BY <1>1, <1>3

\* The type of a participant's row.
LEMMA RowType ==
  ASSUME RowsTyped, NEW p \in participant
  PROVE  /\ p = [id |-> p.id, account |-> p.account, kind |-> p.kind, begin |-> p.begin]
         /\ p.id \in 1..lastId /\ p.id \in Nat /\ p.id # 0 /\ p.account \in Accounts
         /\ p.kind \in ParticipantKinds /\ p.begin \in Nat /\ lastId \in Nat
<1>1. p \in [id : 1..lastId, account : Accounts, kind : ParticipantKinds, begin : Nat]
      /\ lastId \in Nat
  BY DEF RowsTyped, ParticipantsTyped, ClockTyped, Ids
<1> QED BY <1>1

\* The participant that a member becomes.
LEMMA AsMemberFields ==
  ASSUME RowsTyped, NEW p \in participant, NEW u
  PROVE  AsMember(p, u) = [id |-> 0, account |-> u, kind |-> p.kind, begin |-> p.begin]
BY DEF AsMember

\* The participant that the contest adds.
LEMMA AddedFields ==
  ASSUME NEW at, NEW u, NEW kind
  PROVE  Added(at, u, kind) =
           [at |-> at, id |-> 0, row |-> [id |-> 0, account |-> u, kind |-> kind, begin |-> 0]]
BY DEF Added

\* A candidate is an own row, or has no ID.
LEMMA CandidateFields ==
  ASSUME RowsTyped, NEW u \in Users, NEW a \in Candidates(u)
  PROVE  /\ a.at \in Nat /\ a.id \in Nat
         /\ \/ a.row \in participant /\ a.row.account = u
            \/ a.row \in [id : {0}, account : {u}, kind : MemberKinds, begin : Nat]
<1>1. Len(GroupsOf[u]) \in Nat
  BY ContestAssumption
<1>2. CASE a \in Own(u)
  BY <1>2, OwnRows, RowType
<1>3. CASE a \in Members(u)
  <2>1. PICK b \in OfGroups(u) : a.at = b.at /\ a.id = b.id /\ a.row = AsMember(b.row, u)
                                 /\ b.row.kind \in MemberKinds
    BY <1>3, MemberRows
  <2>2. b.at \in Nat /\ b.row \in participant /\ b.id = b.row.id
    BY RowsOfGroups
  <2>3. b.id \in Nat /\ b.row.begin \in Nat
    BY <2>2, RowType
  <2>4. a.row = [id |-> 0, account |-> u, kind |-> b.row.kind, begin |-> b.row.begin]
    BY <2>1, <2>2, AsMemberFields
  <2> QED BY <2>1, <2>2, <2>3, <2>4
<1>4. CASE a = Added(Len(GroupsOf[u]) + 1, u, "manager")
  BY <1>1, <1>4, AddedFields DEF MemberKinds
<1>5. CASE a = Added(Len(GroupsOf[u]) + 2, u, "upsolving")
  BY <1>1, <1>5, AddedFields DEF MemberKinds
<1> QED BY <1>2, <1>3, <1>4, <1>5 DEF Candidates

\* The effective participant is the row of a candidate that is able.
LEMMA EffectiveIsAble ==
  ASSUME RowsTyped, NEW u \in Users, Able(u) # {}
  PROVE  \E a \in Candidates(u) :
            a.row = Context(u).effective /\ CheckEffectiveParticipant(contest, a.row, now)
<1>1. Able(u) \subseteq Candidates(u)
  BY DEF Able
<1>2. \A a \in Able(u) : a.at \in Nat /\ a.id \in Nat
  BY <1>1, CandidateFields
<1>3. FirstOf(Able(u)) \in Able(u)
  BY <1>2, FirstIsOne
<1>4. Context(u).effective = FirstOf(Able(u)).row
  BY ContextParts
<1> QED BY <1>3, <1>4 DEF Able

\* Without one there is no participant, and nothing it may do.
LEMMA NobodyIsEffective ==
  ASSUME NEW u, Able(u) = {}
  PROVE  Context(u).effective = NoParticipant /\ EffectivePermissions(Context(u)) = {}
<1>1. Context(u).effective = NoParticipant
  BY ContextParts
<1>2. NoParticipant.kind \notin {"regular", "upsolving", "manager", "observer", "virtual"}
  BY DEF NoParticipant
<1>3. ASSUME NEW p, p.kind \notin {"regular", "upsolving", "manager", "observer", "virtual"},
             NEW cfg, NEW t
      PROVE  ParticipantPermissions(cfg, p, t) = {}
  BY <1>3, Zenon DEF ParticipantPermissions
<1> QED BY <1>1, <1>2, <1>3 DEF EffectivePermissions

\* The permissions of a participant depend on its kind and its time only.
LEMMA SameTimeSamePermissions ==
  ASSUME NEW p, NEW q, p.kind = q.kind,
         ParticipantBeginTime(contest, p) = ParticipantBeginTime(contest, q)
  PROVE  /\ ParticipantStage(contest, p, now) = ParticipantStage(contest, q, now)
         /\ ParticipantPermissions(contest, p, now) = ParticipantPermissions(contest, q, now)
<1>1. ParticipantStage(contest, p, now) = ParticipantStage(contest, q, now)
  BY DEF ParticipantStage
<1> QED BY <1>1 DEF ParticipantPermissions

\* The stages of a contest.
LEMMA StageValues ==
  ASSUME NEW p
  PROVE  ParticipantStage(contest, p, now)
            \in {"not planned", "not started", "started", "finished"}
BY DEF ParticipantStage

\* Who may submit.
LEMMA SubmitKinds ==
  ASSUME NEW p, "submit" \in ParticipantPermissions(contest, p, now)
  PROVE  \/ p.kind = "regular" /\ ParticipantStage(contest, p, now) = "started"
         \/ p.kind = "upsolving" /\ ParticipantStage(contest, p, now) = "finished"
         \/ p.kind = "manager"
         \/ p.kind = "virtual" /\ ParticipantStage(contest, p, now) = "started"
<1>0. "submit" \notin StandingsPermission(contest)
  BY DEF StandingsPermission
<1>1. ASSUME NEW stage, "submit" \in RegularPermissions(stage, contest) PROVE stage = "started"
  BY <1>0, <1>1 DEF RegularPermissions
<1>2. CASE p.kind = "regular"
  BY <1>1, <1>2 DEF ParticipantPermissions
<1>3. CASE p.kind = "upsolving"
  BY <1>3 DEF ParticipantPermissions, UpsolvingPermissions
<1>4. CASE p.kind = "manager"
  BY <1>4
<1>5. CASE p.kind = "virtual"
  BY <1>1, <1>5 DEF ParticipantPermissions, VirtualPermissions
<1>6. CASE p.kind = "observer"
  BY <1>0, <1>6 DEF ParticipantPermissions, ObserverPermissions
<1>7. CASE p.kind \notin {"regular", "upsolving", "manager", "virtual", "observer"}
  BY <1>7 DEF ParticipantPermissions
<1> QED BY <1>2, <1>3, <1>4, <1>5, <1>6, <1>7

\* An effective participant may submit, unless it is a virtual one.
LEMMA AbleSubmits ==
  ASSUME NEW p, CheckEffectiveParticipant(contest, p, now)
  PROVE  p.kind = "virtual" \/ "submit" \in ParticipantPermissions(contest, p, now)
<1>1. CASE p.kind = "regular" /\ ParticipantStage(contest, p, now) = "started"
  BY <1>1 DEF ParticipantPermissions, RegularPermissions
<1>2. CASE p.kind = "upsolving" /\ ParticipantStage(contest, p, now) = "finished"
  BY <1>2 DEF ParticipantPermissions, UpsolvingPermissions
<1>3. CASE p.kind = "manager"
  BY <1>3 DEF ParticipantPermissions, ManagerPermissions
<1> QED BY <1>1, <1>2, <1>3 DEF CheckEffectiveParticipant

\* Whoever may submit by its own row is able to.
LEMMA SubmitsIsAble ==
  ASSUME NEW p, "submit" \in ParticipantPermissions(contest, p, now)
  PROVE  CheckEffectiveParticipant(contest, p, now)
BY SubmitKinds DEF CheckEffectiveParticipant

--------------------------------------------------------------------------------
(* Who is shown that he may submit can do so *)

\* Participants without a time of their own take part in that of the contest.
LEMMA TimeOfContest ==
  ASSUME NEW p, \/ p.kind \notin {"regular", "virtual"}
                \/ p.kind = "regular" /\ p.begin \in {0, contest.begin}
  PROVE  ParticipantBeginTime(contest, p) = contest.begin
<1>1. CASE p.kind \notin {"regular", "virtual"}
  BY <1>1 DEF ParticipantBeginTime
<1>2. CASE p.kind = "regular" /\ p.begin = 0
  BY <1>2 DEF ParticipantBeginTime
<1>3. CASE p.kind = "regular" /\ p.begin = contest.begin
  BY <1>3 DEF ParticipantBeginTime
<1> QED BY <1>1, <1>2, <1>3

\* The member that comes from a row of a group may do the same, at the same time.
LEMMA AsMemberPermissions ==
  ASSUME NEW p, NEW u
  PROVE  /\ AsMember(p, u).kind = p.kind /\ AsMember(p, u).begin = p.begin
         /\ ParticipantPermissions(contest, AsMember(p, u), now) =
                ParticipantPermissions(contest, p, now)
<1>1. AsMember(p, u).kind = p.kind /\ AsMember(p, u).begin = p.begin
  BY DEF AsMember
<1>2. ParticipantBeginTime(contest, AsMember(p, u)) = ParticipantBeginTime(contest, p)
  BY <1>1 DEF ParticipantBeginTime
<1> QED BY <1>1, <1>2, SameTimeSamePermissions

\* The permissions of a row are among those of its candidates.
LEMMA RowPermissionsOf ==
  ASSUME NEW S, NEW x
  PROVE  x \in RowPermissions(contest, S, now)
            <=> \E a \in S : x \in ParticipantPermissions(contest, a.row, now)
BY DEF RowPermissions

\* A participant that upsolves as the contest is over.
LEMMA UpsolvingStage ==
  ASSUME NEW p, p.kind = "upsolving"
  PROVE  /\ ParticipantStage(contest, p, now) = Stage
         /\ ParticipantPermissions(contest, p, now) = UpsolvingPermissions(Stage, contest)
<1>1. ParticipantBeginTime(contest, p) = contest.begin
  BY TimeOfContest
<1>2. NoParticipant.kind = "none"
  BY DEF NoParticipant
<1>3. ParticipantBeginTime(contest, NoParticipant) = contest.begin
  BY <1>2, TimeOfContest
<1>4. ParticipantStage(contest, p, now) = Stage
  BY <1>1, <1>3 DEF Stage, ParticipantStage
<1>5. ParticipantPermissions(contest, p, now) =
        UpsolvingPermissions(ParticipantStage(contest, p, now), contest)
  BY Zenon DEF ParticipantPermissions
<1> QED BY <1>4, <1>5

\* What an effective participant may do, except to deregister, the account may do.
LEMMA PermissionsAreShown ==
  ASSUME RowsTyped, NEW u \in Users
  PROVE  EffectivePermissions(Context(u)) \subseteq Context(u).permissions \cup {"deregister"}
<1>1. CASE Able(u) = {}
  BY <1>1, NobodyIsEffective
<1>2. CASE Able(u) # {}
  <2>1. PICK a \in Candidates(u) : a.row = Context(u).effective
    BY <1>2, EffectiveIsAble
  <2>2. EffectivePermissions(Context(u)) = ParticipantPermissions(contest, a.row, now)
    BY <2>1, ContextParts DEF EffectivePermissions
  <2>3. RowPermissions(contest, Own(u), now) \subseteq Context(u).permissions
    BY ContextPermissions
  <2>4. RowPermissions(contest, OfGroups(u), now) \ {"deregister"} \subseteq Context(u).permissions
    BY ContextPermissions
  <2>5. CASE a \in Own(u)
    BY <2>2, <2>3, <2>5, RowPermissionsOf
  <2>6. CASE a \in Members(u)
    <3>1. PICK b \in OfGroups(u) : a.row = AsMember(b.row, u)
      BY <2>6, MemberRows
    <3>2. EffectivePermissions(Context(u)) = ParticipantPermissions(contest, b.row, now)
      BY <2>2, <3>1, AsMemberPermissions
    <3>3. EffectivePermissions(Context(u)) \subseteq RowPermissions(contest, OfGroups(u), now)
      BY <3>2, RowPermissionsOf
    <3> QED BY <2>4, <3>3
  <2>7. CASE AsOwner(u) /\ a = Added(Len(GroupsOf[u]) + 1, u, "manager")
    <3>1. a.row.kind = "manager"
      BY <2>7, AddedFields
    <3>2. ParticipantPermissions(contest, a.row, now) = ManagerPermissions
      BY <3>1, Zenon DEF ParticipantPermissions
    <3>3. ManagerPermissions \subseteq Context(u).permissions
      BY <2>7, ContextPermissions
    <3> QED BY <2>2, <3>2, <3>3
  <2>8. CASE AsUpsolving(u) /\ a = Added(Len(GroupsOf[u]) + 2, u, "upsolving")
    <3>1. a.row.kind = "upsolving"
      BY <2>8, AddedFields
    <3>2. UpsolvingPermissions(Stage, contest) \subseteq Context(u).permissions
      BY <2>8, ContextPermissions
    <3> QED BY <2>2, <3>1, <3>2, UpsolvingStage
  <2> QED BY <2>1, <2>5, <2>6, <2>7, <2>8 DEF Candidates
<1> QED BY <1>1, <1>2

\* A candidate that may submit makes the context have an effective participant, unless
\* it upsolves and that is disabled.
Submits(a) == "submit" \in ParticipantPermissions(contest, a.row, now)
LEMMA SubmitterIsAble ==
  ASSUME NEW u, NEW a \in Candidates(u), "submit" \in ParticipantPermissions(contest, a.row, now)
  PROVE  Able(u) # {} \/ (disableUpsolving /\ a.row.kind = "upsolving")
BY SubmitsIsAble DEF Able

\* When a group of the user may submit, a candidate may, unless he takes part himself
\* at another time.
LEMMA GroupSubmits ==
  ASSUME RowsTyped, GroupsUnstarted, NEW u \in Users, NEW a \in OfGroups(u),
         "submit" \in ParticipantPermissions(contest, a.row, now)
  PROVE  \/ \E b \in Candidates(u) : Submits(b)
         \/ \E p \in Context(u).participants : p.kind = "regular" /\ p.begin \notin {0, contest.begin}
<1>1. a.row \in participant /\ a.row.account \in GroupAccounts
  BY RowsOfGroups
<1>2. a.row.kind # "virtual" /\ a.row.begin = 0
  BY <1>1 DEF GroupsUnstarted
<1>3. a.row.kind \in MemberKinds
  BY <1>2, SubmitKinds DEF MemberKinds
<1>4. ParticipantBeginTime(contest, a.row) = contest.begin
  BY <1>2, <1>3, TimeOfContest DEF MemberKinds
<1>5. CASE a.row.kind \notin Kinds(Own(u))
  <2>1. PICK same : same = {c \in OfGroups(u) : c.row.kind = a.row.kind}
    OBVIOUS
  <2>2. same # {} /\ \A c \in same : c.at \in Nat /\ c.id \in Nat
    <3>1. ASSUME NEW c \in same PROVE c.at \in Nat /\ c.id \in Nat
      <4>1. c.at \in Nat /\ c.id = c.row.id /\ c.row \in participant
        BY <2>1, RowsOfGroups
      <4> QED BY <4>1, RowType
    <3> QED BY <2>1, <3>1
  <2>3. FirstOf(same) \in same
    BY <2>2, FirstIsOne
  <2>4. PICK f : f = FirstOf(same)
    OBVIOUS
  <2>5. f \in OfGroups(u) /\ f.row.kind = a.row.kind
    BY <2>1, <2>3, <2>4
  <2>6. \A c \in OfGroups(u) : c.row.kind = f.row.kind => ~Comes(c, f)
    <3>1. \E x \in same : \A b \in same : ~Comes(b, x)
      BY <2>2, FirstIsLeast
    <3>2. \A b \in same : ~Comes(b, f)
      BY <2>4, <3>1 DEF FirstOf
    <3> QED BY <2>1, <2>5, <3>2
  <2>7. f.row \in participant /\ f.row.account \in GroupAccounts
    BY <2>5, RowsOfGroups
  <2>8. f.row.begin = 0
    BY <2>7 DEF GroupsUnstarted
  <2>9. ParticipantBeginTime(contest, f.row) = contest.begin
    BY <1>3, <2>5, <2>8, TimeOfContest DEF MemberKinds
  <2>10. /\ "submit" \in ParticipantPermissions(contest, f.row, now)
         /\ ParticipantStage(contest, f.row, now) = ParticipantStage(contest, a.row, now)
    BY <1>4, <2>5, <2>9, SameTimeSamePermissions
  <2>11. ParticipantStage(contest, f.row, now) \in MemberStages(f.row.kind)
    <3>1. CASE f.row.kind = "regular"
      <4>1. ParticipantStage(contest, f.row, now) = "started"
        BY <2>10, <3>1, SubmitKinds
      <4>2. MemberStages("regular") = {"not started", "started"}
        BY Zenon DEF MemberStages
      <4> QED BY <3>1, <4>1, <4>2
    <3>2. CASE f.row.kind = "upsolving"
      <4>1. ParticipantStage(contest, f.row, now) = "finished"
        BY <2>10, <3>2, SubmitKinds
      <4>2. MemberStages("upsolving") = {"finished"}
        BY Zenon DEF MemberStages
      <4> QED BY <3>2, <4>1, <4>2
    <3>3. CASE f.row.kind = "manager"
      <4>1. ParticipantStage(contest, f.row, now)
              \in {"not planned", "not started", "started", "finished"}
        BY StageValues
      <4>2. MemberStages("manager") = {"not planned", "not started", "started", "finished"}
        BY Zenon DEF MemberStages
      <4> QED BY <3>3, <4>1, <4>2
    <3> QED BY <1>3, <2>5, <3>1, <3>2, <3>3 DEF MemberKinds
  <2>12. PICK m : m = [at |-> f.at, id |-> f.id, row |-> AsMember(f.row, u)]
    OBVIOUS
  <2>13. f.row.kind \in MemberKinds \ Kinds(Own(u))
    BY <1>3, <1>5, <2>5
  <2>14. m \in Members(u)
    BY <2>5, <2>6, <2>11, <2>12, <2>13 DEF Members, GroupParticipants
  <2>15. "submit" \in ParticipantPermissions(contest, m.row, now)
    BY <2>10, <2>12, AsMemberPermissions
  <2> QED BY <2>14, <2>15 DEF Candidates, Submits
<1>6. CASE a.row.kind \in Kinds(Own(u))
  <2>1. PICK o \in Own(u) : o.row.kind = a.row.kind
    BY <1>6 DEF Kinds
  <2>2. o \in Candidates(u)
    BY <2>1 DEF Candidates
  <2>3. CASE o.row.kind = "regular" /\ o.row.begin \notin {0, contest.begin}
    BY <2>2, <2>3, ContextParticipants
  <2>4. CASE ~(o.row.kind = "regular" /\ o.row.begin \notin {0, contest.begin})
    <3>1. ParticipantBeginTime(contest, o.row) = contest.begin
      BY <1>3, <2>1, <2>4, TimeOfContest DEF MemberKinds
    <3>2. "submit" \in ParticipantPermissions(contest, o.row, now)
      BY <1>4, <2>1, <3>1, SameTimeSamePermissions
    <3> QED BY <2>2, <3>2 DEF Submits
  <2> QED BY <2>3, <2>4
<1> QED BY <1>5, <1>6

\* The property, from what holds of the rows.
LEMMA RowsMakeSubmitUsable ==
  ASSUME RowsTyped, GroupsUnstarted
  PROVE  SubmitIsUsable
<1> SUFFICES ASSUME NEW u \in Users
             PROVE  /\ EffectivePermissions(Context(u))
                            \subseteq Context(u).permissions \cup {"deregister"}
                    /\ \/ "submit" \notin Context(u).permissions
                       \/ "submit" \in EffectivePermissions(Context(u))
                       \/ "submit" \in AccountPermissions[u]
                       \/ Context(u).effective.kind = "virtual"
                       \/ \E p \in Context(u).participants :
                            p.kind = "regular" /\ p.begin \notin {0, contest.begin}
                       \/ disableUpsolving /\ {p.kind : p \in Submitters(Context(u))} = {"upsolving"}
  BY DEF SubmitIsUsable
<1>1. EffectivePermissions(Context(u)) \subseteq Context(u).permissions \cup {"deregister"}
  BY PermissionsAreShown
<1>2. CASE Able(u) # {}
  <2>1. PICK a \in Candidates(u) : a.row = Context(u).effective
                                   /\ CheckEffectiveParticipant(contest, a.row, now)
    BY <1>2, EffectiveIsAble
  <2>2. EffectivePermissions(Context(u)) = ParticipantPermissions(contest, a.row, now)
    BY <2>1, ContextParts DEF EffectivePermissions
  <2> QED BY <1>1, <2>1, <2>2, AbleSubmits
<1>3. CASE Able(u) = {} /\ "submit" \in Context(u).permissions
  <2>1. \/ "submit" \in AccountPermissions[u]
        \/ "submit" \in RowPermissions(contest, Own(u), now)
        \/ "submit" \in RowPermissions(contest, OfGroups(u), now)
        \/ AsOwner(u)
        \/ AsUpsolving(u)
    <3>1. "submit" \notin ObserverPermissions(Stage, contest)
      BY DEF ObserverPermissions, StandingsPermission
    <3> QED BY <1>3, <3>1, ContextPermissions
  <2>2. CASE \E a \in Candidates(u) : Submits(a)
    <3>1. \A a \in Candidates(u) : Submits(a) => disableUpsolving /\ a.row.kind = "upsolving"
      BY <1>3, SubmitterIsAble DEF Submits
    <3>2. \A p : p \in Submitters(Context(u)) <=> \E a \in Candidates(u) : Submits(a) /\ p = a.row
      BY ContextParts, ContextParticipants DEF Submitters, Submits
    <3>3. \A p \in Submitters(Context(u)) : p.kind = "upsolving"
      BY <3>1, <3>2
    <3>4. \E p : p \in Submitters(Context(u))
      BY <2>2, <3>2
    <3> QED BY <1>1, <2>2, <3>1, <3>3, <3>4
  <2>3. CASE "submit" \in RowPermissions(contest, Own(u), now)
    BY <2>2, <2>3, RowPermissionsOf DEF Candidates, Submits
  <2>4. CASE "submit" \in RowPermissions(contest, OfGroups(u), now)
    BY <1>1, <2>2, <2>4, RowPermissionsOf, GroupSubmits
  <2>5. CASE AsOwner(u)
    <3>1. PICK a : a = Added(Len(GroupsOf[u]) + 1, u, "manager")
      OBVIOUS
    <3>2. a \in Candidates(u) /\ a.row.kind = "manager"
      BY <2>5, <3>1, AddedFields DEF Candidates
    <3> QED BY <1>3, <3>2 DEF Able, CheckEffectiveParticipant
  <2>6. CASE AsUpsolving(u)
    <3>1. PICK a : a = Added(Len(GroupsOf[u]) + 2, u, "upsolving")
      OBVIOUS
    <3>2. a \in Candidates(u) /\ a.row.kind = "upsolving"
      BY <2>6, <3>1, AddedFields DEF Candidates
    <3>3. ParticipantPermissions(contest, a.row, now) = UpsolvingPermissions("finished", contest)
      BY <2>6, <3>2, UpsolvingStage DEF AsUpsolving
    <3>4. Submits(a)
      BY <3>3 DEF Submits, UpsolvingPermissions
    <3> QED BY <2>2, <3>2, <3>4
  <2> QED BY <1>1, <2>1, <2>2, <2>3, <2>4, <2>5, <2>6
<1> QED BY <1>1, <1>2, <1>3

--------------------------------------------------------------------------------
(* The types of rows *)

\* The type of a problem's row.
LEMMA ProblemType ==
  ASSUME RowsTyped, NEW p \in contestProblem
  PROVE  /\ p = [id |-> p.id, code |-> p.code]
         /\ p.id \in 1..lastId /\ p.id \in Nat /\ p.id # 0 /\ p.code \in ProblemCodes
<1>1. p \in [id : 1..lastId, code : ProblemCodes] /\ lastId \in Nat
  BY DEF RowsTyped, ProblemsTyped, ClockTyped, Ids
<1> QED BY <1>1

\* The type of a solution's row.
LEMMA SolutionType ==
  ASSUME RowsTyped, NEW s \in solution
  PROVE  /\ s = [id |-> s.id, participant |-> s.participant, problem |-> s.problem,
                 create |-> s.create, report |-> s.report, seen |-> s.seen]
         /\ s.id \in 1..lastId /\ s.participant \in 1..lastId /\ s.problem \in 1..lastId
         /\ s.create \in 1..now /\ s.create \in Nat /\ s.report \in {0} \cup 1..lastId /\ s.seen \subseteq 1..lastId
<1>1. s \in [id : 1..lastId, participant : 1..lastId, problem : 1..lastId, create : 1..now,
             report : {0} \cup 1..lastId, seen : SUBSET (1..lastId)] /\ now \in Nat
  BY DEF RowsTyped, SolutionsTyped, ClockTyped, Ids
<1> QED BY <1>1

\* The type of a task's row.
LEMMA TaskType ==
  ASSUME RowsTyped, NEW t \in judgeTask
  PROVE  /\ t = [id |-> t.id, solution |-> t.solution, status |-> t.status, written |-> t.written]
         /\ t.id \in 1..lastId /\ t.solution \in 1..lastId /\ t.written \in BOOLEAN
         /\ t.status \in {"open", "succeeded", "failed"}
<1>1. t \in [id : 1..lastId, solution : 1..lastId, status : {"open", "succeeded", "failed"},
             written : BOOLEAN]
  BY DEF RowsTyped, TasksTyped, Ids
<1> QED BY <1>1

\* The type of a message's row.
LEMMA MessageType ==
  ASSUME RowsTyped, NEW m \in message
  PROVE  /\ m = [id |-> m.id, kind |-> m.kind, participant |-> m.participant, parent |-> m.parent]
         /\ m.id \in 1..lastId /\ m.kind \in {"question", "answer", "regular"}
         /\ m.participant \in {0} \cup 1..lastId /\ m.parent \in {0} \cup 1..lastId
<1>1. m \in [id : 1..lastId, kind : {"question", "answer", "regular"},
             participant : {0} \cup 1..lastId, parent : {0} \cup 1..lastId]
  BY DEF RowsTyped, MessagesTyped, Ids
<1> QED BY <1>1

\* The numbers that all rows depend on.
LEMMA Numbers ==
  ASSUME RowsTyped
  PROVE  lastId \in Nat /\ now \in 1..MaxTime /\ now \in Nat /\ contest.begin \in Nat
         /\ MaxTime \in Nat /\ QuotaWindow \in Nat /\ QuotaAmount \in Nat
         /\ NewId = lastId + 1 /\ Ids = 1..lastId /\ cached \subseteq Ids
BY ContestAssumption DEF RowsTyped, ClockTyped, NewId, Ids

\* A user is not a group.
LEMMA UsersAreNotGroups ==
  ASSUME NEW u \in Users
  PROVE  u \notin GroupAccounts
BY ContestAssumption DEF GroupAccounts

\* IDs name rows.
LEMMA RowsWithOne ==
  ASSUME NEW table, NEW r \in table, UniqueIds(table)
  PROVE  RowsWith(table, r.id) = {r}
BY DEF RowsWith, UniqueIds

--------------------------------------------------------------------------------
(* What a request reads *)

\* The effective participant of who may submit or ask.
LEMMA EffectiveFields ==
  ASSUME RowsTyped, NEW u \in Users, EffectivePermissions(Context(u)) # {}, NEW e,
         e = Context(u).effective
  PROVE  /\ e \in [id : {0} \cup Ids, account : {u}, kind : ParticipantKinds, begin : Nat]
         /\ e.id # 0 => e \in participant
         /\ CheckEffectiveParticipant(contest, e, now)
<1>1. Able(u) # {}
  BY NobodyIsEffective
<1>2. PICK a \in Candidates(u) : a.row = e /\ CheckEffectiveParticipant(contest, a.row, now)
  BY <1>1, EffectiveIsAble
<1>3. CASE e \in participant /\ e.account = u
  <2>1. e = [id |-> e.id, account |-> e.account, kind |-> e.kind, begin |-> e.begin]
        /\ e.id \in 1..lastId /\ e.kind \in ParticipantKinds /\ e.begin \in Nat
    BY <1>3, RowType
  <2> QED BY <1>2, <1>3, <2>1 DEF Ids
<1>4. CASE e \in [id : {0}, account : {u}, kind : MemberKinds, begin : Nat]
  BY <1>2, <1>4 DEF MemberKinds, ParticipantKinds
<1> QED BY <1>2, <1>3, <1>4, CandidateFields

\* A regular participant that may submit takes part in a contest that has begun.
LEMMA StartedBegin ==
  ASSUME NEW p, ParticipantStage(contest, p, now) = "started", p.kind = "regular", p.begin = 0
  PROVE  contest.begin # 0
<1>1. ParticipantBeginTime(contest, p) = contest.begin
  BY TimeOfContest
<1> QED BY <1>1 DEF ParticipantStage

\* The requests that have just read.
Fresh(op, row) == [pc |-> "write", op |-> op, row |-> row, now |-> now]

\* What is read of a participant agrees with its row.
LEMMA ReadParticipant ==
  ASSUME RowsTyped, NEW e \in participant
  PROVE  SameAccount(e) /\ KnowsBegin(e)
BY DEF SameAccount, KnowsBegin, RowsTyped, ParticipantsTyped, UniqueIds

\* A submission pins the time of its participant.
LEMMA SubmitFields ==
  ASSUME RowsTyped, NEW u \in Users, "submit" \in EffectivePermissions(Context(u)),
         NEW e, e = Context(u).effective, NEW p, p = Pinned(Context(u))
  PROVE  /\ p \in [id : {0} \cup Ids, account : Users, kind : ParticipantKinds, begin : Nat]
         /\ p.id = e.id /\ p.account = e.account /\ p.kind = e.kind
         /\ p.kind = "regular" => p.begin # 0
         /\ p = e \/ p.begin # 0
<1>1. /\ e \in [id : {0} \cup Ids, account : {u}, kind : ParticipantKinds, begin : Nat]
      /\ CheckEffectiveParticipant(contest, e, now)
  BY EffectiveFields
<1>2. e.kind = "regular" => ParticipantStage(contest, e, now) = "started"
  BY <1>1 DEF CheckEffectiveParticipant
<1>3. contest.begin \in Nat
  BY Numbers
<1>4. CASE e.kind = "regular" /\ e.begin = 0
  <2>1. p = [e EXCEPT !.begin = contest.begin]
    BY <1>2, <1>4, ContextParts DEF Pinned
  <2>2. contest.begin # 0
    BY <1>2, <1>4, StartedBegin
  <2> QED BY <1>1, <1>3, <2>1, <2>2
<1>5. CASE ~(e.kind = "regular" /\ e.begin = 0)
  <2>1. p = e
    BY <1>5, ContextParts DEF Pinned
  <2> QED BY <1>1, <1>5, <2>1
<1> QED BY <1>4, <1>5


\* A question carries the effective participant as it is.
LEMMA QuestionIsOK ==
  ASSUME RowsTyped, NEW u \in Users, "question" \in EffectivePermissions(Context(u)),
         NEW e, e = Context(u).effective
  PROVE  RequestOK(Fresh("question", [problem |-> 0, was |-> e, row |-> e]))
<1>1. /\ e \in [id : {0} \cup Ids, account : {u}, kind : ParticipantKinds, begin : Nat]
      /\ e.id # 0 => e \in participant
  BY EffectiveFields
<1>2. e.id # 0 => SameAccount(e) /\ KnowsBegin(e)
  BY <1>1, ReadParticipant
<1>3. PICK q : q = Fresh("question", [problem |-> 0, was |-> e, row |-> e])
  OBVIOUS
<1>4. /\ q.pc = "write" /\ q.op = "question" /\ q.now = now
      /\ q = [pc |-> q.pc, op |-> q.op, row |-> q.row, now |-> q.now]
      /\ q.row.problem = 0 /\ q.row.was = e /\ q.row.row = e
  BY <1>3 DEF Fresh
<1>5. PendingParticipant(q)
  BY <1>1, <1>2, <1>4 DEF PendingParticipant
<1>6. RequestOK(q)
  BY <1>4, <1>5, Numbers DEF RequestOK
<1> QED BY <1>3, <1>6

\* A submission carries the effective participant with the time that it is pinned to.
LEMMA SubmitIsOK ==
  ASSUME RowsTyped, NEW u \in Users, "submit" \in EffectivePermissions(Context(u)),
         NEW e, e = Context(u).effective, NEW p, p = Pinned(Context(u)),
         NEW problem \in contestProblem
  PROVE  RequestOK(Fresh("submit", [problem |-> problem.id, was |-> e, row |-> p]))
<1>1. /\ e \in [id : {0} \cup Ids, account : {u}, kind : ParticipantKinds, begin : Nat]
      /\ e.id # 0 => e \in participant
  BY EffectiveFields
<1>2. e.id # 0 => SameAccount(e) /\ KnowsBegin(e)
  BY <1>1, ReadParticipant
<1>3. PICK q : q = Fresh("submit", [problem |-> problem.id, was |-> e, row |-> p])
  OBVIOUS
<1>4. /\ q.pc = "write" /\ q.op = "submit" /\ q.now = now
      /\ q = [pc |-> q.pc, op |-> q.op, row |-> q.row, now |-> q.now]
      /\ q.row.problem = problem.id /\ q.row.was = e /\ q.row.row = p
  BY <1>3 DEF Fresh
<1>5. /\ p \in [id : {0} \cup Ids, account : Users, kind : ParticipantKinds, begin : Nat]
      /\ p.id = e.id /\ p.account = e.account /\ p.kind = e.kind
      /\ p.kind = "regular" => p.begin # 0
      /\ p = e \/ p.begin # 0
  BY SubmitFields
<1>6. p.id # 0 => SameAccount(p)
  BY <1>2, <1>5 DEF SameAccount
<1>7. problem.id \in {0} \cup Ids
  BY ProblemType, Numbers
<1>8. /\ q.row.row.id # 0 => SameAccount(q.row.row)
      /\ q.row.was = q.row.row => (q.row.row.id # 0 => KnowsBegin(q.row.row))
  BY <1>2, <1>4, <1>6
<1>9. PendingParticipant(q)
  BY <1>4, <1>5, <1>7, <1>8 DEF PendingParticipant
<1>10. RequestOK(q)
  BY <1>4, <1>9, Numbers DEF RequestOK
<1> QED BY <1>3, <1>10

\* A number that is not 0 is the last of those up to it.
LEMMA NowIsLast ==
  ASSUME NEW n, NEW m, n \in 1..m
  PROVE  n \in 1..n
OBVIOUS

\* A request that does not take part is typed by its row.
LEMMA PlainIsOK ==
  ASSUME RowsTyped, NEW op, NEW row, op \notin {"none", "submit", "question"},
         op = "contest" => row \in Configs,
         op = "create problem" => row \in [id : {0}, code : ProblemCodes],
         op = "update problem" => row \in [id : Ids, code : ProblemCodes],
         op = "create participant" =>
           /\ row \in [id : {0}, account : Accounts, kind : ParticipantKinds, begin : Nat]
           /\ row.account \in GroupAccounts => row.kind # "virtual" /\ row.begin = 0,
         op = "rejudge" => row.id \in Ids,
         op = "message" =>
           /\ row \in [id : {0}, kind : {"answer", "regular"},
                       participant : {0} \cup Ids, parent : {0} \cup Ids]
           /\ row.kind = "answer" =>
                  \E m \in message : m.kind # "regular" /\ m.participant = row.participant
  PROVE  RequestOK(Fresh(op, row))
<1>1. PICK q : q = Fresh(op, row)
  OBVIOUS
<1>2. /\ q.pc = "write" /\ q.op = op /\ q.now = now /\ q.row = row
      /\ q = [pc |-> q.pc, op |-> q.op, row |-> q.row, now |-> q.now]
  BY <1>1 DEF Fresh
<1>0. now \in 1..now
  <2>1. now \in 1..MaxTime
    BY Numbers, Zenon
  <2> QED BY <2>1, NowIsLast, Zenon
<1>3. q.now \in 1..now
  BY <1>0, <1>2, Zenon
<1>4. /\ q.op = "contest" => q.row \in Configs
      /\ q.op = "create problem" => q.row \in [id : {0}, code : ProblemCodes]
      /\ q.op = "update problem" => q.row \in [id : Ids, code : ProblemCodes]
      /\ q.op = "rejudge" => q.row.id \in Ids
  BY <1>2
<1>5. q.op = "create participant" =>
         /\ q.row \in [id : {0}, account : Accounts, kind : ParticipantKinds, begin : Nat]
         /\ q.row.account \in GroupAccounts => q.row.kind # "virtual" /\ q.row.begin = 0
  BY <1>2
<1>6. q.op = "message" =>
         /\ q.row \in [id : {0}, kind : {"answer", "regular"},
                       participant : {0} \cup Ids, parent : {0} \cup Ids]
         /\ q.row.kind = "answer" =>
                \E m \in message : m.kind # "regular" /\ m.participant = q.row.participant
  BY <1>2
<1>7. q.op \notin {"none", "submit", "question"} /\ q.pc = "write"
  BY <1>2
<1>8. RequestOK(q)
  BY <1>2, <1>3, <1>4, <1>5, <1>6, <1>7, Zenon DEF RequestOK
<1> QED BY <1>1, <1>8

\* What the requests of a manager read.
LEMMA ManagerReadsOK ==
  ASSUME RowsTyped, NEW c \in ContestClients, ManagerReads(c)
  PROVE  \E op, row : ContestReads(c, op, row) /\ RequestOK(Fresh(op, row))
<1>1. CASE \E cfg \in Configs : ReadUpdateContest(c, cfg)
  BY <1>1, PlainIsOK DEF ReadUpdateContest
<1>2. CASE \E code \in ProblemCodes : ReadCreateContestProblem(c, code)
  <2>1. PICK code \in ProblemCodes : ReadCreateContestProblem(c, code)
    BY <1>2
  <2>2. RequestOK(Fresh("create problem", [id |-> 0, code |-> code]))
    BY PlainIsOK
  <2> QED BY <2>1, <2>2 DEF ReadCreateContestProblem
<1>3. CASE \E code \in ProblemCodes : \E p \in contestProblem : ReadUpdateContestProblem(c, p, code)
  <2>1. PICK code \in ProblemCodes, p \in contestProblem : ReadUpdateContestProblem(c, p, code)
    BY <1>3
  <2>2. PICK row : row = [p EXCEPT !.code = code]
    OBVIOUS
  <2>3. row \in [id : Ids, code : ProblemCodes]
    BY <2>2, ProblemType, Numbers
  <2>4. RequestOK(Fresh("update problem", row))
    BY <2>3, PlainIsOK
  <2> QED BY <2>1, <2>2, <2>4 DEF ReadUpdateContestProblem
<1>4. CASE \E p \in contestProblem : ReadDeleteContestProblem(c, p)
  BY <1>4, PlainIsOK DEF ReadDeleteContestProblem
<1>5. CASE \E a \in Users \cup GroupAccounts, kind \in {"regular", "upsolving", "manager", "observer"} :
             ReadCreateContestParticipant(c, a, kind)
  <2>1. PICK a \in Users \cup GroupAccounts, kind \in {"regular", "upsolving", "manager", "observer"} :
                ReadCreateContestParticipant(c, a, kind)
    BY <1>5
  <2>2. PICK row : row = [id |-> 0, account |-> a, kind |-> kind, begin |-> 0]
    OBVIOUS
  <2>3. /\ row \in [id : {0}, account : Accounts, kind : ParticipantKinds, begin : Nat]
        /\ row.kind # "virtual" /\ row.begin = 0
    BY <2>1, <2>2 DEF Accounts, ParticipantKinds
  <2>4. RequestOK(Fresh("create participant", row))
    BY <2>3, PlainIsOK
  <2> QED BY <2>1, <2>2, <2>4 DEF ReadCreateContestParticipant
<1>6. CASE \E p \in participant : ReadDeleteContestParticipant(c, p)
  BY <1>6, PlainIsOK DEF ReadDeleteContestParticipant
<1>7. CASE \E s \in solution : ReadRejudge(c, s)
  <2>1. PICK s \in solution : ReadRejudge(c, s)
    BY <1>7
  <2>2. s.id \in Ids
    BY SolutionType, Numbers
  <2>3. RequestOK(Fresh("rejudge", s))
    BY <2>2, PlainIsOK
  <2> QED BY <2>1, <2>3 DEF ReadRejudge
<1>8. CASE ReadMessage(c)
  <2>1. PICK row : row = [id |-> 0, kind |-> "regular", participant |-> 0, parent |-> 0]
    OBVIOUS
  <2>2. /\ row \in [id : {0}, kind : {"answer", "regular"},
                    participant : {0} \cup Ids, parent : {0} \cup Ids]
        /\ row.kind # "answer"
    BY <2>1
  <2>3. RequestOK(Fresh("message", row))
    BY <2>2, PlainIsOK
  <2> QED BY <1>8, <2>1, <2>3 DEF ReadMessage
<1>9. CASE \E m \in message : ReadAnswer(c, m)
  <2>1. PICK m \in message : ReadAnswer(c, m)
    BY <1>9
  <2>2. PICK row : row = [id |-> 0, kind |-> "answer", participant |-> m.participant, parent |-> m.id]
    OBVIOUS
  <2>3. /\ row \in [id : {0}, kind : {"answer", "regular"},
                    participant : {0} \cup Ids, parent : {0} \cup Ids]
        /\ m.kind # "regular" /\ m.participant = row.participant
    BY <2>1, <2>2, MessageType, Numbers DEF ReadAnswer
  <2>4. RequestOK(Fresh("message", row))
    BY <2>3, PlainIsOK
  <2> QED BY <2>1, <2>2, <2>4 DEF ReadAnswer
<1> QED BY <1>1, <1>2, <1>3, <1>4, <1>5, <1>6, <1>7, <1>8, <1>9 DEF ManagerReads

\* What the requests of any account read.
LEMMA UserReadsOK ==
  ASSUME RowsTyped, NEW c \in ContestClients, NEW u \in Users, UserReads(c, u)
  PROVE  \E op, row : ContestReads(c, op, row) /\ RequestOK(Fresh(op, row))
<1>1. CASE \E kind \in {"regular", "virtual"}, begin \in now..MaxTime :
             ReadRegisterContest(c, u, kind, begin)
  <2>1. PICK kind \in {"regular", "virtual"}, begin \in now..MaxTime :
                ReadRegisterContest(c, u, kind, begin)
    BY <1>1
  <2>2. PICK row : row = [id |-> 0, account |-> u, kind |-> kind,
                          begin |-> IF kind = "virtual" THEN begin ELSE 0]
    OBVIOUS
  <2>3. /\ row \in [id : {0}, account : Accounts, kind : ParticipantKinds, begin : Nat]
        /\ row.account \notin GroupAccounts
    BY <2>1, <2>2, Numbers, UsersAreNotGroups DEF Accounts, ParticipantKinds
  <2>4. RequestOK(Fresh("create participant", row))
    BY <2>3, PlainIsOK
  <2> QED BY <2>1, <2>2, <2>4 DEF ReadRegisterContest
<1>2. CASE \E p \in contestProblem : ReadSubmit(c, u, p)
  <2>1. PICK p \in contestProblem : ReadSubmit(c, u, p)
    BY <1>2
  <2>2. PICK e, r : e = Context(u).effective /\ r = Pinned(Context(u))
    OBVIOUS
  <2>3. "submit" \in EffectivePermissions(Context(u))
    BY <2>1 DEF ReadSubmit
  <2>4. RequestOK(Fresh("submit", [problem |-> p.id, was |-> e, row |-> r]))
    BY <2>2, <2>3, SubmitIsOK
  <2> QED BY <2>1, <2>2, <2>4 DEF ReadSubmit
<1>3. CASE ReadSubmitContestQuestion(c, u)
  <2>1. PICK e : e = Context(u).effective
    OBVIOUS
  <2>2. "question" \in EffectivePermissions(Context(u))
    BY <1>3 DEF ReadSubmitContestQuestion
  <2>3. RequestOK(Fresh("question", [problem |-> 0, was |-> e, row |-> e]))
    BY <2>1, <2>2, QuestionIsOK
  <2> QED BY <1>3, <2>1, <2>3 DEF ReadSubmitContestQuestion
<1> QED BY <1>1, <1>2, <1>3 DEF UserReads

--------------------------------------------------------------------------------
(* The steps of a contest *)

ReadsOK(c) == \E op, row : ContestReads(c, op, row) /\ RequestOK(Fresh(op, row))

\* A step is one of these.
LEMMA StepKinds ==
  ASSUME RowsTyped, ContestNext
  PROVE  \/ Tick \/ UpdateSetting \/ SyncSolutions
         \/ \E t \in judgeTask : JudgeReports(t) \/ TaskEnds(t)
         \/ \E c \in ContestClients : ContestWrite(c) \/ ReadsOK(c)
<1>1. ASSUME NEW c \in ContestClients, NEW u \in Users, UserReads(c, u) \/ ManagerReads(c)
      PROVE  ReadsOK(c)
  BY <1>1, UserReadsOK, ManagerReadsOK DEF ReadsOK
<1> QED BY <1>1 DEF ContestNext

\* Who writes which rows.
ProblemStep == \E c \in ContestClients : CreateContestProblem(c) \/ UpdateContestProblem(c) \/ DeleteContestProblem(c)
ParticipantStep ==
    \E c \in ContestClients :
        CreateContestParticipant(c) \/ DeleteContestParticipant(c) \/ SaveParticipant(c)
SolutionStep ==
    \/ \E c \in ContestClients : RejudgeContestSolution(c) \/ SubmitContestSolution(c)
    \/ \E t \in judgeTask : JudgeReports(t)
TaskStep ==
    \/ \E c \in ContestClients : RejudgeContestSolution(c) \/ SubmitContestSolution(c)
    \/ \E t \in judgeTask : JudgeReports(t) \/ TaskEnds(t)
MessageStep == \E c \in ContestClients : SubmitContestQuestion(c) \/ CreateContestMessage(c)
Others ==
    /\ contestProblem' = contestProblem \/ ProblemStep
    /\ participant' = participant \/ ParticipantStep
    /\ solution' = solution \/ SolutionStep
    /\ judgeTask' = judgeTask \/ TaskStep
    /\ message' = message \/ MessageStep
    /\ contest' = contest \/ \E c \in ContestClients : UpdateContest(c)
    /\ now' = now \/ Tick
    /\ cached' = cached \/ SyncSolutions
    /\ lastId' \in {lastId, NewId, NewId + 1}

\* Each step leaves the rows that it does not write.
LEMMA OthersUnchanged ==
  ASSUME RowsTyped, ContestNext
  PROVE  Others
<1>1. CASE Tick
  BY <1>1 DEF Tick, rowVars, Others
<1>2. ASSUME NEW t \in judgeTask, JudgeReports(t) PROVE Others
  BY <1>2 DEF JudgeReports, Others, SolutionStep, TaskStep
<1>3. ASSUME NEW t \in judgeTask, TaskEnds(t) PROVE Others
  BY <1>3 DEF TaskEnds, Others, TaskStep
<1>4. ASSUME NEW c \in ContestClients, UpdateContest(c) PROVE Others
  BY <1>4 DEF UpdateContest, Others, ContestWrites
<1>5. ASSUME NEW c \in ContestClients, CreateContestProblem(c) PROVE Others
  BY <1>5 DEF CreateContestProblem, Others, ProblemStep, ContestWrites
<1>6. ASSUME NEW c \in ContestClients, UpdateContestProblem(c) PROVE Others
  BY <1>6 DEF UpdateContestProblem, Others, ProblemStep, ContestWrites
<1>7. ASSUME NEW c \in ContestClients, DeleteContestProblem(c) PROVE Others
  BY <1>7 DEF DeleteContestProblem, Others, ProblemStep, ContestWrites
<1>8. ASSUME NEW c \in ContestClients, CreateContestParticipant(c) PROVE Others
  BY <1>8 DEF CreateContestParticipant, Others, ParticipantStep, ContestWrites
<1>9. ASSUME NEW c \in ContestClients, DeleteContestParticipant(c) PROVE Others
  BY <1>9 DEF DeleteContestParticipant, Others, ParticipantStep, ContestWrites
<1>10. ASSUME NEW c \in ContestClients, RejudgeContestSolution(c) PROVE Others
  BY <1>10 DEF RejudgeContestSolution, Others, SolutionStep, TaskStep, ContestWrites
<1>11. ASSUME NEW c \in ContestClients, CreateContestMessage(c) PROVE Others
  BY <1>11 DEF CreateContestMessage, Others, MessageStep, ContestWrites
<1>12. ASSUME NEW c \in ContestClients, SaveParticipant(c) PROVE Others
  BY <1>12 DEF SaveParticipant, Others, ParticipantStep
<1>13. ASSUME NEW c \in ContestClients, CheckQuota(c) PROVE Others
  BY <1>13 DEF CheckQuota, Others, rowVars
<1>14. ASSUME NEW c \in ContestClients, SubmitContestSolution(c) PROVE Others
  BY <1>14 DEF SubmitContestSolution, Others, SolutionStep, TaskStep
<1>15. ASSUME NEW c \in ContestClients, SubmitContestQuestion(c) PROVE Others
  BY <1>15 DEF SubmitContestQuestion, Others, MessageStep
<1>16. ASSUME NEW c \in ContestClients, ContestRequestFails(c) PROVE Others
  BY <1>16 DEF ContestRequestFails, Others, rowVars
<1>17. ASSUME NEW c \in ContestClients, ReadsOK(c) PROVE Others
  BY <1>17 DEF ReadsOK, ContestReads, rowVars, Others
<1>18. CASE UpdateSetting
  BY <1>18 DEF UpdateSetting, rowVars, Others
<1>19. CASE SyncSolutions
  BY <1>19 DEF SyncSolutions, rowVars, Others
<1> QED
  BY StepKinds, <1>1, <1>2, <1>3, <1>4, <1>5, <1>6, <1>7, <1>8, <1>9, <1>10, <1>11, <1>12, <1>13, <1>14, <1>15, <1>16, <1>17,
     <1>18, <1>19
  DEF ContestWrite

\* Numbers only grow.
LEMMA NumbersGrow ==
  ASSUME RowsTyped, RequestsOK, ContestNext
  PROVE  /\ ClockTyped' /\ lastId' \in Nat /\ lastId <= lastId' /\ Ids \subseteq Ids'
         /\ now' \in Nat /\ now <= now'
<1>1. lastId' \in {lastId, NewId, NewId + 1}
  BY OthersUnchanged DEF Others
<1>2. lastId' \in Nat /\ lastId <= lastId'
  BY <1>1, Numbers
<1>3. now' \in 1..MaxTime /\ now' \in Nat /\ now <= now'
  <2>1. CASE now' = now
    BY <2>1, Numbers
  <2>2. CASE Tick
    BY <2>2, Numbers DEF Tick
  <2> QED BY <2>1, <2>2, OthersUnchanged DEF Others
<1>4. contest'.begin \in Nat
  <2>1. CASE contest' = contest
    BY <2>1, Numbers
  <2>2. ASSUME NEW c \in ContestClients, UpdateContest(c) PROVE contest'.begin \in Nat
    <3>1. contestClient[c].op = "contest" /\ contest' = contestClient[c].row
      BY <2>2 DEF UpdateContest, ContestWrites
    <3>2. RequestOK(contestClient[c])
      BY DEF RequestsOK
    <3>3. contest' \in Configs
      BY <3>1, <3>2 DEF RequestOK
    <3> QED BY <3>3, ContestAssumption
  <2> QED BY <2>1, <2>2, OthersUnchanged DEF Others
<1>5. Ids \subseteq Ids'
  <2>1. lastId \in Nat
    BY Numbers
  <2> QED BY <1>2, <2>1 DEF Ids
<1>6. cached' \subseteq Ids'
  <2>1. CASE cached' = cached
    BY <1>5, <2>1, Numbers
  <2>2. CASE SyncSolutions
    <3>1. PICK s \in solution : cached' = cached \cup {s.id}
      BY <2>2 DEF SyncSolutions
    <3>2. s.id \in Ids
      BY SolutionType, Numbers
    <3> QED BY <1>5, <3>1, <3>2, Numbers
  <2> QED BY <2>1, <2>2, OthersUnchanged DEF Others
<1>7. ClockTyped'
  BY <1>2, <1>3, <1>4, <1>6 DEF ClockTyped
<1> QED BY <1>2, <1>3, <1>5, <1>7

--------------------------------------------------------------------------------
(* How each table changes: a row is added, removed or replaced by one with its ID *)

AddsProblem(p) ==
    /\ p \in [id : {NewId}, code : ProblemCodes] /\ \A q \in contestProblem : q.code # p.code
    /\ contestProblem' = contestProblem \cup {p} /\ lastId' = NewId /\ solution' = solution
RemovesProblem(r) ==
    /\ \A s \in solution : s.problem # r.id
    /\ contestProblem' = contestProblem \ {r} /\ solution' = solution
ReplacesProblem(r, p) ==
    /\ p \in [id : Ids, code : ProblemCodes] /\ p.id = r.id
    /\ \A q \in contestProblem : q # r => q.code # p.code
    /\ contestProblem' = (contestProblem \ {r}) \cup {p} /\ solution' = solution
ProblemChange ==
    \/ contestProblem' = contestProblem
    \/ \E p : AddsProblem(p)
    \/ \E r \in contestProblem : RemovesProblem(r) \/ \E p : ReplacesProblem(r, p)

AddsParticipant(p) ==
    /\ p \in [id : {NewId}, account : Accounts, kind : ParticipantKinds, begin : Nat]
    /\ p.account \in GroupAccounts => p.kind # "virtual" /\ p.begin = 0
    /\ \A q \in participant : q.account # p.account \/ q.kind # p.kind
    /\ participant' = participant \cup {p} /\ lastId' = NewId
    /\ solution' = solution /\ message' = message
RemovesParticipant(r) ==
    /\ \A s \in solution : s.participant # r.id
    /\ \A m \in message : m.participant # r.id
    /\ participant' = participant \ {r} /\ lastId' = lastId
    /\ solution' = solution /\ message' = message
ReplacesParticipant(r, p) ==
    /\ p \in [id : {r.id}, account : {r.account}, kind : {r.kind}, begin : Nat]
    /\ p.account \in Users /\ p.begin # 0
    /\ participant' = (participant \ {r}) \cup {p} /\ lastId' = lastId
    /\ solution' = solution /\ message' = message
ParticipantChange ==
    \/ participant' = participant
    \/ \E p : AddsParticipant(p)
    \/ \E r \in participant : RemovesParticipant(r) \/ \E p : ReplacesParticipant(r, p)

\* IDs and rows that are typed.
LEMMA NewIdIsNew ==
  ASSUME RowsTyped
  PROVE  /\ NewId \in Nat /\ NewId # 0 /\ NewId \notin Ids
         /\ \A p \in contestProblem : p.id # NewId
         /\ \A p \in participant : p.id # NewId
         /\ \A s \in solution : s.id # NewId /\ s.participant # NewId
<1>1. NewId = lastId + 1 /\ lastId \in Nat /\ Ids = 1..lastId
  BY Numbers
<1>2. \A p \in contestProblem : p.id # NewId
  BY <1>1, ProblemType
<1>3. \A p \in participant : p.id # NewId
  BY <1>1, RowType
<1>4. \A s \in solution : s.id # NewId /\ s.participant # NewId
  BY <1>1, SolutionType
<1> QED BY <1>1, <1>2, <1>3, <1>4

\* Problems change so.
LEMMA ProblemsChange ==
  ASSUME RowsTyped, RequestsOK, ContestNext
  PROVE  ProblemChange
<1>1. CASE contestProblem' = contestProblem
  BY <1>1 DEF ProblemChange
<1>2. ASSUME NEW c \in ContestClients, CreateContestProblem(c) PROVE ProblemChange
  <2>1. PICK row : row = contestClient[c].row
    OBVIOUS
  <2>2. row \in [id : {0}, code : ProblemCodes]
    BY <1>2, <2>1 DEF RequestsOK, RequestOK, CreateContestProblem, ContestWrites
  <2>3. PICK p : p = [row EXCEPT !.id = NewId]
    OBVIOUS
  <2>4. p \in [id : {NewId}, code : ProblemCodes] /\ p.code = row.code
    BY <2>2, <2>3
  <2>5. \A q \in contestProblem : q.id # 0
    BY ProblemType
  <2>6. /\ contestProblem' = contestProblem \cup {p} /\ lastId' = NewId /\ solution' = solution
        /\ \A q \in contestProblem : q.id = row.id \/ q.code # row.code
    BY <1>2, <2>1, <2>3 DEF CreateContestProblem, CodeAllowed
  <2>7. AddsProblem(p)
    BY <2>2, <2>4, <2>5, <2>6 DEF AddsProblem
  <2> QED BY <2>7 DEF ProblemChange
<1>3. ASSUME NEW c \in ContestClients, UpdateContestProblem(c) PROVE ProblemChange
  <2>1. PICK row : row = contestClient[c].row
    OBVIOUS
  <2>2. row \in [id : Ids, code : ProblemCodes]
    BY <1>3, <2>1 DEF RequestsOK, RequestOK, UpdateContestProblem, ContestWrites
  <2>3. /\ RowsWith(contestProblem, row.id) # {}
        /\ contestProblem' = (contestProblem \ RowsWith(contestProblem, row.id)) \cup {row}
        /\ solution' = solution /\ \A q \in contestProblem : q.id = row.id \/ q.code # row.code
    BY <1>3, <2>1 DEF UpdateContestProblem, CodeAllowed
  <2>4. PICK r \in contestProblem : r.id = row.id
    BY <2>3 DEF RowsWith
  <2>5. RowsWith(contestProblem, row.id) = {r} /\ UniqueIds(contestProblem)
    BY <2>4, RowsWithOne DEF RowsTyped, ProblemsTyped
  <2>6. ReplacesProblem(r, row)
    BY <2>2, <2>3, <2>4, <2>5 DEF ReplacesProblem, UniqueIds
  <2> QED BY <2>6 DEF ProblemChange
<1>4. ASSUME NEW c \in ContestClients, DeleteContestProblem(c) PROVE ProblemChange
  <2>1. PICK i : i = contestClient[c].row.id
    OBVIOUS
  <2>2. /\ RowsWith(contestProblem, i) # {} /\ contestProblem' = contestProblem \ RowsWith(contestProblem, i)
        /\ solution' = solution /\ \A s \in solution : s.problem # i
    BY <1>4, <2>1 DEF DeleteContestProblem
  <2>3. PICK r \in contestProblem : r.id = i
    BY <2>2 DEF RowsWith
  <2>4. RowsWith(contestProblem, i) = {r}
    BY <2>3, RowsWithOne DEF RowsTyped, ProblemsTyped
  <2>5. RemovesProblem(r)
    BY <2>2, <2>3, <2>4 DEF RemovesProblem
  <2> QED BY <2>5 DEF ProblemChange
<1> QED BY <1>1, <1>2, <1>3, <1>4, OthersUnchanged DEF Others, ProblemStep

\* The participant that a submission or a question saves.
SavedRow(c, p) ==
    /\ p \in [id : Ids \cup {NewId}, account : {contestClient[c].row.row.account},
              kind : {contestClient[c].row.row.kind}, begin : {contestClient[c].row.row.begin}]
    /\ p.id = IF contestClient[c].row.row.id = 0 THEN NewId ELSE contestClient[c].row.row.id
    /\ p.account \in Users /\ p.kind \in ParticipantKinds /\ p.begin \in Nat
    /\ \/ contestClient[c].row.row.id = 0 /\ AddsParticipant(p)
       \/ /\ contestClient[c].row.row.id # 0 /\ participant' = participant /\ lastId' = lastId
          /\ contestClient[c].row.row = contestClient[c].row.was
       \/ /\ contestClient[c].row.row.id # 0 /\ p.begin # 0
          /\ \E r \in participant : ReplacesParticipant(r, p)
    /\ contestClient' = [contestClient EXCEPT ![c] =
           [pc |-> "saved", op |-> contestClient[c].op,
            row |-> [problem |-> contestClient[c].row.problem, was |-> contestClient[c].row.was,
                     row |-> p],
            now |-> contestClient[c].now]]
    /\ now' = now
LEMMA SaveEffect ==
  ASSUME RowsTyped, RequestsOK, NEW c \in ContestClients, SaveParticipant(c)
  PROVE  \E p : SavedRow(c, p)
<1>1. PICK q : q = contestClient[c]
  OBVIOUS
<1>2. q.pc = "write" /\ q.op \in {"submit", "question"}
  BY <1>1 DEF SaveParticipant
<1>3. PendingParticipant(q)
  BY <1>1, <1>2 DEF RequestsOK, RequestOK
<1>4. PICK o : o = q.row.row
  OBVIOUS
<1>5. /\ o \in [id : {0} \cup Ids, account : Users, kind : ParticipantKinds, begin : Nat]
      /\ o.id # 0 => SameAccount(o)
      /\ q.row.was = o \/ (q.row.was # o /\ o.begin # 0)
  BY <1>2, <1>3, <1>4 DEF PendingParticipant
<1>6. PICK p : p = [o EXCEPT !.id = IF o.id = 0 THEN NewId ELSE o.id]
  OBVIOUS
<1>7. /\ p.account = o.account /\ p.kind = o.kind /\ p.begin = o.begin
      /\ p.id = (IF o.id = 0 THEN NewId ELSE o.id)
      /\ p = [id |-> p.id, account |-> p.account, kind |-> p.kind, begin |-> p.begin]
      /\ o.id # 0 => p = o
  BY <1>5, <1>6
<1>8. p.id \in Ids \cup {NewId}
  BY <1>5, <1>7
<1>9. /\ solution' = solution /\ message' = message /\ now' = now
      /\ contestClient' = [contestClient EXCEPT ![c] =
           [pc |-> "saved", op |-> q.op,
            row |-> [problem |-> q.row.problem, was |-> q.row.was, row |-> p],
            now |-> q.now]]
  BY <1>1, <1>4, <1>6 DEF SaveParticipant
<1>10. IF o.id = 0
       THEN KindAllowed(p) /\ participant' = participant \cup {p} /\ lastId' = NewId
       ELSE /\ lastId' = lastId
            /\ \/ o = q.row.was /\ participant' = participant
               \/ /\ o # q.row.was /\ RowsWith(participant, p.id) # {}
                  /\ participant' = (participant \ RowsWith(participant, p.id)) \cup {p}
  BY <1>1, <1>4, <1>6 DEF SaveParticipant
<1>11. CASE o.id = 0
  <2>1. p.id = NewId
    BY <1>7, <1>11
  <2>2. \A x \in participant : x.account # p.account \/ x.kind # p.kind
    BY <1>10, <1>11, <2>1, NewIdIsNew DEF KindAllowed
  <2>3. p.account \notin GroupAccounts
    BY <1>5, <1>7, UsersAreNotGroups
  <2>4. AddsParticipant(p)
    BY <1>5, <1>7, <1>9, <1>10, <1>11, <2>1, <2>2, <2>3 DEF AddsParticipant, Accounts
  <2> QED BY <1>1, <1>4, <1>5, <1>7, <1>8, <1>9, <1>11, <2>4 DEF SavedRow
<1>12. CASE o.id # 0 /\ o = q.row.was /\ participant' = participant
  BY <1>1, <1>4, <1>5, <1>7, <1>8, <1>9, <1>10, <1>12 DEF SavedRow
<1>13. CASE o.id # 0 /\ ~(o = q.row.was /\ participant' = participant)
  <2>1. /\ o # q.row.was /\ RowsWith(participant, p.id) # {} /\ lastId' = lastId
        /\ participant' = (participant \ RowsWith(participant, p.id)) \cup {p}
    BY <1>10, <1>13
  <2>2. PICK r \in participant : r.id = p.id
    BY <2>1 DEF RowsWith
  <2>3. RowsWith(participant, p.id) = {r}
    BY <2>2, RowsWithOne DEF RowsTyped, ParticipantsTyped
  <2>4. r.account = p.account /\ r.kind = p.kind
    BY <1>5, <1>7, <1>13, <2>2 DEF SameAccount
  <2>5. p.begin # 0 /\ p.begin \in Nat /\ p.account \in Users
    BY <1>5, <1>7, <2>1
  <2>6. ReplacesParticipant(r, p)
    BY <1>7, <1>9, <2>1, <2>2, <2>3, <2>4, <2>5 DEF ReplacesParticipant
  <2> QED BY <1>1, <1>4, <1>5, <1>7, <1>8, <1>9, <1>13, <2>5, <2>6 DEF SavedRow
<1> QED BY <1>11, <1>12, <1>13

\* Participants change so.
LEMMA ParticipantsChange ==
  ASSUME RowsTyped, RequestsOK, ContestNext
  PROVE  ParticipantChange
<1>1. CASE participant' = participant
  BY <1>1 DEF ParticipantChange
<1>2. ASSUME NEW c \in ContestClients, CreateContestParticipant(c) PROVE ParticipantChange
  <2>1. PICK row : row = contestClient[c].row
    OBVIOUS
  <2>2. /\ row \in [id : {0}, account : Accounts, kind : ParticipantKinds, begin : Nat]
        /\ row.account \in GroupAccounts => row.kind # "virtual" /\ row.begin = 0
    BY <1>2, <2>1 DEF RequestsOK, RequestOK, CreateContestParticipant, ContestWrites
  <2>3. PICK p : p = [row EXCEPT !.id = NewId]
    OBVIOUS
  <2>4. /\ p \in [id : {NewId}, account : Accounts, kind : ParticipantKinds, begin : Nat]
        /\ p.account = row.account /\ p.kind = row.kind /\ p.begin = row.begin
    BY <2>2, <2>3
  <2>5. \A q \in participant : q.id # 0
    BY RowType
  <2>6. /\ participant' = participant \cup {p} /\ lastId' = NewId
        /\ solution' = solution /\ message' = message
        /\ \A q \in participant : q.id = row.id \/ q.account # row.account \/ q.kind # row.kind
    BY <1>2, <2>1, <2>3 DEF CreateContestParticipant, KindAllowed
  <2>7. AddsParticipant(p)
    BY <2>2, <2>4, <2>5, <2>6 DEF AddsParticipant
  <2> QED BY <2>7 DEF ParticipantChange
<1>3. ASSUME NEW c \in ContestClients, DeleteContestParticipant(c) PROVE ParticipantChange
  <2>1. PICK i : i = contestClient[c].row.id
    OBVIOUS
  <2>2. /\ RowsWith(participant, i) # {} /\ participant' = participant \ RowsWith(participant, i)
        /\ solution' = solution /\ message' = message /\ lastId' = lastId
        /\ \A s \in solution : s.participant # i
        /\ \A m \in message : m.participant # i
    BY <1>3, <2>1 DEF DeleteContestParticipant, ParticipantReferenced
  <2>3. PICK r \in participant : r.id = i
    BY <2>2 DEF RowsWith
  <2>4. RowsWith(participant, i) = {r}
    BY <2>3, RowsWithOne DEF RowsTyped, ParticipantsTyped
  <2>5. RemovesParticipant(r)
    BY <2>2, <2>3, <2>4 DEF RemovesParticipant
  <2> QED BY <2>5 DEF ParticipantChange
<1>4. ASSUME NEW c \in ContestClients, SaveParticipant(c) PROVE ParticipantChange
  <2>1. PICK p : SavedRow(c, p)
    BY <1>4, SaveEffect
  <2> QED BY <2>1 DEF SavedRow, ParticipantChange
<1> QED BY <1>1, <1>2, <1>3, <1>4, OthersUnchanged DEF Others, ParticipantStep

AddsSolution(c, s) ==
    /\ contestClient[c].pc = "allowed" /\ contestClient[c].op = "submit"
    /\ s \in [id : {NewId}, participant : {contestClient[c].row.row.id}, problem : Ids,
              create : {contestClient[c].now}, report : {0}, seen : {contestClient[c].row.seen}]
    /\ RowsWith(participant, s.participant) # {} /\ RowsWith(contestProblem, s.problem) # {}
    /\ solution' = solution \cup {s} /\ lastId' = NewId + 1
    /\ judgeTask' = judgeTask \cup {NewTask(NewId + 1, NewId)}
    /\ contestClient' = [contestClient EXCEPT ![c] = NoContestRequest] /\ now' = now
    /\ participant' = participant /\ contestProblem' = contestProblem
ReportsSolution(r, p) ==
    /\ p \in [id : {r.id}, participant : {r.participant}, problem : {r.problem},
              create : {r.create}, report : {0} \cup Ids, seen : {r.seen}]
    /\ solution' = (solution \ {r}) \cup {p} /\ now' = now
    /\ participant' = participant /\ contestProblem' = contestProblem
SolutionChange ==
    \/ solution' = solution
    \/ \E c \in ContestClients : \E s : AddsSolution(c, s)
    \/ \E r \in solution : \E p : ReportsSolution(r, p)

\* A report is written to the solution with the ID, if there is one.
LEMMA ReportEffect ==
  ASSUME RowsTyped, NEW s, NEW report, report \in {0} \cup Ids, SetReport(s, report)
  PROVE  \/ RowsWith(solution, s) = {} /\ solution' = solution
         \/ \E r \in solution : \E p :
              /\ r.id = s /\ p \in [id : {r.id}, participant : {r.participant}, problem : {r.problem},
                                    create : {r.create}, report : {report}, seen : {r.seen}]
              /\ solution' = (solution \ {r}) \cup {p}
<1>1. CASE RowsWith(solution, s) = {}
  BY <1>1 DEF SetReport
<1>2. ASSUME NEW r \in solution, r.id = s
      PROVE  \E p : /\ p \in [id : {r.id}, participant : {r.participant}, problem : {r.problem},
                              create : {r.create}, report : {report}, seen : {r.seen}]
                    /\ solution' = (solution \ {r}) \cup {p}
  <2>1. RowsWith(solution, s) = {r}
    BY <1>2, RowsWithOne DEF RowsTyped, SolutionsTyped
  <2>2. PICK p : p = [r EXCEPT !.report = report]
    OBVIOUS
  <2>3. solution' = (solution \ {r}) \cup {p}
    BY <2>1, <2>2 DEF SetReport
  <2>4. p \in [id : {r.id}, participant : {r.participant}, problem : {r.problem},
               create : {r.create}, report : {report}, seen : {r.seen}]
    BY <2>2, SolutionType
  <2> QED BY <2>3, <2>4
<1> QED BY <1>1, <1>2 DEF RowsWith

\* A report is written by a request to judge again or by a task.
LEMMA SetReportChange ==
  ASSUME RowsTyped, NEW s, NEW report, report \in {0} \cup Ids, SetReport(s, report),
         now' = now, participant' = participant, contestProblem' = contestProblem
  PROVE  SolutionChange
<1>1. CASE solution' = solution
  BY <1>1 DEF SolutionChange
<1>2. ASSUME NEW r \in solution, NEW p,
             p \in [id : {r.id}, participant : {r.participant}, problem : {r.problem},
                    create : {r.create}, report : {report}, seen : {r.seen}],
             solution' = (solution \ {r}) \cup {p}
      PROVE  SolutionChange
  <2>1. p \in [id : {r.id}, participant : {r.participant}, problem : {r.problem},
               create : {r.create}, report : {0} \cup Ids, seen : {r.seen}]
    BY <1>2
  <2>2. ReportsSolution(r, p)
    BY <1>2, <2>1 DEF ReportsSolution
  <2> QED BY <2>2 DEF SolutionChange
<1> QED BY <1>1, <1>2, ReportEffect

\* What a submission that passed the quota adds.
LEMMA SubmitEffect ==
  ASSUME RowsTyped, RequestsOK, NEW c \in ContestClients, SubmitContestSolution(c)
  PROVE  \E s : AddsSolution(c, s)
<1>1. PICK q : q = contestClient[c]
  OBVIOUS
<1>2. q.pc = "allowed" /\ q.op = "submit"
  BY <1>1 DEF SubmitContestSolution
<1>3. PICK s : s = [id |-> NewId, participant |-> q.row.row.id, problem |-> q.row.problem,
                    create |-> q.now, report |-> 0, seen |-> q.row.seen]
  OBVIOUS
<1>4. /\ RowsWith(participant, s.participant) # {} /\ RowsWith(contestProblem, s.problem) # {}
      /\ solution' = solution \cup {s} /\ lastId' = NewId + 1
      /\ judgeTask' = judgeTask \cup {NewTask(NewId + 1, NewId)}
      /\ contestClient' = [contestClient EXCEPT ![c] = NoContestRequest] /\ now' = now
      /\ participant' = participant /\ contestProblem' = contestProblem
  BY <1>1, <1>3 DEF SubmitContestSolution, ContestEnds
<1>5. s.problem \in Ids
  <2>1. PICK p \in contestProblem : p.id = s.problem
    BY <1>4 DEF RowsWith
  <2> QED BY <2>1, ProblemType, Numbers
<1>6. AddsSolution(c, s)
  BY <1>1, <1>2, <1>3, <1>4, <1>5 DEF AddsSolution
<1> QED BY <1>6

\* Solutions change so.
LEMMA SolutionsChange ==
  ASSUME RowsTyped, RequestsOK, ContestNext
  PROVE  SolutionChange
<1>1. CASE solution' = solution
  BY <1>1 DEF SolutionChange
<1>2. ASSUME NEW c \in ContestClients, SubmitContestSolution(c) PROVE SolutionChange
  BY <1>2, SubmitEffect DEF SolutionChange
<1>3. ASSUME NEW c \in ContestClients, RejudgeContestSolution(c) PROVE SolutionChange
  <2>1. PICK i : i = contestClient[c].row.id
    OBVIOUS
  <2>2. /\ SetReport(i, 0) /\ now' = now
        /\ participant' = participant /\ contestProblem' = contestProblem
    BY <1>3, <2>1 DEF RejudgeContestSolution, ContestWrites
  <2> QED BY <2>2, SetReportChange
<1>4. ASSUME NEW t \in judgeTask, JudgeReports(t) PROVE SolutionChange
  <2>1. SetReport(t.solution, t.id) /\ now' = now
        /\ participant' = participant /\ contestProblem' = contestProblem
    BY <1>4 DEF JudgeReports
  <2>2. t.id \in {0} \cup Ids
    BY TaskType, Numbers
  <2> QED BY <2>1, <2>2, SetReportChange
<1> QED BY <1>1, <1>2, <1>3, <1>4, OthersUnchanged DEF Others, SolutionStep

--------------------------------------------------------------------------------
(* Rows stay typed *)

\* Problems.
LEMMA ProblemsStayTyped ==
  ASSUME RowsTyped, RequestsOK, ContestNext
  PROVE  ProblemsTyped'
<1>1. Ids \subseteq Ids' /\ lastId' \in Nat
  BY NumbersGrow
<1>2. contestProblem \subseteq [id : Ids, code : ProblemCodes] /\ UniqueIds(contestProblem)
  BY DEF RowsTyped, ProblemsTyped
<1>3. contestProblem \subseteq [id : Ids', code : ProblemCodes]
  BY <1>1, <1>2
<1>4. CASE contestProblem' = contestProblem
  BY <1>2, <1>3, <1>4 DEF ProblemsTyped, UniqueIds
<1>5. ASSUME NEW p, AddsProblem(p) PROVE ProblemsTyped'
  <2>1. NewId \in Ids'
    BY <1>5, NewIdIsNew DEF AddsProblem, Ids
  <2>2. p.id = NewId /\ p \in [id : Ids', code : ProblemCodes]
    BY <1>5, <2>1 DEF AddsProblem
  <2>3. contestProblem' = contestProblem \cup {p}
    BY <1>5 DEF AddsProblem
  <2> QED BY <1>2, <1>3, <2>2, <2>3, NewIdIsNew DEF ProblemsTyped, UniqueIds
<1>6. ASSUME NEW r \in contestProblem, RemovesProblem(r) PROVE ProblemsTyped'
  BY <1>2, <1>3, <1>6 DEF RemovesProblem, ProblemsTyped, UniqueIds
<1>7. ASSUME NEW r \in contestProblem, NEW p, ReplacesProblem(r, p) PROVE ProblemsTyped'
  <2>1. p.id = r.id /\ p \in [id : Ids', code : ProblemCodes]
        /\ contestProblem' = (contestProblem \ {r}) \cup {p}
    BY <1>1, <1>7 DEF ReplacesProblem
  <2> QED BY <1>2, <1>3, <2>1 DEF ProblemsTyped, UniqueIds
<1> QED BY <1>4, <1>5, <1>6, <1>7, ProblemsChange DEF ProblemChange

\* Participants.
LEMMA ParticipantsStayTyped ==
  ASSUME RowsTyped, RequestsOK, ContestNext
  PROVE  ParticipantsTyped'
<1>1. Ids \subseteq Ids' /\ lastId' \in Nat
  BY NumbersGrow
<1>2. PICK T : T = [id : Ids', account : Accounts, kind : ParticipantKinds, begin : Nat]
  OBVIOUS
<1>3. participant \subseteq T /\ UniqueIds(participant)
  BY <1>1, <1>2 DEF RowsTyped, ParticipantsTyped
<1>4. ASSUME participant' \subseteq T, UniqueIds(participant') PROVE ParticipantsTyped'
  BY <1>2, <1>4 DEF ParticipantsTyped
<1>5. CASE participant' = participant
  BY <1>3, <1>4, <1>5
<1>6. ASSUME NEW p, AddsParticipant(p) PROVE ParticipantsTyped'
  <2>1. NewId \in Ids'
    BY <1>6, NewIdIsNew DEF AddsParticipant, Ids
  <2>2. p.id = NewId /\ p \in T /\ participant' = participant \cup {p}
    BY <1>2, <1>6, <2>1 DEF AddsParticipant
  <2>3. UniqueIds(participant')
    BY <1>3, <2>2, NewIdIsNew DEF UniqueIds
  <2> QED BY <1>3, <1>4, <2>2, <2>3
<1>7. ASSUME NEW r \in participant, RemovesParticipant(r) PROVE ParticipantsTyped'
  <2>1. participant' \subseteq participant
    BY <1>7 DEF RemovesParticipant
  <2>2. UniqueIds(participant')
    BY <1>3, <2>1 DEF UniqueIds
  <2> QED BY <1>3, <1>4, <2>1, <2>2
<1>8. ASSUME NEW r \in participant, NEW p, ReplacesParticipant(r, p) PROVE ParticipantsTyped'
  <2>1. /\ r.id \in Ids' /\ r.account \in Accounts /\ r.kind \in ParticipantKinds
    BY <1>2, <1>3
  <2>2. p.id = r.id /\ p \in T /\ participant' = (participant \ {r}) \cup {p}
    BY <1>2, <1>8, <2>1 DEF ReplacesParticipant
  <2>3. UniqueIds(participant')
    BY <1>3, <2>2 DEF UniqueIds
  <2> QED BY <1>3, <1>4, <2>2, <2>3
<1> QED BY <1>5, <1>6, <1>7, <1>8, ParticipantsChange DEF ParticipantChange

\* Solutions.
LEMMA SolutionsStayTyped ==
  ASSUME RowsTyped, RequestsOK, ContestNext
  PROVE  SolutionsTyped'
<1>1. Ids \subseteq Ids' /\ lastId' \in Nat /\ 1..now \subseteq 1..now'
  BY NumbersGrow, Numbers
<1>2. PICK T : T = [id : Ids', participant : Ids', problem : Ids', create : 1..now',
                    report : {0} \cup Ids', seen : SUBSET Ids']
  OBVIOUS
<1>3. solution \subseteq T /\ UniqueIds(solution) /\ IsFiniteSet(solution)
  <2>1. solution \subseteq [id : Ids, participant : Ids, problem : Ids, create : 1..now,
                            report : {0} \cup Ids, seen : SUBSET Ids]
    BY DEF RowsTyped, SolutionsTyped
  <2> QED BY <1>1, <1>2, <2>1 DEF RowsTyped, SolutionsTyped
<1>4. ASSUME solution' \subseteq T, UniqueIds(solution'), IsFiniteSet(solution')
      PROVE  SolutionsTyped'
  BY <1>2, <1>4 DEF SolutionsTyped
<1>5. CASE solution' = solution
  BY <1>3, <1>4, <1>5
<1>6. ASSUME NEW c \in ContestClients, NEW s, AddsSolution(c, s) PROVE SolutionsTyped'
  <2>1. NewId \in Ids'
    BY <1>6, Numbers DEF AddsSolution, Ids
  <2>2. contestClient[c].now \in 1..now /\ contestClient[c].row.seen \subseteq Ids
    <3>1. PICK q : q = contestClient[c]
      OBVIOUS
    <3>2. RequestOK(q) /\ q.pc = "allowed" /\ q.op = "submit"
      BY <1>6, <3>1 DEF AddsSolution, RequestsOK
    <3>3. q.now \in 1..now /\ q.row.seen \subseteq Ids
      BY <3>2 DEF RequestOK, PendingParticipant
    <3> QED BY <3>1, <3>3
  <2>3. s.participant \in Ids'
    <3>1. PICK p \in participant : p.id = s.participant
      BY <1>6 DEF AddsSolution, RowsWith
    <3>2. p.id \in Ids
      BY RowType, Numbers
    <3> QED BY <1>1, <3>1, <3>2
  <2>4. s \in T /\ s.id = NewId /\ solution' = solution \cup {s}
    BY <1>1, <1>2, <1>6, <2>1, <2>2, <2>3 DEF AddsSolution
  <2>5. UniqueIds(solution')
    BY <1>3, <2>4, NewIdIsNew DEF UniqueIds
  <2>6. IsFiniteSet(solution')
    BY <1>3, <2>4, FS_AddElement
  <2> QED BY <1>3, <1>4, <2>4, <2>5, <2>6
<1>7. ASSUME NEW r \in solution, NEW p, ReportsSolution(r, p) PROVE SolutionsTyped'
  <2>1. /\ r.id \in Ids' /\ r.participant \in Ids' /\ r.problem \in Ids' /\ r.create \in 1..now' /\ r.seen \subseteq Ids'
    BY <1>2, <1>3
  <2>2. p.id = r.id /\ p \in T /\ solution' = (solution \ {r}) \cup {p}
    BY <1>1, <1>2, <1>7, <2>1 DEF ReportsSolution
  <2>3. UniqueIds(solution')
    BY <1>3, <2>2 DEF UniqueIds
  <2>4. IsFiniteSet(solution \ {r})
    BY <1>3, FS_RemoveElement
  <2>5. IsFiniteSet(solution')
    BY <2>2, <2>4, FS_AddElement
  <2> QED BY <1>3, <1>4, <2>2, <2>3, <2>5
<1> QED BY <1>5, <1>6, <1>7, SolutionsChange DEF SolutionChange

\* What happens to tasks and their solutions.
AddsTask(n, i) ==
    /\ n \in [id : Ids', solution : {i}, status : {"open"}, written : {FALSE}] /\ n.id \notin Ids
    /\ i \in Ids' /\ judgeTask' = judgeTask \cup {n}
    /\ \/ i \notin Ids /\ \E s : s.id = i /\ solution' = solution \cup {s}
       \/ SetReport(i, 0)
ReplacesTask(t, n) ==
    /\ n \in [id : {t.id}, solution : {t.solution}, status : {"open", "succeeded", "failed"},
              written : BOOLEAN]
    /\ judgeTask' = (judgeTask \ {t}) \cup {n}
    /\ \/ n.written /\ n.status = "open" /\ SetReport(t.solution, t.id)
       \/ /\ n.written = t.written /\ (n.status = "succeeded" => t.written)
          /\ solution' = solution
TaskChange ==
    \/ judgeTask' = judgeTask /\ solution' = solution
    \/ \E n, i : AddsTask(n, i)
    \/ \E t \in judgeTask : \E n : ReplacesTask(t, n)
LEMMA TasksChange ==
  ASSUME RowsTyped, RequestsOK, ContestNext
  PROVE  TaskChange
<1>0. Ids \subseteq Ids' /\ lastId \in Nat /\ NewId = lastId + 1 /\ Ids = 1..lastId
  BY NumbersGrow, Numbers
<1>1. ASSUME ~TaskStep PROVE TaskChange
  <2>1. ~SolutionStep
    BY <1>1 DEF TaskStep, SolutionStep
  <2> QED BY <1>1, <2>1, OthersUnchanged DEF Others, TaskChange
<1>2. ASSUME NEW c \in ContestClients, SubmitContestSolution(c) PROVE TaskChange
  <2>1. PICK s : AddsSolution(c, s)
    BY <1>2, SubmitEffect
  <2>2. PICK i, n : i = NewId /\ n = [id |-> NewId + 1, solution |-> i, status |-> "open", written |-> FALSE]
    OBVIOUS
  <2>3. i \in Ids' /\ i \notin Ids /\ NewId + 1 \in Ids' /\ NewId + 1 \notin Ids
    BY <1>0, <2>1, <2>2 DEF AddsSolution, Ids
  <2>4. s.id = i /\ solution' = solution \cup {s} /\ judgeTask' = judgeTask \cup {n}
    BY <2>1, <2>2 DEF AddsSolution, NewTask
  <2>5. AddsTask(n, i)
    BY <2>2, <2>3, <2>4 DEF AddsTask
  <2> QED BY <2>5 DEF TaskChange
<1>3. ASSUME NEW c \in ContestClients, RejudgeContestSolution(c) PROVE TaskChange
  <2>1. PICK i, n : /\ i = contestClient[c].row.id
                    /\ n = [id |-> NewId, solution |-> i, status |-> "open", written |-> FALSE]
    OBVIOUS
  <2>2. /\ SetReport(i, 0) /\ lastId' = NewId
        /\ judgeTask' = judgeTask \cup {n}
    BY <1>3, <2>1 DEF RejudgeContestSolution, NewTask
  <2>3. i \in Ids
    BY <1>3, <2>1 DEF RejudgeContestSolution, ContestWrites, RequestsOK, RequestOK
  <2>4. i \in Ids' /\ NewId \in Ids' /\ NewId \notin Ids
    BY <1>0, <2>2, <2>3 DEF Ids
  <2>5. AddsTask(n, i)
    BY <2>1, <2>2, <2>4 DEF AddsTask
  <2> QED BY <2>5 DEF TaskChange
<1>4. ASSUME NEW t \in judgeTask, JudgeReports(t) PROVE TaskChange
  <2>1. PICK n : n = [t EXCEPT !.written = TRUE]
    OBVIOUS
  <2>2. /\ n \in [id : {t.id}, solution : {t.solution}, status : {"open", "succeeded", "failed"},
                  written : BOOLEAN]
        /\ n.written /\ n.status = t.status
    <3>1. t = [id |-> t.id, solution |-> t.solution, status |-> t.status, written |-> t.written]
          /\ t.status \in {"open", "succeeded", "failed"}
      BY TaskType
    <3>2. n = [id |-> t.id, solution |-> t.solution, status |-> t.status, written |-> TRUE]
      BY <2>1, <3>1
    <3>3. n.written = TRUE /\ n.status = t.status
      BY <3>2
    <3> QED BY <3>1, <3>2, <3>3
  <2>3. judgeTask' = (judgeTask \ {t}) \cup {n} /\ SetReport(t.solution, t.id) /\ t.status = "open"
    BY <1>4, <2>1 DEF JudgeReports
  <2>4. ReplacesTask(t, n)
    BY <2>2, <2>3 DEF ReplacesTask
  <2> QED BY <2>4 DEF TaskChange
<1>5. ASSUME NEW t \in judgeTask, TaskEnds(t) PROVE TaskChange
  <2>0. PICK x : x = IF t.written THEN "succeeded" ELSE "failed"
    OBVIOUS
  <2>1. PICK n : n = [t EXCEPT !.status = x]
    OBVIOUS
  <2>2. /\ n \in [id : {t.id}, solution : {t.solution}, status : {"open", "succeeded", "failed"},
                  written : BOOLEAN]
        /\ n.written = t.written /\ (n.status = "succeeded" => t.written)
    <3>1. x \in {"open", "succeeded", "failed"} /\ (x = "succeeded" => t.written)
      BY <2>0
    <3> QED BY <2>1, <3>1, TaskType
  <2>3. judgeTask' = (judgeTask \ {t}) \cup {n} /\ solution' = solution
    BY <1>5, <2>0, <2>1 DEF TaskEnds
  <2>4. ReplacesTask(t, n)
    BY <2>2, <2>3 DEF ReplacesTask
  <2> QED BY <2>4 DEF TaskChange
<1> QED BY <1>1, <1>2, <1>3, <1>4, <1>5 DEF TaskStep

\* Tasks.
LEMMA TasksStayTyped ==
  ASSUME RowsTyped, RequestsOK, ContestNext
  PROVE  TasksTyped'
<1>1. Ids \subseteq Ids'
  BY NumbersGrow
<1>2. PICK T : T = [id : Ids', solution : Ids', status : {"open", "succeeded", "failed"},
                    written : BOOLEAN]
  OBVIOUS
<1>3. judgeTask \subseteq T /\ UniqueIds(judgeTask) /\ \A t \in judgeTask : t.id \in Ids
  <2>1. judgeTask \subseteq [id : Ids, solution : Ids, status : {"open", "succeeded", "failed"},
                             written : BOOLEAN]
    BY DEF RowsTyped, TasksTyped
  <2>2. judgeTask \subseteq T
    BY <1>1, <1>2, <2>1
  <2>3. \A t \in judgeTask : t.id \in Ids
    BY <2>1
  <2> QED BY <2>2, <2>3 DEF RowsTyped, TasksTyped
<1>4. ASSUME judgeTask' \subseteq T, UniqueIds(judgeTask') PROVE TasksTyped'
  BY <1>2, <1>4 DEF TasksTyped
<1>5. CASE judgeTask' = judgeTask
  BY <1>3, <1>4, <1>5
<1>6. ASSUME NEW n, NEW i, AddsTask(n, i) PROVE TasksTyped'
  <2>1. n \in T /\ n.id \notin Ids /\ judgeTask' = judgeTask \cup {n}
    BY <1>2, <1>6 DEF AddsTask
  <2>2. UniqueIds(judgeTask')
    BY <1>3, <2>1 DEF UniqueIds
  <2> QED BY <1>3, <1>4, <2>1, <2>2
<1>7. ASSUME NEW t \in judgeTask, NEW n, ReplacesTask(t, n) PROVE TasksTyped'
  <2>1. t.id \in Ids' /\ t.solution \in Ids'
    BY <1>2, <1>3
  <2>2. n.id = t.id /\ n \in T /\ judgeTask' = (judgeTask \ {t}) \cup {n}
    BY <1>2, <1>7, <2>1 DEF ReplacesTask
  <2>3. UniqueIds(judgeTask')
    BY <1>3, <2>2 DEF UniqueIds
  <2> QED BY <1>3, <1>4, <2>2, <2>3
<1> QED BY <1>5, <1>6, <1>7, TasksChange DEF TaskChange

\* Messages are only added: questions of a participant that is there, and answers to who
\* has asked.
AddsMessage(m) ==
    /\ m \in [id : {NewId}, kind : {"question", "answer", "regular"},
              participant : {0} \cup Ids, parent : {0} \cup Ids]
    /\ \/ m.kind = "regular"
       \/ m.kind = "answer" /\ \E q \in message : q.kind # "regular" /\ q.participant = m.participant
       \/ \E p \in participant : p.id = m.participant /\ p.account \in Users
    /\ message' = message \cup {m} /\ lastId' = NewId /\ participant' = participant
LEMMA MessagesChange ==
  ASSUME RowsTyped, RequestsOK, ContestNext
  PROVE  message' = message \/ \E m : AddsMessage(m)
<1>1. ASSUME NEW c \in ContestClients, SubmitContestQuestion(c) PROVE \E m : AddsMessage(m)
  <2>1. PICK q : q = contestClient[c]
    OBVIOUS
  <2>2. PICK m : m = [id |-> NewId, kind |-> "question", participant |-> q.row.row.id, parent |-> 0]
    OBVIOUS
  <2>3. /\ q.pc = "allowed" /\ q.op = "question" /\ RowsWith(participant, q.row.row.id) # {}
        /\ message' = message \cup {m} /\ lastId' = NewId /\ participant' = participant
    BY <1>1, <2>1, <2>2 DEF SubmitContestQuestion
  <2>4. PendingParticipant(q)
    BY <2>1, <2>3 DEF RequestsOK, RequestOK
  <2>5. PICK p \in participant : p.id = q.row.row.id
    BY <2>3 DEF RowsWith
  <2>6. p.id \in Ids /\ p.id # 0
    BY RowType, Numbers
  <2>7. q.row.row.account \in Users /\ SameAccount(q.row.row)
    BY <2>4, <2>5, <2>6 DEF PendingParticipant
  <2>8. p.account \in Users
    BY <2>5, <2>7 DEF SameAccount
  <2>9. AddsMessage(m)
    BY <2>2, <2>3, <2>5, <2>6, <2>8 DEF AddsMessage
  <2> QED BY <2>9
<1>2. ASSUME NEW c \in ContestClients, CreateContestMessage(c) PROVE \E m : AddsMessage(m)
  <2>1. PICK row : row = contestClient[c].row
    OBVIOUS
  <2>2. PICK m : m = [row EXCEPT !.id = NewId]
    OBVIOUS
  <2>3. message' = message \cup {m} /\ lastId' = NewId /\ participant' = participant
    BY <1>2, <2>1, <2>2 DEF CreateContestMessage
  <2>4. /\ row \in [id : {0}, kind : {"answer", "regular"},
                    participant : {0} \cup Ids, parent : {0} \cup Ids]
        /\ row.kind = "answer" =>
             \E q \in message : q.kind # "regular" /\ q.participant = row.participant
    BY <1>2, <2>1 DEF RequestsOK, RequestOK, CreateContestMessage, ContestWrites
  <2>5. /\ m \in [id : {NewId}, kind : {"question", "answer", "regular"},
                  participant : {0} \cup Ids, parent : {0} \cup Ids]
        /\ m.kind = row.kind /\ m.participant = row.participant /\ row.kind \in {"answer", "regular"}
    BY <2>2, <2>4
  <2>6. AddsMessage(m)
    BY <2>3, <2>4, <2>5 DEF AddsMessage
  <2> QED BY <2>6
<1> QED BY <1>1, <1>2, OthersUnchanged DEF Others, MessageStep

\* Messages.
LEMMA MessagesStayTyped ==
  ASSUME RowsTyped, RequestsOK, ContestNext
  PROVE  MessagesTyped'
<1>1. Ids \subseteq Ids'
  BY NumbersGrow
<1>2. PICK T : T = [id : Ids', kind : {"question", "answer", "regular"},
                    participant : {0} \cup Ids', parent : {0} \cup Ids']
  OBVIOUS
<1>3. message \subseteq T
  <2>1. message \subseteq [id : Ids, kind : {"question", "answer", "regular"},
                           participant : {0} \cup Ids, parent : {0} \cup Ids]
    BY DEF RowsTyped, MessagesTyped
  <2> QED BY <1>1, <1>2, <2>1
<1>4. ASSUME message' \subseteq T PROVE MessagesTyped'
  BY <1>2, <1>4 DEF MessagesTyped
<1>5. ASSUME NEW m, AddsMessage(m) PROVE MessagesTyped'
  <2>1. NewId \in Ids'
    BY <1>5, NewIdIsNew DEF AddsMessage, Ids
  <2>2. m \in T /\ message' = message \cup {m}
    BY <1>1, <1>2, <1>5, <2>1 DEF AddsMessage
  <2> QED BY <1>3, <1>4, <2>2
<1> QED BY <1>3, <1>4, <1>5, MessagesChange

\* All rows.
LEMMA RowsStayTyped ==
  ASSUME RowsTyped, RequestsOK, ContestNext
  PROVE  RowsTyped'
BY NumbersGrow, ProblemsStayTyped, ParticipantsStayTyped, SolutionsStayTyped, TasksStayTyped,
   MessagesStayTyped DEF RowsTyped

--------------------------------------------------------------------------------
(* Requests keep what they have read *)

\* What does not change under a request: rows keep their account and kind, and their
\* begin once it is set; new rows have new IDs; messages stay.
LEMMA RowsGrow ==
  ASSUME RowsTyped, RequestsOK, ContestNext
  PROVE  /\ \A p \in participant' :
              \/ p.id \notin Ids
              \/ \E q \in participant : /\ q.id = p.id /\ q.account = p.account /\ q.kind = p.kind
                                        /\ q.begin # 0 => p.begin # 0
         /\ message \subseteq message'
<1>1. message \subseteq message'
  BY MessagesChange DEF AddsMessage
<1>2. CASE participant' = participant
  BY <1>1, <1>2
<1>3. ASSUME NEW p, AddsParticipant(p), NEW x \in participant'
      PROVE  x \in participant \/ x.id \notin Ids
  <2>1. x \in participant \/ x = p
    BY <1>3 DEF AddsParticipant
  <2>2. p.id = NewId
    BY <1>3 DEF AddsParticipant
  <2> QED BY <2>1, <2>2, NewIdIsNew
<1>4. ASSUME NEW r \in participant, RemovesParticipant(r) PROVE participant' \subseteq participant
  BY <1>4 DEF RemovesParticipant
<1>5. ASSUME NEW r \in participant, NEW p, ReplacesParticipant(r, p), NEW x \in participant'
      PROVE  \E q \in participant : /\ q.id = x.id /\ q.account = x.account /\ q.kind = x.kind
                                    /\ q.begin # 0 => x.begin # 0
  <2>1. x \in participant \/ x = p
    BY <1>5 DEF ReplacesParticipant
  <2>2. p.id = r.id /\ p.account = r.account /\ p.kind = r.kind /\ p.begin # 0
    BY <1>5 DEF ReplacesParticipant
  <2> QED BY <2>1, <2>2
<1> QED BY <1>1, <1>2, <1>3, <1>4, <1>5, ParticipantsChange DEF ParticipantChange

\* So does what a participant that was read has in common with its row.
LEMMA ReadsKept ==
  ASSUME RowsTyped, RequestsOK, ContestNext, NEW p, p.id \in Ids
  PROVE  /\ SameAccount(p) => SameAccount(p)'
         /\ KnowsBegin(p) => KnowsBegin(p)'
<1>1. ASSUME SameAccount(p), NEW x \in participant', x.id = p.id
      PROVE  x.account = p.account /\ x.kind = p.kind
  <2>1. PICK q \in participant : q.id = x.id /\ q.account = x.account /\ q.kind = x.kind
    BY <1>1, RowsGrow
  <2> QED BY <1>1, <2>1 DEF SameAccount
<1>2. ASSUME KnowsBegin(p), NEW x \in participant', x.id = p.id, p.begin # 0 PROVE x.begin # 0
  <2>1. PICK q \in participant : q.id = x.id /\ (q.begin # 0 => x.begin # 0)
    BY <1>2, RowsGrow
  <2> QED BY <1>2, <2>1 DEF KnowsBegin
<1>3. SameAccount(p) => SameAccount(p)'
  BY <1>1 DEF SameAccount
<1>4. KnowsBegin(p) => KnowsBegin(p)'
  BY <1>2 DEF KnowsBegin
<1> QED BY <1>3, <1>4

\* The participant of a request.
LEMMA PendingKept ==
  ASSUME RowsTyped, RequestsOK, ContestNext, NEW q, PendingParticipant(q)
  PROVE  PendingParticipant(q)'
<1>1. PICK o : o = q.row.row
  OBVIOUS
<1>2. /\ q.row.problem \in {0} \cup Ids
      /\ o \in [id : {0} \cup Ids, account : Users, kind : ParticipantKinds, begin : Nat]
      /\ q.pc # "write" => o.id # 0
      /\ o.id # 0 => SameAccount(o)
      /\ q.op = "submit" /\ o.kind = "regular" => o.begin # 0
      /\ q.pc = "write" => \/ q.row.was = o /\ (o.id # 0 => KnowsBegin(o))
                           \/ q.row.was # o /\ q.op = "submit" /\ o.begin # 0
      /\ q.pc # "write" /\ q.op = "submit" => KnowsBegin(o)
      /\ q.pc = "allowed" => q.row.seen \subseteq Ids
  BY <1>1 DEF PendingParticipant
<1>3. Ids \subseteq Ids'
  BY NumbersGrow
<1>4. o \in [id : {0} \cup Ids', account : Users, kind : ParticipantKinds, begin : Nat]
      /\ q.row.problem \in {0} \cup Ids'
  BY <1>2, <1>3
<1>5. o.id # 0 => o.id \in Ids
  BY <1>2
<1>6. o.id # 0 => (SameAccount(o) => SameAccount(o)') /\ (KnowsBegin(o) => KnowsBegin(o)')
  BY <1>5, ReadsKept
<1>7. /\ o.id # 0 => SameAccount(o)'
      /\ q.pc = "write" => \/ q.row.was = o /\ (o.id # 0 => KnowsBegin(o)')
                           \/ q.row.was # o /\ q.op = "submit" /\ o.begin # 0
      /\ q.pc # "write" /\ q.op = "submit" => KnowsBegin(o)'
      /\ q.pc = "allowed" => q.row.seen \subseteq Ids'
  BY <1>2, <1>3, <1>6
<1> QED BY <1>1, <1>2, <1>4, <1>7, Zenon DEF PendingParticipant

\* A request.
LEMMA RequestKept ==
  ASSUME RowsTyped, RequestsOK, ContestNext, NEW q, RequestOK(q)
  PROVE  RequestOK(q)'
<1>1. Ids \subseteq Ids' /\ 1..now \subseteq 1..now'
  BY NumbersGrow, Numbers
<1>2. message \subseteq message'
  BY RowsGrow
<1>3. q.pc # "idle" => q.now \in 1..now'
  BY <1>1 DEF RequestOK
<1>4. q.op = "update problem" => q.row \in [id : Ids', code : ProblemCodes]
  <2>1. [id : Ids, code : ProblemCodes] \subseteq [id : Ids', code : ProblemCodes]
    BY <1>1
  <2>2. q.op = "update problem" => q.row \in [id : Ids, code : ProblemCodes]
    BY Zenon DEF RequestOK
  <2> QED BY <2>1, <2>2
<1>5. q.op = "rejudge" => q.row.id \in Ids'
  BY <1>1 DEF RequestOK
<1>6. q.op = "message" =>
           /\ q.row \in [id : {0}, kind : {"answer", "regular"},
                         participant : {0} \cup Ids', parent : {0} \cup Ids']
           /\ q.row.kind = "answer" =>
                  \E m \in message' : m.kind # "regular" /\ m.participant = q.row.participant
  <2>1. [id : {0}, kind : {"answer", "regular"}, participant : {0} \cup Ids, parent : {0} \cup Ids]
          \subseteq [id : {0}, kind : {"answer", "regular"},
                     participant : {0} \cup Ids', parent : {0} \cup Ids']
    BY <1>1
  <2>2. q.op = "message" =>
           /\ q.row \in [id : {0}, kind : {"answer", "regular"},
                         participant : {0} \cup Ids, parent : {0} \cup Ids]
           /\ q.row.kind = "answer" =>
                  \E m \in message : m.kind # "regular" /\ m.participant = q.row.participant
    BY Zenon DEF RequestOK
  <2> QED BY <1>2, <2>1, <2>2
<1>7. q.op \in {"submit", "question"} => PendingParticipant(q)'
  BY PendingKept DEF RequestOK
<1> QED BY <1>3, <1>4, <1>5, <1>6, <1>7, Zenon DEF RequestOK

\* The next request of a client, if a step changes it.
ClientChange(c, q) ==
    contestClient' = [contestClient EXCEPT ![c] = q]

\* A request ends.
LEMMA IdleIsOK == RequestOK(NoContestRequest)'
<1>1. PICK q : q = NoContestRequest
  OBVIOUS
<1>2. /\ q = [pc |-> q.pc, op |-> q.op, row |-> q.row, now |-> q.now]
      /\ q.pc = "idle" /\ q.op = "none"
  BY <1>1 DEF NoContestRequest
<1>3. RequestOK(q)'
  BY <1>2, Zenon DEF RequestOK
<1> QED BY <1>1, <1>3

\* A request passes the quota.
LEMMA AllowedIsOK ==
  ASSUME RowsTyped, NEW q, RequestOK(q), q.pc = "saved",
         NEW r, r = [pc |-> "allowed", op |-> q.op, now |-> q.now,
                     row |-> [problem |-> q.row.problem, was |-> q.row.was, row |-> q.row.row,
                              seen |-> cached]]
  PROVE  RequestOK(r)
<1>1. /\ r.pc = "allowed" /\ r.op = q.op /\ r.now = q.now
      /\ r.row.problem = q.row.problem /\ r.row.row = q.row.row /\ r.row.seen = cached
      /\ r = [pc |-> r.pc, op |-> r.op, row |-> r.row, now |-> r.now]
  OBVIOUS
<1>2. q.now \in 1..now /\ q.op \in {"submit", "question"} /\ PendingParticipant(q)
  BY DEF RequestOK
<1>3. PendingParticipant(r)
  BY <1>1, <1>2, Numbers DEF PendingParticipant
<1>4. /\ r.op \notin {"none", "contest", "create problem", "update problem", "create participant",
                      "rejudge", "message"}
      /\ r.now \in 1..now /\ r.op \in {"submit", "question"}
  BY <1>1, <1>2
<1> QED BY <1>1, <1>3, <1>4, Zenon DEF RequestOK

\* A request has saved its participant.
LEMMA SavedIsOK ==
  ASSUME RowsTyped, RequestsOK, ContestNext, NEW c \in ContestClients,
         contestClient[c].pc = "write", contestClient[c].op \in {"submit", "question"},
         NEW p, SavedRow(c, p), NEW r, r = contestClient'[c]
  PROVE  RequestOK(r)'
<1>1. PICK q : q = contestClient[c]
  OBVIOUS
<1>2. RequestOK(q) /\ q.pc = "write" /\ q.op \in {"submit", "question"}
  BY <1>1 DEF RequestsOK
<1>3. PendingParticipant(q) /\ q.now \in 1..now
  BY <1>2 DEF RequestOK
<1>4. r = [pc |-> "saved", op |-> q.op, row |-> [problem |-> q.row.problem, was |-> q.row.was,
                                                 row |-> p], now |-> q.now]
  BY <1>1 DEF SavedRow, RequestsOK
<1>5. /\ r.pc = "saved" /\ r.op = q.op /\ r.now = q.now
      /\ r.row.problem = q.row.problem /\ r.row.row = p
      /\ r = [pc |-> r.pc, op |-> r.op, row |-> r.row, now |-> r.now]
  BY <1>4
<1>6. PICK o : o = q.row.row
  OBVIOUS
<1>7. /\ p \in [id : Ids \cup {NewId}, account : {o.account}, kind : {o.kind}, begin : {o.begin}]
      /\ p.id = IF o.id = 0 THEN NewId ELSE o.id
      /\ p.account \in Users /\ p.kind \in ParticipantKinds /\ p.begin \in Nat
      /\ \/ o.id = 0 /\ AddsParticipant(p)
         \/ o.id # 0 /\ participant' = participant /\ o = q.row.was
         \/ o.id # 0 /\ p.begin # 0 /\ \E x \in participant : ReplacesParticipant(x, p)
  BY <1>1, <1>6 DEF SavedRow
<1>8. /\ o.id # 0 => SameAccount(o)
      /\ q.op = "submit" /\ o.kind = "regular" => o.begin # 0
      /\ o = q.row.was /\ o.id # 0 => KnowsBegin(o)
      /\ q.row.problem \in {0} \cup Ids
  BY <1>2, <1>3, <1>6 DEF PendingParticipant
<1>9. p.id # 0 /\ p.id \in Ids'
  <2>1. CASE o.id = 0
    BY <1>7, <2>1, NewIdIsNew DEF AddsParticipant, Ids
  <2>2. CASE o.id # 0
    <3>1. p.id \in Ids \cup {NewId} /\ p.id = o.id
      BY <1>7, <2>2
    <3>2. o.id \in {0} \cup Ids
      BY <1>3, <1>6 DEF PendingParticipant
    <3> QED BY <2>2, <3>1, <3>2, NumbersGrow
  <2> QED BY <2>1, <2>2
<1>10. p.account = o.account /\ p.kind = o.kind /\ p.begin = o.begin
  BY <1>7
<1>11. SameAccount(p)' /\ KnowsBegin(p)'
  <2>1. CASE p \in participant'
    <3>1. UniqueIds(participant)'
      BY ParticipantsStayTyped DEF ParticipantsTyped
    <3> QED BY <2>1, <3>1 DEF SameAccount, KnowsBegin, UniqueIds
  <2>2. CASE o.id # 0 /\ participant' = participant /\ o = q.row.was
    <3>1. p.id = o.id /\ SameAccount(o) /\ KnowsBegin(o)
      BY <1>7, <1>8, <2>2
    <3> QED BY <1>10, <2>2, <3>1 DEF SameAccount, KnowsBegin
  <2> QED BY <1>7, <2>1, <2>2 DEF AddsParticipant, ReplacesParticipant
<1>12. p \in [id : {0} \cup Ids', account : Users, kind : ParticipantKinds, begin : Nat]
  BY <1>7, <1>9
<1>13. q.row.problem \in {0} \cup Ids'
  BY <1>8, NumbersGrow
<1>14. PendingParticipant(r)'
  BY <1>5, <1>8, <1>9, <1>10, <1>11, <1>12, <1>13, Zenon DEF PendingParticipant
<1>15. /\ r.op \notin {"none", "contest", "create problem", "update problem", "create participant",
                       "rejudge", "message"}
       /\ r.now \in 1..now' /\ r.op \in {"submit", "question"}
  <2>1. 1..now \subseteq 1..now'
    BY NumbersGrow, Numbers
  <2> QED BY <1>2, <1>3, <1>5, <2>1
<1> QED BY <1>5, <1>14, <1>15, Zenon DEF RequestOK

\* How requests change.
ClientStep(c) == ContestEnds(c) \/ ReadsOK(c) \/ SaveParticipant(c) \/ CheckQuota(c)
LEMMA ClientsChange ==
  ASSUME RowsTyped, ContestNext
  PROVE  contestClient' = contestClient \/ \E c \in ContestClients : ClientStep(c)
<1>1. CASE Tick \/ UpdateSetting \/ SyncSolutions
  BY <1>1 DEF Tick, UpdateSetting, SyncSolutions
<1>2. ASSUME NEW t \in judgeTask, JudgeReports(t) \/ TaskEnds(t) PROVE contestClient' = contestClient
  BY <1>2 DEF JudgeReports, TaskEnds
<1>3. ASSUME NEW c \in ContestClients, ContestWrite(c) PROVE ClientStep(c)
  BY <1>3 DEF ContestWrite, ClientStep, UpdateContest, CreateContestProblem, UpdateContestProblem,
     DeleteContestProblem, CreateContestParticipant, DeleteContestParticipant, CreateContestMessage,
     RejudgeContestSolution, SubmitContestSolution, SubmitContestQuestion, ContestRequestFails
<1> QED BY <1>1, <1>2, <1>3, StepKinds DEF ClientStep

\* All requests stay as they should be.
LEMMA RequestsStayOK ==
  ASSUME RowsTyped, RequestsOK, ContestNext
  PROVE  RequestsOK'
<1>1. DOMAIN contestClient = ContestClients
  BY DEF RequestsOK
<1>2. ASSUME NEW c \in ContestClients, NEW q, q = contestClient[c] PROVE RequestOK(q)'
  BY <1>2, RequestKept DEF RequestsOK
<1>3. ASSUME NEW c \in ContestClients, NEW q, ClientChange(c, q), RequestOK(q)' PROVE RequestsOK'
  <2>1. DOMAIN contestClient' = ContestClients
    BY <1>1, <1>3 DEF ClientChange
  <2>2. ASSUME NEW d \in ContestClients PROVE RequestOK(contestClient[d])'
    <3>1. PICK r : r = contestClient'[d]
      OBVIOUS
    <3>2. RequestOK(r)'
      <4>1. CASE d = c
        <5>1. r = q
          BY <1>1, <1>3, <3>1, <4>1 DEF ClientChange
        <5> QED BY <1>3, <5>1
      <4>2. CASE d # c
        <5>1. r = contestClient[d]
          BY <1>1, <1>3, <3>1, <4>2 DEF ClientChange
        <5> QED BY <1>2, <5>1
      <4> QED BY <4>1, <4>2
    <3> QED BY <3>1, <3>2
  <2> QED BY <2>1, <2>2 DEF RequestsOK
<1>4. CASE contestClient' = contestClient
  <2>1. ASSUME NEW d \in ContestClients PROVE RequestOK(contestClient[d])'
    <3>1. PICK r : r = contestClient'[d]
      OBVIOUS
    <3>2. RequestOK(r)'
      BY <1>2, <1>4, <3>1
    <3> QED BY <3>1, <3>2
  <2> QED BY <1>1, <1>4, <2>1 DEF RequestsOK
<1>5. ASSUME NEW c \in ContestClients, ContestEnds(c) PROVE RequestsOK'
  <2>1. PICK q : q = NoContestRequest
    OBVIOUS
  <2>2. RequestOK(q)'
    BY <2>1, IdleIsOK
  <2> QED BY <1>3, <1>5, <2>1, <2>2 DEF ContestEnds, ClientChange
<1>6. ASSUME NEW c \in ContestClients, ReadsOK(c) PROVE RequestsOK'
  <2>1. PICK op, row : ContestReads(c, op, row) /\ RequestOK(Fresh(op, row))
    BY <1>6 DEF ReadsOK
  <2>2. PICK q : q = Fresh(op, row)
    OBVIOUS
  <2>3. RequestOK(q)'
    BY <2>1, <2>2, RequestKept
  <2>4. ClientChange(c, q)
    BY <2>1, <2>2 DEF ContestReads, ClientChange, Fresh
  <2> QED BY <1>3, <2>3, <2>4
<1>7. ASSUME NEW c \in ContestClients, SaveParticipant(c) PROVE RequestsOK'
  <2>1. PICK p : SavedRow(c, p)
    BY <1>7, SaveEffect
  <2>2. PICK r : r = contestClient'[c]
    OBVIOUS
  <2>3. contestClient[c].pc = "write" /\ contestClient[c].op \in {"submit", "question"}
    BY <1>7 DEF SaveParticipant
  <2>4. RequestOK(r)'
    BY <2>1, <2>2, <2>3, SavedIsOK
  <2>5. ClientChange(c, r)
    BY <1>1, <2>1, <2>2 DEF SavedRow, ClientChange
  <2> QED BY <1>3, <2>4, <2>5
<1>8. ASSUME NEW c \in ContestClients, CheckQuota(c) PROVE RequestsOK'
  <2>1. PICK q, r : /\ q = contestClient[c]
                    /\ r = [pc |-> "allowed", op |-> q.op, now |-> q.now,
                            row |-> [problem |-> q.row.problem, was |-> q.row.was,
                                     row |-> q.row.row, seen |-> cached]]
    OBVIOUS
  <2>2. q.pc = "saved" /\ ClientChange(c, r)
    BY <1>8, <2>1 DEF CheckQuota, ClientChange
  <2>3. RequestOK(q)
    BY <2>1 DEF RequestsOK
  <2>4. RequestOK(r)
    BY <2>1, <2>2, <2>3, AllowedIsOK
  <2>5. RequestOK(r)'
    BY <2>4, RequestKept
  <2> QED BY <1>3, <2>2, <2>5
<1> QED BY <1>4, <1>5, <1>6, <1>7, <1>8, ClientsChange DEF ClientStep

--------------------------------------------------------------------------------
(* What holds of the rows stays true *)

\* Codes name problems.
LEMMA CodesStayUnique ==
  ASSUME RowsTyped, RequestsOK, CodesUnique, ContestNext
  PROVE  CodesUnique'
<1>1. CASE contestProblem' = contestProblem
  BY <1>1 DEF CodesUnique
<1>2. ASSUME NEW p, AddsProblem(p) PROVE CodesUnique'
  BY <1>2 DEF AddsProblem, CodesUnique
<1>3. ASSUME NEW r \in contestProblem, RemovesProblem(r) PROVE CodesUnique'
  BY <1>3 DEF RemovesProblem, CodesUnique
<1>4. ASSUME NEW r \in contestProblem, NEW p, ReplacesProblem(r, p) PROVE CodesUnique'
  BY <1>4 DEF ReplacesProblem, CodesUnique
<1> QED BY <1>1, <1>2, <1>3, <1>4, ProblemsChange DEF ProblemChange

\* An account takes part once in each kind.
LEMMA KindsStayUnique ==
  ASSUME RowsTyped, RequestsOK, KindsUnique, ContestNext
  PROVE  KindsUnique'
<1>1. CASE participant' = participant
  BY <1>1 DEF KindsUnique
<1>2. ASSUME NEW p, AddsParticipant(p) PROVE KindsUnique'
  BY <1>2 DEF AddsParticipant, KindsUnique
<1>3. ASSUME NEW r \in participant, RemovesParticipant(r) PROVE KindsUnique'
  BY <1>3 DEF RemovesParticipant, KindsUnique
<1>4. ASSUME NEW r \in participant, NEW p, ReplacesParticipant(r, p) PROVE KindsUnique'
  <2>1. /\ p.account = r.account /\ p.kind = r.kind
        /\ participant' = (participant \ {r}) \cup {p}
    BY <1>4 DEF ReplacesParticipant
  <2> QED BY <2>1 DEF KindsUnique
<1> QED BY <1>1, <1>2, <1>3, <1>4, ParticipantsChange DEF ParticipantChange

\* Groups do not begin on their own.
LEMMA GroupsStayUnstarted ==
  ASSUME RowsTyped, RequestsOK, GroupsUnstarted, ContestNext
  PROVE  GroupsUnstarted'
<1>1. CASE participant' = participant
  BY <1>1 DEF GroupsUnstarted
<1>2. ASSUME NEW p, AddsParticipant(p) PROVE GroupsUnstarted'
  BY <1>2 DEF AddsParticipant, GroupsUnstarted
<1>3. ASSUME NEW r \in participant, RemovesParticipant(r) PROVE GroupsUnstarted'
  BY <1>3 DEF RemovesParticipant, GroupsUnstarted
<1>4. ASSUME NEW r \in participant, NEW p, ReplacesParticipant(r, p) PROVE GroupsUnstarted'
  <2>1. p.account \notin GroupAccounts
    BY <1>4, UsersAreNotGroups DEF ReplacesParticipant
  <2> QED BY <1>4, <2>1 DEF ReplacesParticipant, GroupsUnstarted
<1> QED BY <1>1, <1>2, <1>3, <1>4, ParticipantsChange DEF ParticipantChange

\* Who has asked keeps its participant.
LEMMA AskersStay ==
  ASSUME RowsTyped, RequestsOK, QuestionsKeepAsker, ContestNext
  PROVE  QuestionsKeepAsker'
<1>1. CASE participant' = participant
  <2>1. CASE message' = message
    BY <1>1, <2>1 DEF QuestionsKeepAsker, Asked
  <2>2. ASSUME NEW m, AddsMessage(m) PROVE QuestionsKeepAsker'
    <3>1. m.kind # "regular" => Asked(m.participant)
      BY <2>2 DEF AddsMessage, QuestionsKeepAsker, Asked
    <3>2. message' = message \cup {m}
      BY <2>2 DEF AddsMessage
    <3> QED BY <1>1, <3>1, <3>2 DEF QuestionsKeepAsker, Asked
  <2> QED BY <2>1, <2>2, MessagesChange
<1>2. ASSUME NEW p, AddsParticipant(p) PROVE QuestionsKeepAsker'
  BY <1>2 DEF AddsParticipant, QuestionsKeepAsker, Asked
<1>3. ASSUME NEW r \in participant, RemovesParticipant(r) PROVE QuestionsKeepAsker'
  BY <1>3 DEF RemovesParticipant, QuestionsKeepAsker, Asked
<1>4. ASSUME NEW r \in participant, NEW p, ReplacesParticipant(r, p) PROVE QuestionsKeepAsker'
  <2>1. p.id = r.id /\ p.account \in Users /\ participant' = (participant \ {r}) \cup {p}
        /\ message' = message
    BY <1>4 DEF ReplacesParticipant
  <2> QED BY <2>1 DEF QuestionsKeepAsker, Asked
<1> QED BY <1>1, <1>2, <1>3, <1>4, ParticipantsChange DEF ParticipantChange

\* Nothing refers to a row that is gone.
LEMMA SolutionsStayReferring ==
  ASSUME RowsTyped, RequestsOK, SolutionsRefer, ContestNext
  PROVE  SolutionsRefer'
<1>1. ASSUME NEW i, RowsWith(participant, i) # {},
             solution' # solution \/ \E s \in solution : s.participant = i
      PROVE  RowsWith(participant', i) # {}
  <2>1. PICK p \in participant : p.id = i
    BY <1>1 DEF RowsWith
  <2>2. CASE participant' = participant
    BY <1>1, <2>2
  <2>3. ASSUME NEW q, AddsParticipant(q) PROVE p \in participant'
    BY <2>1, <2>3 DEF AddsParticipant
  <2>4. ASSUME NEW r \in participant, RemovesParticipant(r) PROVE p \in participant'
    BY <1>1, <2>1, <2>4 DEF RemovesParticipant
  <2>5. ASSUME NEW r \in participant, NEW q, ReplacesParticipant(r, q)
        PROVE  p \in participant' \/ (q \in participant' /\ q.id = i)
    <3>1. q.id = r.id /\ participant' = (participant \ {r}) \cup {q}
      BY <2>5 DEF ReplacesParticipant
    <3> QED BY <2>1, <3>1
  <2> QED BY <2>1, <2>2, <2>3, <2>4, <2>5, ParticipantsChange DEF ParticipantChange, RowsWith
<1>2. ASSUME NEW i, RowsWith(contestProblem, i) # {},
             solution' # solution \/ \E s \in solution : s.problem = i
      PROVE  RowsWith(contestProblem', i) # {}
  <2>1. PICK p \in contestProblem : p.id = i
    BY <1>2 DEF RowsWith
  <2>2. CASE contestProblem' = contestProblem
    BY <1>2, <2>2
  <2>3. ASSUME NEW q, AddsProblem(q) PROVE p \in contestProblem'
    BY <2>1, <2>3 DEF AddsProblem
  <2>4. ASSUME NEW r \in contestProblem, RemovesProblem(r) PROVE p \in contestProblem'
    BY <1>2, <2>1, <2>4 DEF RemovesProblem
  <2>5. ASSUME NEW r \in contestProblem, NEW q, ReplacesProblem(r, q)
        PROVE  p \in contestProblem' \/ (q \in contestProblem' /\ q.id = i)
    <3>1. q.id = r.id /\ contestProblem' = (contestProblem \ {r}) \cup {q}
      BY <2>5 DEF ReplacesProblem
    <3> QED BY <2>1, <3>1
  <2> QED BY <2>1, <2>2, <2>3, <2>4, <2>5, ProblemsChange DEF ProblemChange, RowsWith
<1>3. CASE solution' = solution
  BY <1>1, <1>2, <1>3 DEF SolutionsRefer
<1>4. ASSUME NEW c \in ContestClients, NEW s, AddsSolution(c, s) PROVE SolutionsRefer'
  BY <1>4 DEF AddsSolution, SolutionsRefer
<1>5. ASSUME NEW r \in solution, NEW p, ReportsSolution(r, p) PROVE SolutionsRefer'
  <2>1. /\ p.participant = r.participant /\ p.problem = r.problem
        /\ solution' = (solution \ {r}) \cup {p}
        /\ participant' = participant /\ contestProblem' = contestProblem
    BY <1>5 DEF ReportsSolution
  <2> QED BY <2>1 DEF SolutionsRefer
<1> QED BY <1>3, <1>4, <1>5, SolutionsChange DEF SolutionChange

\* Who has submitted knows when it began.
LEMMA SubmittedStaysBegun ==
  ASSUME RowsTyped, RequestsOK, SubmittedHasBegun, ContestNext
  PROVE  SubmittedHasBegun'
<1>1. CASE participant' = participant
  <2>1. CASE solution' = solution
    BY <1>1, <2>1 DEF SubmittedHasBegun
  <2>2. ASSUME NEW c \in ContestClients, NEW s, AddsSolution(c, s) PROVE SubmittedHasBegun'
    <3>1. PICK q : q = contestClient[c]
      OBVIOUS
    <3>2. q.pc = "allowed" /\ q.op = "submit" /\ s.participant = q.row.row.id
          /\ solution' = solution \cup {s}
      BY <2>2, <3>1 DEF AddsSolution
    <3>3. PendingParticipant(q)
      BY <3>1, <3>2 DEF RequestsOK, RequestOK
    <3>4. /\ q.row.row.id # 0 /\ SameAccount(q.row.row) /\ KnowsBegin(q.row.row)
          /\ q.row.row.kind = "regular" => q.row.row.begin # 0
      BY <3>2, <3>3 DEF PendingParticipant
    <3>5. \A p \in participant : p.id = s.participant /\ p.kind = "regular" => p.begin # 0
      BY <3>2, <3>4 DEF SameAccount, KnowsBegin
    <3> QED BY <1>1, <3>2, <3>5 DEF SubmittedHasBegun
  <2>3. ASSUME NEW r \in solution, NEW p, ReportsSolution(r, p) PROVE SubmittedHasBegun'
    <3>1. p.participant = r.participant /\ solution' = (solution \ {r}) \cup {p}
      BY <2>3 DEF ReportsSolution
    <3> QED BY <1>1, <3>1 DEF SubmittedHasBegun
  <2> QED BY <2>1, <2>2, <2>3, SolutionsChange DEF SolutionChange
<1>2. ASSUME NEW p, AddsParticipant(p) PROVE SubmittedHasBegun'
  <2>1. \A s \in solution : s.participant # p.id
    BY <1>2, NewIdIsNew DEF AddsParticipant
  <2> QED BY <1>2, <2>1 DEF AddsParticipant, SubmittedHasBegun
<1>3. ASSUME NEW r \in participant, RemovesParticipant(r) PROVE SubmittedHasBegun'
  BY <1>3 DEF RemovesParticipant, SubmittedHasBegun
<1>4. ASSUME NEW r \in participant, NEW p, ReplacesParticipant(r, p) PROVE SubmittedHasBegun'
  <2>1. p.begin # 0 /\ participant' = (participant \ {r}) \cup {p} /\ solution' = solution
    BY <1>4 DEF ReplacesParticipant
  <2> QED BY <2>1 DEF SubmittedHasBegun
<1> QED BY <1>1, <1>2, <1>3, <1>4, ParticipantsChange DEF ParticipantChange

\* The newest task that has written its report is not undone.
LEMMA ReportsStay ==
  ASSUME RowsTyped, RequestsOK, WrittenIsReported, ContestNext
  PROVE  WrittenIsReported'
<1>0. \A t \in judgeTask : t.id \in Ids /\ t.solution \in Ids /\ t.id \in Nat /\ t.id # 0
  BY TaskType, Numbers
<1>1. CASE judgeTask' = judgeTask /\ solution' = solution
  BY <1>1 DEF WrittenIsReported, Newest
<1>2. ASSUME NEW n, NEW i, AddsTask(n, i) PROVE WrittenIsReported'
  <2>1. /\ n.solution = i /\ n.status = "open" /\ n.written = FALSE /\ n.id \notin Ids /\ n.id \in Nat
        /\ judgeTask' = judgeTask \cup {n}
    <3>1. Ids' \subseteq Nat
      BY NumbersGrow DEF Ids
    <3> QED BY <1>2, <3>1 DEF AddsTask
  <2>2. \A t \in judgeTask : t.id < n.id
    <3>1. Ids = 1..lastId /\ lastId \in Nat
      BY Numbers
    <3>2. n.id \in Ids'
      BY <1>2 DEF AddsTask
    <3>3. n.id \in Nat /\ n.id > lastId
      BY <2>1, <3>1, <3>2 DEF Ids
    <3> QED BY <1>0, <3>1, <3>3
  <2>3. ASSUME NEW t \in judgeTask, Newest(t)' PROVE Newest(t) /\ t.solution # i
    <3>1. \A r \in judgeTask' : r.solution = t.solution => r.id <= t.id
      BY <2>3 DEF Newest
    <3>2. Newest(t)
      BY <2>1, <3>1 DEF Newest
    <3>3. t.id < n.id /\ t.id \in Nat /\ n.id \in Nat
      BY <1>0, <2>1, <2>2
    <3> QED BY <2>1, <3>1, <3>2, <3>3
  <2>4. ASSUME NEW t \in judgeTask, t.solution # i, NEW x \in RowsWith(solution', t.solution)
        PROVE  x \in RowsWith(solution, t.solution)
    <3>1. x \in solution' /\ x.id = t.solution
      BY <2>4 DEF RowsWith
    <3>2. CASE SetReport(i, 0)
      <4>1. CASE solution' = solution
        BY <3>1, <4>1 DEF RowsWith
      <4>2. ASSUME NEW r \in solution, NEW p, r.id = i, p.id = i, solution' = (solution \ {r}) \cup {p}
            PROVE  x \in solution
        BY <2>4, <3>1, <4>2
      <4>3. \/ solution' = solution
            \/ \E r \in solution : \E p : /\ r.id = i /\ p.id = i
                                          /\ solution' = (solution \ {r}) \cup {p}
        <5>1. \/ RowsWith(solution, i) = {} /\ solution' = solution
              \/ \E r \in solution : \E p :
                    /\ r.id = i /\ p \in [id : {r.id}, participant : {r.participant},
                                          problem : {r.problem}, create : {r.create}, report : {0}, seen : {r.seen}]
                    /\ solution' = (solution \ {r}) \cup {p}
          BY <3>2, ReportEffect
        <5> QED BY <5>1
      <4> QED BY <3>1, <4>1, <4>2, <4>3 DEF RowsWith
    <3>3. CASE \E s : s.id = i /\ solution' = solution \cup {s}
      BY <2>4, <3>1, <3>3 DEF RowsWith
    <3> QED BY <1>2, <3>2, <3>3 DEF AddsTask
  <2>5. ASSUME NEW t \in judgeTask'
        PROVE  /\ t.status = "succeeded" => t.written
               /\ t.written /\ Newest(t)' => \A x \in RowsWith(solution', t.solution) : x.report # 0
    <3>1. CASE t = n
      BY <2>1, <3>1
    <3>2. CASE t \in judgeTask
      BY <2>3, <2>4, <3>2 DEF WrittenIsReported
    <3> QED BY <2>1, <3>1, <3>2
  <2> QED BY <2>5 DEF WrittenIsReported, RowsWith
<1>3. ASSUME NEW t0 \in judgeTask, NEW n, ReplacesTask(t0, n) PROVE WrittenIsReported'
  <2>1. /\ n.id = t0.id /\ n.solution = t0.solution /\ judgeTask' = (judgeTask \ {t0}) \cup {n}
        /\ n.written \in BOOLEAN
    BY <1>3 DEF ReplacesTask
  <2>2. ASSUME NEW t \in judgeTask, t # t0, Newest(t)' PROVE Newest(t)
    <3>1. \A r \in judgeTask' : r.solution = t.solution => r.id <= t.id
      BY <2>2 DEF Newest
    <3> QED BY <2>1, <3>1 DEF Newest
  <2>3. ASSUME Newest(n)' PROVE Newest(t0)
    <3>1. \A r \in judgeTask' : r.solution = n.solution => r.id <= n.id
      BY <2>3 DEF Newest
    <3>2. t0.id <= t0.id
      BY <1>0
    <3> QED BY <2>1, <3>1, <3>2 DEF Newest
  <2>4. CASE n.written = t0.written /\ (n.status = "succeeded" => t0.written) /\ solution' = solution
    <3>1. ASSUME NEW t \in judgeTask'
          PROVE  /\ t.status = "succeeded" => t.written
                 /\ t.written /\ Newest(t)' => \A x \in RowsWith(solution', t.solution) : x.report # 0
      <4>1. CASE t = n
        <5>1. t0.written /\ Newest(t0) => \A x \in RowsWith(solution, t0.solution) : x.report # 0
          BY DEF WrittenIsReported
        <5> QED BY <2>1, <2>3, <2>4, <4>1, <5>1
      <4>2. CASE t \in judgeTask /\ t # t0
        BY <2>2, <2>4, <4>2 DEF WrittenIsReported
      <4> QED BY <2>1, <4>1, <4>2
    <3> QED BY <3>1 DEF WrittenIsReported, RowsWith
  <2>5. CASE n.written /\ n.status = "open" /\ SetReport(t0.solution, t0.id)
    <3>1. t0.id \in {0} \cup Ids /\ t0.id # 0
      BY <1>0
    <3>2. \/ RowsWith(solution, t0.solution) = {} /\ solution' = solution
          \/ \E r \in solution : \E p :
                /\ r.id = t0.solution
                /\ p \in [id : {r.id}, participant : {r.participant}, problem : {r.problem},
                          create : {r.create}, report : {t0.id}, seen : {r.seen}]
                /\ solution' = (solution \ {r}) \cup {p}
      BY <2>5, <3>1, ReportEffect
    <3>3. ASSUME NEW x \in RowsWith(solution', t0.solution) PROVE x.report # 0
      <4>1. x \in solution' /\ x.id = t0.solution
        BY <3>3 DEF RowsWith
      <4>2. ASSUME NEW r \in solution, NEW p, r.id = t0.solution, p.report = t0.id,
                   solution' = (solution \ {r}) \cup {p}
            PROVE  x = p
        BY <4>1, <4>2 DEF RowsTyped, SolutionsTyped, UniqueIds
      <4>3. \/ RowsWith(solution, t0.solution) = {} /\ solution' = solution
            \/ \E r \in solution : \E p :
                /\ r.id = t0.solution /\ p.report = t0.id /\ solution' = (solution \ {r}) \cup {p}
        BY <3>2
      <4>4. ~(RowsWith(solution, t0.solution) = {} /\ solution' = solution)
        BY <4>1 DEF RowsWith
      <4> QED BY <3>1, <4>2, <4>3, <4>4
    <3>4. ASSUME NEW t \in judgeTask, t.solution # t0.solution,
                 NEW x \in RowsWith(solution', t.solution)
          PROVE  x \in RowsWith(solution, t.solution)
      <4>1. x \in solution' /\ x.id = t.solution
        BY <3>4 DEF RowsWith
      <4>2. \/ solution' = solution
            \/ \E r \in solution : \E p :
                /\ r.id = t0.solution /\ p.id = r.id /\ solution' = (solution \ {r}) \cup {p}
        BY <3>2
      <4> QED BY <3>4, <4>1, <4>2 DEF RowsWith
    <3>5. ASSUME NEW t \in judgeTask'
          PROVE  /\ t.status = "succeeded" => t.written
                 /\ t.written /\ Newest(t)' => \A x \in RowsWith(solution', t.solution) : x.report # 0
      <4>1. CASE t = n
        BY <2>1, <2>5, <3>3, <4>1
      <4>2. CASE t \in judgeTask /\ t # t0 /\ t.solution = t0.solution
        BY <3>3, <4>2 DEF WrittenIsReported
      <4>3. CASE t \in judgeTask /\ t # t0 /\ t.solution # t0.solution
        BY <2>2, <3>4, <4>3 DEF WrittenIsReported
      <4> QED BY <2>1, <4>1, <4>2, <4>3
    <3> QED BY <3>5 DEF WrittenIsReported, RowsWith
  <2> QED BY <1>3, <2>4, <2>5 DEF ReplacesTask
<1> QED BY <1>1, <1>2, <1>3, TasksChange DEF TaskChange

--------------------------------------------------------------------------------
(* The quota of solutions *)

\* What was seen is counted as before, whatever a step adds to the solutions.
LEMMA WithinKept ==
  ASSUME RowsTyped, RequestsOK, ContestNext, NEW i, NEW seen, seen \subseteq Ids, NEW t,
         Within(i, seen, t)
  PROVE  Within(i, seen, t)'
<1>1. CASE solution' = solution
  BY <1>1 DEF Within, Counted
<1>2. ASSUME NEW c \in ContestClients, NEW s, AddsSolution(c, s) PROVE Within(i, seen, t)'
  <2>1. s.id \notin seen /\ solution' = solution \cup {s}
    BY <1>2, NewIdIsNew DEF AddsSolution
  <2>2. Counted(i, seen, t)' = Counted(i, seen, t)
    BY <2>1 DEF Counted
  <2> QED BY <2>2 DEF Within
<1>3. ASSUME NEW r \in solution, NEW p, ReportsSolution(r, p) PROVE Within(i, seen, t)'
  <2>1. /\ p.id = r.id /\ p.participant = r.participant /\ p.create = r.create
        /\ solution' = (solution \ {r}) \cup {p}
    BY <1>3 DEF ReportsSolution
  <2>2. Counted(i, seen, t)' = Counted(i, seen, t)
    BY <2>1 DEF Counted
  <2> QED BY <2>2 DEF Within
<1> QED BY <1>1, <1>2, <1>3, SolutionsChange DEF SolutionChange

\* There are only so many IDs.
LEMMA IdsAreFinite ==
  ASSUME RowsTyped, NEW S, S \subseteq Ids
  PROVE  IsFiniteSet(S) /\ Cardinality(S) \in Nat
<1>1. lastId \in Int /\ Ids = 1..lastId /\ 1 \in Int
  BY Numbers
<1>2. IsFiniteSet(1..lastId)
  BY <1>1, FS_Interval
<1>3. IsFiniteSet(S)
  BY <1>1, <1>2, FS_Subset
<1> QED BY <1>3, FS_CardinalityType

\* The look at the quota counts what is in the caches.
LEMMA CheckedIsWithin ==
  ASSUME RowsTyped, NEW p, NEW t, p.kind # "manager", HasSolutionsQuota(p, t)
  PROVE  Within(p.id, cached, t)
<1>1. RecentSolutions(p, t) = Counted(p.id, cached, t)
  BY DEF RecentSolutions, Counted
<1>2. CASE RecentSolutions(p, t) = {}
  BY <1>1, <1>2, FS_EmptySet, Numbers DEF Within, QuotaOrOne
<1>3. CASE Cardinality(RecentSolutions(p, t)) < QuotaAmount
  <2>1. Counted(p.id, cached, t) \subseteq Ids
    BY Numbers DEF Counted
  <2>2. Cardinality(Counted(p.id, cached, t)) \in Nat
    BY <2>1, IdsAreFinite
  <2> QED BY <1>1, <1>3, <2>2, Numbers DEF Within, QuotaOrOne
<1> QED BY <1>2, <1>3 DEF HasSolutionsQuota

\* Requests that were let through.
LEMMA RequestsStayWithin ==
  ASSUME RowsTyped, RequestsOK, RequestsWithin, ContestNext
  PROVE  RequestsWithin'
<1>1. DOMAIN contestClient = ContestClients
  BY DEF RequestsOK
<1>2. SUFFICES ASSUME NEW d \in ContestClients, NEW r, r = contestClient'[d], LetThrough(r)
               PROVE  Within(r.row.row.id, r.row.seen, r.now)'
  BY DEF RequestsWithin, LetThrough, Within, Counted
<1>3. CASE r = contestClient[d]
  <2>1. r.row.seen \subseteq Ids
    BY <1>2, <1>3 DEF LetThrough, RequestsOK, RequestOK, PendingParticipant
  <2>2. Within(r.row.row.id, r.row.seen, r.now)
    BY <1>2, <1>3 DEF RequestsWithin
  <2>3. PICK i, seen, t : i = r.row.row.id /\ seen = r.row.seen /\ t = r.now
    OBVIOUS
  <2> QED BY <2>1, <2>2, <2>3, WithinKept
<1>4. ASSUME NEW c \in ContestClients, ClientStep(c), r # contestClient[d] PROVE CheckQuota(c) /\ d = c
  <2>1. CASE ContestEnds(c)
    <3>1. r = contestClient[d] \/ r = NoContestRequest
      BY <1>1, <1>2, <2>1 DEF ContestEnds
    <3> QED BY <1>2, <1>4, <3>1 DEF LetThrough, NoContestRequest
  <2>2. CASE ReadsOK(c)
    <3>1. r = contestClient[d] \/ r.pc = "write"
      BY <1>1, <1>2, <2>2 DEF ReadsOK, ContestReads
    <3> QED BY <1>2, <1>4, <3>1 DEF LetThrough
  <2>3. CASE SaveParticipant(c)
    <3>1. r = contestClient[d] \/ r.pc = "saved"
      BY <1>1, <1>2, <2>3 DEF SaveParticipant
    <3> QED BY <1>2, <1>4, <3>1 DEF LetThrough
  <2>4. CASE CheckQuota(c)
    BY <1>1, <1>2, <1>4, <2>4 DEF CheckQuota
  <2> QED BY <1>4, <2>1, <2>2, <2>3, <2>4 DEF ClientStep
<1>5. CASE CheckQuota(d)
  <2>1. PICK q : q = contestClient[d]
    OBVIOUS
  <2>2. /\ r.op = q.op /\ r.now = q.now /\ r.row.row = q.row.row /\ r.row.seen = cached
        /\ q.op = "submit" => HasSolutionsQuota(q.row.row, q.now)
    BY <1>1, <1>2, <1>5, <2>1 DEF CheckQuota
  <2>3. Within(r.row.row.id, r.row.seen, r.now)
    BY <1>2, <2>2, CheckedIsWithin DEF LetThrough
  <2>4. PICK i, seen, t : i = r.row.row.id /\ seen = r.row.seen /\ t = r.now
    OBVIOUS
  <2>5. seen \subseteq Ids
    BY <2>2, <2>4, Numbers
  <2> QED BY <2>3, <2>4, <2>5, WithinKept
<1> QED BY <1>2, <1>3, <1>4, <1>5, ClientsChange

\* The rows that they make, and those that are there.
LEMMA SolutionsStayWithin ==
  ASSUME RowsTyped, RequestsOK, RequestsWithin, SolutionsWithin, ContestNext
  PROVE  SolutionsWithin'
<1>1. ASSUME NEW z \in solution, NEW p \in participant', p.id = z.participant, p.kind # "manager"
      PROVE  Within(z.participant, z.seen, z.create)'
  <2>1. z.participant \in Ids /\ z.seen \subseteq Ids
    BY SolutionType, Numbers
  <2>2. PICK q \in participant : q.id = p.id /\ q.kind = p.kind
    BY <1>1, <2>1, RowsGrow
  <2>3. Within(z.participant, z.seen, z.create)
    BY <1>1, <2>2 DEF SolutionsWithin
  <2>4. PICK i, seen, t : i = z.participant /\ seen = z.seen /\ t = z.create
    OBVIOUS
  <2> QED BY <2>1, <2>3, <2>4, WithinKept
<1>2. SUFFICES ASSUME NEW x \in solution', NEW p \in participant', p.id = x.participant,
                      p.kind # "manager"
               PROVE  Within(x.participant, x.seen, x.create)'
  BY DEF SolutionsWithin
<1>3. CASE x \in solution
  BY <1>1, <1>2, <1>3
<1>4. ASSUME NEW r \in solution, NEW z, ReportsSolution(r, z), x = z
      PROVE  Within(x.participant, x.seen, x.create)'
  <2>1. x.participant = r.participant /\ x.seen = r.seen /\ x.create = r.create
    BY <1>4 DEF ReportsSolution
  <2> QED BY <1>1, <1>2, <2>1
<1>5. ASSUME NEW c \in ContestClients, NEW s, AddsSolution(c, s), x = s
      PROVE  Within(x.participant, x.seen, x.create)'
  <2>1. PICK q : q = contestClient[c]
    OBVIOUS
  <2>2. /\ x.participant = q.row.row.id /\ x.seen = q.row.seen /\ x.create = q.now
        /\ q.pc = "allowed" /\ q.op = "submit" /\ participant' = participant
    BY <1>5, <2>1 DEF AddsSolution
  <2>3. PendingParticipant(q)
    BY <2>1, <2>2 DEF RequestsOK, RequestOK
  <2>4. q.row.row.kind = p.kind /\ q.row.seen \subseteq Ids
    BY <1>2, <2>2, <2>3 DEF PendingParticipant, SameAccount
  <2>5. Within(x.participant, x.seen, x.create)
    BY <1>2, <2>1, <2>2, <2>4 DEF RequestsWithin, LetThrough
  <2>6. PICK i, seen, t : i = x.participant /\ seen = x.seen /\ t = x.create
    OBVIOUS
  <2> QED BY <2>2, <2>4, <2>5, <2>6, WithinKept
<1>6. \/ x \in solution
      \/ \E r \in solution : \E z : ReportsSolution(r, z) /\ x = z
      \/ \E c \in ContestClients : \E s : AddsSolution(c, s) /\ x = s
  BY <1>2, SolutionsChange DEF SolutionChange, AddsSolution, ReportsSolution
<1> QED BY <1>3, <1>4, <1>5, <1>6

--------------------------------------------------------------------------------
(* The invariant holds at the start and gives the properties *)

\* Rows that were left by earlier requests.
LEMMA StartRows ==
  ASSUME ContestStart
  PROVE  RowsTyped
<1>1. /\ contest \in Configs /\ now \in 1..MaxTime /\ message = {} /\ lastId = 9
      /\ judgeTask = {[id |-> s.id + 1, solution |-> s.id, status |-> "open", written |-> FALSE] :
                        s \in solution}
  BY DEF ContestStart, ContestInit
<1>2. contest.begin \in Nat
  BY <1>1, ContestAssumption
<1>3. Ids = 1..9
  BY <1>1 DEF Ids
<1>4. ClockTyped
  <2>1. cached = {x.id : x \in solution} /\ \A x \in solution : x.id \in 1..8
    BY DEF ContestStart, ContestInit, OldRows
  <2>2. cached \subseteq Ids
    BY <1>3, <2>1
  <2> QED BY <1>1, <1>2, <2>2 DEF ClockTyped
<1>5. ProblemsTyped /\ ParticipantsTyped
  BY <1>3 DEF ContestStart, OldRows, ProblemsTyped, ParticipantsTyped, UniqueIds, Accounts
<1>6. /\ solution \subseteq [id : 1..8, participant : 1..9, problem : 1..9, create : 1..now, report : {0},
                       seen : {{}}]
      /\ IsFiniteSet(solution) /\ UniqueIds(solution)
  BY DEF ContestStart, OldRows, UniqueIds
<1>7. SolutionsTyped
  <2>1. solution \subseteq [id : 1..9, participant : 1..9, problem : 1..9, create : 1..now,
                            report : {0} \cup 1..9, seen : SUBSET (1..9)]
    BY <1>6
  <2> QED BY <1>3, <1>6, <2>1 DEF SolutionsTyped
<1>8. TasksTyped
  <2>1. ASSUME NEW t \in judgeTask
        PROVE  \E s \in solution : /\ s.id \in 1..8 /\ t = [id |-> s.id + 1, solution |-> s.id,
                                                           status |-> "open", written |-> FALSE]
    BY <1>1, <1>6
  <2>2. judgeTask \subseteq [id : 1..9, solution : 1..9, status : {"open", "succeeded", "failed"},
                             written : BOOLEAN]
    <3>1. ASSUME NEW t \in judgeTask
          PROVE  t \in [id : 1..9, solution : 1..9, status : {"open", "succeeded", "failed"},
                        written : BOOLEAN]
      <4>1. PICK s \in solution : /\ s.id \in 1..8 /\ t = [id |-> s.id + 1, solution |-> s.id,
                                                          status |-> "open", written |-> FALSE]
        BY <2>1
      <4>2. s.id + 1 \in 1..9 /\ s.id \in 1..9
        BY <4>1
      <4> QED BY <4>1, <4>2
    <3> QED BY <3>1
  <2>3. UniqueIds(judgeTask)
    <3>1. ASSUME NEW t \in judgeTask, NEW r \in judgeTask, t.id = r.id PROVE t = r
      <4>1. PICK s \in solution : /\ s.id \in 1..8 /\ t = [id |-> s.id + 1, solution |-> s.id,
                                                          status |-> "open", written |-> FALSE]
        BY <2>1
      <4>2. PICK x \in solution : /\ x.id \in 1..8 /\ r = [id |-> x.id + 1, solution |-> x.id,
                                                          status |-> "open", written |-> FALSE]
        BY <2>1
      <4>3. s.id + 1 = x.id + 1
        BY <3>1, <4>1, <4>2
      <4>4. s.id = x.id
        BY <4>1, <4>2, <4>3
      <4> QED BY <4>1, <4>2, <4>4
    <3> QED BY <3>1 DEF UniqueIds
  <2> QED BY <1>3, <2>2, <2>3 DEF TasksTyped
<1>9. MessagesTyped
  BY <1>1 DEF MessagesTyped
<1> QED BY <1>4, <1>5, <1>7, <1>8, <1>9 DEF RowsTyped

\* What was seen of nothing is less than the quota.
LEMMA NothingIsWithin ==
  ASSUME NEW i, NEW t
  PROVE  Within(i, {}, t)
<1>1. Counted(i, {}, t) = {}
  BY DEF Counted
<1>2. Cardinality(Counted(i, {}, t)) = 0
  BY <1>1, FS_EmptySet
<1>3. QuotaOrOne \in Nat /\ 0 < QuotaOrOne
  BY ContestAssumption DEF QuotaOrOne
<1> QED BY <1>2, <1>3 DEF Within

\* The start.
LEMMA StartIInv ==
  ASSUME ContestStart
  PROVE  IInv
<1>1. RowsTyped
  BY StartRows
<1>2. RequestsOK
  <2>1. contestClient = [c \in ContestClients |-> NoContestRequest]
    BY DEF ContestStart, ContestInit
  <2>2. PICK q : q = NoContestRequest
    OBVIOUS
  <2>3. /\ q = [pc |-> q.pc, op |-> q.op, row |-> q.row, now |-> q.now]
        /\ q.pc = "idle" /\ q.op = "none"
    BY <2>2 DEF NoContestRequest
  <2>4. RequestOK(q)
    BY <2>3, Zenon DEF RequestOK
  <2> QED BY <2>1, <2>2, <2>4 DEF RequestsOK
<1>3. CodesUnique /\ KindsUnique /\ GroupsUnstarted
  BY DEF ContestStart, OldRows, CodesUnique, KindsUnique, GroupsUnstarted
<1>4. ASSUME NEW s \in solution
      PROVE  /\ RowsWith(contestProblem, s.problem) # {}
             /\ \E p \in participant : p.id = s.participant /\ (p.kind = "regular" => p.begin # 0)
  BY DEF ContestStart, OldRows
<1>5. SolutionsRefer
  BY <1>4 DEF SolutionsRefer, RowsWith
<1>6. SubmittedHasBegun
  BY <1>1, <1>4 DEF SubmittedHasBegun, RowsTyped, ParticipantsTyped, UniqueIds
<1>7. QuestionsKeepAsker
  BY DEF ContestStart, ContestInit, QuestionsKeepAsker
<1>8. WrittenIsReported
  <2>1. ASSUME NEW t \in judgeTask PROVE t.status = "open" /\ t.written = FALSE
    BY DEF ContestStart, ContestInit
  <2> QED BY <2>1 DEF WrittenIsReported
<1>9. RequestsWithin
  BY DEF ContestStart, ContestInit, NoContestRequest, RequestsWithin, LetThrough
<1>10. SolutionsWithin
  <2>1. ASSUME NEW s \in solution PROVE s.seen = {}
    BY DEF ContestStart, OldRows
  <2> QED BY <2>1, NothingIsWithin DEF SolutionsWithin
<1> QED BY <1>1, <1>2, <1>3, <1>5, <1>6, <1>7, <1>8, <1>9, <1>10 DEF IInv

\* Steps.
LEMMA NextIInv ==
  ASSUME IInv, ContestNext
  PROVE  IInv'
BY RowsStayTyped, RequestsStayOK, CodesStayUnique, KindsStayUnique, SolutionsStayReferring,
   GroupsStayUnstarted, SubmittedStaysBegun, AskersStay, ReportsStay,
   RequestsStayWithin, SolutionsStayWithin DEF IInv

\* Stutters.
LEMMA StutterIInv ==
  ASSUME IInv, UNCHANGED contestVars
  PROVE  IInv'
<1>1. /\ contest' = contest /\ now' = now /\ contestProblem' = contestProblem
      /\ participant' = participant /\ solution' = solution /\ judgeTask' = judgeTask
      /\ message' = message /\ lastId' = lastId /\ contestClient' = contestClient
      /\ cached' = cached
  BY DEF contestVars
<1>2. RowsTyped'
  BY <1>1 DEF IInv, RowsTyped, ClockTyped, ProblemsTyped, ParticipantsTyped, SolutionsTyped, TasksTyped,
     MessagesTyped, Ids
<1>3. RequestsOK'
  <2>1. ASSUME NEW q, PendingParticipant(q) PROVE PendingParticipant(q)'
    BY <1>1, <2>1 DEF PendingParticipant, SameAccount, KnowsBegin, Ids
  <2>2. ASSUME NEW q, RequestOK(q) PROVE RequestOK(q)'
    BY <1>1, <2>1, <2>2, Zenon DEF RequestOK, Ids
  <2>3. ASSUME NEW d \in ContestClients PROVE RequestOK(contestClient[d])'
    <3>1. PICK r : r = contestClient'[d]
      OBVIOUS
    <3>2. RequestOK(r)
      BY <1>1, <3>1 DEF IInv, RequestsOK
    <3> QED BY <2>2, <3>1, <3>2
  <2> QED BY <1>1, <2>3 DEF IInv, RequestsOK
<1>4. CodesUnique' /\ KindsUnique' /\ SolutionsRefer' /\ GroupsUnstarted' /\ SubmittedHasBegun'
      /\ QuestionsKeepAsker'
  BY <1>1 DEF IInv, CodesUnique, KindsUnique, SolutionsRefer, GroupsUnstarted, SubmittedHasBegun,
     QuestionsKeepAsker, Asked, RowsWith
<1>5. WrittenIsReported'
  BY <1>1 DEF IInv, WrittenIsReported, Newest, RowsWith
<1>6. RequestsWithin' /\ SolutionsWithin'
  <2>1. RequestsWithin'
    BY <1>1 DEF IInv, RequestsWithin, LetThrough, Within, Counted
  <2>2. SolutionsWithin'
    BY <1>1 DEF IInv, SolutionsWithin, Within, Counted
  <2> QED BY <2>1, <2>2
<1> QED BY <1>2, <1>3, <1>4, <1>5, <1>6 DEF IInv

\* A nonempty set of numbers with a bound has a greatest one.
LEMMA GreatestNumber ==
  ASSUME NEW n \in Nat, NEW S, S \subseteq 0..n, S # {}
  PROVE  \E x \in S : \A y \in S : y <= x
<1>1. PICK R : R = {n - x : x \in S}
  OBVIOUS
<1>2. R \subseteq Nat /\ R # {}
  <2>1. ASSUME NEW x \in S PROVE n - x \in Nat
    <3>1. x \in 0..n
      OBVIOUS
    <3> QED BY <3>1
  <2> QED BY <1>1, <2>1
<1>3. PICK r \in R : \A z \in R : r <= z
  BY <1>2, LeastNumber
<1>4. PICK x \in S : r = n - x
  BY <1>1, <1>3
<1>5. ASSUME NEW y \in S PROVE y <= x
  <2>1. n - y \in R /\ r <= n - y
    BY <1>1, <1>3
  <2>2. x \in 0..n /\ y \in 0..n
    OBVIOUS
  <2> QED BY <1>4, <2>1, <2>2
<1> QED BY <1>4, <1>5

\* The last of more solutions than the quota was not looked at with all others known.
LEMMA WithinIsRespected ==
  ASSUME RowsTyped, SolutionsWithin
  PROVE  QuotaRespected
<1>1. SUFFICES ASSUME NEW p \in participant, p.kind # "manager",
                      NEW S \in SUBSET {s \in solution : s.participant = p.id},
                      Cardinality(S) > QuotaOrOne,
                      \A r, s \in S : s.create < r.create + QuotaWindow,
                      \A r, s \in S : SubmittedBefore(r, s) => r.id \in s.seen
               PROVE  FALSE
  BY DEF QuotaRespected, QuotaOrOne
<1>2. IsFiniteSet(S) /\ S \subseteq solution
  BY FS_Subset DEF RowsTyped, SolutionsTyped
<1>3. Cardinality(S) \in Nat /\ QuotaOrOne \in Nat /\ QuotaOrOne >= 1
  BY <1>2, FS_CardinalityType, Numbers DEF QuotaOrOne
<1>4. S # {}
  <2>1. Cardinality(S) # 0
    BY <1>1, <1>3
  <2> QED BY <2>1, FS_EmptySet
<1>5. PICK times : times = {s.create : s \in S}
  OBVIOUS
<1>6. times # {} /\ times \subseteq 0..now
  <2>1. ASSUME NEW s \in S PROVE s.create \in 0..now
    <3>1. s.create \in 1..now
      BY <1>2, SolutionType
    <3> QED BY <3>1, Numbers
  <2> QED BY <1>4, <1>5, <2>1
<1>7. PICK last \in times : \A x \in times : x <= last
  BY <1>6, GreatestNumber, Numbers
<1>8. PICK s \in S : s.create = last /\ \A r \in S : r.create = last => r.id <= s.id
  <2>1. PICK latest : latest = {r \in S : r.create = last}
    OBVIOUS
  <2>2. PICK ids : ids = {r.id : r \in latest}
    OBVIOUS
  <2>3. ids # {}
    BY <1>5, <1>7, <2>1, <2>2
  <2>4. ids \subseteq 0..lastId
    <3>1. ASSUME NEW r \in latest PROVE r.id \in 0..lastId
      <4>1. r.id \in 1..lastId
        BY <1>2, <2>1, SolutionType
      <4> QED BY <4>1, Numbers
    <3> QED BY <2>2, <3>1
  <2>5. PICK x \in ids : \A y \in ids : y <= x
    BY <2>3, <2>4, GreatestNumber, Numbers
  <2>6. PICK r \in latest : r.id = x
    BY <2>2, <2>5
  <2> QED BY <2>1, <2>2, <2>5, <2>6
<1>9. PICK C : C = Counted(p.id, s.seen, s.create)
  OBVIOUS
<1>10. Within(p.id, s.seen, s.create)
  BY <1>1, <1>2 DEF SolutionsWithin
<1>11. IsFiniteSet(C) /\ Cardinality(C) \in Nat /\ Cardinality(C) < QuotaOrOne
  <2>1. s.seen \subseteq Ids
    BY <1>2, SolutionType, Numbers
  <2>2. C \subseteq Ids
    BY <1>9, <2>1 DEF Counted
  <2> QED BY <1>9, <1>10, <2>2, IdsAreFinite DEF Within
<1>12. IsFiniteSet(S \ {s}) /\ Cardinality(S \ {s}) = Cardinality(S) - 1
  BY <1>2, FS_RemoveElement
<1>13. Cardinality(C) < Cardinality(S \ {s})
  <2>1. PICK a, b, d, o : a = Cardinality(C) /\ b = Cardinality(S) /\ d = Cardinality(S \ {s}) /\ o = QuotaOrOne
    OBVIOUS
  <2>2. a \in Nat /\ b \in Nat /\ o \in Nat /\ a < o /\ b > o /\ d = b - 1
    BY <1>1, <1>3, <1>11, <1>12, <2>1
  <2>3. a < d
    BY <2>2
  <2> QED BY <2>1, <2>3
<1>14. PICK f : f = [r \in S \ {s} |-> r.id]
  OBVIOUS
<1>15. f \in [S \ {s} -> C]
  <2>1. ASSUME NEW r \in S \ {s} PROVE r.id \in C
    <3>1. r.create <= s.create /\ (r.create = s.create => r.id <= s.id)
      BY <1>5, <1>7, <1>8
    <3>2. r \in solution /\ r.participant = p.id
      OBVIOUS
    <3>3. /\ r.create \in Nat /\ s.create \in Nat /\ QuotaWindow \in Nat
          /\ r.id \in Nat /\ s.id \in Nat /\ r.id # s.id
      <4>1. r.id # s.id
        BY <1>2 DEF RowsTyped, SolutionsTyped, UniqueIds
      <4> QED BY <1>2, <3>2, <4>1, SolutionType, Numbers
    <3>4. r.id \in s.seen /\ s.create < r.create + QuotaWindow
      BY <1>1, <3>1, <3>3 DEF SubmittedBefore
    <3>5. r.create + QuotaWindow > s.create
      BY <3>3, <3>4
    <3> QED BY <1>9, <3>1, <3>2, <3>4, <3>5 DEF Counted
  <2> QED BY <1>14, <2>1
<1>16. PICK x \in S \ {s}, y \in S \ {s} : x # y /\ f[x] = f[y]
  BY <1>11, <1>12, <1>13, <1>15, FS_PigeonHole
<1>17. x.id = y.id /\ x \in solution /\ y \in solution
  BY <1>2, <1>14, <1>16
<1> QED BY <1>16, <1>17 DEF RowsTyped, SolutionsTyped, UniqueIds

\* What the invariant says of rows is the property.
LEMMA IInvGivesContestInv ==
  ASSUME IInv
  PROVE  ContestInv
<1>1. ContestRowsConsistent
  BY DEF IInv, CodesUnique, KindsUnique, SolutionsRefer, ContestRowsConsistent
<1>2. AskerSeesAnswer
  <2>1. ASSUME NEW m \in message, m.kind = "answer"
        PROVE  \E u \in Users : \E p \in Context(u).participants : p.id = m.participant
    <3>1. PICK p \in participant : p.id = m.participant /\ p.account \in Users
      BY <2>1 DEF IInv, QuestionsKeepAsker, Asked
    <3>2. PICK u \in Users : u = p.account
      BY <3>1
    <3>3. PICK a \in Own(u) : a.row = p
      BY <3>1, <3>2, OwnRows
    <3>4. p \in Context(u).participants
      BY <3>3, ContextParticipants DEF Candidates
    <3> QED BY <3>1, <3>4
  <2> QED BY <2>1 DEF AskerSeesAnswer
<1>3. JudgedHasReport
  BY DEF IInv, WrittenIsReported, Newest, JudgedHasReport
<1>4. QuotaRespected
  BY WithinIsRespected DEF IInv
<1> QED BY <1>1, <1>2, <1>3, <1>4 DEF ContestInv

\* A change of the contest does not move the time of who has submitted.
LEMMA IInvKeepsTime ==
  ASSUME IInv, NEW p \in participant, p.kind = "regular", \E s \in solution : s.participant = p.id
  PROVE  ParticipantBeginTime(contest', p) = ParticipantBeginTime(contest, p)
<1>1. p.begin # 0
  BY DEF IInv, SubmittedHasBegun
<1> QED BY <1>1 DEF ParticipantBeginTime

--------------------------------------------------------------------------------
(* The theorems *)

\* The invariant holds in every behaviour of a contest.
LEMMA ContestInductive == ContestSpec => []IInv
<1>1. ContestStart => IInv
  BY StartIInv
<1>2. IInv /\ [ContestNext]_contestVars => IInv'
  BY NextIInv, StutterIInv
<1> QED BY <1>1, <1>2, PTL DEF ContestSpec

\* Whatever requests, tasks and the clock do at the same time: codes and participants are
\* unique, references hold, who has asked sees the answer, what was judged has a report,
\* and the quota is only exceeded by requests that were let through before an earlier
\* solution had come to the caches (hasSolutionsQuota, the transactions of contests.go
\* and contest_messages.go).
THEOREM ContestRowsAreConsistent == ContestSpec => []ContestInv
<1>1. IInv => ContestInv
  BY IInvGivesContestInv
<1> QED BY <1>1, ContestInductive, PTL

\* Who is shown that he may submit can do so, for any groups, rows and configuration,
\* but for the exceptions that SubmitIsUsable names: he that could only upsolve, when
\* upsolving is disabled, is among them (BuildContext, checkEffectiveParticipant).
THEOREM ShownSubmitIsUsable == ContestSpec => []SubmitIsUsable
<1>1. IInv => SubmitIsUsable
  BY RowsMakeSubmitUsable DEF IInv
<1> QED BY <1>1, ContestInductive, PTL

\* The time of a participant that has submitted is not moved (updateContest).
THEOREM SubmittersKeepTime == ContestSpec => StartedKeepsTime
<1>1. IInv => [contest' /= contest => \A p \in participant :
          p.kind = "regular" /\ (\E s \in solution : s.participant = p.id)
              => ParticipantBeginTime(contest', p) = ParticipantBeginTime(contest, p)]_contestVars
  BY IInvKeepsTime
<1> QED BY <1>1, ContestInductive, PTL DEF StartedKeepsTime

================================================================================
