------------------------------- MODULE Contests -------------------------------
(***************************************************************************)
(* A contest while it is prepared, runs and is over: its problems,         *)
(* participants and solutions (internal/api/contests.go), questions and    *)
(* answers (contest_messages.go), and the tasks that judge the solutions   *)
(* (internal/invoker/judge_solution.go).                                   *)
(*                                                                         *)
(* A request is given the context of its account when it starts, reads     *)
(* caches and writes later.  The solution's file is uploaded as those of   *)
(* posts are; only rows of one contest are modelled.                       *)
(***************************************************************************)
EXTENDS ContestManager, FiniteSets

CONSTANTS
    Users, GroupsOf,        \* accounts and, for each, the sequence of its groups
    AccountPermissions,     \* for each user, what its roles let it do
    Configs,                \* contests that may be configured
    ProblemCodes, ContestClients,
    QuotaAmount, QuotaWindow,             \* the settings of contests.solutions_quota
    MaxTime, MaxContestRequest            \* bounds

ASSUME ContestAssumption ==
    /\ {QuotaAmount, QuotaWindow, MaxTime, MaxContestRequest} \subseteq Nat
    \* an account is a user or a group
    /\ \A u \in Users : GroupsOf[u] \in Seq(STRING) /\ \A i \in DOMAIN GroupsOf[u] : GroupsOf[u][i] \notin Users
    /\ \A cfg \in Configs : {cfg.begin, cfg.duration} \subseteq Nat
    /\ IsFiniteSet(ContestClients) /\ ContestClients /= {}

VARIABLES
    contest,               \* the configuration
    now,
    contestProblem,        \* rows: [id, code]
    participant,           \* rows of participants
    solution,              \* rows: [id, participant, problem, create, report, seen]; report is the task or 0,
                           \* seen the solutions that were known when the quota was looked at (history)
    judgeTask,             \* rows: [id, solution, status, written]
    message,               \* rows: [id, kind, participant, parent]
    lastId,                \* the last ID of any table
    disableUpsolving,      \* the setting contests.disable_upsolving
    cached,                \* solutions that have come to both caches the quota is looked at in
    contestClient, contestRequests

contestVars ==
    <<contest, now, contestProblem, participant, solution, judgeTask, message, lastId, disableUpsolving, cached,
      contestClient, contestRequests>>
rowVars == <<contest, contestProblem, participant, solution, judgeTask, message, lastId>>

NoContestRequest == [pc |-> "idle", op |-> "none", row |-> <<>>, now |-> 0]

\* a contest that was used before; the first IDs are those of its rows
ContestInit(cfg, time, problems, participants, solutions, disable) ==
    /\ contest = cfg /\ now = time /\ contestProblem = problems /\ participant = participants /\ solution = solutions
    /\ message = {} /\ lastId = 9 /\ disableUpsolving = disable /\ cached = {s.id : s \in solutions}
    /\ contestClient = [c \in ContestClients |-> NoContestRequest] /\ contestRequests = 0
    /\ judgeTask = {[id |-> s.id + 1, solution |-> s.id, status |-> "open", written |-> FALSE] : s \in solutions}

GroupAccounts == UNION {{GroupsOf[u][i] : i \in DOMAIN GroupsOf[u]} : u \in Users}
Context(u) == BuildContext(contest, participant, u, GroupsOf[u], AccountPermissions[u], disableUpsolving, now)
Can(u, permission) == permission \in Context(u).permissions
NewId == lastId + 1
RowsWith(table, id) == {r \in table : r.id = id}

Tick ==
    now < MaxTime /\ now' = now + 1 /\ UNCHANGED <<rowVars, disableUpsolving, cached, contestClient, contestRequests>>
UpdateSetting ==
    disableUpsolving' = ~disableUpsolving /\ UNCHANGED <<rowVars, now, cached, contestClient, contestRequests>>
\* the store loops read new solutions every second, some sooner than others
SyncSolutions ==
    /\ \E s \in solution : s.id \notin cached /\ cached' = cached \cup {s.id}
    /\ UNCHANGED <<rowVars, now, disableUpsolving, contestClient, contestRequests>>

--------------------------------------------------------------------------------
(* The first half of a request *)

MayRead(c) == contestClient[c].pc = "idle" /\ contestRequests < MaxContestRequest
ContestReads(c, op, row) ==
    /\ MayRead(c) /\ contestRequests' = contestRequests + 1
    /\ contestClient' = [contestClient EXCEPT ![c] = [pc |-> "write", op |-> op, row |-> row, now |-> now]]
    /\ UNCHANGED <<rowVars, now, disableUpsolving, cached>>
ReadUpdateContest(c, cfg) == ContestReads(c, "contest", cfg)
ReadCreateContestProblem(c, code) ==
    /\ \A p \in contestProblem : p.code /= code
    /\ ContestReads(c, "create problem", [id |-> 0, code |-> code])
\* the code is not looked for here
ReadUpdateContestProblem(c, p, code) ==
    ContestReads(c, "update problem", [p EXCEPT !.code = code])
ReadDeleteContestProblem(c, p) == ContestReads(c, "delete problem", p)
ReadCreateContestParticipant(c, a, kind) ==
    /\ \A p \in participant : p.account /= a \/ p.kind /= kind
    /\ ContestReads(c, "create participant", [id |-> 0, account |-> a, kind |-> kind, begin |-> 0])
ReadDeleteContestParticipant(c, p) == ContestReads(c, "delete participant", p)
\* a virtual participant may begin at once or later
ReadRegisterContest(c, u, kind, begin) ==
    /\ Can(u, IF kind = "virtual" THEN "register virtual" ELSE "register")
    /\ kind = "virtual" => begin >= now
    /\ \A p \in Context(u).participants : p.id /= 0 => p.kind /= kind
    /\ ContestReads(c, "create participant",
           [id |-> 0, account |-> u, kind |-> kind, begin |-> IF kind = "virtual" THEN begin ELSE 0])
ReadRejudge(c, s) == ContestReads(c, "rejudge", s)
ReadAnswer(c, m) ==
    /\ m.kind = "question"
    /\ ContestReads(c, "message", [id |-> 0, kind |-> "answer", participant |-> m.participant, parent |-> m.id])
ReadMessage(c) ==
    ContestReads(c, "message", [id |-> 0, kind |-> "regular", participant |-> 0, parent |-> 0])

NotPinned(ctx) == ctx.effective
\* submitContestProblemSolution: a regular participant keeps the time at which the
\* contest began when it first submitted
Pinned(ctx) ==
    LET p == ctx.effective IN
    IF p.kind = "regular" /\ ParticipantStage(ctx.cfg, p, ctx.now) = "started" /\ p.begin = 0
    THEN [p EXCEPT !.begin = ctx.cfg.begin] ELSE p
\* hasSolutionsQuota, of what is cached; the quota of questions is not modelled.  The
\* time of a request has a sub-second part, so a solution that is a window old is out
\* of it; a request that comes at a whole second and is refused for it is one that fails.
RecentSolutions(p, t) ==
    {k \in cached : \E s \in solution :
        s.id = k /\ s.participant = p.id /\ s.create + QuotaWindow > t /\ s.create <= t}
HasQuotaOrMore(p, t) ==
    p.kind = "manager" \/ RecentSolutions(p, t) = {} \/ Cardinality(RecentSolutions(p, t)) <= QuotaAmount
HasSolutionsQuota(p, t) ==
    p.kind = "manager" \/ RecentSolutions(p, t) = {} \/ Cardinality(RecentSolutions(p, t)) < QuotaAmount
ReadSubmit(c, u, problem) ==
    /\ "submit" \in EffectivePermissions(Context(u))
    /\ ContestReads(c, "submit", [problem |-> problem.id, was |-> Context(u).effective, row |-> Pinned(Context(u))])
ReadSubmitContestQuestion(c, u) ==
    /\ "question" \in EffectivePermissions(Context(u))
    /\ ContestReads(c, "question", [problem |-> 0, was |-> Context(u).effective, row |-> Context(u).effective])

--------------------------------------------------------------------------------
(* The second half: writes, which the database may refuse *)

ContestWrites(c, op) == contestClient[c].pc = "write" /\ contestClient[c].op = op /\ UNCHANGED <<now, disableUpsolving, cached, contestRequests>>
ContestEnds(c) == contestClient' = [contestClient EXCEPT ![c] = NoContestRequest]
UpdateContest(c) ==
    /\ ContestWrites(c, "contest") /\ contest' = contestClient[c].row /\ ContestEnds(c)
    /\ UNCHANGED <<contestProblem, participant, solution, judgeTask, message, lastId>>
CodeNew(p) == p.id /= 0 \/ \A q \in contestProblem : q.code /= p.code
CodeAllowed(p) == \A q \in contestProblem : q.id = p.id \/ q.code /= p.code
CreateContestProblem(c) ==
    LET p == contestClient[c].row IN
    /\ ContestWrites(c, "create problem") /\ CodeAllowed(p) /\ ContestEnds(c)
    /\ contestProblem' = contestProblem \cup {[p EXCEPT !.id = NewId]} /\ lastId' = NewId
    /\ UNCHANGED <<contest, participant, solution, judgeTask, message>>
UpdateContestProblem(c) ==
    LET p == contestClient[c].row IN
    /\ ContestWrites(c, "update problem") /\ RowsWith(contestProblem, p.id) /= {} /\ CodeAllowed(p) /\ ContestEnds(c)
    /\ contestProblem' = (contestProblem \ RowsWith(contestProblem, p.id)) \cup {p}
    /\ UNCHANGED <<contest, participant, solution, judgeTask, message, lastId>>
DeleteContestProblem(c) ==
    LET id == contestClient[c].row.id IN
    /\ ContestWrites(c, "delete problem") /\ RowsWith(contestProblem, id) /= {} /\ ContestEnds(c)
    /\ \A s \in solution : s.problem /= id
    /\ contestProblem' = contestProblem \ RowsWith(contestProblem, id)
    /\ UNCHANGED <<contest, participant, solution, judgeTask, message, lastId>>
KindAllowed(p) == \A q \in participant : q.id = p.id \/ q.account /= p.account \/ q.kind /= p.kind
CreateContestParticipant(c) ==
    LET p == contestClient[c].row IN
    /\ ContestWrites(c, "create participant") /\ KindAllowed(p) /\ ContestEnds(c)
    /\ participant' = participant \cup {[p EXCEPT !.id = NewId]} /\ lastId' = NewId
    /\ UNCHANGED <<contest, contestProblem, solution, judgeTask, message>>
ReferencedBySolutions(id) == \E s \in solution : s.participant = id
ParticipantReferenced(id) == (\E s \in solution : s.participant = id) \/ (\E m \in message : m.participant = id)
DeleteContestParticipant(c) ==
    LET id == contestClient[c].row.id IN
    /\ ContestWrites(c, "delete participant") /\ RowsWith(participant, id) /= {} /\ ~ParticipantReferenced(id)
    /\ participant' = participant \ RowsWith(participant, id) /\ ContestEnds(c)
    /\ UNCHANGED <<contest, contestProblem, solution, judgeTask, message, lastId>>

\* The participant of a submission or a question is created, or its row is written
\* when its begin is new, before the request can be refused for the quota.
SaveParticipant(c) ==
    LET q == contestClient[c].row
        saved == [q.row EXCEPT !.id = IF q.row.id = 0 THEN NewId ELSE @]
    IN
    /\ contestClient[c].pc = "write" /\ contestClient[c].op \in {"submit", "question"}
    /\ IF q.row.id = 0
       THEN KindAllowed(saved) /\ participant' = participant \cup {saved} /\ lastId' = NewId
       ELSE /\ UNCHANGED lastId
            /\ \/ q.row = q.was /\ UNCHANGED participant
               \/ /\ q.row /= q.was /\ RowsWith(participant, saved.id) /= {}
                  /\ participant' = (participant \ RowsWith(participant, saved.id)) \cup {saved}
    /\ contestClient' = [contestClient EXCEPT ![c] =
           [pc |-> "saved", op |-> @.op, row |-> [problem |-> q.problem, was |-> q.was, row |-> saved], now |-> @.now]]
    /\ UNCHANGED <<contest, now, contestProblem, solution, judgeTask, message, disableUpsolving, cached, contestRequests>>
\* the quota is looked at before the file is uploaded
CheckQuota(c) ==
    LET q == contestClient[c] IN
    /\ q.pc = "saved" /\ (q.op = "submit" => HasSolutionsQuota(q.row.row, q.now))
    /\ contestClient' = [contestClient EXCEPT ![c] =
           [pc |-> "allowed", op |-> q.op, now |-> q.now,
            row |-> [problem |-> q.row.problem, was |-> q.row.was, row |-> q.row.row, seen |-> cached]]]
    /\ UNCHANGED <<rowVars, now, disableUpsolving, cached, contestRequests>>
NewTask(id, s) == [id |-> id, solution |-> s, status |-> "open", written |-> FALSE]
SubmitContestSolution(c) ==
    LET q == contestClient[c] IN
    /\ q.pc = "allowed" /\ q.op = "submit"
    /\ RowsWith(participant, q.row.row.id) /= {} /\ RowsWith(contestProblem, q.row.problem) /= {}
    /\ solution' = solution \cup {[id |-> NewId, participant |-> q.row.row.id, problem |-> q.row.problem,
                                   create |-> q.now, report |-> 0, seen |-> q.row.seen]}
    /\ judgeTask' = judgeTask \cup {NewTask(NewId + 1, NewId)} /\ lastId' = NewId + 1 /\ ContestEnds(c)
    /\ UNCHANGED <<contest, now, contestProblem, participant, message, disableUpsolving, cached, contestRequests>>
SubmitContestQuestion(c) ==
    LET p == contestClient[c].row.row IN
    /\ contestClient[c].pc = "allowed" /\ contestClient[c].op = "question" /\ RowsWith(participant, p.id) /= {}
    /\ message' = message \cup {[id |-> NewId, kind |-> "question", participant |-> p.id, parent |-> 0]}
    /\ lastId' = NewId /\ ContestEnds(c)
    /\ UNCHANGED <<contest, now, contestProblem, participant, solution, judgeTask, disableUpsolving, cached, contestRequests>>
CreateContestMessage(c) ==
    /\ ContestWrites(c, "message") /\ message' = message \cup {[contestClient[c].row EXCEPT !.id = NewId]}
    /\ lastId' = NewId /\ ContestEnds(c)
    /\ UNCHANGED <<contest, contestProblem, participant, solution, judgeTask>>
SetReport(s, report) == solution' = (solution \ RowsWith(solution, s)) \cup {[r EXCEPT !.report = report] : r \in RowsWith(solution, s)}
RejudgeLater(c) ==
    /\ ContestWrites(c, "rejudge") /\ SetReport(contestClient[c].row.id, 0)
    /\ UNCHANGED <<contest, contestProblem, participant, message, judgeTask, lastId>> /\ ContestEnds(c)
RejudgeContestSolution(c) ==
    LET s == contestClient[c].row.id IN
    /\ ContestWrites(c, "rejudge") /\ SetReport(s, 0) /\ judgeTask' = judgeTask \cup {NewTask(NewId, s)} /\ lastId' = NewId
    /\ UNCHANGED <<contest, contestProblem, participant, message>> /\ ContestEnds(c)
ContestRequestFails(c) ==
    /\ contestClient[c].pc /= "idle" /\ ContestEnds(c)
    /\ UNCHANGED <<rowVars, now, disableUpsolving, cached, contestRequests>>

\* judgeSolutionTask writes the report, and the worker the status afterwards
JudgeReports(t) ==
    /\ t.status = "open" /\ ~t.written /\ SetReport(t.solution, t.id)
    /\ judgeTask' = (judgeTask \ {t}) \cup {[t EXCEPT !.written = TRUE]}
    /\ UNCHANGED <<contest, now, contestProblem, participant, message, lastId, disableUpsolving, cached,
                   contestClient, contestRequests>>
TaskEnds(t) ==
    /\ t.status = "open"
    /\ judgeTask' = (judgeTask \ {t}) \cup {[t EXCEPT !.status = IF t.written THEN "succeeded" ELSE "failed"]}
    /\ UNCHANGED <<contest, now, contestProblem, participant, solution, message, lastId, disableUpsolving, cached,
                   contestClient, contestRequests>>

ManagerReads(c) ==
    \/ \E cfg \in Configs : ReadUpdateContest(c, cfg)
    \/ \E code \in ProblemCodes :
        ReadCreateContestProblem(c, code) \/ \E p \in contestProblem : ReadUpdateContestProblem(c, p, code)
    \/ \E p \in contestProblem : ReadDeleteContestProblem(c, p)
    \/ \E a \in Users \cup GroupAccounts, kind \in {"regular", "upsolving", "manager", "observer"} :
        ReadCreateContestParticipant(c, a, kind)
    \/ \E p \in participant : ReadDeleteContestParticipant(c, p)
    \/ \E s \in solution : ReadRejudge(c, s)
    \/ ReadMessage(c) \/ \E m \in message : ReadAnswer(c, m)
UserReads(c, u) ==
    \/ \E kind \in {"regular", "virtual"}, begin \in now..MaxTime : ReadRegisterContest(c, u, kind, begin)
    \/ \E p \in contestProblem : ReadSubmit(c, u, p)
    \/ ReadSubmitContestQuestion(c, u)
ContestWrite(c) ==
    \/ UpdateContest(c) \/ CreateContestProblem(c) \/ UpdateContestProblem(c) \/ DeleteContestProblem(c)
    \/ CreateContestParticipant(c) \/ DeleteContestParticipant(c) \/ RejudgeContestSolution(c) \/ CreateContestMessage(c)
    \/ SaveParticipant(c) \/ CheckQuota(c) \/ SubmitContestSolution(c) \/ SubmitContestQuestion(c) \/ ContestRequestFails(c)
ContestNext ==
    \/ Tick \/ UpdateSetting \/ SyncSolutions \/ (\E t \in judgeTask : JudgeReports(t) \/ TaskEnds(t))
    \/ \E c \in ContestClients :
        \/ ContestWrite(c)
        \/ MayRead(c) /\ \E u \in Users : UserReads(c, u) \/ (Can(u, "manage") /\ ManagerReads(c))

\* rows that earlier requests may have left: at most one solution each, not judged yet
ParticipantKinds == {"regular", "upsolving", "manager", "observer", "virtual"}
OldRows ==
    /\ contestProblem \subseteq [id : 1..9, code : ProblemCodes]
    /\ participant \subseteq [id : 1..9, account : Users \cup GroupAccounts, kind : ParticipantKinds, begin : Nat]
    /\ solution \subseteq [id : 1..8, participant : 1..9, problem : 1..9, create : 1..now, report : {0}, seen : {{}}]
    /\ IsFiniteSet(solution)
    /\ \A p, q \in contestProblem : p.id = q.id \/ p.code = q.code => p = q
    /\ \A p, q \in participant : p.id = q.id \/ (p.account = q.account /\ p.kind = q.kind) => p = q
    /\ \A p \in participant : p.account \in GroupAccounts => p.kind /= "virtual" /\ p.begin = 0
    /\ \A r, s \in solution : r.id = s.id \/ r.participant = s.participant => r = s
    /\ \A s \in solution : RowsWith(contestProblem, s.problem) /= {}
    /\ \A s \in solution : \E p \in participant : p.id = s.participant /\ (p.kind = "regular" => p.begin /= 0)
ContestStart ==
    /\ contest \in Configs /\ now \in 1..MaxTime
    /\ disableUpsolving \in BOOLEAN /\ ContestInit(contest, now, contestProblem, participant, solution, disableUpsolving)
    /\ OldRows
ContestSpec == ContestStart /\ [][ContestNext]_contestVars

--------------------------------------------------------------------------------
(* Properties *)

\* Whoever is shown that he may submit has a participant to submit with, unless he is
\* shown it for his roles alone, a virtual participation of his is about to begin, or
\* his own time in the contest, which was moved since, is over before that of his
\* group.  When upsolving is disabled, he that could only upsolve is shown it still and
\* has none.  What the participant may do, except to deregister, the account may do
\* (BuildContext, checkEffectiveParticipant, getParticipantPermissions).
SubmitIsUsable ==
    \A u \in Users :
        LET ctx == Context(u) IN
        /\ EffectivePermissions(ctx) \subseteq ctx.permissions \cup {"deregister"}
        /\ \/ "submit" \notin ctx.permissions \/ "submit" \in EffectivePermissions(ctx)
           \/ "submit" \in AccountPermissions[u] \/ ctx.effective.kind = "virtual"
           \/ \E p \in ctx.participants : p.kind = "regular" /\ p.begin \notin {0, contest.begin}
           \/ disableUpsolving /\ {p.kind : p \in Submitters(ctx)} = {"upsolving"}

\* The time of a participant that has submitted is not moved by a change of the
\* contest, although requests that read the old contest write at any time
\* (submitContestProblemSolution, updateContest).
StartedKeepsTime ==
    [][contest' /= contest => \A p \in participant :
          p.kind = "regular" /\ (\E s \in solution : s.participant = p.id)
              => ParticipantBeginTime(contest', p) = ParticipantBeginTime(contest, p)]_contestVars

\* Codes name one problem, an account takes part once in each kind, and nothing
\* refers to a row that is gone, whatever requests do at the same time
\* (createContestProblem, updateContestProblem, createContestParticipant,
\* registerContest, submitContestProblemSolution).
ContestRowsConsistent ==
    /\ \A p, q \in contestProblem : p.code = q.code => p = q
    /\ \A p, q \in participant : p.account = q.account /\ p.kind = q.kind => p = q
    /\ \A s \in solution : RowsWith(participant, s.participant) /= {} /\ RowsWith(contestProblem, s.problem) /= {}

\* Who has asked can see every answer: his participant is not lost
\* (getContestMessagePermissions, deleteContestParticipant).
AskerSeesAnswer ==
    \A m \in message : m.kind = "answer" =>
        \E u \in Users : \E p \in Context(u).participants : p.id = m.participant

\* When the newest task of a solution has succeeded, the solution has a report,
\* although older tasks and requests to judge again write it too
\* (rejudgeContestSolution, makeSolutionReport).
JudgedHasReport ==
    \A t \in judgeTask : t.status = "succeeded" /\ (\A r \in judgeTask : r.solution = t.solution => r.id <= t.id)
                        => \A s \in RowsWith(solution, t.solution) : s.report /= 0

\* The quota is only exceeded by requests that are let through before an earlier
\* solution has come to the caches: of more solutions than the quota, made by one
\* participant within one window, there are two of which the later was not looked at
\* with the earlier one known, whatever else requests and caches do (hasSolutionsQuota,
\* submitContestProblemSolution); a quota of 0 lets one solution through.
SubmittedBefore(r, s) == r.create < s.create \/ (r.create = s.create /\ r.id < s.id)
QuotaRespected ==
    \A p \in participant : p.kind /= "manager" =>
        \A S \in SUBSET {s \in solution : s.participant = p.id} :
            /\ Cardinality(S) > (IF QuotaAmount = 0 THEN 1 ELSE QuotaAmount)
            /\ \A r, s \in S : s.create < r.create + QuotaWindow
            => \E r, s \in S : SubmittedBefore(r, s) /\ r.id \notin s.seen

\* The rows of a contest in all, after any requests and tasks at the same time
\* (the transactions of contests.go and contest_messages.go).
ContestInv == ContestRowsConsistent /\ AskerSeesAnswer /\ JudgedHasReport /\ QuotaRespected

================================================================================
