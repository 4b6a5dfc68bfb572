------------------------------- MODULE Standings -------------------------------
(***************************************************************************)
(* The standings of a contest (internal/managers/contest_standings.go):    *)
(* cells, scores and penalties by the rules of ICPC and IOI, the freeze of *)
(* the board, places, and the cache from which requests are answered.      *)
(*                                                                         *)
(* An attempt is [id, participant, problem, time, report]: of a real       *)
(* participant time is when it was made, of a fake one the time in the     *)
(* contest.  A report is [verdict, points]; NoReport is that of an attempt *)
(* which is not judged yet.  A verdict of "" is one that is not shown.     *)
(***************************************************************************)
EXTENDS ContestManager, Integers, SequencesExt, FiniteSets, FiniteSetsExt

CONSTANTS
    Boards,             \* configurations [kind, begin, duration, freezeBegin, freezeEnd, problems, participants]
    Reports,            \* the reports attempts may get
    AttemptPenalty, Minute,                              \* 20 and 60
    Viewers,            \* requests that read the standings
    CacheTime,                                           \* 15 seconds
    MaxAttempt, MaxClock, MaxRead                        \* bounds

ASSUME StandingsAssumption == {AttemptPenalty, CacheTime, MaxAttempt, MaxClock, MaxRead} \subseteq Nat /\ Minute \in Nat \ {0}

VARIABLES
    board, attempts, clock,
    entry,              \* the cache's entry of a key: [builder, done, error, time]
    viewer, reads
boardVars == <<board, attempts, clock>>
cacheVars == <<entry, viewer, reads>>
standingsVars == <<boardVars, cacheVars>>

NoReport == [verdict |-> "", points |-> 0]
IsPlaced(kind) == kind \in {"regular", "virtual"}

--------------------------------------------------------------------------------
(* The board.  ctx is [participant, now, full, all, attempts]: the viewer's effective *)
(* participant, the time of the request, whether the freeze is to be ignored, whether *)
(* the viewer may see everyone, and the attempts that were read                       *)

ContestStage(ctx) == ParticipantStage(board, ctx.participant, ctx.now)
ContestTime(ctx) == ctx.now - ParticipantBeginTime(board, ctx.participant)
IsContestFrozen(ctx) ==
    /\ board.freezeBegin /= 0
    /\ \/ ContestStage(ctx) = "started" /\ ContestTime(ctx) >= board.freezeBegin
       \/ ContestStage(ctx) = "finished" /\ (board.freezeEnd = 0 \/ ctx.now < board.freezeEnd)
Frozen(ctx) == ~(ctx.full /\ ctx.all) /\ IsContestFrozen(ctx)
IsVerdictFrozen(time) == board.freezeBegin /= 0 /\ time >= board.freezeBegin

EmptyCell == [attempt |-> 0, verdict |-> "", points |-> 0, time |-> 0, stop |-> FALSE]
\* the time of an attempt since its participant began
CellTime(p, a, cell) ==
    LET begin == ParticipantBeginTime(board, p) IN
    CASE p.fake -> a.time
      [] ~p.fake /\ begin = 0 -> cell.time
      [] OTHER -> IF a.time < begin THEN 0 ELSE a.time - begin
Judged(p, a, cell) == [cell EXCEPT !.attempt = @ + 1, !.time = CellTime(p, a, cell)]
ICPCCellOldTime(ctx, p, a, cell) ==
    [Judged(p, a, cell) EXCEPT !.verdict = IF Frozen(ctx) /\ IsVerdictFrozen(cell.time) THEN "" ELSE a.report.verdict,
                               !.stop = a.report.verdict = "accepted"]
ICPCCell(ctx, p, a, cell) ==
    LET next == Judged(p, a, cell)
        hidden == Frozen(ctx) /\ IsVerdictFrozen(next.time)
    IN  [next EXCEPT !.verdict = IF hidden THEN "" ELSE a.report.verdict, !.stop = a.report.verdict = "accepted"]
IOICellOfLast(ctx, p, a, cell) ==
    [Judged(p, a, cell) EXCEPT !.verdict = a.report.verdict, !.points = a.report.points]
IOICell(ctx, p, a, cell) ==
    LET next == Judged(p, a, cell) IN
    CASE Frozen(ctx) /\ IsVerdictFrozen(next.time) -> [next EXCEPT !.verdict = ""]
      [] ~(Frozen(ctx) /\ IsVerdictFrozen(next.time)) /\ (cell.verdict = "" \/ cell.points < a.report.points) ->
            [next EXCEPT !.verdict = a.report.verdict,
                         !.points = IF cell.points < a.report.points THEN a.report.points ELSE @]
      [] OTHER -> next
\* an attempt that is not judged hides the ones after it
CellStep(ctx, p, a, cell) ==
    CASE cell.stop \/ a.report.verdict = "compilation error" -> cell
      [] ~cell.stop /\ a.report = NoReport -> [cell EXCEPT !.attempt = @ + 1, !.verdict = "", !.stop = TRUE]
      [] OTHER -> IF board.kind = "ioi" THEN IOICell(ctx, p, a, cell) ELSE ICPCCell(ctx, p, a, cell)

\* attempts of the future are not seen; a fake one is at a time of the viewer's contest
Seen(ctx, p, a) ==
    IF ~p.fake THEN a.time < ctx.now
    ELSE ContestStage(ctx) = "finished" \/ (ContestStage(ctx) = "started" /\ ContestTime(ctx) >= a.time)
Before(a, b) == a.time < b.time \/ (a.time = b.time /\ a.id < b.id)
AttemptsOf(ctx, p, problem) ==
    SetToSortSeq({a \in ctx.attempts : a.participant = p.id /\ a.problem = problem /\ Seen(ctx, p, a)}, Before)
Cell(ctx, p, problem) ==
    FoldLeft(LAMBDA cell, a : CellStep(ctx, p, a, cell), EmptyCell, AttemptsOf(ctx, p, problem))

\* board.problems gives each problem the points of its column
ProblemScore(ctx, p, problem) ==
    LET cell == Cell(ctx, p, problem) IN
    CASE board.kind = "ioi" -> cell.points
      [] board.kind = "icpc" /\ cell.verdict = "accepted" -> board.problems[problem]
      [] OTHER -> 0
CellPenalty(cell) == IF cell.verdict = "accepted" THEN (cell.attempt - 1) * AttemptPenalty + cell.time \div Minute ELSE 0
\* only participants that are placed have a penalty, and only by the rules of ICPC
NoPenalty == -1
StandingsRow(ctx, p) ==
    [participant |-> p,
     score |-> MapThenSumSet(LAMBDA q : ProblemScore(ctx, p, q), DOMAIN board.problems),
     penalty |-> IF board.kind = "ioi" \/ ~IsPlaced(p.kind) THEN NoPenalty
                 ELSE MapThenSumSet(LAMBDA q : CellPenalty(Cell(ctx, p, q)), DOMAIN board.problems)]

--------------------------------------------------------------------------------
(* processStandings and calculatePlaces *)

ParticipantOrder(kind) == CASE kind = "manager" -> 0 [] IsPlaced(kind) -> 1 [] OTHER -> 2
ScoreLess(r, q) ==
    ParticipantOrder(r.participant.kind) < ParticipantOrder(q.participant.kind)
        \/ (ParticipantOrder(r.participant.kind) = ParticipantOrder(q.participant.kind) /\ r.score > q.score)
ParticipantLess(r, q) ==
    \/ ScoreLess(r, q)
    \/ /\ ~ScoreLess(q, r) /\ r.penalty /= NoPenalty /\ q.penalty /= NoPenalty /\ r.penalty < q.penalty
\* fake participants have the ID 0 here: those that are equal may come in any order
StableParticipantLess(r, q) ==
    ParticipantLess(r, q) \/ (~ParticipantLess(q, r) /\ r.participant.id < q.participant.id)
IsShown(ctx, onlyOfficial, kind) ==
    /\ onlyOfficial => kind = "regular"
    /\ ctx.all \/ IsPlaced(kind) \/ (kind = "upsolving" /\ ContestStage(ctx) = "finished")
ShownRows(ctx, onlyOfficial) ==
    LET rows == {StandingsRow(ctx, p) : p \in {q \in board.participants : \E a \in ctx.attempts : a.participant = q.id}}
    IN  SetToSortSeq({r \in rows : IsShown(ctx, onlyOfficial, r.participant.kind)}, StableParticipantLess)
Placed(rows) == SelectSeq([i \in DOMAIN rows |-> i], LAMBDA i : IsPlaced(rows[i].participant.kind))
PlacesInOrder(rows) == [i \in DOMAIN rows |-> SelectInSeq(Placed(rows), LAMBDA j : j = i)]
\* a row that is not better than the placed one before it shares its place
CalculatePlaces(rows) ==
    LET placed == Placed(rows)
        place[k \in DOMAIN placed] ==
            IF k > 1 /\ ~ParticipantLess(rows[placed[k - 1]], rows[placed[k]]) THEN place[k - 1] ELSE k
    IN  [i \in DOMAIN rows |-> IF i \in ToSet(placed) THEN place[SelectInSeq(placed, LAMBDA j : j = i)] ELSE 0]

--------------------------------------------------------------------------------
(* A contest whose attempts are made and judged *)

MakeAttempt(p, problem) ==
    /\ Cardinality(attempts) < MaxAttempt /\ ~p.fake /\ "submit" \in ParticipantPermissions(board, p, clock)
    /\ attempts' = attempts \cup {[id |-> Cardinality(attempts) + 1, participant |-> p.id, problem |-> problem,
                                    time |-> clock, report |-> NoReport]}
    /\ UNCHANGED <<board, clock, cacheVars>>
\* an attempt may be judged again
JudgeAttempt(a, report) ==
    /\ attempts' = (attempts \ {a}) \cup {[a EXCEPT !.report = IF @ = NoReport THEN report ELSE NoReport]}
    /\ UNCHANGED <<board, clock, cacheVars>>
\* a fake attempt is created with its report; its deletion is not implemented
CreateFakeAttempt(p, problem, time, report) ==
    /\ Cardinality(attempts) < MaxAttempt /\ p.fake
    /\ attempts' = attempts \cup {[id |-> Cardinality(attempts) + 1, participant |-> p.id, problem |-> problem,
                                    time |-> time, report |-> report]}
    /\ UNCHANGED <<board, clock, cacheVars>>
BoardTick == clock < MaxClock /\ clock' = clock + 1 /\ UNCHANGED <<board, attempts, cacheVars>>
BoardNext ==
    \/ BoardTick
    \/ \E p \in board.participants, q \in DOMAIN board.problems :
        \/ MakeAttempt(p, q)
        \/ \E time \in 0..board.duration, report \in Reports : CreateFakeAttempt(p, q, time, report)
    \/ \E a \in attempts, report \in Reports : JudgeAttempt(a, report)

--------------------------------------------------------------------------------
(* buildStandings: the cache, for one key (the contest, the time at which it began *)
(* for the viewer, whether the freeze is ignored).  The entry is looked up and     *)
(* replaced under the mutex; an entry is replaced only when it is done.            *)

NoEntry == [id |-> 0, done |-> TRUE, error |-> TRUE, time |-> 0]
NoView == [pc |-> "idle", on |-> 0]
StandingsInit ==
    /\ board \in Boards /\ attempts = {} /\ clock = 1
    /\ entry = NoEntry /\ viewer = [v \in Viewers |-> NoView] /\ reads = 0

NewView(v, e) == entry' = e /\ viewer' = [viewer EXCEPT ![v] = [pc |-> IF e.id = entry.id THEN "wait" ELSE "build", on |-> e.id]]
CacheHit == entry.done /\ ~entry.error /\ clock - entry.time < CacheTime
BuildUnlocked(v) ==
    /\ viewer[v].pc = "idle" /\ reads < MaxRead /\ reads' = reads + 1 /\ UNCHANGED boardVars
    /\ NewView(v, [id |-> entry.id + 1, done |-> FALSE, error |-> FALSE, time |-> clock])
BuildStandings(v) ==
    /\ viewer[v].pc = "idle" /\ reads < MaxRead /\ reads' = reads + 1 /\ UNCHANGED boardVars
    /\ \/ CacheHit /\ UNCHANGED <<entry, viewer>>
       \/ ~entry.done /\ NewView(v, entry)
       \/ entry.done /\ ~CacheHit /\ NewView(v, [id |-> entry.id + 1, done |-> FALSE, error |-> FALSE, time |-> clock])
FinishBuildOrFail(v, error) ==
    /\ viewer[v].pc = "build" /\ viewer' = [viewer EXCEPT ![v] = NoView]
    /\ entry' = [entry EXCEPT !.done = ~error, !.error = error] /\ UNCHANGED <<boardVars, reads>>
\* Done is closed whether or not the standings could be built
FinishBuild(v, error) ==
    /\ viewer[v].pc = "build" /\ viewer' = [viewer EXCEPT ![v] = NoView]
    /\ entry' = [id |-> entry.id, done |-> TRUE, error |-> error, time |-> entry.time] /\ UNCHANGED <<boardVars, reads>>
WaitBuild(v) ==
    /\ viewer[v].pc = "wait" /\ (entry.done \/ entry.id /= viewer[v].on)
    /\ viewer' = [viewer EXCEPT ![v] = NoView] /\ UNCHANGED <<boardVars, entry, reads>>
ViewStep(v) == WaitBuild(v) \/ \E error \in BOOLEAN : FinishBuild(v, error)
CacheNext == \E v \in Viewers : BuildStandings(v) \/ ViewStep(v)

--------------------------------------------------------------------------------
(* Properties *)

\* those who look: any participant or a guest, who may see everyone or not
Views == {[participant |-> p, now |-> clock, full |-> TRUE, all |-> all, attempts |-> attempts] :
              p \in {q \in board.participants : ~q.fake} \cup {NoParticipant}, all \in BOOLEAN}
Hidden(a) ==
    \E p \in board.participants : p.id = a.participant /\ IsVerdictFrozen(CellTime(p, a, EmptyCell))

\* While the board is frozen for a viewer, every score and penalty on it is the one
\* that it would be if nothing had been submitted in the freeze, whatever was
\* (buildICPCStandings, buildIOIStandings, isVerdictFrozen).
FreezeHides ==
    \A ctx \in Views : Frozen(ctx) =>
        \A p \in board.participants :
            StandingsRow(ctx, p) = StandingsRow([ctx EXCEPT !.attempts = {a \in attempts : ~Hidden(a)}], p)

\* Cells agree with the rules, stated over sets: with every attempt that is judged
\* and follows no unjudged one, ICPC counts the attempts up to the first that is
\* accepted, and IOI takes the best points of those that are shown.
CellsFollowRules ==
    \A ctx \in Views, p \in board.participants, q \in DOMAIN board.problems :
        LET seen == {a \in attempts : a.participant = p.id /\ a.problem = q /\ Seen(ctx, p, a)}
            known == {a \in seen : a.report.verdict \notin {"", "compilation error"}
                                    /\ \A b \in seen : Before(b, a) => b.report /= NoReport}
            shown == {a \in known : ~(Frozen(ctx) /\ Hidden(a))}
            first == {a \in shown : a.report.verdict = "accepted" /\ \A b \in known : Before(b, a) => b.report.verdict /= "accepted"}
            cell == Cell(ctx, p, q)
        IN  IF board.kind = "ioi" THEN cell.points = Max({0} \cup {a.report.points : a \in shown})
            ELSE /\ (cell.verdict = "accepted") <=> (first /= {})
                 /\ \A a \in first : cell.attempt = 1 + Cardinality({b \in known : Before(b, a)})

\* The place of a row is one more than the number of placed rows that are better,
\* whatever rows are shown to the viewer (calculatePlaces, processStandings).
PlaceIsRank ==
    \A ctx \in Views, official \in BOOLEAN :
        LET rows == ShownRows(ctx, official)
            placed == {i \in DOMAIN rows : IsPlaced(rows[i].participant.kind)}
            places == CalculatePlaces(rows)
        IN  \A i \in placed :
                places[i] = 1 + Cardinality({j \in placed : ParticipantLess(rows[j], rows[i])})

\* Cells and places follow the rules of ICPC and IOI, for every viewer and every
\* order in which attempts were made and judged (BuildStandings).
BoardFollowsRules == CellsFollowRules /\ PlaceIsRank

\* The standings of a key are built by one request at a time (buildStandings).
OneBuild == Cardinality({v \in Viewers : viewer[v].pc = "build"}) <= 1

\* Whoever waits for the standings is answered, also when building them fails
\* (buildStandings).
ViewersAnswered == \A v \in Viewers : viewer[v].pc /= "idle" ~> viewer[v].pc = "idle"

================================================================================
