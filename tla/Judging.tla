-------------------------------- MODULE Judging --------------------------------
(***************************************************************************)
(* How a task judges a solution (internal/invoker/judge_solution.go and    *)
(* testlib.go): it compiles the solution, runs it on the tests of every    *)
(* test set, adds up points by group, and writes the report at the end.    *)
(* Any step may fail, which ends the task and leaves the solution's old    *)
(* report.  Points that are nil are 0 here: a test with no points counts   *)
(* for nothing.                                                            *)
(***************************************************************************)
EXTENDS Naturals, Sequences, SequencesExt, FiniteSets, FiniteSetsExt

CONSTANTS
    TestSets,       \* [tests: sequence of [group, points], groups: sequence of [name, policy]]
    ExitCodes       \* of checkers and interactors

VARIABLES
    job,            \* [stage, set, first, report]; first is the first test of the set
    hasInteractor, enablePoints,
    saved           \* the report of the solution
judgeVars == <<job, hasInteractor, enablePoints, saved>>

EmptyReport == [verdict |-> "rejected", points |-> 0, tests |-> <<>>]
JudgeInit ==
    /\ job = [stage |-> "compile", set |-> 1, first |-> 1, report |-> EmptyReport]
    /\ hasInteractor \in BOOLEAN /\ enablePoints \in BOOLEAN /\ saved = EmptyReport

\* prepareSolution and compileSolution: the solution's file may not be had, the
\* compiler may fail, or refuse the solution
CompileSolution(outcome) ==
    /\ job.stage = "compile" /\ UNCHANGED <<hasInteractor, enablePoints, saved>>
    /\ job' = CASE outcome = "failed" -> [job EXCEPT !.stage = "failed"]
                [] outcome = "refused" -> [job EXCEPT !.stage = "save", !.report.verdict = "compilation error"]
                [] OTHER -> [job EXCEPT !.stage = "prepare"]
\* the checker, and the interactor if there is one, are made ready; runSolutionTests
\* starts from an accepted report
PrepareExecutables(found) ==
    /\ job.stage = "prepare" /\ UNCHANGED <<hasInteractor, enablePoints, saved>>
    /\ job' = IF found THEN [job EXCEPT !.stage = "test", !.report.verdict = "accepted"] ELSE [job EXCEPT !.stage = "failed"]

\* getTestlibExitCodeVerdict; "" is an error
TestlibVerdict(code) ==
    CASE code = 0 -> "accepted" [] code = 1 -> "wrong answer" [] code = 3 -> "failed"
      [] code \in {2, 4, 8} -> "presentation error" [] code = 5 \/ code >= 16 -> "partially accepted"
      [] OTHER -> ""
\* how a run of the solution ended: over a limit, with an error, or in order
RunVerdict(end) ==
    CASE end = "time" -> "time limit exceeded" [] end = "memory" -> "memory limit exceeded"
      [] end = "code" -> "runtime error" [] OTHER -> "accepted"
\* an interactor has its say only about a run that ended in order
ExecuteSolution(end, interactor) ==
    IF hasInteractor /\ RunVerdict(end) = "accepted" THEN TestlibVerdict(interactor) ELSE RunVerdict(end)
\* and a checker only about one that is accepted so far
RunSolutionTest(end, interactor, checker, points) ==
    LET executed == ExecuteSolution(end, interactor)
        verdict == IF executed = "accepted" THEN TestlibVerdict(checker) ELSE executed
    IN  [verdict |-> verdict, points |-> IF verdict = "accepted" /\ enablePoints THEN points ELSE 0]

ThisSet == TestSets[job.set]
TestsRun == Len(job.report.tests)
SetIsRun == TestsRun - job.first + 1 = Len(ThisSet.tests)
VerdictOfLast(report, test) == IF enablePoints THEN "partially accepted" ELSE test.verdict
VerdictAfterLast(report, test) == IF test.verdict = "accepted" THEN "accepted" ELSE VerdictOfLast(report, test)
VerdictAfter(report, test) == IF test.verdict = "accepted" THEN report.verdict ELSE VerdictOfLast(report, test)
\* without points, judging stops at the first test that is not accepted
RunTest(end, interactor, checker) ==
    LET test == RunSolutionTest(end, interactor, checker, ThisSet.tests[TestsRun - job.first + 2].points) IN
    /\ job.stage = "test" /\ ~SetIsRun /\ UNCHANGED <<hasInteractor, enablePoints, saved>>
    /\ job' = IF test.verdict = "" THEN [job EXCEPT !.stage = "failed"]
              ELSE [job EXCEPT !.report.tests = Append(@, test), !.report.verdict = VerdictAfter(job.report, test),
                               !.stage = IF test.verdict /= "accepted" /\ ~enablePoints THEN "save" ELSE @]
TestFails == job.stage = "test" /\ job' = [job EXCEPT !.stage = "failed"] /\ UNCHANGED <<hasInteractor, enablePoints, saved>>

\* calculateTestSetPoints
GroupTests(group) == {i \in job.first..TestsRun : ThisSet.tests[i - job.first + 1].group = group.name}
IsComplete(group) == \A i \in GroupTests(group) : job.report.tests[i].verdict = "accepted"
GroupPoints(group) == MapThenSumSet(LAMBDA i : job.report.tests[i].points, GroupTests(group))
Counts(group) == group.policy = "each test" \/ IsComplete(group)
SetPoints == MapThenSumSet(LAMBDA g : IF Counts(g) THEN GroupPoints(g) ELSE 0, ToSet(ThisSet.groups))
WithPointsKept(report) == [report EXCEPT !.points = @ + SetPoints]
WithSetPoints(report) ==
    LET lost == {i \in job.first..TestsRun : \E g \in ToSet(ThisSet.groups) : i \in GroupTests(g) /\ ~Counts(g)} IN
    [report EXCEPT !.points = @ + SetPoints,
                   !.tests = [i \in DOMAIN @ |-> IF i \in lost THEN [@[i] EXCEPT !.points = 0] ELSE @[i]]]
FinishTestSet ==
    /\ job.stage = "test" /\ SetIsRun /\ UNCHANGED <<hasInteractor, enablePoints, saved>>
    /\ job' = [job EXCEPT !.report = IF enablePoints THEN WithSetPoints(@) ELSE @, !.first = TestsRun + 1,
                          !.set = IF @ = Len(TestSets) THEN @ ELSE @ + 1,
                          !.stage = IF job.set = Len(TestSets) THEN "save" ELSE "test"]
\* the update may be refused
SaveReport(ok) ==
    /\ job.stage = "save" /\ UNCHANGED <<hasInteractor, enablePoints>>
    /\ job' = [job EXCEPT !.stage = IF ok THEN "succeeded" ELSE "failed"]
    /\ saved' = IF ok THEN job.report ELSE saved

JudgeNext ==
    \/ \E outcome \in {"failed", "refused", "ok"} : CompileSolution(outcome)
    \/ \E ok \in BOOLEAN : PrepareExecutables(ok) \/ SaveReport(ok)
    \/ \E end \in {"time", "memory", "code", "ok"}, i \in ExitCodes, c \in ExitCodes : RunTest(end, i, c)
    \/ TestFails \/ FinishTestSet

--------------------------------------------------------------------------------
(* Properties *)

AllTests == FlattenSeq([s \in DOMAIN TestSets |-> TestSets[s].tests])

\* A report that is written says "accepted" exactly when every test of every set was
\* run and accepted; without points it has no test after one that is not accepted,
\* which it is named after (runSolutionTests).
VerdictIsExact ==
    job.stage = "succeeded" =>
        LET tests == saved.tests IN
        /\ (saved.verdict = "accepted") <=>
               (saved.verdict /= "compilation error" /\ Len(tests) = Len(AllTests) /\ \A i \in DOMAIN tests : tests[i].verdict = "accepted")
        /\ ~enablePoints /\ tests /= <<>> =>
               saved.verdict = Last(tests).verdict /\ \A i \in 1..(Len(tests) - 1) : tests[i].verdict = "accepted"

\* Whether a group is listed for a test set, and the place of the first test of a set.
Listed(s, group) == \E g \in ToSet(TestSets[s].groups) : g.name = group
SetStart(s) == 1 + MapThenSumSet(LAMBDA t : Len(TestSets[t].tests), 1..(s - 1))

\* The points of a written report are those of its tests added up, without the tests
\* of no listed group; a group that gives its points as a whole gives all or nothing
\* (calculateTestSetPoints).
PointsAddUp ==
    job.stage = "succeeded" /\ enablePoints /\ saved.tests /= <<>> =>
        LET counted(s) == {k \in DOMAIN TestSets[s].tests : Listed(s, TestSets[s].tests[k].group)}
            of(s, k) == saved.tests[SetStart(s) + k - 1]
        IN
        /\ saved.points = MapThenSumSet(LAMBDA s : MapThenSumSet(LAMBDA k : of(s, k).points, counted(s)), DOMAIN TestSets)
        /\ \A s \in DOMAIN TestSets : \A g \in ToSet(TestSets[s].groups) :
            LET tests == {k \in DOMAIN TestSets[s].tests : TestSets[s].tests[k].group = g.name} IN
            \/ \A k \in tests : of(s, k).points = TestSets[s].tests[k].points
            \/ g.policy = "each test" \/ \A k \in tests : of(s, k).points = 0

\* Verdict and points of a written report agree with its tests, wherever a set
\* ended early (JudgeSolutionTask).
ReportIsExact == VerdictIsExact /\ PointsAddUp

================================================================================
