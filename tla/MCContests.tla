---- MODULE MCContests ----
(* TLC instance of contests and their standings: one part of the system moves in a behaviour. *)
EXTENDS Contests, Standings
\* the part of the system that moves in a behaviour
VARIABLE part
vars == <<contestVars, standingsVars, part>>
ContestParts == {"contexts", "moves", "quota", "registrations", "problems", "messages", "judging"}
MCAccountPermissions == [u |-> {"register contests"}, o |-> {"register contests", "submit"}]
MCGroupsOf == [u |-> <<"g">>, o |-> <<>>]
Planned == [begin |-> 2, duration |-> 2, registration |-> TRUE, upsolving |-> TRUE, virtual |-> TRUE,
            observing |-> FALSE, standings |-> TRUE, owner |-> "o"]
Moved == [Planned EXCEPT !.begin = 3]
MCConfigs ==
    {[Planned EXCEPT !.begin = b, !.registration = r, !.upsolving = u, !.virtual = v, !.observing = w] :
        b \in {0, 2, 3}, r \in BOOLEAN, u \in BOOLEAN, v \in BOOLEAN, w \in BOOLEAN}
Row(id, account, kind, begin) == [id |-> id, account |-> account, kind |-> kind, begin |-> begin]
Rows ==
    {Row(1, "u", "regular", 0), Row(2, "u", "regular", 2), Row(3, "u", "virtual", 3), Row(4, "u", "upsolving", 0),
     Row(5, "u", "manager", 0), Row(6, "u", "observer", 0), Row(7, "g", "regular", 0), Row(8, "g", "upsolving", 0),
     Row(9, "g", "manager", 0)}
Problem1 == [id |-> 1, code |-> "A"]
Regular2 == Row(2, "u", "regular", 0)
\* the requests of a part
Ops(p) ==
    CASE p = "moves" -> {"contest", "submit"}
      [] p = "quota" -> {"submit"}
      [] p = "registrations" -> {"submit", "create participant", "delete participant"}
      [] p = "problems" -> {"create problem", "update problem", "delete problem", "submit"}
      [] p = "messages" -> {"question", "message", "delete participant"}
      [] p = "judging" -> {"rejudge"}
      [] OTHER -> {}
Participants(p) ==
    CASE p = "contexts" -> {S \in SUBSET Rows : Cardinality(S) <= 3 /\ Cardinality({r.begin : r \in {q \in S : q.account = "u" /\ q.kind = "regular"}}) <= 1}
      [] p = "moves" -> {{Regular2}, {Row(7, "g", "regular", 0)}}
      [] p = "messages" -> {{}, {Regular2}, {Row(7, "g", "regular", 0)}}
      [] p = "registrations" -> {{}}
      [] p = "quota" -> {{}, {Regular2}}
      [] p = "judging" -> {{Row(2, "u", "regular", 2)}}
      [] OTHER -> {{Regular2}}
Person(id, kind, begin, fake) == [id |-> id, account |-> "u", kind |-> kind, begin |-> begin, fake |-> fake]
Fakes == {Person(1, "regular", 0, FALSE), Person(2, "regular", 2, FALSE), Person(3, "regular", 0, TRUE)}
Mixed == {Person(1, "regular", 0, FALSE), Person(2, "virtual", 2, FALSE), Person(3, "upsolving", 0, FALSE)}
Managed == {Person(1, "manager", 0, FALSE), Person(2, "regular", 0, FALSE)}
People == {Fakes, Mixed, Managed}
Board(kind, freeze, problems, people) ==
    [kind |-> kind, begin |-> 1, duration |-> 2, freezeBegin |-> freeze, freezeEnd |-> IF freeze = 0 THEN 0 ELSE 4,
     standings |-> TRUE, problems |-> problems, participants |-> people]
MCBoards ==
    {Board("icpc", 1, <<2>>, people) : people \in People} \cup {Board("ioi", 1, <<2>>, people) : people \in {Fakes, Mixed}}
    \cup {Board("icpc", 0, <<1, 2>>, {Person(1, "regular", 0, FALSE), Person(2, "regular", 0, TRUE)})}
Report(verdict, points) == [verdict |-> verdict, points |-> points]
MCReports == {Report("accepted", 2), Report("wrong answer", 1), Report("compilation error", 0)}
\* three attempts are enough for ties and for an attempt between two others
AttemptBound == IF \E p \in board.participants : p.fake THEN 2 ELSE 3
MCInit ==
    /\ part \in ContestParts \cup {"board"} /\ disableUpsolving \in BOOLEAN
    /\ \E cfg \in (IF part = "contexts" THEN MCConfigs ELSE {Planned}), rows \in Participants(part) :
        ContestInit(cfg, IF part \in {"problems", "messages"} THEN 2 ELSE 1, {Problem1}, rows,
            IF part = "judging" THEN {[id |-> 3, participant |-> 2, problem |-> 1, create |-> 1, report |-> 0, seen |-> {}]} ELSE {},
            disableUpsolving)
    /\ part /= "contexts" => ~disableUpsolving
    /\ OldRows
    /\ StandingsInit
    /\ part /= "board" => board = CHOOSE b \in Boards : TRUE
ContestPartNext ==
    /\ IF part = "contexts" THEN Tick \/ UpdateSetting ELSE ContestNext
    /\ part /= "contexts" => UNCHANGED disableUpsolving
    /\ part /= "quota" => cached' = cached
    /\ \A c \in ContestClients : contestClient'[c].op = "none" \/
           (contestClient'[c].op \in Ops(part) /\ (contestClient'[c].op = "contest" => contestClient'[c].row \in {Planned, Moved}))
    /\ part \notin {"moves", "contexts"} => now' <= (IF part = "quota" THEN 3 ELSE 2)
    /\ part /= "judging" => judgeTask = {} \/ \A t \in judgeTask : t \in judgeTask'
MCNext ==
    /\ UNCHANGED part
    /\ \/ part \in ContestParts /\ ContestPartNext /\ UNCHANGED standingsVars
       \/ part = "board" /\ BoardNext /\ Cardinality(attempts') <= AttemptBound /\ UNCHANGED contestVars
MCSpec == MCInit /\ [][MCNext]_vars
ClientSymmetry == Permutations(ContestClients)
====
