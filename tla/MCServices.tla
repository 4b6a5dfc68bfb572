---- MODULE MCServices ----
(* TLC instance of accounts, groups, roles and the cache of standings, of  *)
(* judging, lists and daemons: one part of the system moves in a behaviour. *)
EXTENDS Services, Roles, Judging, Paging
\* the part of the system that moves in a behaviour
VARIABLE part
listsVars == <<judgeVars, listVars, visitVars>>
vars == <<accountVars, groupVars, roleVars, standingsVars, listsVars, part>>
MCStatusRole == [active |-> "a", blocked |-> "b"]
MCBoards ==
    {[kind |-> "icpc", begin |-> 1, duration |-> 2, freezeBegin |-> 0, freezeEnd |-> 0, standings |-> TRUE, problems |-> <<2>>,
      participants |-> {[id |-> 1, account |-> "u", kind |-> "regular", begin |-> 0, fake |-> FALSE]}]}
Test(group, points) == [group |-> group, points |-> points]
Group(name, policy) == [name |-> name, policy |-> policy]
MCTestSets ==
    <<[tests |-> <<Test("", 5), Test("b", 1), Test("b", 2)>>, groups |-> <<Group("b", "complete group")>>],
      [tests |-> <<Test("b", 3)>>, groups |-> <<Group("b", "each test")>>]>>
Parts == {"groups", "role graphs", "walk", "granted walk", "role requests", "cache", "judging", "paging", "visits"}
RoleParts == {"role graphs", "walk", "granted walk", "role requests"}
MCInit ==
    /\ part \in Parts
    /\ AccountInit(1) /\ GroupInit /\ RoleInit
    /\ part \notin {"role graphs", "walk"} => roleEdge = {} /\ userStatus = "active"
    /\ part = "walk" => Cardinality(roleEdge) <= 3 /\ userStatus = "active"
    /\ StandingsInit /\ VisitInit /\ JudgeInit
    /\ part /= "judging" => ~hasInteractor /\ ~enablePoints
    /\ PagingInit /\ page.kind /= "gone" /\ \A r \in listRow : r.kind = "gone" => r.visible
    /\ list \in {"posts", "solutions"} => page.kind = AnyKind /\ \A r \in listRow : r.kind = "a"
    /\ part /= "paging" => list = "posts" /\ lastRow = 0 /\ page.kind = AnyKind /\ page.limit = 3
MCNext ==
    /\ UNCHANGED part
    /\ \/ part = "groups" /\ GroupNext /\ UNCHANGED <<roleVars, standingsVars, listsVars>>
       \/ part = "groups" /\ AccountNext /\ UNCHANGED <<groupVars, roleVars, standingsVars, listsVars>>
       \/ part \in RoleParts /\ RoleNext /\ UNCHANGED <<accountVars, groupVars, standingsVars, listsVars>>
       \/ part = "cache" /\ (CacheNext \/ BoardTick) /\ UNCHANGED <<accountVars, groupVars, roleVars, listsVars>>
       \/ part = "judging" /\ JudgeNext /\ UNCHANGED <<accountVars, groupVars, roleVars, standingsVars, listVars, visitVars>>
       \/ part = "paging" /\ ~page.done /\ PagingNext /\ UNCHANGED <<accountVars, groupVars, roleVars, standingsVars, judgeVars, visitVars>>
       \/ part = "visits" /\ VisitNext /\ UNCHANGED <<accountVars, groupVars, roleVars, standingsVars, judgeVars, listVars>>
    /\ (part = "role graphs" => roleOps' = 0) /\ (part = "walk" => roleOps' <= 1) /\ (part = "granted walk" => roleOps' <= 2) /\ (part = "role requests" => walk' = walk)
\* Requests and daemons have goroutines of their own.  The cleanup daemon runs on some
\* server as long as there is one, and its deletions do not all fail.
Fair ==
    /\ WF_vars(part = "groups" /\ CleanupFind /\ UNCHANGED <<groupVars, roleVars, standingsVars, listsVars, part>>)
    /\ SF_vars(part = "groups" /\ CleanupDelete /\ UNCHANGED <<groupVars, roleVars, standingsVars, listsVars, part>>)
    /\ WF_vars(part \in RoleParts /\ GetRecursivePermissions /\ UNCHANGED <<accountVars, groupVars, standingsVars, listsVars, part>>)
    /\ \A v \in Viewers :
           WF_vars(part = "cache" /\ ViewStep(v) /\ UNCHANGED <<accountVars, groupVars, roleVars, listsVars, part>>)
    /\ WF_vars(part = "paging" /\ Observe
               /\ UNCHANGED <<accountVars, groupVars, roleVars, standingsVars, judgeVars, visitVars, part>>)
    /\ WF_vars(part = "visits" /\ Daemon
               /\ UNCHANGED <<accountVars, groupVars, roleVars, standingsVars, judgeVars, listVars, part>>)
MCSpec == MCInit /\ [][MCNext]_vars /\ Fair
\* Whoever waits is served, through failed deletions, cycles of roles, failed builds,
\* empty pages and a full channel: expired sessions go, contexts are made, viewers
\* are answered, lists end and visits are written.
EveryoneIsServed == ExpiredSessionsGo /\ WalkEnds /\ ViewersAnswered /\ PagingEnds /\ QueuedVisitsWritten
====
