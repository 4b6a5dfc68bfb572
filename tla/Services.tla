------------------------------- MODULE Services -------------------------------
(***************************************************************************)
(* Parts of the server that run side by side: groups, scopes and their     *)
(* accounts with the sessions and their daemon, the contest whose          *)
(* standings are cached, and the log of visits.                            *)
(***************************************************************************)
EXTENDS Groups, Standings, Visits

servicesVars == <<accountVars, groupVars, standingsVars, visitVars>>

ServicesInit == (\E users \in 0..MaxAccount : AccountInit(users)) /\ GroupInit /\ StandingsInit /\ VisitInit
AccountsNext == GroupNext \/ (AccountNext /\ UNCHANGED groupVars)
ServicesNext ==
    \/ AccountsNext /\ UNCHANGED <<standingsVars, visitVars>>
    \/ (CacheNext \/ BoardNext) /\ UNCHANGED <<accountVars, groupVars, visitVars>>
    \/ VisitNext /\ UNCHANGED <<accountVars, groupVars, standingsVars>>
ServicesSpec == ServicesInit /\ [][ServicesNext]_servicesVars

--------------------------------------------------------------------------------
(* Properties *)

\* No row refers to an account that is gone, and what must happen once does: an
\* account joins a group, a board is built, a visit is written, whatever runs at the
\* same time (groups.go, scopes.go, buildStandings, visitsDaemon).
ServicesInv == NoDanglingRows /\ OneMembership /\ OneBuild /\ VisitsInOrder

================================================================================
