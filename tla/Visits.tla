-------------------------------- MODULE Visits ---------------------------------
(***************************************************************************)
(* The log of visits: handlers put a visit in a channel without waiting    *)
(* (logVisit, internal/api/view.go), a task of the server takes them out   *)
(* and creates rows (visitsDaemon, internal/api/daemons.go).               *)
(***************************************************************************)
EXTENDS Naturals, Sequences, SequencesExt

CONSTANTS ChannelSize, MaxVisit

ASSUME VisitsAssumption == {ChannelSize, MaxVisit} \subseteq Nat

VARIABLES
    channel, lastVisit,
    visitsDaemon,           \* "wait", "create", "drain" or "stopped"
    visit,                  \* the one that is created
    finished,               \* the visits that were created, or could not be, in order
    stopping
visitVars == <<channel, lastVisit, visitsDaemon, visit, finished, stopping>>

VisitInit ==
    /\ channel = <<>> /\ lastVisit = 0 /\ visitsDaemon = "wait" /\ visit = 0 /\ finished = <<>> /\ stopping = FALSE

\* when the channel is full, the visit is dropped
LogVisit ==
    /\ lastVisit < MaxVisit /\ lastVisit' = lastVisit + 1 /\ UNCHANGED <<visitsDaemon, visit, finished, stopping>>
    /\ channel' = IF Len(channel) < ChannelSize THEN Append(channel, lastVisit + 1) ELSE channel
Take(next) ==
    /\ channel /= <<>> /\ visit' = Head(channel) /\ channel' = Tail(channel) /\ visitsDaemon' = next
    /\ UNCHANGED <<lastVisit, finished, stopping>>
TakeVisit == visitsDaemon = "wait" /\ Take("create")
\* a visit is created only if the setting says so, and creating it may fail
CreateVisitAgain ==
    /\ visitsDaemon \in {"create", "drain"} /\ UNCHANGED <<lastVisit, visit, stopping>>
    /\ visitsDaemon' = IF visitsDaemon = "drain" THEN "stopped" ELSE "wait"
    /\ \/ finished' = Append(finished, visit) /\ UNCHANGED channel
       \/ Len(channel) < ChannelSize /\ channel' = Append(channel, visit) /\ UNCHANGED finished
CreateVisitOrStop ==
    /\ visitsDaemon \in {"create", "drain"} /\ finished' = Append(finished, visit) /\ UNCHANGED <<channel, lastVisit, visit, stopping>>
    /\ visitsDaemon' \in {"wait", "stopped"}
CreateVisit ==
    /\ visitsDaemon \in {"create", "drain"} /\ finished' = Append(finished, visit) /\ UNCHANGED <<channel, lastVisit, visit, stopping>>
    /\ visitsDaemon' = IF visitsDaemon = "drain" THEN "stopped" ELSE "wait"
StopServer == ~stopping /\ stopping' = TRUE /\ UNCHANGED <<channel, lastVisit, visitsDaemon, visit, finished>>
\* the select may take either branch; one more visit is written at the end
SeeDone ==
    /\ visitsDaemon = "wait" /\ stopping
    /\ IF channel /= <<>> THEN Take("drain")
       ELSE visitsDaemon' = "stopped" /\ UNCHANGED <<channel, lastVisit, visit, finished, stopping>>

Daemon == TakeVisit \/ CreateVisit \/ SeeDone
VisitNext == LogVisit \/ StopServer \/ Daemon

--------------------------------------------------------------------------------
(* Properties *)

\* Visits are written once each, in the order in which they were put in the channel
\* (visitsDaemon).
VisitsInOrder ==
    \A i, j \in 1..Len(finished) : i < j => finished[i] < finished[j]

\* A visit in the channel is written unless the server stops, and a server that stops
\* does not wait for visits that still come (visitsDaemon).
QueuedVisitsWritten ==
    /\ \A v \in 1..MaxVisit : v \in ToSet(channel) ~> (v \in ToSet(finished) \/ stopping)
    /\ stopping ~> visitsDaemon = "stopped"

================================================================================
