----------------------------- MODULE EventConsumer -----------------------------
(***************************************************************************)
(* The event consumer of internal/db (event_consumer.go, event_store.go).  *)
(*                                                                         *)
(* Writers take an event ID from the table's sequence when they insert the *)
(* row and make it visible later, when their transaction commits; a        *)
(* transaction that rolls back leaves a hole in the sequence for ever.     *)
(* The consumer therefore remembers a sorted list of half open ranges of   *)
(* IDs it has not seen yet.  One call of ConsumeEvents loads a snapshot of *)
(* the committed rows inside the ranges, hands them to the callback in ID  *)
(* order, splits the ranges as it goes, and finally drops empty ranges and *)
(* the oldest ranges above eventGapSkipWindow.  The consumer's mutex is    *)
(* held for the whole call, so calls do not overlap; writers do.           *)
(*                                                                         *)
(* Ranges are records [b, e] standing for [b, e), with e = 0 for "no upper *)
(* limit" as in EventRange.  TLA+ sequences start at 1 where Go starts at  *)
(* 0.                                                                      *)
(***************************************************************************)
EXTENDS Naturals, Sequences, FiniteSets

CONSTANTS
    MaxEvent,        \* bound on the event sequence
    GapWindow,       \* eventGapSkipWindow of package db (5000)
    InitWindow       \* eventGapSkipWindow of package models (25000)

ASSUME EventAssumption == MaxEvent \in Nat \ {0}
ASSUME WindowAssumption == GapWindow \in Nat \ {0} /\ InitWindow \in Nat \ {0}

VARIABLES
    next,            \* next value of the event ID sequence
    open,            \* IDs inserted by transactions that have not ended
    committed,       \* IDs visible to readers
    ranges,          \* eventConsumer.ranges
    pc,              \* progress of the running ConsumeEvents call
    batch,           \* rows of the running call that have not been read
    it,              \* eventConsumer's cursor into ranges
    delivered        \* history: IDs handed to the callback

dbVars == <<next, open, committed>>
consumerVars == <<ranges, pc, batch, it, delivered>>
vars == <<dbVars, consumerVars>>

EventIDs == 1..MaxEvent

EventRange == [b : Nat \ {0}, e : Nat]

Contains(r, id) == id >= r.b /\ (r.e = 0 \/ id < r.e)

\* The WHERE clause LoadEvents builds from a range, case by case.
WhereMatches(r, id) ==
    IF r.e = 0 THEN id >= r.b
    ELSE IF r.b + 1 = r.e THEN id = r.b
    ELSE id >= r.b /\ id < r.e

InSomeRange(rs, id) == \E k \in 1..Len(rs) : Contains(rs[k], id)

IsLeast(x, S) == x \in S /\ \A y \in S : x <= y
IsGreatest(x, S) == x \in S /\ \A y \in S : x >= y

\* Where initEvents puts the first range: InitWindow IDs before the last event.
FirstID(last) == IF last > InitWindow THEN last - InitWindow ELSE 1

--------------------------------------------------------------------------------
(* The consumer is created over an event table that already has a history. *)
Init ==
    /\ next \in 1..(MaxEvent + 1)
    /\ committed \in SUBSET (1..(next - 1))
    /\ open \in SUBSET ((1..(next - 1)) \ committed)
    /\ \E begin \in 1..(MaxEvent + 1) :
        /\ \/ committed = {} /\ begin = 1
           \/ \E last \in committed :
                IsGreatest(last, committed) /\ begin = FirstID(last)
        /\ ranges = <<[b |-> begin, e |-> 0]>>
    /\ pc = "idle" /\ batch = {} /\ it = 1
    /\ delivered = {}

(* CreateEvent: the INSERT takes the next value of the sequence. *)
CreateEvent ==
    /\ next <= MaxEvent
    /\ next' = next + 1
    /\ open' = open \cup {next}
    /\ UNCHANGED <<committed, consumerVars>>

CommitEvent(id) ==
    /\ id \in open
    /\ open' = open \ {id}
    /\ committed' = committed \cup {id}
    /\ UNCHANGED <<next, consumerVars>>

RollbackEvent(id) ==
    /\ id \in open
    /\ open' = open \ {id}
    /\ UNCHANGED <<next, committed, consumerVars>>

\* Mutant: the SELECT has no WHERE clause.
LoadAllEvents ==
    /\ pc = "idle"
    /\ batch' = committed
    /\ pc' = "reading" /\ it' = 1
    /\ UNCHANGED <<dbVars, ranges, delivered>>

\* Mutant: only the last range is asked for.
LoadNewEvents ==
    /\ pc = "idle"
    /\ batch' = {id \in committed : WhereMatches(ranges[Len(ranges)], id)}
    /\ pc' = "reading" /\ it' = 1
    /\ UNCHANGED <<dbVars, ranges, delivered>>

(* ConsumeEvents takes the mutex and runs the SELECT. *)
LoadEvents ==
    /\ pc = "idle"
    /\ batch' = {id \in committed :
                    \E k \in 1..Len(ranges) : WhereMatches(ranges[k], id)}
    /\ pc' = "reading" /\ it' = 1
    /\ UNCHANGED <<dbVars, ranges, delivered>>

\* Mutant: the second part of a split range still holds the event.
SplitKeepsEvent(rs, k, id) ==
    [j \in 1..(Len(rs) + 1) |->
        IF j < k THEN rs[j]
        ELSE IF j = k THEN [b |-> rs[k].b, e |-> id]
        ELSE IF j = k + 1 THEN [b |-> id, e |-> rs[k].e]
        ELSE rs[j - 1]]

\* Mutant: the new range is appended, not shifted into its place.
SplitAppends(rs, k, id) ==
    [j \in 1..(Len(rs) + 1) |->
        IF j = k THEN [b |-> rs[k].b, e |-> id]
        ELSE IF j = Len(rs) + 1 THEN [b |-> id + 1, e |-> rs[k].e]
        ELSE rs[j]]

\* The ranges after event id has been taken out of ranges[k] by a shift of the
\* tail: [b, e) becomes [b, id) and [id + 1, e).
SplitAt(rs, k, id) ==
    [j \in 1..(Len(rs) + 1) |->
        IF j < k THEN rs[j]
        ELSE IF j = k THEN [b |-> rs[k].b, e |-> id]
        ELSE IF j = k + 1 THEN [b |-> id + 1, e |-> rs[k].e]
        ELSE rs[j - 1]]

\* Mutant: Begin is moved the wrong way.
ConsumeBackwards(rs, k, id) ==
    IF id = rs[k].b THEN [rs EXCEPT ![k].b = id - 1] ELSE SplitAt(rs, k, id)

\* Mutant: a range is never split.
ConsumeNoSplit(rs, k, id) == [rs EXCEPT ![k].b = id + 1]

\* The ranges after event id of ranges[k] has been consumed.
Consume(rs, k, id) ==
    IF id = rs[k].b THEN [rs EXCEPT ![k].b = id + 1] ELSE SplitAt(rs, k, id)

\* The cursor: the first range from it on that contains id.
IsCursor(k, id) ==
    /\ k \in it..Len(ranges)
    /\ Contains(ranges[k], id)
    /\ \A j \in it..(k - 1) : ~Contains(ranges[j], id)

(* One iteration of the loop: the callback succeeds.  The branch that       *)
(* returns "invalid event ID" when no range holds the row has no action:   *)
(* CursorFound says it is never taken.                                     *)
ConsumeEvent ==
    /\ pc = "reading"
    /\ \E id \in batch, k \in 1..Len(ranges) :
        /\ IsLeast(id, batch) /\ IsCursor(k, id)
        /\ ranges' = Consume(ranges, k, id)
        /\ it' = k
        /\ batch' = batch \ {id}
        /\ delivered' = delivered \cup {id}
    /\ UNCHANGED <<dbVars, pc>>

(* The callback fails: the call returns at once, ranges are not compacted. *)
CallbackError ==
    /\ pc = "reading" /\ batch # {}
    /\ \E id \in batch, k \in 1..Len(ranges) :
        IsLeast(id, batch) /\ IsCursor(k, id)
    /\ pc' = "idle" /\ batch' = {} /\ it' = 1
    /\ UNCHANGED <<dbVars, ranges, delivered>>

(* The rows end, because all were read or because reading them failed. *)
EndOfRows ==
    /\ pc = "reading"
    /\ pc' = "compacting" /\ batch' = {} /\ it' = 1
    /\ UNCHANGED <<dbVars, ranges, delivered>>

DropRange(rs, k) ==
    [j \in 1..(Len(rs) - 1) |-> IF j < k THEN rs[j] ELSE rs[j + 1]]

(* removeEmptyRanges, one iteration of its loop ... *)
CompactStep ==
    /\ pc = "compacting" /\ it <= Len(ranges)
    /\ \/ /\ ranges[it].b # ranges[it].e
          /\ it' = it + 1
          /\ UNCHANGED ranges
       \/ /\ ranges[it].b = ranges[it].e
          /\ ranges' = DropRange(ranges, it)
          /\ UNCHANGED it
    /\ UNCHANGED <<dbVars, pc, batch, delivered>>

\* Mutant: the newest range only.
NewestRange(rs) == <<rs[Len(rs)]>>

\* The newest GapWindow ranges.
NewestRanges(rs) ==
    [j \in 1..GapWindow |-> rs[j + (Len(rs) - GapWindow)]]

(* ... and its end: only the newest GapWindow ranges are kept. *)
SkipGaps ==
    /\ pc = "compacting" /\ it > Len(ranges)
    /\ pc' = "idle" /\ it' = 1
    /\ ranges' = IF Len(ranges) > GapWindow THEN NewestRanges(ranges) ELSE ranges
    /\ UNCHANGED <<dbVars, batch, delivered>>

Next ==
    \/ CreateEvent
    \/ \E id \in open : CommitEvent(id) \/ RollbackEvent(id)
    \/ LoadEvents \/ ConsumeEvent \/ CallbackError
    \/ EndOfRows \/ CompactStep \/ SkipGaps

Spec == Init /\ [][Next]_vars

(* The store loop calls ConsumeEvents on every tick (core/stores.go), and   *)
(* a failing callback or database does not fail for ever.                  *)
FairSpec ==
    /\ Spec
    /\ WF_vars(LoadEvents) /\ SF_vars(ConsumeEvent)
    /\ WF_vars(EndOfRows /\ batch = {}) /\ WF_vars(CompactStep) /\ WF_vars(SkipGaps)

--------------------------------------------------------------------------------
(* The state of the consumer has its type: the cursor is a position and the *)
(* ranges are records of IDs, through every split and compaction.          *)
TypeOK ==
    /\ next \in 1..(MaxEvent + 1)
    /\ open \in SUBSET EventIDs
    /\ committed \in SUBSET EventIDs
    /\ ranges \in Seq(EventRange)
    /\ pc \in {"idle", "reading", "compacting"}
    /\ batch \in SUBSET EventIDs
    /\ it \in Nat \ {0}
    /\ delivered \in SUBSET EventIDs

Sorted(rs) ==
    /\ Len(rs) >= 1
    /\ rs[Len(rs)].e = 0
    /\ \A k \in 1..Len(rs) : k < Len(rs) => rs[k].b <= rs[k].e
    /\ \A j, k \in 1..Len(rs) : j < k => rs[j].e # 0 /\ rs[j].e < rs[k].b

(* The ranges are sorted, disjoint and not adjacent, and only the last one *)
(* has no upper limit: what LoadEvents and the cursor of ConsumeEvents rely *)
(* on after any number of splits, failures and compactions.                *)
RangesSorted == Sorted(ranges)

(* No event that was handed over is in a range: ConsumeEvents never asks   *)
(* for it again, whatever failed, was split or was compacted since.        *)
NothingSeenIsAskedAgain == \A id \in delivered : ~InSomeRange(ranges, id)

(* Every row of a call in progress is in a range at or after the cursor:   *)
(* the call never ends with "invalid event ID", although the ranges it was *)
(* asked with have been split under it.                                    *)
CursorFound ==
    \A id \in batch : \E k \in it..Len(ranges) : Contains(ranges[k], id)

\* The events the consumer will never look at: neither seen nor in a range.
Skipped == {id \in EventIDs : id \notin delivered /\ ~InSomeRange(ranges, id)}

(* An event is given up on only after at least GapWindow later events have *)
(* been delivered ("we should skip this gaps after some other events").    *)
SkipAfterWindow ==
    [][\A id \in Skipped' \ Skipped :
          Cardinality({d \in delivered : d > id}) >= GapWindow]_vars

Feed == INSTANCE EventFeed WITH skipped <- Skipped

(* The consumer implements the abstract feed: every step hands over an     *)
(* event that is committed, not handed over before and not given up, gives *)
(* up on undelivered events, or changes nothing the feed speaks about.     *)
ImplementsFeed == Feed!FeedSpec

(* A committed event is delivered in the end, or given up on; in           *)
(* particular one that commits long after later events have been read.     *)
EveryEventSettles ==
    \A id \in EventIDs : id \in committed ~> id \in delivered \cup Skipped
================================================================================
