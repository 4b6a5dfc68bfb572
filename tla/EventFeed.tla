------------------------------- MODULE EventFeed -------------------------------
(***************************************************************************)
(* What an event consumer promises to the store that owns it: every        *)
(* committed event is handed over at most once and never before it is      *)
(* committed, and an event that is given up on is given up on for good.    *)
(* EventConsumer implements this specification with a list of ranges.      *)
(***************************************************************************)
EXTENDS Naturals

CONSTANT MaxEvent              \* bound on the event sequence

EventIDs == 1..MaxEvent

VARIABLES
    committed,                 \* events visible to readers
    delivered,                 \* events handed to the callback
    skipped                    \* events the consumer will never look at

feedVars == <<committed, delivered, skipped>>

FeedInit ==
    /\ committed \subseteq EventIDs
    /\ delivered = {}
    /\ skipped \subseteq EventIDs

Publish ==
    \E id \in EventIDs \ committed :
        /\ committed' = committed \cup {id}
        /\ UNCHANGED <<delivered, skipped>>

HandOver ==
    \E id \in committed \ (delivered \cup skipped) :
        /\ delivered' = delivered \cup {id}
        /\ UNCHANGED <<committed, skipped>>

GiveUp ==
    \E S \in SUBSET (EventIDs \ delivered) :
        /\ skipped' = skipped \cup S
        /\ UNCHANGED <<committed, delivered>>

FeedNext == Publish \/ HandOver \/ GiveUp

FeedSpec == FeedInit /\ [][FeedNext]_feedVars
================================================================================
