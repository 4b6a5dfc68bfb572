-------------------------------- MODULE Paging ---------------------------------
(***************************************************************************)
(* Lists that clients read page by page, from the newest row to the oldest *)
(* one: accounts, posts, solutions and the solutions of a contest          *)
(* (internal/api/accounts.go, posts.go, solutions.go, contests.go).  The   *)
(* next page begins at the row the last one stopped before, while rows are *)
(* created and deleted.                                                    *)
(*                                                                         *)
(* A row is [id, kind, parts, visible]; kind stands for all that a filter  *)
(* looks at, and "gone" for an account with no row of its kind.            *)
(***************************************************************************)
EXTENDS Naturals, Sequences, SequencesExt, FiniteSets, FiniteSetsExt

CONSTANTS RowKinds, DefaultLimit, MaxLimit, Limits, MaxRow

ASSUME PagingAssumption == {DefaultLimit, MaxLimit} \subseteq Nat \ {0} /\ Limits \subseteq Nat /\ MaxRow \in Nat \ {0}

VARIABLES
    listRow, lastRow,       \* the table and its last ID
    list,                   \* which list is read
    page                    \* the reader: [begin, kind, limit, seen, stable, done]
listVars == <<listRow, lastRow, list, page>>

AnyKind == "any"
PagingInit ==
    /\ list \in {"accounts", "posts", "solutions", "contest solutions"} /\ lastRow \in {0, MaxRow - 1}
    /\ \E kind \in [1..lastRow -> RowKinds], visible \in [1..lastRow -> BOOLEAN] :
        listRow = {[id |-> i, kind |-> kind[i], visible |-> visible[i]] : i \in 1..lastRow}
    /\ \E kind \in RowKinds \cup {AnyKind}, limit \in Limits :
        page = [begin |-> 0, kind |-> kind, limit |-> limit, seen |-> <<>>, stable |-> listRow, done |-> FALSE]

\* the four filters' Parse: a limit that is not given is the default, one that is too
\* large the largest
PageLimitAsGiven(f) == IF f.limit > MaxLimit THEN MaxLimit ELSE f.limit
PageLimit(f) == IF f.limit = 0 THEN DefaultLimit ELSE IF f.limit > MaxLimit THEN MaxLimit ELSE f.limit
InPage(r, f) == f.begin = 0 \/ r.id <= f.begin
AccountFilter(r, f) == InPage(r, f) /\ r.kind /= "gone" /\ f.kind \in {AnyKind, r.kind}
SolutionsFilter(r, f) == InPage(r, f) /\ f.kind \in {AnyKind, r.kind}
ContestSolutionsFilter(r, f) == InPage(r, f) /\ f.kind \in {AnyKind, r.kind}
PostsFilter(r, f) == InPage(r, f)
Matches(r, f) ==
    \/ list = "accounts" /\ AccountFilter(r, f)
    \/ list = "posts" /\ PostsFilter(r, f)
    \/ list = "solutions" /\ SolutionsFilter(r, f)
    \/ list = "contest solutions" /\ ContestSolutionsFilter(r, f)

\* the rows from begin down: ReverseAll gives one more than a page may look at, and
\* the indices all of them
Newer(r, rows) == {q \in rows : q.id > r.id}
ReverseFind(begin) == {r \in listRow : begin = 0 \/ r.id <= begin}
ReverseUpTo(begin, n) == {r \in ReverseFind(begin) : Cardinality(Newer(r, ReverseFind(begin))) < n}
ReverseAllAtLimit(begin) == ReverseUpTo(begin, MaxLimit)
ReverseAll(begin) == ReverseUpTo(begin, MaxLimit + 1)

\* the loop stops before the first row for which the page is full or too many rows
\* were looked at
Shown(rows, f) == {r \in rows : Matches(r, f) /\ r.visible}
StopsAt(rows, f) ==
    {r \in rows : \/ Cardinality(Newer(r, rows)) >= MaxLimit
                  \/ Cardinality(Shown(Newer(r, rows), f)) >= PageLimit(f)}
NextBeginID(rows, f) == Max({0} \cup {r.id : r \in StopsAt(rows, f)})
\* some IDs, from the newest to the oldest
NewestFirst(ids) ==
    {s \in UNION {[1..n -> ids] : n \in 0..Cardinality(ids)} :
        ids = {s[i] : i \in DOMAIN s} /\ \A i, j \in DOMAIN s : i < j => s[i] > s[j]}
ReadPage(rows) ==
    \E next \in {NextBeginID(rows, page)} :
        \E ids \in NewestFirst({r.id : r \in {q \in Shown(rows, page) : q.id > next}}) :
            /\ ~page.done /\ UNCHANGED <<listRow, lastRow, list>>
            /\ page' = [begin |-> next, kind |-> page.kind, limit |-> page.limit, seen |-> page.seen \o ids,
                        stable |-> page.stable, done |-> next = 0]
ObserveAccounts == list = "accounts" /\ \E rows \in {ReverseAll(page.begin)} : ReadPage(rows)
ObservePosts == list = "posts" /\ \E rows \in {ReverseAll(page.begin)} : ReadPage(rows)
ObserveSolutions == list = "solutions" /\ \E rows \in {ReverseAll(page.begin)} : ReadPage(rows)
ObserveContestSolutions == list = "contest solutions" /\ \E rows \in {ReverseFind(page.begin)} : ReadPage(rows)
Observe == ObserveAccounts \/ ObservePosts \/ ObserveSolutions \/ ObserveContestSolutions

\* other requests
CreateRow(kind, visible) ==
    /\ lastRow < MaxRow /\ lastRow' = lastRow + 1 /\ UNCHANGED <<list, page>>
    /\ listRow' = listRow \cup {[id |-> lastRow + 1, kind |-> kind, visible |-> visible]}
DeleteRow(r) ==
    /\ listRow' = listRow \ {r} /\ page' = [page EXCEPT !.stable = @ \ {r}] /\ UNCHANGED <<lastRow, list>>

PagingNext ==
    \/ Observe
    \/ (\E kind \in RowKinds, visible \in BOOLEAN : CreateRow(kind, visible)) \/ (\E r \in listRow : DeleteRow(r))
PagingSpec == PagingInit /\ [][PagingNext]_listVars

--------------------------------------------------------------------------------
(* Properties *)

\* A client that follows next_begin_id to the end has been given every row that it
\* may see, matches, and was there all the time, and no row twice, from the newest
\* to the oldest, whatever was created or deleted in between (observeAccounts,
\* observePosts, observeSolutions, observeContestSolutions).
PagesComplete ==
    /\ \A i, j \in DOMAIN page.seen : i < j => page.seen[i] > page.seen[j]
    /\ page.done => {r.id : r \in {q \in page.stable : q.visible /\ Matches(q, [page EXCEPT !.begin = 0])}} \subseteq ToSet(page.seen)

\* Following next_begin_id comes to an end: each page gets further, also one that
\* has no row to show.
PagingEnds == page.begin /= 0 ~> page.done

================================================================================
