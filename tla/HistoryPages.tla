---------------------------- MODULE HistoryPages ----------------------------
(***************************************************************************)
(* Lists read page by page: GET /v1/sessions and /v1/sessions/{id}/solves  *)
(* (src/internal/httpapi/history_handler.go), and GET                      *)
(* /v1/admin/stats/errors (ListErrors in src/internal/admin/service.go).   *)
(* A page is one statement that continues below a key (time, id); between  *)
(* two pages rows are written, moved and deleted.                          *)
(*                                                                         *)
(* A request that is refused or fails changes nothing: the client repeats  *)
(* it with the same cursor.                                                *)
(***************************************************************************)
EXTENDS Integers, FiniteSets, FiniteSetsExt

CONSTANTS
    Endpoints,      \* of "sessions", "solves" and "errors", the ones listed
    MaxId,          \* ids are 1..MaxId
    MaxStamp,       \* started_at, solved_at and created_at are 0..MaxStamp
    DefaultLimit,   \* defaultHistoryLimit
    MaxLimit        \* maxHistoryLimit, and 100 for errors

ASSUME PagesAssumption ==
    /\ Endpoints \subseteq {"sessions", "solves", "errors"}
    /\ MaxId \in Nat /\ MaxStamp \in Nat
    /\ MaxLimit \in Nat \ {0} /\ DefaultLimit \in 1..MaxLimit

VARIABLES
    endpoint,       \* the list that the client reads
    rows,           \* the time of each row that the list's WHERE selects
    seq,            \* the last value of the request_errors id sequence
    now,            \* the clock
    listing,        \* the client's progress: phase, cursor, size of the last page
                    \* and, auxiliary, whether the number of pages is odd
    times,          \* auxiliary: how often the listing returned each row, up to 2
    touched         \* auxiliary: rows written or deleted since it began

vars == <<endpoint, rows, seq, now, listing, times, touched>>

Ids == 1..MaxId
Stamps == 0..MaxStamp
None == [id \in Ids |-> 0]

\* The greatest cursor id, uuid.Max or math.MaxInt64, and the year 9999.
TopId == MaxId + 1
FarFuture == MaxStamp + 1

Init ==
    /\ endpoint \in Endpoints
    /\ rows = <<>>
    /\ seq = 0
    /\ now = 0
    /\ listing = [phase |-> "idle", at |-> 0, id |-> 0, size |-> 0, odd |-> FALSE]
    /\ times = None
    /\ touched = {}

----------------------------------------------------------------------------
(* One page. *)

MutNotAfter(id) == \/ rows[id] < listing.at
                   \/ rows[id] = listing.at /\ id <= listing.id

\* The WHERE clause: rows strictly below the cursor.
BelowCursor(id) == \/ rows[id] < listing.at
                   \/ rows[id] = listing.at /\ id < listing.id

Above(id, other) == \/ rows[id] > rows[other]
                    \/ rows[id] = rows[other] /\ id > other

\* ORDER BY time DESC, id DESC LIMIT n.
FirstRows(n) ==
    LET matching == {id \in DOMAIN rows : BelowCursor(id)}
    IN  {id \in matching : Cardinality({o \in matching : Above(o, id)}) < n}

Last(page) == CHOOSE id \in page : \A o \in page : o # id => Above(o, id)

MutParseLimit(raw) == IF raw <= 0 THEN DefaultLimit ELSE raw

\* parseLimit of the history; the errors accept 1..100 only.
ParseLimit(raw) == CASE raw <= 0 -> DefaultLimit
                     [] raw > MaxLimit -> MaxLimit
                     [] OTHER -> raw

Returns(page, next, hasMore) ==
    /\ times' = [id \in Ids |-> IF id \in page THEN Min({2, times[id] + 1}) ELSE times[id]]
    /\ listing' = IF hasMore
                  THEN [phase |-> "paging", at |-> rows[next], id |-> next, size |-> Cardinality(page),
                        odd |-> ~listing.odd]
                  ELSE [listing EXCEPT !.phase = "done", !.size = Cardinality(page), !.odd = FALSE]
    /\ UNCHANGED <<endpoint, rows, seq, now, touched>>

MutCursorOfExtraRow(limit) ==
    LET fetched == FirstRows(limit + 1)
        hasMore == Cardinality(fetched) > limit
    IN  Returns(IF hasMore THEN fetched \ {Last(fetched)} ELSE fetched, Last(fetched), hasMore)

\* listSessions and listSessionSolves read one row more than they return.
HistoryPage(limit) ==
    LET fetched == FirstRows(limit + 1)
        hasMore == Cardinality(fetched) > limit
        page == IF hasMore THEN fetched \ {Last(fetched)} ELSE fetched
    IN  Returns(page, Last(page), hasMore)

\* ListErrors takes a full page for a sign that there is more.
ErrorPage(limit) ==
    LET page == FirstRows(limit)
    IN  Returns(page, Last(page), Cardinality(page) = limit)

----------------------------------------------------------------------------
(* The client. *)

\* The first page has no cursor: the far future, or the server's clock.
StartListing ==
    /\ listing.phase # "paging"
    /\ listing' = [phase |-> "paging", id |-> TopId, size |-> 0, odd |-> FALSE,
                   at |-> IF endpoint = "errors" THEN now ELSE FarFuture]
    /\ times' = None
    /\ touched' = {}
    /\ UNCHANGED <<endpoint, rows, seq, now>>

GetPage ==
    /\ listing.phase = "paging"
    /\ \/ /\ endpoint # "errors"
          /\ \E raw \in 0..(MaxLimit + 1) : HistoryPage(ParseLimit(raw))
       \/ /\ endpoint = "errors"
          /\ \E limit \in 1..MaxLimit : ErrorPage(limit)

----------------------------------------------------------------------------
(* What changes the rows. *)

Becomes(new, changed) == /\ rows' = new
                         /\ touched' = touched \cup changed
                         /\ UNCHANGED <<endpoint, listing, times>>

\* A sync writes a session, or a solve of the session, with the time it likes.
UpsertRow(id, at) ==
    /\ endpoint # "errors"
    /\ Becomes([i \in DOMAIN rows \cup {id} |-> IF i = id THEN at ELSE rows[i]], {id})
    /\ UNCHANGED <<seq, now>>

\* A sync deletes it, or moves the solve to another session.
DeleteRow(id) ==
    /\ endpoint # "errors"
    /\ id \in DOMAIN rows
    /\ Becomes([i \in DOMAIN rows \ {id} |-> rows[i]], {id})
    /\ UNCHANGED <<seq, now>>

\* CopyRequestErrors: created_at is the start of a transaction that may have
\* taken long.
InsertError(at) ==
    /\ endpoint = "errors"
    /\ seq < MaxId
    /\ at <= now
    /\ seq' = seq + 1
    /\ Becomes([i \in DOMAIN rows \cup {seq'} |-> IF i = seq' THEN at ELSE rows[i]], {seq'})
    /\ UNCHANGED now

\* DeleteOldErrors.
DeleteOldErrors(cutoff) ==
    LET old == {id \in DOMAIN rows : rows[id] < cutoff}
    IN  /\ endpoint = "errors"
        /\ cutoff <= now
        /\ old # {}
        /\ Becomes([i \in DOMAIN rows \ old |-> rows[i]], old)
        /\ UNCHANGED <<seq, now>>

Tick ==
    /\ endpoint = "errors"
    /\ now < MaxStamp
    /\ now' = now + 1
    /\ UNCHANGED <<endpoint, rows, seq, listing, times, touched>>

RowsChange ==
    \/ \E id \in Ids, at \in Stamps : UpsertRow(id, at)
    \/ \E id \in Ids : DeleteRow(id)
    \/ \E at \in Stamps : InsertError(at) \/ DeleteOldErrors(at)

Next == StartListing \/ GetPage \/ RowsChange \/ Tick

Spec == Init /\ [][Next]_vars

\* A client that has begun a listing asks for the next page.
FairSpec == Spec /\ WF_vars(GetPage)

----------------------------------------------------------------------------
(* Properties. *)

(* A page holds at most MaxLimit rows, whatever limit the request names    *)
(* (parseLimit, history_handler.go:182-195; admin_handlers.go:72-80).      *)
TypeOK ==
    /\ endpoint \in Endpoints
    /\ DOMAIN rows \subseteq Ids /\ \A id \in DOMAIN rows : rows[id] \in Stamps
    /\ seq \in 0..MaxId /\ now \in Stamps
    /\ listing \in [phase : {"idle", "paging", "done"}, at : 0..FarFuture, id : 0..TopId,
                    size : 0..MaxLimit, odd : BOOLEAN]
    /\ times \in [Ids -> 0..2]
    /\ touched \subseteq Ids

(* A listing that came to its end returned every row that nobody touched   *)
(* meanwhile exactly once, though others were inserted, moved and deleted  *)
(* around the cursor and many share a timestamp (history.sql.go:22-28,     *)
(* 94-100; admin.sql.go:110-117).                                          *)
UntouchedListedOnce ==
    listing.phase = "done" => \A id \in DOMAIN rows \ touched : times[id] = 1

(* An error event, whose created_at never changes, is never listed twice,  *)
(* not even one inserted while the administrator pages (ListErrors,        *)
(* service.go:442-449).                                                    *)
ErrorsNotRepeated == endpoint = "errors" => \A id \in Ids : times[id] <= 1

(* The inductive invariant of a listing.  The cursor divides the rows that *)
(* nobody touched: those below it are to come, the others were returned    *)
(* once.  Of the errors also a row inserted meanwhile is below the cursor  *)
(* only if it was not returned, and no id is given twice, for the sequence *)
(* never goes back (history.sql.go:22-28, 94-100; admin.sql.go:110-117).   *)
CursorDivides ==
    /\ listing.phase = "paging" =>
        \A id \in DOMAIN rows \ touched : times[id] = IF BelowCursor(id) THEN 0 ELSE 1
    /\ listing.phase = "done" =>
        \A id \in DOMAIN rows \ touched : times[id] = 1
    /\ endpoint = "errors" =>
        /\ \A id \in Ids : id > seq => id \notin DOMAIN rows /\ times[id] = 0
        /\ \A id \in DOMAIN rows : rows[id] <= now
        /\ \A id \in Ids : times[id] <= 1
        /\ listing.phase = "paging" => \A id \in DOMAIN rows : times[id] = 1 => ~BelowCursor(id)

(* A client that follows next_cursor comes to the end of the list, however *)
(* the rows change meanwhile: no page leads back to itself                 *)
(* (history_handler.go:45-71, service.go:442-449).                         *)
ListingEnds == listing.phase = "paging" ~> listing.phase = "done"
=============================================================================
