------------------------------ MODULE SecReads ------------------------------
(***************************************************************************)
(* SEC-01: searches of the audit events and of the alerts, page by page,   *)
(* newest first, while rows are inserted.  Each page is a request of its   *)
(* own: IAM-02 is asked whether the caller may search and whether it may   *)
(* see sensitive events, then one transaction reads the rows older than    *)
(* the cursor the caller holds and logs what it discloses.  A row is       *)
(* stamped when its transaction begins, and seen when it commits.          *)
(***************************************************************************)
EXTENDS Naturals, FiniteSets, Sequences

CONSTANTS
    Rows,           \* the rows there may be; a row's number is the order of its reference
    Sensitive,      \* rows whose event type is sensitive_read
    Limit,          \* rows of a page
    MaxTime, MaxRequests, MaxMoves, \* bounds
    Readers, None

VARIABLES
    ofAlerts,   \* the rows are alerts: not sensitive, and their status changes
    now,        \* the database's clock, in half milliseconds
    inserting,  \* rows whose insertion has not committed
    stamp,      \* ingested_at_utc or created_at_utc of a row
    visible,    \* committed rows
    matching,   \* rows that satisfy the filters of the searches
    permitted,  \* readers that IAM-02 allows to see sensitive events
    log,        \* sec1.sensitive_read_log: the reader and the request
    reader,     \* each search: its request under way, its cursor, and the pages received
    moves,      \* how often the status of an alert changed
    shown,      \* history: sensitive rows disclosed, by reader and request
    steady      \* history: rows that each reader's search had before it when it began, and has since

vars == <<ofAlerts, now, inserting, stamp, visible, matching, permitted, log, reader, moves, shown, steady>>

Newest == [stamp |-> MaxTime + 1, row |-> 0]
NoSearch == [at |-> "idle", tier |-> FALSE, cursor |-> Newest, pages |-> <<>>, next |-> Newest, page |-> {}, requests |-> 0]
At(r, point) == reader[r].at = point

-----------------------------------------------------------------------------
(* Rows come, and change *)

Tick ==
    /\ now < MaxTime /\ now' = now + 1
    /\ UNCHANGED <<ofAlerts, inserting, stamp, visible, matching, permitted, log, reader, moves, shown, steady>>

\* now() is the time the transaction began.
Insert(e) ==
    /\ e \notin inserting \cup visible
    /\ inserting' = inserting \cup {e} /\ stamp' = [stamp EXCEPT ![e] = now]
    /\ UNCHANGED <<ofAlerts, now, visible, matching, permitted, log, reader, moves, shown, steady>>

Commit(e) ==
    /\ e \in inserting
    /\ inserting' = inserting \ {e} /\ visible' = visible \cup {e}
    /\ UNCHANGED <<ofAlerts, now, stamp, matching, permitted, log, reader, moves, shown, steady>>

\* An alert is assigned, triaged or closed: it enters or leaves the status searched for.
Move(e) ==
    /\ ofAlerts /\ e \in visible /\ moves < MaxMoves /\ moves' = moves + 1
    /\ matching' = IF e \in matching THEN matching \ {e} ELSE matching \cup {e}
    /\ steady' = [r \in Readers |-> steady[r] \ {e}]
    /\ UNCHANGED <<ofAlerts, now, inserting, stamp, visible, permitted, log, reader, shown>>

-----------------------------------------------------------------------------
(* A request for a page *)

Refused(r) == reader' = [reader EXCEPT ![r].at = "idle", ![r].tier = FALSE, ![r].requests = @ + 1]

\* IAM-02 allows the search, or denies it, or cannot be asked, which is a denial.
Request(r) ==
    /\ At(r, "idle") /\ reader[r].requests < MaxRequests
    /\ reader' = [reader EXCEPT ![r].at = "allowed", ![r].requests = @ + 1] \/ Refused(r)
    /\ steady' = IF reader[r].pages = <<>> THEN [steady EXCEPT ![r] = visible \cap matching] ELSE steady
    /\ UNCHANGED <<ofAlerts, now, inserting, stamp, visible, matching, permitted, log, moves, shown>>

\* The tier is no gate: whoever does not have it, or IAM-02 cannot be asked of, sees the rows redacted.
AskTier(r) ==
    /\ At(r, "allowed") /\ ~ofAlerts
    /\ \E tier \in {FALSE, (r \in permitted)} : reader' = [reader EXCEPT ![r].at = "ready", ![r].tier = tier]
    /\ UNCHANGED <<ofAlerts, now, inserting, stamp, visible, matching, permitted, log, moves, shown, steady>>

Before_Milliseconds(e, cursor) == stamp[e] \div 2 < cursor.stamp \div 2 \/ (stamp[e] = cursor.stamp /\ e < cursor.row)
Before(e, cursor) == stamp[e] < cursor.stamp \/ (stamp[e] = cursor.stamp /\ e < cursor.row)

Found(cursor) == {e \in visible \cap matching : Before(e, cursor)}
Newer(e, d) == stamp[d] < stamp[e] \/ (stamp[d] = stamp[e] /\ d < e)
\* The first Limit of them, newest first.
PageOf(S) == {e \in S : Cardinality({d \in S : Newer(d, e)}) < Limit}
Oldest(S) == CHOOSE e \in S : \A d \in S \ {e} : Newer(d, e)

\* There is a cursor to the next page only where one row more was found.
Page(r) ==
    LET found == Found(reader[r].cursor)
        page == PageOf(found)
    IN  reader' = [reader EXCEPT ![r].at = "sent", ![r].page = page,
            ![r].next = IF page = found THEN None ELSE [stamp |-> stamp[Oldest(page)], row |-> Oldest(page)]]

redactAuditEventRow(r) == IF reader[r].tier THEN PageOf(Found(reader[r].cursor)) \cap Sensitive ELSE {}

\* The log is written before the page is returned; when it cannot be, nothing is returned.
writeSensitiveReadLog_After(r) == UNCHANGED log
writeSensitiveReadLog(r) == log' = log \cup {<<r, reader[r].requests>>}

searchAuditEvents(r) ==
    LET disclosed == redactAuditEventRow(r) IN
    /\ At(r, "ready")
    /\ \/ /\ Page(r)
          /\ IF disclosed = {} THEN UNCHANGED log ELSE writeSensitiveReadLog(r)
          /\ shown' = shown \cup {<<r, reader[r].requests, e>> : e \in disclosed}
       \/ disclosed # {} /\ reader' = [reader EXCEPT ![r].at = "idle", ![r].tier = FALSE] /\ UNCHANGED <<log, shown>>
    /\ UNCHANGED <<ofAlerts, now, inserting, stamp, visible, matching, permitted, moves, steady>>

searchAlerts(r) ==
    /\ At(r, "allowed") /\ ofAlerts /\ Page(r)
    /\ UNCHANGED <<ofAlerts, now, inserting, stamp, visible, matching, permitted, log, moves, shown, steady>>

\* The caller takes the page and the cursor it brings, or never gets them and asks again.
Receive(r) ==
    /\ At(r, "sent")
    /\ reader' = [reader EXCEPT ![r] = [NoSearch EXCEPT
          !.at = IF reader[r].next = None THEN "end" ELSE "idle", !.requests = reader[r].requests,
          !.pages = Append(reader[r].pages, reader[r].page), !.cursor = reader[r].next]]
    /\ UNCHANGED <<ofAlerts, now, inserting, stamp, visible, matching, permitted, log, moves, shown, steady>>

Lost(r) ==
    /\ At(r, "sent")
    /\ reader' = [reader EXCEPT ![r] = [NoSearch EXCEPT
          !.requests = reader[r].requests, !.pages = reader[r].pages, !.cursor = reader[r].cursor]]
    /\ UNCHANGED <<ofAlerts, now, inserting, stamp, visible, matching, permitted, log, moves, shown, steady>>

\* One row by its reference: whether there is one is told to those who may read it only.
ReadOne(r, e) ==
    /\ At(r, "ready") /\ e \in visible /\ reader[r].pages = <<>>
    /\ LET discloses == reader[r].tier /\ e \in Sensitive IN
       \/ /\ IF discloses THEN writeSensitiveReadLog(r) ELSE UNCHANGED log
          /\ shown' = IF discloses THEN shown \cup {<<r, reader[r].requests, e>>} ELSE shown
       \/ discloses /\ UNCHANGED <<log, shown>>
    /\ reader' = [reader EXCEPT ![r].at = "idle", ![r].tier = FALSE]
    /\ UNCHANGED <<ofAlerts, now, inserting, stamp, visible, matching, permitted, moves, steady>>

-----------------------------------------------------------------------------
Revoke(r) ==
    /\ r \in permitted /\ permitted' = permitted \ {r}
    /\ UNCHANGED <<ofAlerts, now, inserting, stamp, visible, matching, log, reader, moves, shown, steady>>

Init ==
    /\ ofAlerts \in BOOLEAN /\ now = 0 /\ moves = 0
    /\ inserting = {} /\ visible = {} /\ stamp = [e \in Rows |-> 0] /\ matching = Rows
    /\ permitted = Readers
    /\ log = {} /\ shown = {}
    /\ reader = [r \in Readers |-> NoSearch] /\ steady = [r \in Readers |-> {}]

Next ==
    \/ Tick \/ \E e \in Rows : Insert(e) \/ Commit(e) \/ Move(e)
    \/ \E r \in Readers :
          \/ Request(r) \/ AskTier(r) \/ searchAuditEvents(r) \/ searchAlerts(r) \/ Receive(r) \/ Lost(r)
          \/ Revoke(r) \/ \E e \in Rows : ReadOne(r, e)

Spec == Init /\ [][Next]_vars

-----------------------------------------------------------------------------
Received(r) == UNION {reader[r].pages[n] : n \in 1..Len(reader[r].pages)}

TypeOK ==
    /\ inserting \subseteq Rows \ visible /\ visible \subseteq Rows /\ now \in 0..MaxTime
    /\ \A r \in Readers : reader[r].requests \in 0..MaxRequests /\ reader[r].page \subseteq visible
    /\ \A r \in Readers : steady[r] \subseteq visible

\* Whatever is inserted while a caller goes through the pages, those that it has been through
\* hold each row that was there from its first request on, and no row twice.
WalksAll == \A r \in Readers :
    /\ \A m, n \in 1..Len(reader[r].pages) : m # n => reader[r].pages[m] \cap reader[r].pages[n] = {}
    /\ At(r, "end") => steady[r] \subseteq Received(r)

\* A sensitive row is disclosed by no request that is not in the log of sensitive reads.
DisclosedIsLogged == \A show \in shown : <<show[1], show[2]>> \in log
=============================================================================
