----------------------------- MODULE WltEvidence -----------------------------
(***************************************************************************)
(* WLT-01: the screening of the source of an inbound transfer, and the     *)
(* export of a client's evidence.  Both commit their idempotency key       *)
(* before a call to another service and finish in a second transaction:    *)
(* requests for one transfer race for its only row, and an export reads    *)
(* its tables one by one while others write them.                          *)
(***************************************************************************)
EXTENDS Naturals

CONSTANTS
    Transfers, Sources, \* transaction references, addresses they may come from
    Risks,              \* what the provider may answer of a source
    Keys, Workers,
    Approvals,          \* IAM-02 approvals of an export, each with one decision token
    MaxRecords,         \* evidenceExportMaxRecords
    MaxWrites,          \* bound: rows each table grows to
    None

VARIABLES
    key, exporting,     \* foundation.idempotency_record of the two routes
    row,        \* wlt1.inbound_source_screening_result, by transfer
    written,    \* rows of the client's two tables; every writer adds to both in one transaction
    token,      \* approvals whose token verification has spent
    exported,   \* wlt1.evidence_export, by approval
    logged, sent,       \* approvals whose export was recorded as disclosed, and disclosed
    work,
    answered    \* history: what each key was told

vars == <<key, exporting, row, written, token, exported, logged, sent, work, answered>>

NoKey == [status |-> None, transfer |-> None, source |-> None, result |-> None]
NoRow == [source |-> None, risk |-> None]
NoExport == [first |-> 0, second |-> 0]
Idle == [at |-> "idle", key |-> None, risk |-> None, approval |-> None, snapshot |-> 0, first |-> 0]

Now(w) == work[w].at
Rest(w) == work' = [work EXCEPT ![w] = Idle]
Told(k, source, risk) == answered' = [answered EXCEPT ![k] = @ \cup {<<source, risk>>}]

-----------------------------------------------------------------------------
(* Inbound sources *)

Completed(k, t) == key' = [key EXCEPT ![k] = [@ EXCEPT !.status = "completed", !.result = t]]

\* The first transaction: the key, and the row another request has made of the transfer.
Replay(k, t, s) ==
    /\ key[k].status = "completed" /\ key[k].transfer = t /\ key[k].source = s
    /\ Told(k, row[key[k].result].source, row[key[k].result].risk)
    /\ UNCHANGED <<key, work>>

SameSource_Any(t, s) == TRUE
SameSource(t, s) == row[t].source = s

Known(k, t, s) ==
    /\ key[k] = NoKey /\ row[t] # NoRow /\ SameSource(t, s)
    /\ key' = [key EXCEPT ![k] = [status |-> "completed", transfer |-> t, source |-> s, result |-> t]]
    /\ Told(k, row[t].source, row[t].risk)
    /\ UNCHANGED work

Unknown_Completed(w, k, t, s) ==
    /\ key[k] = NoKey /\ row[t] = NoRow
    /\ key' = [key EXCEPT ![k] = [status |-> "completed", transfer |-> t, source |-> s, result |-> t]]
    /\ UNCHANGED <<work, answered>>
Unknown(w, k, t, s) ==
    /\ key[k] = NoKey /\ row[t] = NoRow
    /\ key' = [key EXCEPT ![k] = [status |-> "processing", transfer |-> t, source |-> s, result |-> None]]
    /\ work' = [work EXCEPT ![w] = [Idle EXCEPT !.at = "calling", !.key = k]]
    /\ UNCHANGED answered

ScreenSource(w, k, t, s) ==
    /\ Now(w) = "idle"
    /\ Replay(k, t, s) \/ Known(k, t, s) \/ Unknown(w, k, t, s)
    /\ UNCHANGED <<exporting, row, written, token, exported, logged, sent>>

Provider(w, r) ==
    /\ Now(w) = "calling"
    /\ work' = [work EXCEPT ![w].at = "screened", ![w].risk = r]
    /\ UNCHANGED <<key, exporting, row, written, token, exported, answered, logged, sent>>

\* The insert, or the row of the request that won: one with another source is a conflict, one
\* with another risk an error.
Record(w, k, t) ==
    /\ row[t] = NoRow
    /\ row' = [row EXCEPT ![t] = [source |-> key[k].source, risk |-> work[w].risk]]
    /\ Completed(k, t) /\ Told(k, key[k].source, work[w].risk)

Adopt(w, k, t) ==
    /\ row[t] # NoRow /\ UNCHANGED row
    /\ IF SameSource(t, key[k].source) /\ row[t].risk = work[w].risk
       THEN Completed(k, t) /\ Told(k, row[t].source, row[t].risk)
       ELSE UNCHANGED <<key, answered>>

Finish(w) ==
    LET k == work[w].key IN
    /\ Now(w) = "screened" /\ Rest(w)
    /\ Record(w, k, key[k].transfer) \/ Adopt(w, k, key[k].transfer)
    /\ UNCHANGED <<exporting, written, token, exported, logged, sent>>

-----------------------------------------------------------------------------
(* Evidence exports *)

Export(w, k, a) ==
    /\ Now(w) = "idle" /\ exporting[k] = None
    /\ exporting' = [exporting EXCEPT ![k] = "processing"]
    /\ work' = [work EXCEPT ![w] = [Idle EXCEPT !.at = "verifying", !.key = k, !.approval = a]]
    /\ UNCHANGED <<key, row, written, token, exported, answered, logged, sent>>

\* Verifying the token spends it, whether or not the answer arrives.
SpendToken(w) ==
    /\ Now(w) = "verifying"
    /\ \/ /\ work[w].approval \notin token /\ token' = token \cup {work[w].approval}
          /\ work' = [work EXCEPT ![w].at = "collecting"] \/ Rest(w)
       \/ work[w].approval \in token /\ Rest(w) /\ UNCHANGED token
    /\ UNCHANGED <<key, exporting, row, written, exported, answered, logged, sent>>

\* What a statement of the second transaction sees: REPEATABLE READ.
View_Committed(w) == written
View(w) == work[w].snapshot
\* The tables that are collected after the first, and what is stored of all of them together.
LaterRows(w) == View(w)
Collected(w) == [first |-> work[w].first, second |-> LaterRows(w)]
\* LIMIT remaining + 1: a collector finds too many rows, or takes all there are.
Fits_Each(count, read) == count <= MaxRecords
Fits(count, read) == count <= MaxRecords - read

OpenSnapshot(w) ==
    /\ Now(w) = "collecting"
    /\ work' = [work EXCEPT ![w].at = "first", ![w].snapshot = written]
    /\ UNCHANGED <<key, exporting, row, written, token, exported, answered, logged, sent>>

CollectFirst(w) ==
    /\ Now(w) = "first"
    /\ IF Fits(View(w), 0) THEN work' = [work EXCEPT ![w].at = "second", ![w].first = View(w)] ELSE Rest(w)
    /\ UNCHANGED <<key, exporting, row, written, token, exported, answered, logged, sent>>

CollectSecond(w) ==
    LET a == work[w].approval IN
    /\ Now(w) = "second" /\ Rest(w)
    /\ IF Fits(LaterRows(w), work[w].first) /\ exported[a] = NoExport
       THEN /\ exported' = [exported EXCEPT ![a] = Collected(w)]
            /\ exporting' = [exporting EXCEPT ![work[w].key] = "completed"]
       ELSE UNCHANGED <<exporting, exported>>
    /\ UNCHANGED <<key, row, written, token, answered, logged, sent>>

\* The record of the disclosure commits before the bytes are sent.
LogFirst_After(a) == sent' = sent \cup {a} /\ UNCHANGED logged
LogFirst(a) == logged' = logged \cup {a} /\ UNCHANGED sent
Download(w, a) ==
    /\ Now(w) = "idle" /\ exported[a] # NoExport
    /\ LogFirst(a)
    /\ work' = [work EXCEPT ![w] = [Idle EXCEPT !.at = "sending", !.approval = a]]
    /\ UNCHANGED <<key, exporting, row, written, token, exported, answered>>

Send(w) ==
    /\ Now(w) = "sending" /\ Rest(w)
    /\ sent' = sent \cup {work[w].approval}
    /\ UNCHANGED <<key, exporting, row, written, token, exported, answered, logged>>

-----------------------------------------------------------------------------
\* A registration, a screening: rows of both tables in one transaction.
Write ==
    /\ written < MaxWrites /\ written' = written + 1
    /\ UNCHANGED <<key, exporting, row, token, exported, work, answered, logged, sent>>

Dies(w) ==
    /\ Now(w) # "idle" /\ Rest(w)
    /\ UNCHANGED <<key, exporting, row, written, token, exported, answered, logged, sent>>

Init ==
    /\ key = [k \in Keys |-> NoKey] /\ exporting = [k \in Keys |-> None]
    /\ row = [t \in Transfers |-> NoRow] /\ written = 0
    /\ token = {} /\ exported = [a \in Approvals |-> NoExport]
    /\ work = [w \in Workers |-> Idle]
    /\ answered = [k \in Keys |-> {}] /\ logged = {} /\ sent = {}

Next ==
    \/ \E w \in Workers :
          \/ \E k \in Keys, t \in Transfers, s \in Sources : ScreenSource(w, k, t, s)
          \/ \E r \in Risks : Provider(w, r)
          \/ Finish(w) \/ SpendToken(w) \/ OpenSnapshot(w) \/ CollectFirst(w) \/ CollectSecond(w)
          \/ \E a \in Approvals : Download(w, a) \/ \E k \in Keys : Export(w, k, a)
          \/ Send(w) \/ Dies(w)
    \/ Write

Spec == Init /\ [][Next]_vars

-----------------------------------------------------------------------------
TypeOK ==
    /\ \A k \in Keys : key[k].status \in {None, "processing", "completed"}
    /\ \A k \in Keys : key[k].status = "completed" => row[key[k].result] # NoRow
    /\ \A w \in Workers : Now(w) \in {"idle", "calling", "screened", "verifying", "collecting", "first", "second", "sending"}

\* Requests for one transfer that overlap, retry or change their key are told one thing, about
\* the source they asked for; those that ask for another source are told nothing.
AnswersAgree ==
    \A k \in Keys : \A told \in answered[k] :
        told = <<key[k].source, row[key[k].transfer].risk>> /\ row[key[k].transfer].source = key[k].source

\* An export is the client's evidence as it stood at one moment, all of it or none.
ExportWhole == \A a \in Approvals : exported[a].first = exported[a].second

\* The limit is on the rows of all tables together.
ExportBounded == \A a \in Approvals : exported[a].first + exported[a].second <= MaxRecords

\* Nothing leaves without a record of its disclosure, whenever the process dies.
DisclosureLogged == sent \subseteq logged
=============================================================================
