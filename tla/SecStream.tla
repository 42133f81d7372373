------------------------------ MODULE SecStream ------------------------------
(***************************************************************************)
(* SEC-01: ingestion of audit events into hash-chained streams, seal       *)
(* batches and integrity verification.  The chain is extended under the    *)
(* lock of its stream's row; an event already ingested, under any stream,  *)
(* is answered from its row.  A hash is modelled by what it depends on:    *)
(* the contents from the first row of the chain to its own.  Rows may be   *)
(* altered by someone with access to the database.                         *)
(***************************************************************************)
EXTENDS Naturals, FiniteSets, Sequences

CONSTANTS
    Events, Contents, Streams, Workers,
    Forgery,    \* the content of an altered row
    MaxSeals, MaxRuns,  \* bounds
    None

VARIABLES
    stream,     \* sec1.audit_stream: latest_sequence_no and latest_hash
    rows,       \* sec1.audit_event
    locked,     \* streams whose row a transaction holds
    work,
    seals,      \* sec1.audit_seal_batch
    runs,       \* sec1.integrity_verification_run that passed: the last row read, and those altered
    answered    \* history: what ingestion told of an event

vars == <<stream, rows, locked, work, seals, runs, answered>>

Idle == [at |-> "idle", event |-> None, content |-> None, stream |-> None, seq |-> 0, hash |-> <<>>]

Of(s) == {row \in rows : row.stream = s}
Between(s, from, to) == {row \in Of(s) : row.seq \in from..to}
Altered(S) == {row.seq : row \in {r \in S : r.content = Forgery}}

-----------------------------------------------------------------------------
(* Ingestion *)

\* The row of the stream, inserted if need be and locked until the end of the transaction.
LockStream(w, e, c, s) ==
    /\ work[w] = Idle /\ s \notin locked
    /\ locked' = locked \cup {s}
    /\ work' = [work EXCEPT ![w] = [at |-> "locked", event |-> e, content |-> c, stream |-> s,
                                    seq |-> stream[s].seq + 1, hash |-> stream[s].hash]]
    /\ UNCHANGED <<stream, rows, seals, runs, answered>>

Release(w) == locked' = locked \ {work[w].stream} /\ work' = [work EXCEPT ![w] = Idle]
Tell(w, row) ==
    answered' = [answered EXCEPT ![work[w].event] = @ \cup {[content |-> work[w].content, stream |-> work[w].stream, seq |-> row.seq]}]

Advance(w) == stream' = [stream EXCEPT ![work[w].stream] = [seq |-> work[w].seq, hash |-> Append(work[w].hash, work[w].content)]]

\* Unique: the event of a source, and the sequence number in a stream.
Unique(row) == \A other \in rows : other.event # row.event /\ <<other.stream, other.seq>> # <<row.stream, row.seq>>

Insert(w, e, c, s) ==
    LET row == [event |-> e, content |-> c, sent |-> c, stream |-> s, seq |-> work[w].seq,
                prev |-> work[w].hash, hash |-> Append(work[w].hash, c)] IN
    /\ Unique(row)
    /\ rows' = rows \cup {row}
    /\ Advance(w) /\ Tell(w, row)

\* ON CONFLICT DO NOTHING: the event has a row, and its payload hash must agree.
SamePayload_Any(w, row) == TRUE
SamePayload(w, row) == row.sent = work[w].content /\ row.stream = work[w].stream

Duplicate_Advances(w, e) ==
    \E row \in rows :
        /\ row.event = e /\ UNCHANGED rows /\ Advance(w)
        /\ IF SamePayload(w, row) THEN Tell(w, row) ELSE UNCHANGED answered
Duplicate(w, e) ==
    \E row \in rows :
        /\ row.event = e /\ UNCHANGED <<stream, rows>>
        /\ IF SamePayload(w, row) THEN Tell(w, row) ELSE UNCHANGED answered

Ingest(w) ==
    /\ work[w].at = "locked" /\ Release(w)
    /\ Insert(w, work[w].event, work[w].content, work[w].stream) \/ Duplicate(w, work[w].event)
    /\ UNCHANGED <<seals, runs>>

\* The transaction is lost before it commits.
Dies(w) ==
    /\ work[w].at = "locked" /\ Release(w)
    /\ UNCHANGED <<stream, rows, seals, runs, answered>>

-----------------------------------------------------------------------------
(* Seals and verification *)

Hashes(S) == {<<row.seq, row.hash>> : row \in S}

\* Whatever rows the range has now, as long as there is one.
SealBatch(s, from, to) ==
    /\ Cardinality(seals) < MaxSeals /\ Between(s, from, to) # {}
    /\ seals' = seals \cup {[stream |-> s, from |-> from, to |-> to, whole |-> to <= stream[s].seq,
                             hashes |-> Hashes(Between(s, from, to)), status |-> "pending"]}
    /\ UNCHANGED <<stream, rows, locked, work, runs, answered>>

SealRange_Stream(seal) == Of(seal.stream)
SealRange(seal) == Between(seal.stream, seal.from, seal.to)

VerifySeal(seal) ==
    /\ seal \in seals
    /\ seals' = (seals \ {seal}) \cup
            {[seal EXCEPT !.status = IF Hashes(SealRange(seal)) = seal.hashes THEN "valid" ELSE "failed"]}
    /\ UNCHANGED <<stream, rows, locked, work, runs, answered>>

\* verifyChainSegment: each row against the one before it in the range, and against its content.
Linked(S) == \A row, next \in S : next.seq = row.seq + 1 => next.prev = row.hash
Gapless(S) == \A row \in S : \A q \in 1..row.seq : (\E r \in S : r.seq < q) => \E r \in S : r.seq = q
Rehashed_No(S) == TRUE
Rehashed(S) == \A row \in S : row.hash = Append(row.prev, row.content)

RunIntegrity(s, from, to) ==
    LET S == Between(s, from, to) IN
    /\ Cardinality(runs) < MaxRuns
    /\ Linked(S) /\ Gapless(S) /\ Rehashed(S)
    /\ runs' = runs \cup {[last |-> {row.seq : row \in {r \in S : r.seq = to \/ r.seq = stream[s].seq}}, altered |-> Altered(S)]}
    /\ UNCHANGED <<stream, rows, locked, work, seals, answered>>

\* A row is altered in the database, with or without its hash.
Alter(row) ==
    /\ row.content # Forgery
    /\ \E hash \in {row.hash, Append(row.prev, Forgery)} :
          rows' = (rows \ {row}) \cup {[row EXCEPT !.content = Forgery, !.hash = hash]}
    /\ UNCHANGED <<stream, locked, work, seals, runs, answered>>

-----------------------------------------------------------------------------
NewStream == [seq |-> 0, hash |-> <<>>]

Init ==
    /\ stream = [s \in Streams |-> NewStream]
    /\ rows = {} /\ locked = {} /\ seals = {} /\ runs = {}
    /\ work = [w \in Workers |-> Idle]
    /\ answered = [e \in Events |-> {}]

Next ==
    \/ \E w \in Workers :
          \/ \E e \in Events, c \in Contents, s \in Streams : LockStream(w, e, c, s)
          \/ Ingest(w) \/ Dies(w)
    \/ \E s \in Streams : \E to \in 1..Cardinality(Events) : \E from \in 1..to : SealBatch(s, from, to) \/ RunIntegrity(s, from, to)
    \/ \E seal \in seals : VerifySeal(seal)
    \/ \E row \in rows : Alter(row)

Spec == Init /\ [][Next]_vars

-----------------------------------------------------------------------------
Seals == [stream : Streams, from : Nat, to : Nat, whole : BOOLEAN, hashes : SUBSET (Nat \X Seq(Contents \cup {Forgery})),
          status : {"pending", "valid", "failed"}]
PassedRuns == [last : SUBSET Nat, altered : SUBSET Nat]

TypeOK ==
    /\ seals \subseteq Seals /\ runs \subseteq PassedRuns
    /\ \A s \in Streams : stream[s].seq = Len(stream[s].hash) /\ stream[s].seq <= Cardinality(Events)
    /\ \A w \in Workers : work[w] # Idle => work[w].stream \in locked
    /\ \A row \in rows : row.seq = Len(row.hash) /\ row.content \in Contents \cup {Forgery}

\* However ingestions overlap, fail and repeat, a stream's rows are numbered without gap or
\* fork, each built on the one before, up to the position the stream's row holds: the chain
\* as ingested is always one that verification would pass.
ChainWhole ==
    \A s \in Streams :
        /\ {row.seq : row \in Of(s)} = 1..stream[s].seq
        /\ \A row \in Of(s) : row.prev = SubSeq(stream[s].hash, 1, row.seq - 1) /\ row.sent = stream[s].hash[row.seq]

\* Whoever was told that an event is in the log sent what the log has recorded of it, in the
\* stream that has it, and all were told the same row.
AnswersAgree ==
    \A e \in Events : \A told \in answered[e] :
        \E row \in rows : row.event = e /\ row.sent = told.content /\ row.stream = told.stream /\ row.seq = told.seq

\* A run that passes has read no altered row, unless it was altered together with its hash and
\* nothing in the range was chained on it.
PassMeansIntact == \A run \in runs : run.altered \subseteq run.last

\* A seal over rows that existed when it was made fails only once one of them was altered: the
\* growth of the stream never fails it.
SealsHold ==
    \A seal \in seals : seal.status = "failed" /\ seal.whole => Altered(Between(seal.stream, seal.from, seal.to)) # {}
=============================================================================
