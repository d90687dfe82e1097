---------------------------- MODULE MseedArchive ----------------------------
(***************************************************************************)
(* The PostgreSQL archive of RS_CSharp (Mseed/MseedArchive.cs): a queue of *)
(* records that client threads fill, and flushes that empty it into the    *)
(* table mseed_records.                                                    *)
(*                                                                         *)
(* A flush runs on the thread of the client whose record made the batch    *)
(* full, on the thread of a timer callback (callbacks of one Timer may     *)
(* overlap), or on the thread that disposes of the archive; any of them    *)
(* may run at the same time, and nothing but the queue itself is locked.   *)
(* The database is external: a COPY stores all the rows of a batch or      *)
(* none.  Retention (deleting rows older than some days) is left out.      *)
(***************************************************************************)
EXTENDS Integers, Sequences, FiniteSets

CONSTANTS
  MaxRecords,   \* bound: records handed in in a behaviour
  Writers,      \* client threads
  Timers,       \* callbacks of the flush timer that may run at a time
  Closer,       \* the thread that disposes of the archive
  BatchSize,    \* records in the queue that make Enqueue flush
  NoRecord

Records == 1 .. MaxRecords           \* each is handed in once

Flushers == Writers \cup Timers \cup {Closer}

ASSUME ArchiveAssumption ==
  /\ BatchSize \in Nat \ {0}
  /\ MaxRecords \in Nat
  /\ IsFiniteSet(Writers)
  /\ NoRecord \notin Records
  /\ Closer \notin Writers \cup Timers
  /\ Writers \cap Timers = {}

VARIABLES
  handing,    \* handing[w]: the record w is about to put into the queue
  pending,    \* _pendingWrites
  phase,      \* phase[f]: where f is in FlushPendingWrites
  batch,      \* batch[f]: the records f has taken from the queue
  db,         \* the rows of mseed_records in the order of their ids
  disposed,   \* _disposed
  closed,     \* _dataSource is disposed of
  lost,       \* history: records of batches that could not be written, and
              \* records handed in after _disposed was set
  late        \* history: records put into the queue after _disposed was set

queueVars == <<handing, pending, late>>
vars == <<handing, pending, phase, batch, db, disposed, closed, lost, late>>

Elements(s) == {s[i] : i \in DOMAIN s}

-----------------------------------------------------------------------------
(* Enqueue                                                                 *)

Idle(f) == phase[f] = "idle"

\* Enqueue(record): nothing more than a test of _disposed before the queue.
Enqueue(w, rec) ==
  /\ Idle(w) /\ handing[w] = NoRecord
  /\ IF disposed
     THEN lost' = lost \cup {rec} /\ UNCHANGED handing
     ELSE handing' = [handing EXCEPT ![w] = rec] /\ UNCHANGED lost
  /\ UNCHANGED <<pending, phase, batch, db, disposed, closed, late>>

\* Mutation of FullBatch: the count is compared before the record is added.
FullBatchBefore(queue) == Len(queue) > BatchSize

FullBatch(queue) == Len(queue) >= BatchSize

\* The record goes into the queue; a full batch is flushed by this thread.  The
\* count is read in the same step: a record another writer adds before it is
\* read makes that writer flush, a flush in between leaves this one nothing.
PutInQueue(w) ==
  /\ handing[w] # NoRecord
  /\ pending' = Append(pending, handing[w])
  /\ late' = IF disposed THEN late \cup {handing[w]} ELSE late
  /\ handing' = [handing EXCEPT ![w] = NoRecord]
  /\ phase' = [phase EXCEPT ![w] = IF FullBatch(pending') THEN "drain" ELSE "idle"]
  /\ UNCHANGED <<batch, db, disposed, closed, lost>>

-----------------------------------------------------------------------------
(* FlushPendingWrites                                                      *)

\* Mutation of Due: only a full batch is flushed.
DueWhenFull == FullBatch(pending)

\* FlushPendingWrites leaves an empty queue alone.
Due == pending # <<>>

TimerFires(t) ==
  /\ Idle(t) /\ Due
  /\ ~disposed                       \* _flushTimer is disposed of
  /\ phase' = [phase EXCEPT ![t] = "drain"]
  /\ UNCHANGED <<queueVars, batch, db, disposed, closed, lost>>

\* Mutation of Dequeued: the record stays in the queue.
DequeuedCopy(queue) == IF Len(queue) > 1 THEN Tail(queue) ELSE queue

Dequeued(queue) == Tail(queue)

TryDequeue(f) ==
  /\ phase[f] = "drain" /\ pending # <<>>
  /\ batch' = [batch EXCEPT ![f] = Append(@, Head(pending))]
  /\ pending' = Dequeued(pending)
  /\ UNCHANGED <<handing, phase, db, disposed, closed, lost, late>>

\* Mutation of AfterDrain: the database is called with an empty batch too.
AfterDrainAlways(f) == "copy"

\* The queue is empty: what has been taken is written, if anything.
AfterDrain(f) == IF batch[f] = <<>> THEN "idle" ELSE "copy"

Drained(f) ==
  /\ phase[f] = "drain" /\ pending = <<>>
  /\ phase' = [phase EXCEPT ![f] = AfterDrain(f)]
  /\ UNCHANGED <<queueVars, batch, db, disposed, closed, lost>>

EndFlush(f) ==
  /\ phase[f] = "copy"
  /\ phase' = [phase EXCEPT ![f] = "idle"]
  /\ batch' = [batch EXCEPT ![f] = <<>>]
  /\ UNCHANGED <<queueVars, disposed, closed>>

\* FlushRecords succeeds: the rows get the next ids of the table.
Copy(f) ==
  /\ ~closed
  /\ db' = db \o batch[f]
  /\ EndFlush(f)
  /\ UNCHANGED lost

\* FlushRecords throws (no connection, no table yet, a row refused): the batch
\* is logged and forgotten.
CopyFails(f) ==
  /\ lost' = lost \cup Elements(batch[f])
  /\ EndFlush(f)
  /\ UNCHANGED db

-----------------------------------------------------------------------------
(* Dispose                                                                 *)

\* Mutation of FinalFlush: the queue is not flushed.
FinalFlushNone == "idle"

FinalFlush == "drain"

BeginDispose ==
  /\ ~disposed
  /\ disposed' = TRUE
  /\ phase' = [phase EXCEPT ![Closer] = FinalFlush]
  /\ UNCHANGED <<queueVars, batch, db, closed, lost>>

\* FlushPendingWrites has returned: _dataSource.Dispose().
CloseSource ==
  /\ disposed /\ ~closed /\ Idle(Closer)
  /\ closed' = TRUE
  /\ UNCHANGED <<queueVars, phase, batch, db, disposed, lost>>

-----------------------------------------------------------------------------
Init ==
  /\ handing = [w \in Writers |-> NoRecord]
  /\ pending = <<>>
  /\ phase = [f \in Flushers |-> "idle"]
  /\ batch = [f \in Flushers |-> <<>>]
  /\ db = <<>>
  /\ disposed = FALSE /\ closed = FALSE
  /\ lost = {} /\ late = {}

Flush(f) == TryDequeue(f) \/ Drained(f) \/ Copy(f) \/ CopyFails(f)

Seen == Elements(pending) \cup Elements(db) \cup lost
        \cup (UNION {Elements(batch[f]) : f \in Flushers})
        \cup {handing[w] : w \in Writers}

\* Records are numbered in the order in which they are handed in.
HandIn ==
  \E w \in Writers, rec \in Records :
    rec = Cardinality(Seen \ {NoRecord}) + 1 /\ Enqueue(w, rec)

Next ==
  \/ HandIn
  \/ \E w \in Writers : PutInQueue(w)
  \/ \E t \in Timers : TimerFires(t)
  \/ \E f \in Flushers : Flush(f)
  \/ BeginDispose
  \/ CloseSource

\* A timer fires again and again; a client thread goes on; the database answers
\* or a timeout makes the call throw.
Fairness ==
  /\ \A w \in Writers : WF_vars(PutInQueue(w))
  /\ \A t \in Timers : WF_vars(TimerFires(t))
  /\ \A f \in Flushers : WF_vars(Flush(f))
  /\ WF_vars(CloseSource)

Spec == Init /\ [][Next]_vars /\ Fairness

-----------------------------------------------------------------------------
(* Properties                                                              *)

TypeOK ==
  /\ handing \in [Writers -> Records \cup {NoRecord}]
  /\ pending \in Seq(Records)
  /\ phase \in [Flushers -> {"idle", "drain", "copy"}]
  /\ batch \in [Flushers -> Seq(Records)]
  /\ \A f \in Flushers : phase[f] # "drain" => (phase[f] = "copy") = (batch[f] # <<>>)
  /\ db \in Seq(Records)
  /\ disposed \in BOOLEAN /\ closed \in BOOLEAN
  /\ lost \subseteq Records /\ late \subseteq Records

\* However the flushes of several threads overlap, a record is in one place:
\* with the thread that hands it in, in the queue, in one batch, in the table
\* once, or lost (FlushPendingWrites, FlushRecords).
Waiting == {w \in Writers : handing[w] # NoRecord}
Taken == UNION {{<<f, i>> : i \in DOMAIN batch[f]} : f \in Flushers}

InOnePlace ==
  Cardinality(Seen \ {NoRecord})
    = Cardinality(Waiting) + Len(pending) + Cardinality(Taken) + Len(db)
      + Cardinality(lost)

\* Dispose leaves in the queue only records of an Enqueue that read _disposed
\* before it was set and came to the queue after it.
NothingLeftBehind == closed => Elements(pending) \subseteq late

\* A thread that fills the batch flushes it before it hands in its next record,
\* so the queue stays bounded although flushes take their time (Enqueue).
QueueBounded == Len(pending) <= BatchSize - 1 + Cardinality(Writers)

\* A record in the queue does not wait for the batch to fill: it is written or
\* its batch fails (the flush timer, the final flush of Dispose).
Written ==
  \A rec \in Records :
    rec \in Elements(pending) \ late ~> rec \in Elements(db) \cup lost
=============================================================================
