---------------------------- MODULE EventPipeline ----------------------------
(***************************************************************************)
(* The way of an event from the outbox table of the payment service to a   *)
(* consumer group: transactions leave rows in the outbox, relays publish   *)
(* them to Kafka in batches, and a consumer hands every record of its one  *)
(* topic to a handler that deduplicates by event id.  The records of one   *)
(* payment share a key and so a partition; one partition is modelled.      *)
(***************************************************************************)
EXTENDS Integers, Sequences, FiniteSets, SequencesExt

CONSTANTS
  Rows,          \* outbox rows (event ids)
  TxOf,          \* the transaction that writes each row, numbered by its now()
  TypeOf,        \* its event type
  Poison,        \* rows whose handling always fails
  Relays,        \* relay workers, one per payment-service process
  BatchSize,
  MaxRetries,    \* of handleWithRetry
  HasDLQ,        \* the consumer has a dead-letter producer
  MaxFaults      \* bound on the faults of one behaviour

RefundTypes == {"refund.created", "refund.succeeded", "refund.failed"}
PaymentTypes == {"payment.created", "payment.authorized", "payment.captured"}
Topics == {"payment.events", "refund.events"}
Subscription == "payment.events"      \* what every NewConsumer call subscribes to

ASSUME RowAssumption ==
  /\ IsFiniteSet(Rows)
  /\ TxOf \in [Rows -> Nat \ {0}]
  /\ TypeOf \in [Rows -> RefundTypes \cup PaymentTypes]
  /\ Poison \subseteq Rows
ASSUME BoundAssumption ==
  BatchSize \in Nat \ {0} /\ MaxRetries \in Nat /\ MaxFaults \in Nat /\ HasDLQ \in BOOLEAN

VARIABLES
  written,       \* transactions committed so far
  published,     \* rows with published_at set
  batch,         \* per relay: the rows it has locked, and what came of publishing them
  log,           \* per topic: the records of the partition
  committed,     \* committed offset of the group: records before it are done
  pos,           \* the next record the running consumer handles
  tries,         \* failed tries of that record
  handled,       \* events the handler has processed (its processed_events)
  dlq,           \* events sent to the dead-letter topic
  faults

vars == <<written, published, batch, log, committed, pos, tries, handled, dlq, faults>>

relayVars == <<published, batch>>
consumerVars == <<committed, pos, tries, handled, dlq>>

-----------------------------------------------------------------------------

NoBatch == [rows |-> << >>, ok |-> {}, next |-> 1]

Locked == UNION {ToSet(batch[r].rows) : r \in Relays}
Transactions == {TxOf[m] : m \in Rows}
Unpublished == {m \in Rows : TxOf[m] \in written} \ published

\* cmd/payment-service/main.go: refund.* events go to a topic of their own.
TopicFor(m) == IF TypeOf[m] \in RefundTypes THEN "refund.events" ELSE "payment.events"

Fault == faults < MaxFaults /\ faults' = faults + 1

-----------------------------------------------------------------------------
(* The payment service writes: all rows of a transaction have its now(),   *)
(* the time it began, and transactions do not commit in that order.        *)

WriteTransaction(t) ==
  /\ t \notin written
  /\ written' = written \cup {t}
  /\ UNCHANGED <<relayVars, log, consumerVars, faults>>

-----------------------------------------------------------------------------
(* Relay. *)

\* Mutant of FetchUnpublished: FOR UPDATE without SKIP LOCKED on a snapshot read earlier.
FetchUnpublishedShared(r) ==
  LET Batches == {q \in SetToSeqs(Unpublished) :
                    \A i, j \in DOMAIN q : i < j => TxOf[q[i]] <= TxOf[q[j]]}
  IN /\ batch[r] = NoBatch
     /\ Unpublished # {}
     /\ \E q \in Batches :
          batch' = [batch EXCEPT ![r].rows = SubSeq(q, 1, IF Len(q) < BatchSize THEN Len(q)
                                                                              ELSE BatchSize)]
     /\ UNCHANGED <<written, published, log, consumerVars, faults>>

\* SELECT ... ORDER BY created_at LIMIT n FOR UPDATE SKIP LOCKED: rows of one transaction
\* have the same created_at and come in any order.
FetchUnpublished(r) ==
  LET free == Unpublished \ Locked
      Batches == {q \in SetToSeqs(free) :
                    \A i, j \in DOMAIN q : i < j => TxOf[q[i]] <= TxOf[q[j]]}
  IN /\ batch[r] = NoBatch
     /\ free # {}
     /\ \E q \in Batches :
          batch' = [batch EXCEPT ![r].rows = SubSeq(q, 1, IF Len(q) < BatchSize THEN Len(q)
                                                                              ELSE BatchSize)]
     /\ UNCHANGED <<written, published, log, consumerVars, faults>>

\* publish: one message after the other; a message that fails does not stop the next one.
PublishOk(r) ==
  LET m == batch[r].rows[batch[r].next]
  IN /\ batch[r].next <= Len(batch[r].rows)
     /\ log' = [log EXCEPT ![TopicFor(m)] = Append(@, m)]
     /\ batch' = [batch EXCEPT ![r].next = @ + 1, ![r].ok = @ \cup {m}]
     /\ UNCHANGED <<written, published, consumerVars, faults>>

\* Produce returns an error; the record may have reached the broker all the same.
PublishError(r) ==
  LET m == batch[r].rows[batch[r].next]
  IN /\ batch[r].next <= Len(batch[r].rows)
     /\ Fault
     /\ \/ UNCHANGED log
        \/ log' = [log EXCEPT ![TopicFor(m)] = Append(@, m)]
     /\ batch' = [batch EXCEPT ![r].next = @ + 1]
     /\ UNCHANGED <<written, published, consumerVars>>

\* Mutant of CommitBatch: the whole batch is marked published.
CommitBatchWhole(r) ==
  /\ batch[r] # NoBatch
  /\ batch[r].next > Len(batch[r].rows)
  /\ published' = published \cup ToSet(batch[r].rows)
  /\ batch' = [batch EXCEPT ![r] = NoBatch]
  /\ UNCHANGED <<written, log, consumerVars, faults>>

\* The rows that were published get their published_at, the others only a failed attempt.
CommitBatch(r) ==
  /\ batch[r] # NoBatch
  /\ batch[r].next > Len(batch[r].rows)
  /\ published' = published \cup batch[r].ok
  /\ batch' = [batch EXCEPT ![r] = NoBatch]
  /\ UNCHANGED <<written, log, consumerVars, faults>>

\* An UPDATE or the commit fails, or the process dies: the locks go, nothing is marked.
AbortBatch(r) ==
  /\ batch[r] # NoBatch
  /\ Fault
  /\ batch' = [batch EXCEPT ![r] = NoBatch]
  /\ UNCHANGED <<written, published, log, consumerVars>>

-----------------------------------------------------------------------------
(* Consumer. *)

Partition == log[Subscription]
Polled == pos < Len(Partition)
Current == Partition[pos + 1]

\* Mutant of CommitRecord: the offset of a record that failed is committed as well, so the
\* record is skipped.
CommitRecordAhead ==
  /\ pos' = pos + 1
  /\ tries' = 0
  /\ \/ committed' = pos + 2 /\ UNCHANGED faults
     \/ Fault /\ UNCHANGED committed

\* CommitRecords after the handler returned; a failed commit is only logged.
CommitRecord ==
  /\ pos' = pos + 1
  /\ tries' = 0
  /\ \/ committed' = pos + 1 /\ UNCHANGED faults
     \/ Fault /\ UNCHANGED committed

HandleOk ==
  /\ Polled
  /\ tries <= MaxRetries
  /\ Current \notin Poison
  /\ handled' = handled \cup {Current}
  /\ CommitRecord
  /\ UNCHANGED <<written, relayVars, log, dlq>>

\* The handler fails, for good or for once, and tries are left.
HandleError ==
  /\ Polled
  /\ tries <= MaxRetries
  /\ IF Current \in Poison THEN UNCHANGED faults ELSE Fault
  /\ tries' = tries + 1
  /\ UNCHANGED <<written, relayVars, log, committed, pos, handled, dlq>>

\* Mutant of DeadLetter: the record is neither dead-lettered nor left behind.
DeadLetterNever ==
  /\ Polled /\ HasDLQ
  /\ tries = MaxRetries + 1
  /\ tries' = 0
  /\ UNCHANGED <<written, relayVars, log, handled, committed, pos, dlq, faults>>

\* After the last try the record goes to the dead-letter topic and counts as done.
DeadLetter ==
  /\ Polled /\ HasDLQ
  /\ tries = MaxRetries + 1
  /\ dlq' = dlq \cup {Current}
  /\ CommitRecord
  /\ UNCHANGED <<written, relayVars, log, handled>>

\* Run returns the handler's error: without a DLQ, or because publishing to it failed.
Stop ==
  /\ Polled
  /\ tries = MaxRetries + 1
  /\ IF HasDLQ THEN Fault ELSE UNCHANGED faults
  /\ pos' = committed
  /\ tries' = 0
  /\ UNCHANGED <<written, relayVars, log, committed, handled, dlq>>

\* The process dies or loses the partition; the next one starts at the committed offset.
Restart ==
  /\ Fault
  /\ pos' = committed
  /\ tries' = 0
  /\ UNCHANGED <<written, relayVars, log, committed, handled, dlq>>

-----------------------------------------------------------------------------

Init ==
  /\ written = {}
  /\ published = {}
  /\ batch = [r \in Relays |-> NoBatch]
  /\ log = [t \in Topics |-> << >>]
  /\ committed = 0 /\ pos = 0 /\ tries = 0
  /\ handled = {} /\ dlq = {}
  /\ faults = 0

Relay(r) == FetchUnpublished(r) \/ PublishOk(r) \/ CommitBatch(r)
Consume == HandleOk \/ HandleError \/ DeadLetter

Next ==
  \/ \E t \in Transactions : WriteTransaction(t)
  \/ \E r \in Relays : Relay(r) \/ PublishError(r) \/ AbortBatch(r)
  \/ Consume \/ Stop \/ Restart

\* A relay polls for ever and a consumer keeps handling what it polls.
Fairness == WF_vars(Consume) /\ \A r \in Relays : WF_vars(Relay(r))

Spec == Init /\ [][Next]_vars /\ Fairness

-----------------------------------------------------------------------------
(* Properties. *)

\* The tables, the partitions and the two workers keep their shape.
TypeOK ==
  /\ written \subseteq Transactions
  /\ published \subseteq Rows
  /\ \A r \in Relays : /\ ToSet(batch[r].rows) \subseteq Rows
                       /\ batch[r].ok \subseteq ToSet(batch[r].rows)
                       /\ batch[r].next \in 1..Len(batch[r].rows) + 1
  /\ \A t \in Topics : \A i \in DOMAIN log[t] : TopicFor(log[t][i]) = t
  /\ committed \in 0..pos /\ pos \in 0..Len(Partition)
  /\ tries \in 0..MaxRetries + 1
  /\ handled \subseteq Rows /\ dlq \subseteq Rows
  /\ faults \in 0..MaxFaults

\* Nothing falls between two hand-overs, whatever relay, broker or consumer fails in between:
\* a row marked published is in its topic, and a record below the committed offset has been
\* processed or sent to the dead-letter topic.
NothingLost ==
  /\ \A m \in published : m \in ToSet(log[TopicFor(m)])
  /\ \A i \in 1..committed : Partition[i] \in handled \cup dlq

\* No two relays publish one row at the same time (FOR UPDATE SKIP LOCKED), so a row is in
\* its topic twice only if a fault came between publishing and marking it.
DuplicatesNeedFaults ==
  Len(log["payment.events"]) + Len(log["refund.events"])
    <= Cardinality(UNION {ToSet(log[t]) : t \in Topics}) + BatchSize * faults

\* Every event of a committed transaction that belongs to the consumer's topic is in the end
\* processed or dead-lettered, for finitely many faults of publishing, committing, handling
\* and restarting.
EventsArrive ==
  \A m \in Rows : TopicFor(m) = Subscription =>
    (TxOf[m] \in written ~> m \in handled \cup dlq)
=============================================================================
