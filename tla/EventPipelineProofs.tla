------------------------ MODULE EventPipelineProofs --------------------------
(***************************************************************************)
(* Theorems about EventPipeline, for every outbox, every number of relays, *)
(* every batch size and every number of faults.                            *)
(***************************************************************************)
EXTENDS EventPipeline, SequenceTheorems, FiniteSetTheorems, TLAPS

-----------------------------------------------------------------------------
(* The inductive invariant                                                 *)

Batch == [rows : Seq(Rows), ok : SUBSET Rows, next : Nat]

\* A batch holds its rows once each, no more than the LIMIT, and has published only rows that it
\* is past.
BatchOK(b) ==
    /\ b.next \in 1 .. Len(b.rows) + 1
    /\ Len(b.rows) <= BatchSize
    /\ \A i, j \in 1 .. Len(b.rows) : b.rows[i] = b.rows[j] => i = j
    /\ \A m \in b.ok : \E i \in 1 .. b.next - 1 : m = b.rows[i]

\* A row that is marked published, or that a batch has published, is in its topic.
InTopic(m) == m \in ToSet(log[TopicFor(m)])

RelayOK ==
    /\ published \subseteq Rows
    /\ batch \in [Relays -> Batch]
    /\ \A r \in Relays : BatchOK(batch[r])

LogOK ==
    /\ log \in [Topics -> Seq(Rows)]
    /\ \A t \in Topics : \A i \in DOMAIN log[t] : TopicFor(log[t][i]) = t

\* Nobody has marked a row that a relay has locked, and no two relays have locked one row.
Exclusive ==
    /\ \A r \in Relays : \A i \in 1 .. Len(batch[r].rows) : batch[r].rows[i] \notin published
    /\ \A r, s \in Relays : r # s =>
         \A i \in 1 .. Len(batch[r].rows), j \in 1 .. Len(batch[s].rows) :
            batch[r].rows[i] # batch[s].rows[j]

HandedOver ==
    /\ \A m \in published : InTopic(m)
    /\ \A r \in Relays : \A m \in batch[r].ok : InTopic(m)

\* The consumer is past nothing that is not done.
ConsumerOK ==
    /\ committed \in 0 .. pos /\ pos \in 0 .. Len(Partition)
    /\ tries \in 0 .. MaxRetries + 1
    /\ handled \subseteq Rows /\ dlq \subseteq Rows
    /\ \A i \in 1 .. pos : Partition[i] \in handled \cup dlq

\* The rows that are in a topic, and those among them that will be published again: they are
\* neither marked nor about to be.
Logged == UNION {ToSet(log[t]) : t \in Topics}
Again == {m \in Logged : m \notin published /\ \A r \in Relays : m \notin batch[r].ok}

\* What there is in the topics more than once, and what will be, is paid for by faults.
RecordCount == Len(log["payment.events"]) + Len(log["refund.events"])
Paid == RecordCount + Cardinality(Again) <= Cardinality(Logged) + BatchSize * faults

IInv ==
    /\ written \subseteq Transactions /\ faults \in 0 .. MaxFaults
    /\ RelayOK /\ LogOK /\ Exclusive /\ HandedOver /\ ConsumerOK /\ Paid

-----------------------------------------------------------------------------
(* Topics and records                                                      *)

\* Every row has a topic, and the consumer's topic is one.
LEMMA TopicFacts ==
  /\ Topics = {"payment.events", "refund.events"} /\ Subscription \in Topics
  /\ \A m : TopicFor(m) \in Topics
BY DEF Topics, Subscription, TopicFor

\* What an append leaves of a sequence, and what it adds to its set.
LEMMA AppendFacts ==
  ASSUME NEW q \in Seq(Rows), NEW m \in Rows
  PROVE  /\ Append(q, m) \in Seq(Rows) /\ Len(Append(q, m)) = Len(q) + 1
         /\ \A i \in 1 .. Len(q) : Append(q, m)[i] = q[i]
         /\ Append(q, m)[Len(q) + 1] = m
         /\ ToSet(Append(q, m)) = ToSet(q) \cup {m}
<1>1. /\ Append(q, m) \in Seq(Rows) /\ Len(Append(q, m)) = Len(q) + 1
      /\ \A i \in 1 .. Len(q) : Append(q, m)[i] = q[i]
      /\ Append(q, m)[Len(q) + 1] = m
  BY AppendProperties
<1>2. /\ Len(q) \in Nat /\ DOMAIN q = 1 .. Len(q)
      /\ DOMAIN Append(q, m) = 1 .. Len(q) + 1
  BY <1>1, LenProperties
<1>3. ToSet(Append(q, m)) = ToSet(q) \cup {m}
  BY <1>1, <1>2 DEF ToSet
<1> QED
  BY <1>1, <1>3

\* The rows in the topics are finitely many.
LEMMA LoggedFacts ==
  ASSUME LogOK
  PROVE  /\ \A m : m \in Logged <=> \E t \in Topics : m \in ToSet(log[t])
         /\ \A t \in Topics : ToSet(log[t]) \subseteq Rows
         /\ Logged \subseteq Rows /\ IsFiniteSet(Logged) /\ IsFiniteSet(Again)
         /\ Cardinality(Logged) \in Nat /\ Cardinality(Again) \in Nat /\ RecordCount \in Nat
<1>1. \A m : m \in Logged <=> \E t \in Topics : m \in ToSet(log[t])
  BY DEF Logged
<1>2. \A t \in Topics : ToSet(log[t]) \subseteq Rows
  BY LenProperties DEF LogOK, ToSet
<1>3. Logged \subseteq Rows /\ Again \subseteq Rows
  BY <1>1, <1>2 DEF Again
<1>4. IsFiniteSet(Logged) /\ IsFiniteSet(Again)
  BY <1>3, RowAssumption, FS_Subset
<1>5. RecordCount \in Nat
  BY TopicFacts, LenProperties DEF LogOK, RecordCount
<1> QED
  BY <1>1, <1>2, <1>3, <1>4, <1>5, FS_CardinalityType

\* One topic grows by one record.
LEMMA CountGrows ==
  ASSUME \A u \in Topics : Len(log[u]) \in Nat,
         NEW t \in Topics, Len(log'[t]) = Len(log[t]) + 1,
         \A u \in Topics \ {t} : log'[u] = log[u]
  PROVE  RecordCount' = RecordCount + 1
<1> DEFINE a == "payment.events"
<1> DEFINE b == "refund.events"
<1>1. /\ Len(log[a]) \in Nat /\ Len(log[b]) \in Nat
      /\ \/ Len(log'[a]) = Len(log[a]) + 1 /\ Len(log'[b]) = Len(log[b])
         \/ Len(log'[b]) = Len(log[b]) + 1 /\ Len(log'[a]) = Len(log[a])
  BY DEF Topics
<1>2. PICK p, q, u, v : p = Len(log[a]) /\ q = Len(log[b]) /\ u = Len(log'[a]) /\ v = Len(log'[b])
  OBVIOUS
<1>3. RecordCount = p + q /\ RecordCount' = u + v
  BY <1>2 DEF RecordCount
<1>4. p \in Nat /\ q \in Nat /\ ((u = p + 1 /\ v = q) \/ (v = q + 1 /\ u = p))
  BY <1>1, <1>2
<1> QED
  BY <1>3, <1>4

\* What a record of m adds.
LEMMA RecordAdded ==
  ASSUME LogOK, NEW m \in Rows, log' = [log EXCEPT ![TopicFor(m)] = Append(@, m)]
  PROVE  /\ LogOK'
         /\ Logged' = Logged \cup {m}
         /\ RecordCount' = RecordCount + 1
         /\ \A k : k \in ToSet(log[TopicFor(k)]) \/ k = m => k \in ToSet(log'[TopicFor(k)])
         /\ Len(Partition') >= Len(Partition)
         /\ \A i \in 1 .. Len(Partition) : Partition'[i] = Partition[i]
<1>1. PICK t \in Topics : t = TopicFor(m)
  BY TopicFacts
<1>2. log[t] \in Seq(Rows) /\ Len(log[t]) \in Nat
  BY LenProperties DEF LogOK
<1>3. /\ log'[t] = Append(log[t], m)
      /\ \A u \in Topics \ {t} : log'[u] = log[u]
      /\ log' \in [Topics -> Seq(Rows)]
  BY <1>1, <1>2, AppendFacts DEF LogOK
<1>4. \A u \in Topics : DOMAIN log[u] = 1 .. Len(log[u]) /\ DOMAIN log'[u] = 1 .. Len(log'[u])
  BY <1>3, LenProperties DEF LogOK
<1>5. LogOK'
  <2>1. ASSUME NEW u \in Topics, NEW i \in DOMAIN log'[u]
        PROVE  TopicFor(log'[u][i]) = u
    <3>1. CASE u # t
      BY <1>3, <2>1, <3>1 DEF LogOK
    <3>2. CASE u = t /\ i = Len(log[t]) + 1
      BY <1>1, <1>2, <1>3, <3>2, AppendFacts
    <3>3. CASE u = t /\ i # Len(log[t]) + 1
      <4>1. i \in 1 .. Len(log[t])
        BY <1>2, <1>3, <1>4, <2>1, <3>3, AppendFacts
      <4> QED
        BY <1>2, <1>3, <1>4, <3>3, <4>1, AppendFacts DEF LogOK
    <3> QED
      BY <3>1, <3>2, <3>3
  <2> QED
    BY <1>3, <2>1 DEF LogOK
<1>6. ToSet(log'[t]) = ToSet(log[t]) \cup {m} /\ \A u \in Topics \ {t} : ToSet(log'[u]) = ToSet(log[u])
  BY <1>2, <1>3, AppendFacts
<1>7. Logged' = Logged \cup {m}
  <2>1. \A k : k \in Logged <=> \E u \in Topics : k \in ToSet(log[u])
    BY DEF Logged
  <2>2. \A k : k \in Logged' <=> \E u \in Topics : k \in ToSet(log'[u])
    BY DEF Logged
  <2> QED
    BY <1>6, <2>1, <2>2
<1>8. RecordCount' = RecordCount + 1
  <2>1. Len(log'[t]) = Len(log[t]) + 1
    BY <1>2, <1>3, AppendFacts
  <2>2. \A u \in Topics : Len(log[u]) \in Nat
    BY LenProperties DEF LogOK
  <2> QED
    BY <1>3, <2>1, <2>2, CountGrows
<1>9. \A k : k \in ToSet(log[TopicFor(k)]) \/ k = m => k \in ToSet(log'[TopicFor(k)])
  BY <1>1, <1>6, TopicFacts
<1>10. Len(Partition') >= Len(Partition) /\ \A i \in 1 .. Len(Partition) : Partition'[i] = Partition[i]
  <2>1. \A u \in Topics : Len(log[u]) \in Nat
    BY LenProperties DEF LogOK
  <2>2. CASE t = Subscription
    BY <1>2, <1>3, <2>2, AppendFacts DEF Partition
  <2>3. CASE t # Subscription
    BY <1>3, <2>1, <2>3, TopicFacts DEF Partition
  <2> QED
    BY <2>2, <2>3
<1> QED
  BY <1>5, <1>7, <1>8, <1>9, <1>10

-----------------------------------------------------------------------------
(* Frames                                                                  *)

\* Records that are added behind do not disturb the consumer.
LEMMA ConsumerKept ==
  ASSUME ConsumerOK, LogOK, UNCHANGED consumerVars,
         Len(Partition') \in Nat, Len(Partition') >= Len(Partition),
         \A i \in 1 .. Len(Partition) : Partition'[i] = Partition[i]
  PROVE  ConsumerOK'
<1>1. Len(Partition) \in Nat
  BY TopicFacts, LenProperties DEF LogOK, Partition
<1>2. /\ committed' = committed /\ pos' = pos /\ tries' = tries
      /\ handled' = handled /\ dlq' = dlq
  BY DEF consumerVars
<1>3. \A i \in 1 .. pos : Partition'[i] \in handled \cup dlq
  BY <1>1 DEF ConsumerOK
<1>4. pos \in 0 .. Len(Partition')
  BY <1>1 DEF ConsumerOK
<1> QED
  BY <1>2, <1>3, <1>4 DEF ConsumerOK

\* Steps of the relays that leave the topics alone.
LEMMA LogKept ==
  ASSUME LogOK, ConsumerOK, UNCHANGED <<log, consumerVars>>
  PROVE  /\ LogOK' /\ ConsumerOK' /\ Logged' = Logged /\ RecordCount' = RecordCount
         /\ \A k : k \in ToSet(log[TopicFor(k)]) => k \in ToSet(log'[TopicFor(k)])
<1>1. log' = log /\ UNCHANGED consumerVars
  OBVIOUS
<1>2. LogOK'
  BY <1>1 DEF LogOK
<1>3. ConsumerOK'
  BY <1>1 DEF ConsumerOK, consumerVars, Partition
<1>4. Logged' = Logged /\ RecordCount' = RecordCount
  BY <1>1 DEF Logged, RecordCount
<1> QED
  BY <1>1, <1>2, <1>3, <1>4

\* Another relay's batch.
OthersKeep(r) == \A s \in Relays \ {r} : batch'[s] = batch[s]

\* A relay whose rows are the same ones, or none, or are free, keeps the locks exclusive.
LEMMA ExclusiveKept ==
  ASSUME RelayOK, Exclusive, NEW r \in Relays, OthersKeep(r), published' = published,
         batch'[r].rows = batch[r].rows \/ Len(batch'[r].rows) = 0
           \/ \A i \in 1 .. Len(batch'[r].rows) :
                /\ batch'[r].rows[i] \notin published
                /\ \A s \in Relays : \A j \in 1 .. Len(batch[s].rows) :
                     batch'[r].rows[i] # batch[s].rows[j]
  PROVE  Exclusive'
<1>1. ASSUME NEW s \in Relays, NEW i \in 1 .. Len(batch'[s].rows)
      PROVE  batch'[s].rows[i] \notin published'
  BY <1>1 DEF Exclusive, OthersKeep
<1>2. ASSUME NEW s \in Relays, NEW u \in Relays, s # u,
             NEW i \in 1 .. Len(batch'[s].rows), NEW j \in 1 .. Len(batch'[u].rows)
      PROVE  batch'[s].rows[i] # batch'[u].rows[j]
  <2>1. CASE s # r /\ u # r
    BY <1>2, <2>1 DEF Exclusive, OthersKeep
  <2>2. CASE s = r
    <3>1. u # r /\ batch'[u] = batch[u]
      BY <1>2, <2>2 DEF OthersKeep
    <3>2. j \in 1 .. Len(batch[u].rows)
      BY <1>2, <3>1
    <3>3. CASE batch'[r].rows = batch[r].rows
      BY <1>2, <2>2, <3>1, <3>2, <3>3 DEF Exclusive
    <3>4. CASE Len(batch'[r].rows) = 0
      BY <1>2, <2>2, <3>4
    <3> QED
      BY <1>2, <2>2, <3>1, <3>2, <3>3, <3>4
  <2>3. CASE u = r
    <3>1. s # r /\ batch'[s] = batch[s]
      BY <1>2, <2>3 DEF OthersKeep
    <3>2. i \in 1 .. Len(batch[s].rows)
      BY <1>2, <3>1
    <3>3. CASE batch'[r].rows = batch[r].rows
      BY <1>2, <2>3, <3>1, <3>2, <3>3 DEF Exclusive
    <3>4. CASE Len(batch'[r].rows) = 0
      BY <1>2, <2>3, <3>4
    <3> QED
      BY <1>2, <2>3, <3>1, <3>2, <3>3, <3>4
  <2> QED
    BY <2>1, <2>2, <2>3
<1> QED
  BY <1>1, <1>2 DEF Exclusive

\* A batch publishes at most as many rows as it may hold.
LEMMA BatchLimit ==
  ASSUME NEW b \in Batch, BatchOK(b)
  PROVE  IsFiniteSet(b.ok) /\ Cardinality(b.ok) <= BatchSize /\ Cardinality(b.ok) \in Nat
<1>1. Len(b.rows) \in Nat
  BY LenProperties DEF Batch
<1>2. \A m \in b.ok : \E i \in 1 .. Len(b.rows) : m = b.rows[i]
  BY <1>1 DEF BatchOK, Batch
<1>3. PICK f : f = [m \in b.ok |-> CHOOSE i \in 1 .. Len(b.rows) : m = b.rows[i]]
  OBVIOUS
<1>4. \A m \in b.ok : f[m] \in 1 .. Len(b.rows) /\ m = b.rows[f[m]]
  BY <1>2, <1>3
<1>5. f \in Injection(b.ok, 1 .. Len(b.rows))
  <2>1. f \in [b.ok -> 1 .. Len(b.rows)] /\ DOMAIN f = b.ok
    BY <1>3, <1>4
  <2>2. \A m, k \in b.ok : f[m] = f[k] => m = k
    BY <1>4
  <2>3. IsInjective(f)
    BY <2>1, <2>2 DEF IsInjective
  <2> QED
    BY <2>1, <2>3 DEF Injection
<1>6. IsFiniteSet(1 .. Len(b.rows)) /\ Cardinality(1 .. Len(b.rows)) = Len(b.rows)
  BY <1>1, FS_Interval
<1>7. IsFiniteSet(b.ok) /\ Cardinality(b.ok) <= Len(b.rows) /\ Cardinality(b.ok) \in Nat
  BY <1>5, <1>6, FS_Injection, FS_CardinalityType
<1> QED
  BY <1>1, <1>7, BoundAssumption DEF BatchOK

\* A fault counts one up and pays for a whole batch.
LEMMA FaultOK ==
  ASSUME faults \in 0 .. MaxFaults, Fault
  PROVE  /\ faults' \in 0 .. MaxFaults /\ faults' = faults + 1
         /\ BatchSize * faults' = BatchSize * faults + BatchSize
         /\ BatchSize * faults \in Nat
<1>1. faults' = faults + 1 /\ faults \in Nat /\ BatchSize \in Nat /\ MaxFaults \in Nat
  BY BoundAssumption DEF Fault
<1>2. faults' \in 0 .. MaxFaults
  BY <1>1 DEF Fault
<1>3. BatchSize * (faults + 1) = BatchSize * faults + BatchSize /\ BatchSize * faults \in Nat
  BY <1>1
<1> QED
  BY <1>1, <1>2, <1>3

\* The row that a relay publishes next: it is not marked, and nobody has published it without a
\* fault since.
LEMMA NextRow ==
  ASSUME RelayOK, Exclusive, NEW r \in Relays,
         batch[r].next <= Len(batch[r].rows)
  PROVE  /\ batch[r].rows[batch[r].next] \in Rows
         /\ batch[r].rows[batch[r].next] \notin published
         /\ \A s \in Relays : batch[r].rows[batch[r].next] \notin batch[s].ok
         /\ batch[r].next \in 1 .. Len(batch[r].rows)
<1>1. batch[r] \in Batch /\ BatchOK(batch[r])
  BY DEF RelayOK
<1>2. Len(batch[r].rows) \in Nat /\ batch[r].next \in 1 .. Len(batch[r].rows)
  BY <1>1, LenProperties DEF Batch, BatchOK
<1>3. batch[r].rows[batch[r].next] \in Rows
  BY <1>1, <1>2, ElementOfSeq DEF Batch
<1>4. batch[r].rows[batch[r].next] \notin published
  BY <1>2 DEF Exclusive
<1>5. ASSUME NEW s \in Relays, batch[r].rows[batch[r].next] \in batch[s].ok
      PROVE  FALSE
  <2>1. batch[s] \in Batch /\ BatchOK(batch[s])
    BY DEF RelayOK
  <2>2. Len(batch[s].rows) \in Nat /\ batch[s].next \in 1 .. Len(batch[s].rows) + 1
    BY <2>1, LenProperties DEF Batch, BatchOK
  <2>3. PICK i \in 1 .. batch[s].next - 1 : batch[r].rows[batch[r].next] = batch[s].rows[i]
    BY <1>5, <2>1 DEF BatchOK
  <2>4. i \in 1 .. Len(batch[s].rows) /\ i < batch[s].next
    BY <2>2, <2>3
  <2>5. CASE s = r
    <3>1. i = batch[r].next
      BY <1>1, <1>2, <2>3, <2>4, <2>5 DEF BatchOK
    <3> QED
      BY <1>2, <2>4, <2>5, <3>1
  <2>6. CASE s # r
    BY <1>2, <2>3, <2>4, <2>6 DEF Exclusive
  <2> QED
    BY <2>5, <2>6
<1> QED
  BY <1>2, <1>3, <1>4, <1>5

\* A relay goes past the next row of its batch, and may have published it.
LEMMA BatchMoves ==
  ASSUME RelayOK, Exclusive, NEW r \in Relays, NEW m, m = batch[r].rows[batch[r].next],
         batch[r].next <= Len(batch[r].rows), published' = published,
         \/ batch' = [batch EXCEPT ![r].next = @ + 1, ![r].ok = @ \cup {m}]
         \/ batch' = [batch EXCEPT ![r].next = @ + 1]
  PROVE  /\ RelayOK' /\ Exclusive' /\ OthersKeep(r)
         /\ batch'[r].ok = batch[r].ok \cup {m} \/ batch'[r].ok = batch[r].ok
<1>1. PICK b : b = batch[r]
  OBVIOUS
<1>2. b \in Batch /\ BatchOK(b) /\ Len(b.rows) \in Nat
  BY <1>1, LenProperties DEF RelayOK, Batch
<1>3. m \in Rows /\ m = b.rows[b.next] /\ b.next \in 1 .. Len(b.rows)
  BY <1>1, NextRow
<1>4. PICK c : c = batch'[r]
  OBVIOUS
<1>5. /\ c \in Batch /\ batch' = [batch EXCEPT ![r] = c]
      /\ c.rows = b.rows /\ c.next = b.next + 1
      /\ c.ok = b.ok \cup {m} \/ c.ok = b.ok
  <2>1. CASE batch' = [batch EXCEPT ![r].next = @ + 1, ![r].ok = @ \cup {m}]
    <3>1. c = [[b EXCEPT !.next = @ + 1] EXCEPT !.ok = @ \cup {m}]
      BY <1>1, <1>2, <1>4, <2>1 DEF RelayOK, Batch
    <3>2. c \in Batch /\ c.rows = b.rows /\ c.next = b.next + 1 /\ c.ok = b.ok \cup {m}
      <4>1. PICK d : d = [b EXCEPT !.next = @ + 1]
        OBVIOUS
      <4>2. d \in Batch /\ d.rows = b.rows /\ d.next = b.next + 1 /\ d.ok = b.ok
        BY <1>2, <4>1 DEF Batch
      <4>3. c = [d EXCEPT !.ok = @ \cup {m}]
        BY <3>1, <4>1
      <4>4. d.ok \cup {m} \in SUBSET Rows
        BY <1>3, <4>2 DEF Batch
      <4> QED
        BY <4>2, <4>3, <4>4 DEF Batch
    <3> QED
      BY <1>4, <2>1, <3>2 DEF RelayOK
  <2>2. CASE batch' = [batch EXCEPT ![r].next = @ + 1]
    <3>1. c = [b EXCEPT !.next = @ + 1]
      BY <1>1, <1>4, <2>2 DEF RelayOK
    <3>2. c \in Batch /\ c.rows = b.rows /\ c.next = b.next + 1 /\ c.ok = b.ok
      BY <1>2, <1>3, <3>1 DEF Batch
    <3> QED
      BY <1>4, <2>2, <3>2 DEF RelayOK
  <2> QED
    BY <2>1, <2>2
<1>6. BatchOK(c)
  <2>1. c.next \in 1 .. Len(c.rows) + 1 /\ Len(c.rows) <= BatchSize
    BY <1>2, <1>3, <1>5 DEF BatchOK
  <2>2. \A i, j \in 1 .. Len(c.rows) : c.rows[i] = c.rows[j] => i = j
    BY <1>2, <1>5 DEF BatchOK
  <2>3. ASSUME NEW k \in c.ok
        PROVE  \E i \in 1 .. c.next - 1 : k = c.rows[i]
    <3>1. CASE k = m
      BY <1>3, <1>5, <3>1
    <3>2. CASE k # m
      BY <1>2, <1>3, <1>5, <2>3, <3>2 DEF BatchOK
    <3> QED
      BY <3>1, <3>2
  <2> QED
    BY <2>1, <2>2, <2>3 DEF BatchOK
<1>7. OthersKeep(r) /\ batch' \in [Relays -> Batch] /\ batch'[r] = c
  BY <1>5 DEF RelayOK, OthersKeep
<1>8. RelayOK'
  BY <1>6, <1>7 DEF RelayOK, OthersKeep
<1>9. Exclusive'
  BY <1>1, <1>5, <1>7, ExclusiveKept
<1> QED
  BY <1>1, <1>5, <1>7, <1>8, <1>9

\* PublishOk: a row that is in its topic already was paid for, a new one is no duplicate.
LEMMA PublishOkStep ==
  ASSUME IInv, NEW r \in Relays, PublishOk(r)
  PROVE  IInv'
<1>1. PICK m : m = batch[r].rows[batch[r].next]
  OBVIOUS
<1>2. /\ batch[r].next <= Len(batch[r].rows)
      /\ log' = [log EXCEPT ![TopicFor(m)] = Append(@, m)]
      /\ batch' = [batch EXCEPT ![r].next = @ + 1, ![r].ok = @ \cup {m}]
      /\ UNCHANGED <<written, published, consumerVars, faults>>
  BY <1>1 DEF PublishOk
<1>3. RelayOK /\ LogOK /\ Exclusive /\ HandedOver /\ ConsumerOK /\ Paid
  BY DEF IInv
<1>4. m \in Rows /\ m \notin published /\ \A s \in Relays : m \notin batch[s].ok
  BY <1>1, <1>2, <1>3, NextRow
<1>5. /\ LogOK' /\ Logged' = Logged \cup {m} /\ RecordCount' = RecordCount + 1
      /\ \A k : k \in ToSet(log[TopicFor(k)]) \/ k = m => k \in ToSet(log'[TopicFor(k)])
      /\ Len(Partition') >= Len(Partition)
      /\ \A i \in 1 .. Len(Partition) : Partition'[i] = Partition[i]
  BY <1>2, <1>3, <1>4, RecordAdded
<1>6. RelayOK' /\ Exclusive' /\ OthersKeep(r)
  BY <1>1, <1>2, <1>3, BatchMoves
<1>7. batch'[r].ok = batch[r].ok \cup {m}
  <2>1. batch[r] \in Batch
    BY <1>3 DEF RelayOK
  <2>2. batch'[r] = [[batch[r] EXCEPT !.next = @ + 1] EXCEPT !.ok = @ \cup {m}]
    BY <1>2, <1>3, <2>1 DEF RelayOK, Batch
  <2> QED
    BY <2>1, <2>2 DEF Batch
<1>8. HandedOver'
  BY <1>2, <1>3, <1>5, <1>6, <1>7 DEF HandedOver, InTopic, OthersKeep
<1>9. ConsumerOK'
  <2>1. Len(Partition') \in Nat
    BY <1>5, TopicFacts, LenProperties DEF LogOK, Partition
  <2> QED
    BY <1>2, <1>3, <1>5, <2>1, ConsumerKept
<1>10. Again' = Again \ {m} /\ (m \in Again <=> m \in Logged)
  <2>1. m \in Again <=> m \in Logged
    BY <1>4 DEF Again
  <2>2. ASSUME NEW k
        PROVE  k \in Again' <=> k \in Again \ {m}
    <3>1. k \in Again' <=> /\ k \in Logged \cup {m} /\ k \notin published
                            /\ \A s \in Relays : k \notin batch'[s].ok
      BY <1>2, <1>5 DEF Again
    <3>2. (\A s \in Relays : k \notin batch'[s].ok) <=> /\ k # m
                                                       /\ \A s \in Relays : k \notin batch[s].ok
      BY <1>6, <1>7 DEF OthersKeep
    <3> QED
      BY <3>1, <3>2 DEF Again
  <2> QED
    BY <2>1, <2>2
<1>11. Paid'
  <2>1. /\ IsFiniteSet(Logged) /\ IsFiniteSet(Again) /\ Cardinality(Logged) \in Nat
        /\ Cardinality(Again) \in Nat /\ RecordCount \in Nat
    BY <1>3, LoggedFacts
  <2>2. /\ Cardinality(Logged') = IF m \in Logged THEN Cardinality(Logged) ELSE Cardinality(Logged) + 1
        /\ Cardinality(Again') = IF m \in Logged THEN Cardinality(Again) - 1 ELSE Cardinality(Again)
    BY <1>5, <1>10, <2>1, FS_AddElement, FS_RemoveElement
  <2>3. PICK cost : cost = BatchSize * faults
    OBVIOUS
  <2>4. cost \in Nat /\ BatchSize * faults' = cost
    BY <1>2, <2>3, BoundAssumption DEF IInv
  <2>5. RecordCount + Cardinality(Again) <= Cardinality(Logged) + cost
    BY <1>3, <2>3 DEF Paid
  <2>6. RecordCount' + Cardinality(Again') <= Cardinality(Logged') + cost
    BY <1>5, <2>1, <2>2, <2>4, <2>5
  <2> QED
    BY <2>4, <2>6 DEF Paid
<1> QED
  BY <1>2, <1>5, <1>6, <1>8, <1>9, <1>11 DEF IInv

\* PublishError: the record that may have reached the broker is paid for by the fault.
LEMMA PublishErrorStep ==
  ASSUME IInv, NEW r \in Relays, PublishError(r)
  PROVE  IInv'
<1>1. PICK m : m = batch[r].rows[batch[r].next]
  OBVIOUS
<1>2. /\ batch[r].next <= Len(batch[r].rows) /\ Fault
      /\ log' = log \/ log' = [log EXCEPT ![TopicFor(m)] = Append(@, m)]
      /\ batch' = [batch EXCEPT ![r].next = @ + 1]
      /\ UNCHANGED <<written, published, consumerVars>>
  BY <1>1 DEF PublishError
<1>3. RelayOK /\ LogOK /\ Exclusive /\ HandedOver /\ ConsumerOK /\ Paid
  BY DEF IInv
<1>4. m \in Rows /\ m \notin published /\ \A s \in Relays : m \notin batch[s].ok
  BY <1>1, <1>2, <1>3, NextRow
<1>5. RelayOK' /\ Exclusive' /\ OthersKeep(r)
  BY <1>1, <1>2, <1>3, BatchMoves
<1>6. \A s \in Relays : batch'[s].ok = batch[s].ok
  <2>1. batch[r] \in Batch
    BY <1>3 DEF RelayOK
  <2>2. batch'[r] = [batch[r] EXCEPT !.next = @ + 1]
    BY <1>2, <1>3 DEF RelayOK
  <2>3. batch'[r].ok = batch[r].ok
    BY <2>1, <2>2 DEF Batch
  <2> QED
    BY <1>5, <2>3 DEF OthersKeep
<1>7. /\ LogOK' /\ ConsumerOK'
      /\ \A k : k \in ToSet(log[TopicFor(k)]) => k \in ToSet(log'[TopicFor(k)])
      /\ \/ Logged' = Logged /\ RecordCount' = RecordCount
         \/ Logged' = Logged \cup {m} /\ RecordCount' = RecordCount + 1
  <2>1. CASE log' = log
    BY <1>2, <1>3, <2>1, LogKept
  <2>2. CASE log' = [log EXCEPT ![TopicFor(m)] = Append(@, m)]
    <3>1. /\ LogOK' /\ Logged' = Logged \cup {m} /\ RecordCount' = RecordCount + 1
          /\ \A k : k \in ToSet(log[TopicFor(k)]) \/ k = m => k \in ToSet(log'[TopicFor(k)])
          /\ Len(Partition') >= Len(Partition)
          /\ \A i \in 1 .. Len(Partition) : Partition'[i] = Partition[i]
      BY <1>3, <1>4, <2>2, RecordAdded
    <3>2. Len(Partition') \in Nat
      BY <3>1, TopicFacts, LenProperties DEF LogOK, Partition
    <3>3. ConsumerOK'
      BY <1>2, <1>3, <3>1, <3>2, ConsumerKept
    <3> QED
      BY <3>1, <3>3
  <2> QED
    BY <1>2, <2>1, <2>2
<1>8. HandedOver'
  BY <1>2, <1>3, <1>6, <1>7 DEF HandedOver, InTopic
<1>9. \A k : k \in Again' <=> /\ k \in Logged' /\ k \notin published
                              /\ \A s \in Relays : k \notin batch[s].ok
  BY <1>2, <1>6 DEF Again
<1>10. faults' \in 0 .. MaxFaults
  BY <1>2, FaultOK DEF IInv
<1>11. Paid'
  <2>1. /\ IsFiniteSet(Logged) /\ IsFiniteSet(Again) /\ Cardinality(Logged) \in Nat
        /\ Cardinality(Again) \in Nat /\ RecordCount \in Nat
    BY <1>3, LoggedFacts
  <2>2. PICK cost : cost = BatchSize * faults
    OBVIOUS
  <2>3. cost \in Nat /\ BatchSize * faults' = cost + BatchSize /\ BatchSize \in Nat \ {0}
    BY <1>2, <2>2, FaultOK, BoundAssumption DEF IInv
  <2>4. RecordCount + Cardinality(Again) <= Cardinality(Logged) + cost
    BY <1>3, <2>2 DEF Paid
  <2>5. RecordCount' + Cardinality(Again') <= Cardinality(Logged') + (cost + BatchSize)
    <3>1. CASE Logged' = Logged /\ RecordCount' = RecordCount
      <4>1. Again' = Again
        BY <1>9, <3>1 DEF Again
      <4> QED
        BY <2>1, <2>3, <2>4, <3>1, <4>1
    <3>2. CASE Logged' = Logged \cup {m} /\ RecordCount' = RecordCount + 1
      <4>1. Again' = Again \cup {m} /\ (m \in Again <=> m \in Logged)
        BY <1>4, <1>9, <3>2 DEF Again
      <4>2. /\ Cardinality(Logged') = IF m \in Logged THEN Cardinality(Logged) ELSE Cardinality(Logged) + 1
            /\ Cardinality(Again') = IF m \in Logged THEN Cardinality(Again) ELSE Cardinality(Again) + 1
        BY <2>1, <3>2, <4>1, FS_AddElement
      <4> QED
        BY <2>1, <2>3, <2>4, <3>2, <4>2
    <3> QED
      BY <1>7, <3>1, <3>2
  <2> QED
    BY <2>3, <2>5 DEF Paid
<1> QED
  BY <1>2, <1>5, <1>7, <1>8, <1>10, <1>11 DEF IInv

\* The empty batch.
LEMMA NoBatchFacts ==
  /\ NoBatch \in Batch /\ BatchOK(NoBatch) /\ NoBatch.ok = {} /\ NoBatch.next = 1
  /\ NoBatch.rows = << >> /\ Len(NoBatch.rows) = 0
<1>1. /\ NoBatch.ok = {} /\ NoBatch.next = 1 /\ NoBatch.rows = << >>
      /\ << >> \in Seq(Rows) /\ Len(<< >>) = 0
  BY EmptySeq DEF NoBatch
<1>2. NoBatch \in Batch
  BY <1>1 DEF NoBatch, Batch
<1>3. BatchOK(NoBatch)
  BY <1>1, BoundAssumption DEF BatchOK
<1> QED
  BY <1>1, <1>2, <1>3

\* CommitBatch marks what is in its topic, and nothing else.
LEMMA CommitBatchStep ==
  ASSUME IInv, NEW r \in Relays, CommitBatch(r)
  PROVE  IInv'
<1>1. /\ published' = published \cup batch[r].ok /\ batch' = [batch EXCEPT ![r] = NoBatch]
      /\ UNCHANGED <<written, log, consumerVars, faults>>
  BY DEF CommitBatch
<1>2. RelayOK /\ LogOK /\ Exclusive /\ HandedOver /\ ConsumerOK /\ Paid
  BY DEF IInv
<1>3. batch[r] \in Batch /\ BatchOK(batch[r]) /\ batch[r].ok \subseteq Rows
  BY <1>2 DEF RelayOK, Batch
<1>4. OthersKeep(r) /\ batch'[r] = NoBatch /\ batch' \in [Relays -> Batch]
  BY <1>1, <1>2, NoBatchFacts DEF RelayOK, OthersKeep
<1>5. RelayOK'
  BY <1>1, <1>2, <1>3, <1>4, NoBatchFacts DEF RelayOK, OthersKeep
<1>6. /\ LogOK' /\ ConsumerOK' /\ Logged' = Logged /\ RecordCount' = RecordCount
      /\ \A k : k \in ToSet(log[TopicFor(k)]) => k \in ToSet(log'[TopicFor(k)])
  BY <1>1, <1>2, LogKept
<1>7. Exclusive'
  <2>1. ASSUME NEW s \in Relays, NEW i \in 1 .. Len(batch'[s].rows)
        PROVE  s # r /\ batch'[s] = batch[s]
    BY <1>4, <2>1, NoBatchFacts DEF OthersKeep
  <2>2. ASSUME NEW s \in Relays, NEW i \in 1 .. Len(batch'[s].rows)
        PROVE  batch'[s].rows[i] \notin published'
    <3>1. s # r /\ batch'[s] = batch[s] /\ batch[s].rows[i] \notin published
      BY <1>2, <2>1, <2>2 DEF Exclusive
    <3>2. ASSUME batch[s].rows[i] \in batch[r].ok
          PROVE  FALSE
      <4>1. Len(batch[r].rows) \in Nat
        BY <1>3, LenProperties DEF Batch
      <4>2. PICK j \in 1 .. batch[r].next - 1 : batch[s].rows[i] = batch[r].rows[j]
        BY <1>3, <3>2 DEF BatchOK
      <4>3. j \in 1 .. Len(batch[r].rows) /\ i \in 1 .. Len(batch[s].rows)
        BY <1>3, <2>2, <3>1, <4>1, <4>2 DEF BatchOK
      <4> QED
        BY <1>2, <3>1, <4>2, <4>3 DEF Exclusive
    <3> QED
      BY <1>1, <3>1, <3>2
  <2>3. ASSUME NEW s \in Relays, NEW u \in Relays, s # u,
               NEW i \in 1 .. Len(batch'[s].rows), NEW j \in 1 .. Len(batch'[u].rows)
        PROVE  batch'[s].rows[i] # batch'[u].rows[j]
    <3>1. batch'[s] = batch[s] /\ batch'[u] = batch[u]
      BY <2>1, <2>3
    <3> QED
      BY <1>2, <2>3, <3>1 DEF Exclusive
  <2> QED
    BY <2>2, <2>3 DEF Exclusive
<1>8. HandedOver'
  BY <1>1, <1>2, <1>4, <1>6, NoBatchFacts DEF HandedOver, InTopic, OthersKeep
<1>9. Again' = Again
  <2>1. ASSUME NEW k
        PROVE  k \in Again' <=> k \in Again
    <3>1. k \in Again' <=> /\ k \in Logged /\ k \notin published \cup batch[r].ok
                            /\ \A s \in Relays : k \notin batch'[s].ok
      BY <1>1, <1>6 DEF Again
    <3> QED
      BY <1>4, <3>1, NoBatchFacts DEF Again, OthersKeep
  <2> QED
    BY <2>1
<1>10. Paid'
  BY <1>1, <1>2, <1>6, <1>9 DEF Paid
<1> QED
  BY <1>1, <1>5, <1>6, <1>7, <1>8, <1>10 DEF IInv

\* AbortBatch: what the batch had published will be published again; the fault pays for as many
\* rows as a batch can hold.
LEMMA AbortBatchStep ==
  ASSUME IInv, NEW r \in Relays, AbortBatch(r)
  PROVE  IInv'
<1>1. /\ Fault /\ batch' = [batch EXCEPT ![r] = NoBatch] /\ published' = published
      /\ UNCHANGED <<written, log, consumerVars>>
  BY DEF AbortBatch
<1>2. RelayOK /\ LogOK /\ Exclusive /\ HandedOver /\ ConsumerOK /\ Paid
  BY DEF IInv
<1>3. OthersKeep(r) /\ batch'[r] = NoBatch /\ batch' \in [Relays -> Batch]
  BY <1>1, <1>2, NoBatchFacts DEF RelayOK, OthersKeep
<1>4. RelayOK'
  BY <1>1, <1>2, <1>3, NoBatchFacts DEF RelayOK, OthersKeep
<1>5. /\ LogOK' /\ ConsumerOK' /\ Logged' = Logged /\ RecordCount' = RecordCount
      /\ \A k : k \in ToSet(log[TopicFor(k)]) => k \in ToSet(log'[TopicFor(k)])
  BY <1>1, <1>2, LogKept
<1>6. Exclusive'
  BY <1>1, <1>2, <1>3, NoBatchFacts, ExclusiveKept
<1>7. HandedOver'
  BY <1>1, <1>2, <1>3, <1>5, NoBatchFacts DEF HandedOver, InTopic, OthersKeep
<1>8. Again' \subseteq Again \cup batch[r].ok
  BY <1>1, <1>3, <1>5 DEF Again, OthersKeep
<1>9. Paid'
  <2>1. /\ IsFiniteSet(Again) /\ Cardinality(Logged) \in Nat
        /\ Cardinality(Again) \in Nat /\ RecordCount \in Nat
    BY <1>2, LoggedFacts
  <2>2. PICK cost : cost = BatchSize * faults
    OBVIOUS
  <2>3. /\ cost \in Nat /\ BatchSize * faults' = cost + BatchSize
        /\ BatchSize \in Nat
    BY <1>1, <2>2, FaultOK, BoundAssumption DEF IInv
  <2>4. RecordCount + Cardinality(Again) <= Cardinality(Logged) + cost
    BY <1>2, <2>2 DEF Paid
  <2>5. /\ IsFiniteSet(batch[r].ok) /\ Cardinality(batch[r].ok) <= BatchSize
        /\ Cardinality(batch[r].ok) \in Nat
    BY <1>2, BatchLimit DEF RelayOK
  <2>6. PICK both : both = Again \cup batch[r].ok
    OBVIOUS
  <2>7. PICK over : over = Cardinality(Again \cap batch[r].ok)
    OBVIOUS
  <2>8. over \in Nat /\ IsFiniteSet(both)
        /\ Cardinality(both) = Cardinality(Again) + Cardinality(batch[r].ok) - over
    BY <2>1, <2>5, <2>6, <2>7, FS_Union, FS_Intersection, FS_CardinalityType
  <2>9. Cardinality(both) <= Cardinality(Again) + BatchSize /\ Cardinality(both) \in Nat
    BY <2>1, <2>3, <2>5, <2>8, FS_CardinalityType
  <2>10. Cardinality(Again') <= Cardinality(both) /\ Cardinality(Again') \in Nat
    BY <1>8, <2>6, <2>8, FS_Subset, FS_CardinalityType
  <2>11. RecordCount' + Cardinality(Again') <= Cardinality(Logged') + (cost + BatchSize)
    BY <1>5, <2>1, <2>3, <2>4, <2>9, <2>10
  <2> QED
    BY <2>3, <2>11 DEF Paid
<1>10. faults' \in 0 .. MaxFaults
  BY <1>1, FaultOK DEF IInv
<1> QED
  BY <1>1, <1>4, <1>5, <1>6, <1>7, <1>9, <1>10 DEF IInv

\* What the SELECT returns: rows that nobody has marked or locked, each once, at most LIMIT.
LEMMA SelectedRows ==
  ASSUME NEW free, free \subseteq Rows, NEW q \in SetToSeqs(free), NEW n,
         n = IF Len(q) < BatchSize THEN Len(q) ELSE BatchSize
  PROVE  /\ SubSeq(q, 1, n) \in Seq(Rows)
         /\ Len(SubSeq(q, 1, n)) = n /\ n \in Nat /\ n <= BatchSize
         /\ \A i \in 1 .. n : SubSeq(q, 1, n)[i] \in free
         /\ \A i, j \in 1 .. n : SubSeq(q, 1, n)[i] = SubSeq(q, 1, n)[j] => i = j
<1>1. IsFiniteSet(free) /\ Cardinality(free) \in Nat
  BY RowAssumption, FS_Subset, FS_CardinalityType
<1>2. PICK size \in Nat : size = Cardinality(free)
  BY <1>1
<1>3. q \in [1 .. size -> free] /\ \A i, j \in 1 .. size : i # j => q[i] # q[j]
  BY <1>2 DEF SetToSeqs
<1>4. q \in Seq(free) /\ Len(q) = size
  BY <1>2, <1>3
<1>5. n \in Nat /\ n <= size /\ n <= BatchSize
  BY <1>2, <1>4, BoundAssumption
<1>6. \A i \in 1 .. n : q[i] \in free /\ q[i] \in Rows /\ i \in 1 .. size
  BY <1>2, <1>3, <1>5
<1>7. /\ SubSeq(q, 1, n) \in Seq(Rows)
      /\ Len(SubSeq(q, 1, n)) = IF 1 <= n THEN n - 1 + 1 ELSE 0
      /\ \A i \in 1 .. n - 1 + 1 : SubSeq(q, 1, n)[i] = q[1 + i - 1]
  BY <1>5, <1>6, SubSeqProperties
<1>8. Len(SubSeq(q, 1, n)) = n
  BY <1>5, <1>7
<1>9. \A i \in 1 .. n : SubSeq(q, 1, n)[i] = q[i]
  <2>1. ASSUME NEW i \in 1 .. n
        PROVE  i \in 1 .. n - 1 + 1 /\ 1 + i - 1 = i
    BY <1>5
  <2> QED
    BY <1>7, <2>1
<1>10. \A i, j \in 1 .. n : SubSeq(q, 1, n)[i] = SubSeq(q, 1, n)[j] => i = j
  <2>1. ASSUME NEW i \in 1 .. n, NEW j \in 1 .. n, SubSeq(q, 1, n)[i] = SubSeq(q, 1, n)[j]
        PROVE  i = j
    <3>1. q[i] = q[j] /\ i \in 1 .. size /\ j \in 1 .. size
      BY <1>6, <1>9, <2>1
    <3> QED
      BY <1>3, <3>1
  <2> QED
    BY <2>1
<1> QED
  BY <1>5, <1>6, <1>7, <1>8, <1>9, <1>10

\* FetchUnpublished locks rows that nobody else has locked.
LEMMA FetchStep ==
  ASSUME IInv, NEW r \in Relays, FetchUnpublished(r)
  PROVE  IInv'
<1>1. PICK free : free = Unpublished \ Locked
  OBVIOUS
<1>2. PICK q \in SetToSeqs(free) :
        batch' = [batch EXCEPT ![r].rows = SubSeq(q, 1, IF Len(q) < BatchSize THEN Len(q)
                                                                            ELSE BatchSize)]
  BY <1>1 DEF FetchUnpublished
<1>3. PICK n : n = IF Len(q) < BatchSize THEN Len(q) ELSE BatchSize
  OBVIOUS
<1>4. PICK rows : rows = SubSeq(q, 1, n)
  OBVIOUS
<1>5. batch[r] = NoBatch /\ UNCHANGED <<written, published, log, consumerVars, faults>>
  BY DEF FetchUnpublished
<1>6. RelayOK /\ LogOK /\ Exclusive /\ HandedOver /\ ConsumerOK /\ Paid
  BY DEF IInv
<1>7. free \subseteq Rows /\ free \cap published = {}
  BY <1>1 DEF Unpublished
<1>8. \A s \in Relays : \A j \in 1 .. Len(batch[s].rows) : batch[s].rows[j] \notin free
  <2>1. ASSUME NEW s \in Relays, NEW j \in 1 .. Len(batch[s].rows)
        PROVE  batch[s].rows[j] \in Locked
    <3>1. DOMAIN batch[s].rows = 1 .. Len(batch[s].rows)
      BY <1>6, LenProperties DEF RelayOK, Batch
    <3>2. batch[s].rows[j] \in ToSet(batch[s].rows)
      BY <3>1 DEF ToSet
    <3> QED
      BY <3>2 DEF Locked
  <2> QED
    BY <1>1, <2>1
<1>9. /\ rows \in Seq(Rows) /\ Len(rows) = n /\ n \in Nat /\ n <= BatchSize
      /\ \A i \in 1 .. n : rows[i] \in free
      /\ \A i, j \in 1 .. n : rows[i] = rows[j] => i = j
  BY <1>3, <1>4, <1>7, SelectedRows
<1>10. PICK c : c = [NoBatch EXCEPT !.rows = rows]
  OBVIOUS
<1>11. c \in Batch /\ c.rows = rows /\ c.ok = {} /\ c.next = 1
  BY <1>9, <1>10, NoBatchFacts DEF Batch
<1>12. BatchOK(c)
  BY <1>9, <1>11 DEF BatchOK
<1>13. batch'[r] = c /\ OthersKeep(r) /\ batch' \in [Relays -> Batch]
  <2>1. batch' = [batch EXCEPT ![r].rows = rows]
    BY <1>2, <1>3, <1>4
  <2>2. batch'[r] = c /\ OthersKeep(r)
    BY <1>5, <1>6, <1>10, <2>1 DEF RelayOK, OthersKeep
  <2>3. batch' = [batch EXCEPT ![r] = c]
    BY <1>5, <1>10, <2>1
  <2> QED
    BY <1>6, <1>11, <2>2, <2>3 DEF RelayOK
<1>14. RelayOK'
  BY <1>5, <1>6, <1>12, <1>13 DEF RelayOK, OthersKeep
<1>15. Exclusive'
  <2>1. ASSUME NEW i \in 1 .. Len(batch'[r].rows)
        PROVE  /\ batch'[r].rows[i] \notin published
               /\ \A s \in Relays : \A j \in 1 .. Len(batch[s].rows) :
                    batch'[r].rows[i] # batch[s].rows[j]
    <3>1. batch'[r].rows[i] \in free
      BY <1>9, <1>11, <1>13, <2>1
    <3> QED
      BY <1>7, <1>8, <3>1
  <2>2. published' = published
    BY <1>5
  <2> QED
    BY <1>6, <1>13, <2>1, <2>2, ExclusiveKept
<1>16. \A s \in Relays : batch'[s].ok = batch[s].ok
  BY <1>5, <1>11, <1>13, NoBatchFacts DEF OthersKeep
<1>17. /\ LogOK' /\ ConsumerOK' /\ Logged' = Logged /\ RecordCount' = RecordCount
       /\ \A k : k \in ToSet(log[TopicFor(k)]) => k \in ToSet(log'[TopicFor(k)])
  BY <1>5, <1>6, LogKept
<1>18. HandedOver'
  BY <1>5, <1>6, <1>16, <1>17 DEF HandedOver, InTopic
<1>19. Paid'
  <2>1. Again' = Again
    BY <1>5, <1>16, <1>17 DEF Again
  <2> QED
    BY <1>5, <1>6, <1>17, <2>1 DEF Paid
<1> QED
  BY <1>5, <1>14, <1>15, <1>17, <1>18, <1>19 DEF IInv

\* The relays' part of the invariant is about the outbox and the topics only.
LEMMA RelayKept ==
  ASSUME RelayOK, LogOK, Exclusive, HandedOver, UNCHANGED <<published, batch, log>>
  PROVE  /\ RelayOK' /\ LogOK' /\ Exclusive' /\ HandedOver' /\ Again' = Again
         /\ Logged' = Logged /\ RecordCount' = RecordCount /\ Partition' = Partition
<1>1. RelayOK' /\ LogOK'
  BY DEF RelayOK, LogOK
<1>2. Exclusive'
  BY DEF Exclusive
<1>3. HandedOver'
  BY DEF HandedOver, InTopic
<1>4. Logged' = Logged /\ RecordCount' = RecordCount /\ Partition' = Partition
  BY DEF Logged, RecordCount, Partition
<1>5. Again' = Again
  BY <1>4 DEF Again
<1> QED
  BY <1>1, <1>2, <1>3, <1>4, <1>5

\* Faults of the consumer pay for nothing that is not paid for.
LEMMA PaidKept ==
  ASSUME IInv, Again' = Again, Logged' = Logged, RecordCount' = RecordCount,
         faults' = faults \/ Fault
  PROVE  Paid' /\ faults' \in 0 .. MaxFaults
<1>1. CASE faults' = faults
  BY <1>1 DEF IInv, Paid
<1>2. CASE Fault
  <2>1. PICK cost : cost = BatchSize * faults
    OBVIOUS
  <2>2. /\ cost \in Nat /\ BatchSize * faults' = cost + BatchSize /\ BatchSize \in Nat
        /\ faults' \in 0 .. MaxFaults
    BY <1>2, <2>1, FaultOK, BoundAssumption DEF IInv
  <2>3. Cardinality(Logged) \in Nat /\ Cardinality(Again) \in Nat /\ RecordCount \in Nat
    BY LoggedFacts DEF IInv
  <2>4. RecordCount + Cardinality(Again) <= Cardinality(Logged) + cost
    BY <2>1 DEF IInv, Paid
  <2>5. RecordCount' + Cardinality(Again') <= Cardinality(Logged') + (cost + BatchSize)
    BY <2>2, <2>3, <2>4
  <2> QED
    BY <2>2, <2>5 DEF Paid
<1> QED
  BY <1>1, <1>2

\* A record that is done: the position moves past it, the offset with it or not.
LEMMA RecordDone ==
  ASSUME LogOK, ConsumerOK, Polled, CommitRecord, UNCHANGED log,
         handled \subseteq handled', dlq \subseteq dlq',
         handled' \cup dlq' \subseteq handled \cup dlq \cup {Current},
         Current \in handled' \cup dlq'
  PROVE  ConsumerOK' /\ (faults' = faults \/ Fault)
<1>1. Partition' = Partition /\ Len(Partition) \in Nat /\ Partition \in Seq(Rows)
  BY TopicFacts, LenProperties DEF LogOK, Partition
<1>2. pos \in Nat /\ pos + 1 \in 1 .. Len(Partition) /\ committed \in 0 .. pos
  BY <1>1 DEF ConsumerOK, Polled
<1>3. Current \in Rows
  BY <1>1, <1>2, ElementOfSeq DEF Current
<1>4. /\ pos' = pos + 1 /\ tries' = 0 /\ committed' \in {pos + 1, committed}
      /\ faults' = faults \/ Fault
  BY DEF CommitRecord
<1>5. committed' \in 0 .. pos' /\ pos' \in 0 .. Len(Partition')
  BY <1>1, <1>2, <1>4
<1>6. tries' \in 0 .. MaxRetries + 1
  BY <1>4, BoundAssumption
<1>7. handled' \subseteq Rows /\ dlq' \subseteq Rows
  BY <1>3 DEF ConsumerOK
<1>8. ASSUME NEW i \in 1 .. pos'
      PROVE  Partition'[i] \in handled' \cup dlq'
  <2>1. CASE i = pos + 1
    BY <1>1, <2>1 DEF Current
  <2>2. CASE i # pos + 1
    <3>1. i \in 1 .. pos
      BY <1>2, <1>4, <1>8, <2>2
    <3> QED
      BY <1>1, <3>1 DEF ConsumerOK
  <2> QED
    BY <2>1, <2>2
<1> QED
  BY <1>4, <1>5, <1>6, <1>7, <1>8 DEF ConsumerOK

\* The steps of the consumer and the writing of a transaction.
LEMMA OtherSteps ==
  ASSUME IInv,
         \/ \E t \in Transactions : WriteTransaction(t)
         \/ HandleOk \/ HandleError \/ DeadLetter \/ Stop \/ Restart
  PROVE  IInv'
<1>1. UNCHANGED <<published, batch, log>>
  BY DEF WriteTransaction, HandleOk, HandleError, DeadLetter, Stop, Restart, relayVars
<1>2. RelayOK /\ LogOK /\ Exclusive /\ HandedOver /\ ConsumerOK /\ written \subseteq Transactions
  BY DEF IInv
<1>3. /\ RelayOK' /\ LogOK' /\ Exclusive' /\ HandedOver' /\ Again' = Again
      /\ Logged' = Logged /\ RecordCount' = RecordCount /\ Partition' = Partition
  BY <1>1, <1>2, RelayKept
<1>4. log' = log
  BY <1>1
<1>5. ConsumerOK' /\ (faults' = faults \/ Fault) /\ written' \subseteq Transactions
  <2>1. CASE \E t \in Transactions : WriteTransaction(t)
    BY <1>2, <1>3, <2>1 DEF WriteTransaction, consumerVars, ConsumerOK
  <2>2. CASE HandleOk
    BY <1>2, <1>4, <2>2, RecordDone DEF HandleOk
  <2>3. CASE DeadLetter
    BY <1>2, <1>4, <2>3, RecordDone DEF DeadLetter
  <2>4. CASE HandleError
    <3>1. tries' \in 0 .. MaxRetries + 1
      BY <1>2, <2>4, BoundAssumption DEF HandleError, ConsumerOK
    <3> QED
      BY <1>2, <1>3, <2>4, <3>1 DEF HandleError, ConsumerOK
  <2>5. CASE Stop \/ Restart
    <3>1. /\ pos' = committed /\ tries' = 0 /\ UNCHANGED <<written, committed, handled, dlq>>
          /\ faults' = faults \/ Fault
      BY <2>5 DEF Stop, Restart
    <3>2. Len(Partition) \in Nat
      BY <1>2, TopicFacts, LenProperties DEF LogOK, Partition
    <3>3. /\ committed' \in 0 .. pos' /\ pos' \in 0 .. Len(Partition')
          /\ tries' \in 0 .. MaxRetries + 1
      BY <1>2, <1>3, <3>1, <3>2, BoundAssumption DEF ConsumerOK
    <3>4. \A i \in 1 .. committed : i \in 1 .. pos
      BY <1>2, <3>2 DEF ConsumerOK
    <3> QED
      BY <1>2, <1>3, <3>1, <3>3, <3>4 DEF ConsumerOK
  <2> QED
    BY <2>1, <2>2, <2>3, <2>4, <2>5
<1>6. Paid' /\ faults' \in 0 .. MaxFaults
  BY <1>3, <1>5, PaidKept
<1> QED
  BY <1>3, <1>5, <1>6 DEF IInv

-----------------------------------------------------------------------------
(* The theorems                                                            *)

\* The invariant holds at the start.
LEMMA InitInv == Init => IInv
<1> SUFFICES ASSUME Init
             PROVE  IInv
  OBVIOUS
<1>1. << >> \in Seq(Rows) /\ Len(<< >>) = 0
  BY EmptySeq
<1>2. \A t \in Topics : log[t] = << >>
  BY DEF Init
<1>3. \A r \in Relays : batch[r] = NoBatch
  BY DEF Init
<1>4. RelayOK
  BY <1>3, NoBatchFacts DEF Init, RelayOK
<1>5. LogOK
  BY <1>1, <1>2 DEF Init, LogOK
<1>6. Exclusive
  BY <1>3, NoBatchFacts DEF Exclusive
<1>7. HandedOver
  BY <1>3, NoBatchFacts DEF Init, HandedOver
<1>8. Len(Partition) = 0
  BY <1>1, <1>2, TopicFacts DEF Partition
<1>9. ConsumerOK
  BY <1>8, BoundAssumption DEF Init, ConsumerOK
<1>10. Paid
  <2>1. Logged = {} /\ Again = {}
    <3>1. \A t \in Topics : ToSet(log[t]) = {}
      BY <1>2 DEF ToSet
    <3> QED
      BY <3>1 DEF Logged, Again
  <2>2. Cardinality(Logged) = 0 /\ Cardinality(Again) = 0
    BY <2>1, FS_EmptySet
  <2>3. Len(log["payment.events"]) = 0 /\ Len(log["refund.events"]) = 0
    BY <1>1, <1>2, TopicFacts
  <2>4. RecordCount = 0
    BY <2>3 DEF RecordCount
  <2>5. BatchSize * faults = 0
    BY BoundAssumption DEF Init
  <2> QED
    BY <2>2, <2>4, <2>5 DEF Paid
<1> QED
  BY <1>4, <1>5, <1>6, <1>7, <1>9, <1>10, BoundAssumption DEF IInv, Init

\* Every step keeps it.
LEMMA NextInv == IInv /\ [Next]_vars => IInv'
<1> SUFFICES ASSUME IInv, [Next]_vars
             PROVE  IInv'
  OBVIOUS
<1>1. CASE UNCHANGED vars
  <2>1. UNCHANGED <<published, batch, log>> /\ UNCHANGED <<log, consumerVars>> /\ UNCHANGED <<written, faults>>
    BY <1>1 DEF vars, consumerVars
  <2> QED
    BY <2>1, RelayKept, LogKept, PaidKept DEF IInv
<1>2. ASSUME NEW r \in Relays, Relay(r) \/ PublishError(r) \/ AbortBatch(r)
      PROVE  IInv'
  BY <1>2, FetchStep, PublishOkStep, CommitBatchStep, PublishErrorStep, AbortBatchStep DEF Relay
<1>3. CASE (\E t \in Transactions : WriteTransaction(t)) \/ Consume \/ Stop \/ Restart
  BY <1>3, OtherSteps DEF Consume
<1> QED
  BY <1>1, <1>2, <1>3 DEF Next

\* The invariant holds throughout.
LEMMA Inductive == Spec => []IInv
BY InitInv, NextInv, PTL DEF Spec

\* The outbox, the topics, the relays' batches and the consumer's position keep their shape; a
\* record is in the topic of its type only and the committed offset is never ahead of what was
\* polled.
THEOREM TypeCorrect == Spec => []TypeOK
<1>1. IInv => TypeOK
  <2> SUFFICES ASSUME IInv
               PROVE  TypeOK
    OBVIOUS
  <2>1. ASSUME NEW r \in Relays
        PROVE  /\ ToSet(batch[r].rows) \subseteq Rows
               /\ batch[r].ok \subseteq ToSet(batch[r].rows)
               /\ batch[r].next \in 1 .. Len(batch[r].rows) + 1
    <3>1. batch[r] \in Batch /\ BatchOK(batch[r])
      BY DEF IInv, RelayOK
    <3>2. /\ Len(batch[r].rows) \in Nat /\ DOMAIN batch[r].rows = 1 .. Len(batch[r].rows)
          /\ batch[r].rows \in [1 .. Len(batch[r].rows) -> Rows]
      BY <3>1, LenProperties DEF Batch
    <3>3. ToSet(batch[r].rows) \subseteq Rows
      BY <3>2 DEF ToSet
    <3>4. ASSUME NEW m \in batch[r].ok
          PROVE  m \in ToSet(batch[r].rows)
      <4>1. PICK i \in 1 .. batch[r].next - 1 : m = batch[r].rows[i]
        BY <3>1 DEF BatchOK
      <4>2. i \in DOMAIN batch[r].rows
        BY <3>1, <3>2, <4>1 DEF BatchOK
      <4> QED
        BY <4>1, <4>2 DEF ToSet
    <3> QED
      BY <3>1, <3>3, <3>4 DEF BatchOK
  <2> QED
    BY <2>1 DEF IInv, RelayOK, LogOK, ConsumerOK, TypeOK
<1> QED
  BY <1>1, Inductive, PTL

\* At least once, end to end: whatever relays, broker and consumers do wrong, a row marked
\* published is in its topic and a record below the committed offset was handled or dead-lettered.
THEOREM AtLeastOnce == Spec => []NothingLost
<1>1. IInv => NothingLost
  <2> SUFFICES ASSUME IInv
               PROVE  NothingLost
    OBVIOUS
  <2>1. \A m \in published : m \in ToSet(log[TopicFor(m)])
    BY DEF IInv, HandedOver, InTopic
  <2>2. \A i \in 1 .. committed : i \in 1 .. pos
    <3>1. Len(Partition) \in Nat
      BY TopicFacts, LenProperties DEF IInv, LogOK, Partition
    <3> QED
      BY <3>1 DEF IInv, ConsumerOK
  <2> QED
    BY <2>1, <2>2 DEF IInv, ConsumerOK, NothingLost
<1> QED
  BY <1>1, Inductive, PTL

\* FOR UPDATE SKIP LOCKED keeps any number of relays from publishing a row twice: each fault
\* accounts for at most one batch of duplicates.
THEOREM DuplicatesBounded == Spec => []DuplicatesNeedFaults
<1>1. IInv => DuplicatesNeedFaults
  <2> SUFFICES ASSUME IInv
               PROVE  DuplicatesNeedFaults
    OBVIOUS
  <2>1. Cardinality(Logged) \in Nat /\ Cardinality(Again) \in Nat /\ RecordCount \in Nat
    BY LoggedFacts DEF IInv
  <2>2. PICK cost : cost = BatchSize * faults
    OBVIOUS
  <2>3. cost \in Nat
    BY <2>2, BoundAssumption DEF IInv
  <2>4. RecordCount + Cardinality(Again) <= Cardinality(Logged) + cost
    BY <2>2 DEF IInv, Paid
  <2>5. RecordCount <= Cardinality(Logged) + cost
    BY <2>1, <2>3, <2>4
  <2> QED
    BY <2>2, <2>5 DEF DuplicatesNeedFaults, RecordCount, Logged
<1> QED
  BY <1>1, Inductive, PTL
=============================================================================
