------------------------ MODULE WebhookDeliveryProofs ------------------------
(***************************************************************************)
(* Theorems about WebhookDelivery, for every set of workers, deliveries    *)
(* and retries and every number of attempts.                               *)
(***************************************************************************)
EXTENDS WebhookDelivery, FiniteSetTheorems, TLAPS

-----------------------------------------------------------------------------
(* The inductive invariant                                                 *)

\* A row that may be claimed has an attempt left, and one in flight has used one.
RowOK(d) ==
  /\ d.status = "none" => d = NoDelivery
  /\ IsDue(d) => d.no < MaxAttempts
  /\ d.status = "in_flight" => d.no >= 1 /\ d.version >= 1

\* What Deliver may make of the delivery d that it has claimed, with its outcome.
Result(d, copy, out) ==
  \/ out # "none" /\ copy = ApplyOutcome(d, out)
  \/ out = "none" /\ (copy = Release(d) \/ copy = Cancel(d))

\* A worker before its request has the row, or an older version of it.
ClaimOK(c) ==
  c.pc \in {"lookup", "sending"} =>
    /\ c.copy.status = "in_flight" /\ c.copy.no >= 1 /\ c.copy.version >= 1
    /\ c.copy.version <= del[c.on].version
    /\ c.copy.version = del[c.on].version => c.copy = del[c.on]

\* A worker about to save has what it made of the row, or of an older version of it.
OutcomeOK(c) ==
  c.pc = "saving" =>
    /\ c.copy.version >= 2 /\ c.copy.version - 1 <= del[c.on].version
    /\ c.out # "none" => c.copy.no >= 1
    /\ c.copy.version - 1 = del[c.on].version =>
         del[c.on].status = "in_flight" /\ Result(del[c.on], c.copy, c.out)

WorkersOK ==
  \A w \in Workers :
    /\ worker[w].pc # "idle" => worker[w].on \in Deliveries
    /\ ClaimOK(worker[w]) /\ OutcomeOK(worker[w])

\* No two workers have claimed the same version of a delivery.
Fenced ==
  \A w, v \in Workers :
    (Holding(w) /\ Holding(v) /\ worker[w].on = worker[v].on /\ Held(w) = Held(v)) => w = v

\* A RetryDelivery call works on a delivery; it has the row, or an older version of it.
RetryOK(c) ==
  /\ c.pc \in {"loading", "resetting", "keeping"} => c.on \in Deliveries
  /\ c.pc = "resetting" =>
       /\ CanRetryManually(c.copy) /\ c.copy.version <= del[c.on].version
       /\ c.copy.version = del[c.on].version => c.copy = del[c.on]

IInv ==
  /\ TypeOK
  /\ \A d \in Deliveries : RowOK(del[d])
  /\ WorkersOK
  /\ Fenced
  /\ \A r \in Retriers : RetryOK(retry[r])

\* The workers that have claimed d and may still send, or give the attempt back.
Releasing(w) == worker[w].pc = "saving" /\ worker[w].out = "none" /\ worker[w].copy.status = "failed"
Owed(d) ==
  {w \in Workers : worker[w].on = d /\ (worker[w].pc \in {"lookup", "sending"} \/ Releasing(w))}

\* Every request, made or still to come, has its number in this round or is one of an earlier
\* round, of which there are as many as resets.
Budget ==
  \A d \in Deliveries :
    sent[d] + Cardinality(Owed(d)) <= MaxAttempts * resets[d] + del[d].no

-----------------------------------------------------------------------------
(* The delivery's commands                                                 *)

\* A status command moves the version by one and leaves the attempt number alone.
LEMMA ToFacts ==
  ASSUME NEW d \in DeliveryType, NEW status \in DeliveryStatus
  PROVE  /\ To(d, status) \in DeliveryType
         /\ To(d, status).status = status /\ To(d, status).no = d.no
         /\ To(d, status).version = d.version + 1
<1>1. d.version + 1 \in Nat
  BY DEF DeliveryType
<1>2. To(d, status) \in DeliveryType
  BY <1>1 DEF To, DeliveryType
<1>3. /\ To(d, status).status = status /\ To(d, status).no = d.no
      /\ To(d, status).version = d.version + 1
  BY DEF To, DeliveryType
<1> QED
  BY <1>2, <1>3

\* Claim, for a row that has an attempt left.
LEMMA ClaimedFacts ==
  ASSUME NEW d \in DeliveryType, d.no < MaxAttempts
  PROVE  /\ Claimed(d) \in DeliveryType /\ RowOK(Claimed(d))
         /\ Claimed(d).status = "in_flight" /\ Claimed(d).no = d.no + 1
         /\ Claimed(d).version = d.version + 1
<1>1. d.no \in 0 .. MaxAttempts /\ d.version \in Nat /\ MaxAttempts \in Nat
  BY WebhookAssumption DEF DeliveryType
<1>2. /\ To(d, "in_flight") \in DeliveryType /\ To(d, "in_flight").status = "in_flight"
      /\ To(d, "in_flight").no = d.no /\ To(d, "in_flight").version = d.version + 1
  BY ToFacts DEF DeliveryStatus
<1>3. d.no + 1 \in 0 .. MaxAttempts
  BY <1>1
<1>4. /\ Claimed(d) \in DeliveryType
      /\ Claimed(d).status = "in_flight" /\ Claimed(d).no = d.no + 1
      /\ Claimed(d).version = d.version + 1
  BY <1>2, <1>3 DEF Claimed, DeliveryType
<1> QED
  BY <1>1, <1>4 DEF RowOK, IsDue

\* Fail, as the reaper and the worker apply it: the last attempt ends in dead_letter.
LEMMA FailingFacts ==
  ASSUME NEW d \in DeliveryType
  PROVE  /\ Failing(d) \in DeliveryType /\ RowOK(Failing(d))
         /\ Failing(d).status \in {"failed", "dead_letter"} /\ Failing(d).no = d.no
         /\ Failing(d).version = d.version + 1
<1>1. d.no \in 0 .. MaxAttempts /\ MaxAttempts \in Nat
  BY WebhookAssumption DEF DeliveryType
<1>2. CASE GivenUp(d)
  BY <1>2, ToFacts DEF Failing, RowOK, IsDue, DeliveryStatus
<1>3. CASE ~GivenUp(d)
  BY <1>1, <1>3, ToFacts DEF Failing, GivenUp, RowOK, IsDue, DeliveryStatus
<1> QED
  BY <1>2, <1>3

\* Release, for a delivery whose attempt has been counted.
LEMMA ReleaseFacts ==
  ASSUME NEW d \in DeliveryType, d.no >= 1
  PROVE  /\ Release(d) \in DeliveryType /\ RowOK(Release(d))
         /\ Release(d).status = "failed" /\ Release(d).no = d.no - 1
         /\ Release(d).version = d.version + 1
<1>1. d.no \in 0 .. MaxAttempts /\ MaxAttempts \in Nat
  BY WebhookAssumption DEF DeliveryType
<1>2. /\ To(d, "failed") \in DeliveryType /\ To(d, "failed").status = "failed"
      /\ To(d, "failed").no = d.no /\ To(d, "failed").version = d.version + 1
  BY ToFacts DEF DeliveryStatus
<1>3. d.no - 1 \in 0 .. MaxAttempts /\ d.no > 0
  BY <1>1
<1>4. /\ Release(d) \in DeliveryType
      /\ Release(d).status = "failed" /\ Release(d).no = d.no - 1
      /\ Release(d).version = d.version + 1
  BY <1>2, <1>3 DEF Release, DeliveryType
<1> QED
  BY <1>1, <1>4 DEF RowOK

\* Cancel.
LEMMA CancelFacts ==
  ASSUME NEW d \in DeliveryType
  PROVE  /\ Cancel(d) \in DeliveryType /\ RowOK(Cancel(d))
         /\ Cancel(d).status = "canceled" /\ Cancel(d).no = d.no
         /\ Cancel(d).version = d.version + 1
BY ToFacts DEF Cancel, RowOK, IsDue, DeliveryStatus

\* ApplyOutcome: whatever the endpoint answered, the attempt keeps its number.
LEMMA OutcomeFacts ==
  ASSUME NEW d \in DeliveryType, NEW out \in {"ok", "gone", "error"}
  PROVE  /\ ApplyOutcome(d, out) \in DeliveryType /\ RowOK(ApplyOutcome(d, out))
         /\ ApplyOutcome(d, out).no = d.no
         /\ ApplyOutcome(d, out).version = d.version + 1
         /\ ApplyOutcome(d, out).status = "succeeded" <=> out = "ok"
         /\ ApplyOutcome(d, out).status # "in_flight"
<1>1. CASE out = "ok"
  BY <1>1, ToFacts DEF ApplyOutcome, RowOK, IsDue, DeliveryStatus
<1>2. CASE out = "gone"
  BY <1>2, ToFacts DEF ApplyOutcome, RowOK, IsDue, DeliveryStatus
<1>3. CASE out = "error"
  BY <1>3, FailingFacts DEF ApplyOutcome
<1> QED
  BY <1>1, <1>2, <1>3

\* ResetForRetry starts the numbers again.
LEMMA ResetFacts ==
  ASSUME NEW d \in DeliveryType
  PROVE  /\ ResetForRetry(d) \in DeliveryType /\ RowOK(ResetForRetry(d))
         /\ ResetForRetry(d).status = "pending" /\ ResetForRetry(d).no = 0
         /\ ResetForRetry(d).version = d.version + 1
<1>1. /\ To(d, "pending") \in DeliveryType /\ To(d, "pending").status = "pending"
      /\ To(d, "pending").version = d.version + 1
  BY ToFacts DEF DeliveryStatus
<1>2. 0 \in 0 .. MaxAttempts /\ 0 < MaxAttempts
  BY WebhookAssumption
<1>3. /\ ResetForRetry(d) \in DeliveryType
      /\ ResetForRetry(d).status = "pending" /\ ResetForRetry(d).no = 0
      /\ ResetForRetry(d).version = d.version + 1
  BY <1>1, <1>2 DEF ResetForRetry, DeliveryType
<1> QED
  BY <1>2, <1>3 DEF RowOK

\* What a worker saves: never in_flight, one version on, with the number it claimed unless it
\* gives it back.
LEMMA ResultFacts ==
  ASSUME NEW d \in DeliveryType, d.no >= 1, NEW copy,
         NEW out \in {"none", "ok", "gone", "error"}, Result(d, copy, out)
  PROVE  /\ copy \in DeliveryType /\ RowOK(copy)
         /\ copy.version = d.version + 1 /\ copy.status # "in_flight"
         /\ copy.no = IF out = "none" /\ copy.status = "failed" THEN d.no - 1 ELSE d.no
         /\ copy.status = "succeeded" <=> out = "ok"
<1>1. CASE out # "none"
  BY <1>1, OutcomeFacts DEF Result
<1>2. CASE out = "none" /\ copy = Release(d)
  BY <1>2, ReleaseFacts
<1>3. CASE out = "none" /\ copy = Cancel(d)
  BY <1>3, CancelFacts
<1> QED
  BY <1>1, <1>2, <1>3 DEF Result

\* The constants, the missing row and the idle goroutines.
LEMMA Constructors ==
  /\ MaxAttempts \in Nat /\ MaxAttempts >= 1
  /\ NoDelivery \in DeliveryType /\ RowOK(NoDelivery) /\ NoDelivery.version = 0
  /\ NoDelivery.no = 0 /\ NoDelivery.status = "none"
  /\ NewDelivery \in DeliveryType /\ RowOK(NewDelivery) /\ NewDelivery.version = 0
  /\ NewDelivery.no = 0 /\ NewDelivery.status = "pending"
  /\ Free.pc = "idle" /\ Asked.pc = "idle"
<1>1. MaxAttempts \in Nat /\ MaxAttempts >= 1 /\ 0 \in 0 .. MaxAttempts
  BY WebhookAssumption
<1>2. /\ NoDelivery \in DeliveryType /\ NoDelivery.version = 0
      /\ NoDelivery.no = 0 /\ NoDelivery.status = "none"
  BY <1>1 DEF NoDelivery, DeliveryType, DeliveryStatus
<1>3. /\ NewDelivery \in DeliveryType /\ NewDelivery.version = 0
      /\ NewDelivery.no = 0 /\ NewDelivery.status = "pending"
  BY <1>2 DEF NewDelivery, DeliveryType, DeliveryStatus
<1>4. RowOK(NoDelivery) /\ RowOK(NewDelivery)
  BY <1>1, <1>2, <1>3 DEF RowOK, IsDue
<1>5. Free.pc = "idle" /\ Asked.pc = "idle"
  BY DEF Free, Asked
<1> QED
  BY <1>1, <1>2, <1>3, <1>4, <1>5

-----------------------------------------------------------------------------
(* Steps                                                                   *)

WorkerType ==
  [pc : {"idle", "lookup", "sending", "saving", "gone"},
   on : Deliveries \cup {NoOne}, copy : DeliveryType,
   out : {"none", "ok", "gone", "error"}]

RetryType ==
  [pc : {"idle", "loading", "resetting", "keeping", "done"},
   on : Deliveries \cup {NoOne}, copy : DeliveryType]

\* What may happen to a row: nothing, its creation, or a change that moves its version.
Moves(d) ==
  \/ del'[d] = del[d]
  \/ del[d].status = "none" /\ del'[d] = NewDelivery
  \/ del[d].status # "none" /\ del'[d] \in DeliveryType /\ del'[d].version = del[d].version + 1

RowsMove ==
  \A d \in Deliveries : Moves(d) /\ del'[d] \in DeliveryType /\ RowOK(del'[d])

\* Held, of a worker's state.
HeldIn(c) == c.copy.version - (IF c.pc = "saving" THEN 1 ELSE 0)

\* When the rows move, what a goroutine has in hand becomes old, or is the row still.
LEMMA StillOK ==
  ASSUME IInv, RowsMove
  PROVE  /\ \A c \in WorkerType :
              (c.pc # "idle" => c.on \in Deliveries) /\ ClaimOK(c) /\ OutcomeOK(c) =>
                ClaimOK(c)' /\ OutcomeOK(c)'
         /\ \A c \in RetryType : RetryOK(c) => RetryOK(c)'
<1>0. \A d \in Deliveries :
        /\ del[d] \in DeliveryType /\ del'[d] \in DeliveryType
        /\ del[d].version \in Nat /\ del'[d].version \in Nat
        /\ del'[d].version >= del[d].version
        /\ del'[d].version = del[d].version =>
             del'[d] = del[d] \/ (del[d].status = "none" /\ del[d].version = 0)
  <2> TAKE d \in Deliveries
  <2>1. /\ del[d] \in DeliveryType /\ del'[d] \in DeliveryType
        /\ Moves(d) /\ RowOK(del[d])
    BY DEF RowsMove, IInv, TypeOK
  <2>2. del[d].version \in Nat /\ del'[d].version \in Nat
    BY <2>1 DEF DeliveryType
  <2> QED
    BY <2>1, <2>2, Constructors DEF Moves, RowOK
<1>1. ASSUME NEW c \in WorkerType, c.pc # "idle" => c.on \in Deliveries, ClaimOK(c), OutcomeOK(c)
      PROVE  ClaimOK(c)' /\ OutcomeOK(c)'
  <2>1. c.copy.version \in Nat
    BY DEF WorkerType, DeliveryType
  <2>2. ClaimOK(c)'
    BY <1>0, <1>1, <2>1 DEF ClaimOK
  <2>3. OutcomeOK(c)'
    BY <1>0, <1>1, <2>1 DEF OutcomeOK
  <2> QED
    BY <2>2, <2>3
<1>2. ASSUME NEW c \in RetryType, RetryOK(c)
      PROVE  RetryOK(c)'
  <2>1. c.copy.version \in Nat
    BY DEF RetryType, DeliveryType
  <2> QED
    BY <1>0, <1>2, <2>1 DEF RetryOK, CanRetryManually
<1> QED
  BY <1>1, <1>2

\* A step of one worker keeps the invariant if the worker's new state is in order and if what it
\* holds is what it held before, or newer than every row that anybody has read.
LEMMA WorkerKeeps ==
  ASSUME IInv, RowsMove, TypeOK', UNCHANGED retry, NEW w \in Workers, NEW c \in WorkerType,
         worker' = [worker EXCEPT ![w] = c],
         c.pc # "idle" => c.on \in Deliveries,
         ClaimOK(c)', OutcomeOK(c)',
         c.pc \in {"lookup", "sending", "saving"} =>
           \/ Holding(w) /\ c.on = worker[w].on /\ HeldIn(c) = Held(w)
           \/ HeldIn(c) > del[c.on].version
  PROVE  IInv'
<1>0. worker \in [Workers -> WorkerType] /\ retry \in [Retriers -> RetryType]
  BY DEF IInv, TypeOK, WorkerType, RetryType
<1>1. \A d \in Deliveries : RowOK(del[d])'
  BY DEF RowsMove, RowOK, IsDue
<1>2. \A r \in Retriers : RetryOK(retry[r])'
  BY <1>0, StillOK DEF IInv
<1>3. WorkersOK'
  <2> SUFFICES ASSUME NEW v \in Workers
               PROVE  /\ worker'[v].pc # "idle" => worker'[v].on \in Deliveries
                      /\ ClaimOK(worker[v])' /\ OutcomeOK(worker[v])'
    BY DEF WorkersOK
  <2>1. CASE v = w
    BY <1>0, <2>1
  <2>2. CASE v # w
    <3>1. worker'[v] = worker[v] /\ worker[v] \in WorkerType
      BY <1>0, <2>2
    <3>2. /\ worker[v].pc # "idle" => worker[v].on \in Deliveries
          /\ ClaimOK(worker[v]) /\ OutcomeOK(worker[v])
      BY DEF IInv, WorkersOK
    <3>3. PICK x \in WorkerType : x = worker[v] /\ x = worker'[v]
      BY <3>1
    <3>4. ClaimOK(x)' /\ OutcomeOK(x)'
      BY <3>2, <3>3, StillOK
    <3> QED
      BY <3>2, <3>3, <3>4 DEF ClaimOK, OutcomeOK
  <2> QED
    BY <2>1, <2>2
<1>4. Fenced'
  <2>1. \A v \in Workers : Holding(v) =>
          /\ Held(v) \in Int /\ worker[v].on \in Deliveries /\ del[worker[v].on].version \in Nat
          /\ Held(v) <= del[worker[v].on].version
    <3> SUFFICES ASSUME NEW v \in Workers, Holding(v)
                 PROVE  /\ Held(v) \in Int /\ worker[v].on \in Deliveries
                        /\ del[worker[v].on].version \in Nat
                        /\ Held(v) <= del[worker[v].on].version
      OBVIOUS
    <3>1. /\ worker[v] \in WorkerType /\ worker[v].on \in Deliveries
          /\ ClaimOK(worker[v]) /\ OutcomeOK(worker[v])
      BY <1>0 DEF IInv, WorkersOK, Holding
    <3>2. worker[v].copy.version \in Nat /\ del[worker[v].on].version \in Nat
      BY <3>1 DEF WorkerType, DeliveryType, IInv, TypeOK
    <3> QED
      BY <3>1, <3>2 DEF Holding, Held, ClaimOK, OutcomeOK
  <2>2. \A v \in Workers \ {w} : worker'[v] = worker[v] /\ (Holding(v)' <=> Holding(v)) /\ Held(v)' = Held(v)
    BY <1>0 DEF Holding, Held
  <2>3. /\ worker'[w] = c /\ Held(w)' = HeldIn(c)
        /\ Holding(w)' <=> c.pc \in {"lookup", "sending", "saving"}
    BY <1>0 DEF Holding, Held, HeldIn
  <2>4. HeldIn(c) \in Int
    BY DEF HeldIn, WorkerType, DeliveryType
  <2> QED
    BY <2>1, <2>2, <2>3, <2>4 DEF Fenced, IInv
<1> QED
  BY <1>1, <1>2, <1>3, <1>4 DEF IInv

\* A step of no worker, and of at most one RetryDelivery call, keeps it too.
LEMMA OthersKeep ==
  ASSUME IInv, RowsMove, TypeOK', UNCHANGED worker,
         \/ UNCHANGED retry
         \/ \E r \in Retriers : \E c \in RetryType : retry' = [retry EXCEPT ![r] = c] /\ RetryOK(c)'
  PROVE  IInv'
<1>0. worker \in [Workers -> WorkerType] /\ retry \in [Retriers -> RetryType]
  BY DEF IInv, TypeOK, WorkerType, RetryType
<1>1. \A d \in Deliveries : RowOK(del[d])'
  BY DEF RowsMove, RowOK, IsDue
<1>2. \A r \in Retriers : RetryOK(retry[r])'
  <2> SUFFICES ASSUME NEW r \in Retriers PROVE RetryOK(retry[r])'
    OBVIOUS
  <2>1. CASE retry'[r] = retry[r]
    BY <1>0, <2>1, StillOK DEF IInv, RetryOK
  <2>2. CASE retry'[r] # retry[r]
    BY <1>0, <2>2
  <2> QED
    BY <2>1, <2>2
<1>3. WorkersOK'
  BY <1>0, StillOK DEF IInv, WorkersOK
<1>4. Fenced'
  BY DEF IInv, Fenced, Holding, Held
<1> QED
  BY <1>1, <1>2, <1>3, <1>4 DEF IInv

\* The rows that do not change move.
LEMMA RowsStay ==
  ASSUME IInv, UNCHANGED del
  PROVE  RowsMove
BY DEF RowsMove, Moves, IInv, TypeOK

\* One row that moves is enough to look at.
LEMMA OneRowMoves ==
  ASSUME IInv, NEW d \in Deliveries, NEW row \in DeliveryType, RowOK(row),
         del' = [del EXCEPT ![d] = row],
         del[d].status # "none", row.version = del[d].version + 1
  PROVE  RowsMove
<1> SUFFICES ASSUME NEW x \in Deliveries
             PROVE  Moves(x) /\ del'[x] \in DeliveryType /\ RowOK(del'[x])
  BY DEF RowsMove
<1>1. CASE x = d
  BY <1>1 DEF Moves, IInv, TypeOK
<1>2. CASE x # d
  BY <1>2 DEF Moves, IInv, TypeOK
<1> QED
  BY <1>1, <1>2

\* IngestEvent: rows that did not exist are created.
LEMMA IngestStep ==
  ASSUME IInv, NEW ev \in Events, Ingest(ev)
  PROVE  IInv'
<1>1. UNCHANGED <<log, worker, retry, keys, errors, sent, resets>>
  BY DEF Ingest, ghosts, store
<1>2. RowsMove /\ processed' \subseteq Events
  <2>1. CASE AlreadyProcessed(ev)
    BY <2>1, RowsStay DEF Ingest, store, IInv, TypeOK
  <2>2. CASE ~AlreadyProcessed(ev)
    <3>1. PICK eps \in SUBSET Endpoints :
            /\ processed' = processed \cup {ev}
            /\ del' = [d \in Deliveries |->
                         IF d \in FanOut(ev, eps) /\ del[d].status = "none"
                           THEN NewDelivery ELSE del[d]]
      BY <2>2 DEF Ingest
    <3>2. \A d \in Deliveries : Moves(d) /\ del'[d] \in DeliveryType /\ RowOK(del'[d])
      BY <3>1, Constructors DEF Moves, IInv, TypeOK
    <3> QED
      BY <3>1, <3>2 DEF RowsMove, IInv, TypeOK
  <2> QED
    BY <2>1, <2>2
<1>3. del' \in [Deliveries -> DeliveryType]
  BY <1>2 DEF Ingest, store, IInv, TypeOK, RowsMove
<1>4. TypeOK'
  BY <1>1, <1>2, <1>3 DEF IInv, TypeOK
<1> QED
  BY <1>1, <1>2, <1>4, OthersKeep

\* ClaimDue: the worker has the newest version of the row, and the row an attempt less.
LEMMA ClaimStep ==
  ASSUME IInv, NEW w \in Workers, NEW d \in Deliveries, Claim(w, d)
  PROVE  IInv'
<1>0. PICK c : c = [pc |-> "lookup", on |-> d, copy |-> Claimed(del[d]), out |-> "none"]
  OBVIOUS
<1>1. del[d] \in DeliveryType /\ RowOK(del[d]) /\ IsDue(del[d]) /\ del[d].version \in Nat
  BY DEF Claim, IInv, TypeOK, DeliveryType
<1>2. /\ Claimed(del[d]) \in DeliveryType /\ RowOK(Claimed(del[d]))
      /\ Claimed(del[d]).status = "in_flight" /\ Claimed(del[d]).no = del[d].no + 1
      /\ Claimed(del[d]).version = del[d].version + 1
  BY <1>1, ClaimedFacts DEF RowOK
<1>3. /\ del' = [del EXCEPT ![d] = Claimed(del[d])] /\ worker' = [worker EXCEPT ![w] = c]
      /\ UNCHANGED <<log, processed, retry, keys, errors, sent, resets>>
  BY <1>0 DEF Claim, ghosts
<1>4. del[d].status # "none"
  BY <1>1 DEF IsDue
<1>5. RowsMove
  BY <1>2, <1>3, <1>4, OneRowMoves
<1>6. /\ c \in WorkerType /\ c.pc = "lookup" /\ c.on = d /\ c.copy = Claimed(del[d])
  BY <1>0, <1>2 DEF WorkerType
<1>7. del' \in [Deliveries -> DeliveryType] /\ del'[d] = Claimed(del[d])
  BY <1>2, <1>3 DEF IInv, TypeOK
<1>8. worker' \in [Workers -> WorkerType]
  BY <1>3, <1>6 DEF IInv, TypeOK, WorkerType
<1>9. TypeOK'
  BY <1>3, <1>7, <1>8 DEF IInv, TypeOK, WorkerType
<1>10. del[d].no \in Nat
  BY <1>1 DEF DeliveryType
<1>11. ClaimOK(c)' /\ OutcomeOK(c)'
  BY <1>1, <1>2, <1>6, <1>7, <1>10 DEF ClaimOK, OutcomeOK
<1>12. HeldIn(c) > del[c.on].version
  BY <1>1, <1>2, <1>6 DEF HeldIn
<1> QED
  BY <1>3, <1>5, <1>6, <1>9, <1>11, <1>12, WorkerKeeps

\* A command on the worker's copy: the worker holds what it held, one version on.
LEMMA CommandStep ==
  ASSUME IInv, NEW w \in Workers, NEW copy, NEW out \in {"none", "ok", "gone", "error"},
         worker[w].pc \in {"lookup", "sending"}, Result(worker[w].copy, copy, out),
         ToSave(w, copy, out), UNCHANGED <<store, retry, keys, resets>>,
         errors' \in 0 .. MaxLookupErrors, sent' \in [Deliveries -> Nat]
  PROVE  IInv'
<1>0. PICK c : c = [worker[w] EXCEPT !.pc = "saving", !.copy = copy, !.out = out]
  OBVIOUS
<1>1. /\ worker[w] \in WorkerType /\ worker[w].on \in Deliveries /\ ClaimOK(worker[w])
      /\ worker[w].copy \in DeliveryType
  BY DEF IInv, TypeOK, WorkerType, WorkersOK
<1>2. /\ worker[w].copy.no >= 1 /\ worker[w].copy.version \in Nat /\ worker[w].copy.no \in Nat
      /\ worker[w].copy.version >= 1
      /\ worker[w].copy.version <= del[worker[w].on].version
      /\ worker[w].copy.status = "in_flight"
      /\ worker[w].copy.version = del[worker[w].on].version => worker[w].copy = del[worker[w].on]
  BY <1>1 DEF ClaimOK, DeliveryType
<1>3. /\ copy \in DeliveryType /\ copy.version = worker[w].copy.version + 1
      /\ copy.no = IF out = "none" /\ copy.status = "failed"
                     THEN worker[w].copy.no - 1 ELSE worker[w].copy.no
  BY <1>1, <1>2, ResultFacts
<1>4. worker' = [worker EXCEPT ![w] = c]
  BY <1>0 DEF ToSave, IInv, TypeOK
<1>5. c \in WorkerType /\ c.pc = "saving" /\ c.on = worker[w].on /\ c.copy = copy /\ c.out = out
  BY <1>0, <1>1, <1>3 DEF WorkerType
<1>6. UNCHANGED <<del, log, processed, retry, keys, resets>>
  BY DEF store
<1>7. worker' \in [Workers -> WorkerType]
  BY <1>4, <1>5 DEF IInv, TypeOK, WorkerType
<1>8. TypeOK'
  BY <1>6, <1>7 DEF IInv, TypeOK, WorkerType
<1>9. OutcomeOK(c)' /\ ClaimOK(c)'
  BY <1>2, <1>3, <1>5, <1>6 DEF OutcomeOK, ClaimOK
<1>10. Holding(w) /\ HeldIn(c) = Held(w)
  BY <1>2, <1>3, <1>5 DEF Holding, HeldIn, Held
<1> QED
  BY <1>1, <1>4, <1>5, <1>6, <1>8, <1>9, <1>10, RowsStay, WorkerKeeps

\* The endpoint lookup and the request.
LEMMA DeliverStep ==
  ASSUME IInv, NEW w \in Workers, LookupFails(w) \/ Lookup(w) \/ Send(w)
  PROVE  IInv'
<1>0. /\ worker \in [Workers -> WorkerType] /\ errors \in 0 .. MaxLookupErrors
      /\ sent \in [Deliveries -> Nat] /\ MaxLookupErrors \in Nat
  BY WebhookAssumption DEF IInv, TypeOK, WorkerType
<1>1. CASE LookupFails(w)
  <2>1. errors' \in 0 .. MaxLookupErrors
    BY <1>0, <1>1 DEF LookupFails
  <2>2. Result(worker[w].copy, Release(worker[w].copy), "none")
    BY DEF Result
  <2> QED
    BY <1>0, <1>1, <2>1, <2>2, CommandStep DEF LookupFails, ghosts
<1>2. CASE Lookup(w) /\ ToSave(w, Cancel(worker[w].copy), "none")
  <2>1. Result(worker[w].copy, Cancel(worker[w].copy), "none")
    BY DEF Result
  <2> QED
    BY <1>0, <1>2, <2>1, CommandStep DEF Lookup, ghosts
<1>3. CASE Lookup(w) /\ worker' = [worker EXCEPT ![w].pc = "sending"]
  <2>0. PICK c : c = [worker[w] EXCEPT !.pc = "sending"]
    OBVIOUS
  <2>1. worker[w] \in WorkerType /\ worker[w].pc = "lookup" /\ worker[w].on \in Deliveries
        /\ ClaimOK(worker[w])
    BY <1>0, <1>3 DEF Lookup, IInv, WorkersOK
  <2>2. c \in WorkerType /\ c.pc = "sending" /\ c.on = worker[w].on /\ c.copy = worker[w].copy
    BY <2>0, <2>1 DEF WorkerType
  <2>3. UNCHANGED <<del, log, processed, retry, keys, errors, sent, resets>>
        /\ worker' = [worker EXCEPT ![w] = c]
    BY <1>0, <1>3, <2>0 DEF Lookup, store, ghosts
  <2>4. worker' \in [Workers -> WorkerType]
    BY <1>0, <2>2, <2>3
  <2>5. TypeOK'
    BY <2>3, <2>4 DEF IInv, TypeOK, WorkerType
  <2>6. ClaimOK(c)' /\ OutcomeOK(c)'
    BY <2>1, <2>2, <2>3 DEF ClaimOK, OutcomeOK
  <2>7. Holding(w) /\ HeldIn(c) = Held(w)
    BY <2>1, <2>2 DEF Holding, Held, HeldIn
  <2> QED
    BY <2>1, <2>2, <2>3, <2>5, <2>6, <2>7, RowsStay, WorkerKeeps
<1>4. CASE Send(w)
  <2>1. PICK out \in {"ok", "gone", "error"} :
          ToSave(w, ApplyOutcome(worker[w].copy, out), out)
    BY <1>4 DEF Send
  <2>2. Result(worker[w].copy, ApplyOutcome(worker[w].copy, out), out)
    BY <2>1 DEF Result
  <2>3. sent' \in [Deliveries -> Nat]
    BY <1>0, <1>4 DEF Send, IInv, WorkersOK
  <2> QED
    BY <1>0, <1>4, <2>1, <2>2, <2>3, CommandStep DEF Send
<1> QED
  BY <1>1, <1>2, <1>3, <1>4 DEF Lookup

\* A worker that is rid of its delivery, or has only the endpoint left to disable, holds nothing.
LEMMA LeaveStep ==
  ASSUME IInv, RowsMove, NEW w \in Workers,
         \/ worker' = [worker EXCEPT ![w] = Free]
         \/ worker[w].pc # "idle" /\ worker' = [worker EXCEPT ![w] = [@ EXCEPT !.pc = "gone"]],
         del' \in [Deliveries -> DeliveryType],
         log' \in [Deliveries -> SUBSET [no : 1 .. MaxAttempts, out : {"ok", "gone", "error"}]],
         UNCHANGED <<processed, retry, keys, errors, sent, resets>>
  PROVE  IInv'
<1>0. worker \in [Workers -> WorkerType]
  BY DEF IInv, TypeOK, WorkerType
<1>1. PICK c : /\ c = Free \/ (worker[w].pc # "idle" /\ c = [worker[w] EXCEPT !.pc = "gone"])
               /\ worker' = [worker EXCEPT ![w] = c]
  BY <1>0
<1>2. worker[w] \in WorkerType /\ (worker[w].pc # "idle" => worker[w].on \in Deliveries)
  BY <1>0 DEF IInv, WorkersOK
<1>3. CASE c = Free
  <2>1. c \in WorkerType /\ c.pc = "idle"
    BY <1>3, Constructors DEF Free, WorkerType
  <2>2. worker' \in [Workers -> WorkerType]
    BY <1>0, <1>1, <2>1
  <2>3. TypeOK'
    BY <2>2 DEF IInv, TypeOK, WorkerType
  <2>4. ClaimOK(c)' /\ OutcomeOK(c)'
    BY <2>1 DEF ClaimOK, OutcomeOK
  <2> QED
    BY <1>1, <2>1, <2>3, <2>4, WorkerKeeps
<1>4. CASE worker[w].pc # "idle" /\ c = [worker[w] EXCEPT !.pc = "gone"]
  <2>1. c \in WorkerType /\ c.pc = "gone" /\ c.on \in Deliveries
    BY <1>2, <1>4 DEF WorkerType
  <2>2. worker' \in [Workers -> WorkerType]
    BY <1>0, <1>1, <2>1
  <2>3. TypeOK'
    BY <2>2 DEF IInv, TypeOK, WorkerType
  <2>4. ClaimOK(c)' /\ OutcomeOK(c)'
    BY <2>1 DEF ClaimOK, OutcomeOK
  <2> QED
    BY <1>1, <2>1, <2>3, <2>4, WorkerKeeps
<1> QED
  BY <1>1, <1>3, <1>4

\* What a worker whose version still matches finds and writes.
LEMMA SaveEffect ==
  ASSUME IInv, NEW w \in Workers, worker[w].pc = "saving", CanSave(worker[w].on, worker[w].copy)
  PROVE  /\ worker[w].on \in Deliveries /\ worker[w].out \in {"none", "ok", "gone", "error"}
         /\ del[worker[w].on] \in DeliveryType /\ del[worker[w].on].no \in 1 .. MaxAttempts
         /\ del[worker[w].on].status = "in_flight"
         /\ Result(del[worker[w].on], worker[w].copy, worker[w].out)
         /\ worker[w].copy \in DeliveryType /\ RowOK(worker[w].copy)
         /\ worker[w].copy.version = del[worker[w].on].version + 1
<1>1. /\ worker[w] \in WorkerType /\ worker[w].on \in Deliveries /\ OutcomeOK(worker[w])
      /\ worker[w].copy \in DeliveryType /\ worker[w].out \in {"none", "ok", "gone", "error"}
  BY DEF IInv, TypeOK, WorkerType, WorkersOK
<1>2. /\ del[worker[w].on] \in DeliveryType /\ RowOK(del[worker[w].on])
      /\ del[worker[w].on].version \in Nat /\ worker[w].copy.version \in Nat
  BY <1>1 DEF IInv, TypeOK, DeliveryType
<1>3. /\ del[worker[w].on].status = "in_flight"
      /\ Result(del[worker[w].on], worker[w].copy, worker[w].out)
      /\ worker[w].copy.version = del[worker[w].on].version + 1
  BY <1>1, <1>2 DEF OutcomeOK, CanSave
<1>4. del[worker[w].on].no \in 1 .. MaxAttempts
  BY <1>2, <1>3, Constructors DEF RowOK, DeliveryType
<1>5. RowOK(worker[w].copy)
  BY <1>1, <1>2, <1>3, <1>4, ResultFacts
<1> QED
  BY <1>1, <1>2, <1>3, <1>4, <1>5

\* Save.
LEMMA SaveStep ==
  ASSUME IInv, NEW w \in Workers, Save(w)
  PROVE  IInv'
<1>0. /\ del \in [Deliveries -> DeliveryType]
      /\ log \in [Deliveries -> SUBSET [no : 1 .. MaxAttempts, out : {"ok", "gone", "error"}]]
      /\ worker \in [Workers -> WorkerType]
  BY DEF IInv, TypeOK, WorkerType
<1>1. /\ worker[w].pc = "saving"
      /\ \/ worker' = [worker EXCEPT ![w] = Free]
         \/ worker[w].pc # "idle" /\ worker' = [worker EXCEPT ![w] = [@ EXCEPT !.pc = "gone"]]
      /\ UNCHANGED <<processed, retry, keys, errors, sent, resets>>
  BY <1>0 DEF Save, ghosts
<1>2. CASE UNCHANGED <<del, log>>
  BY <1>0, <1>1, <1>2, RowsStay, LeaveStep
<1>3. CASE /\ CanSave(worker[w].on, worker[w].copy)
           /\ del' = [del EXCEPT ![worker[w].on] = worker[w].copy]
           /\ log' = [log EXCEPT ![worker[w].on] = Logged(@, worker[w].copy.no, worker[w].out)]
  <2>1. /\ worker[w].on \in Deliveries /\ worker[w].out \in {"none", "ok", "gone", "error"}
        /\ del[worker[w].on] \in DeliveryType
        /\ del[worker[w].on].status = "in_flight" /\ del[worker[w].on].no \in 1 .. MaxAttempts
        /\ Result(del[worker[w].on], worker[w].copy, worker[w].out)
        /\ worker[w].copy \in DeliveryType /\ RowOK(worker[w].copy)
        /\ worker[w].copy.version = del[worker[w].on].version + 1
    BY <1>1, <1>3, SaveEffect
  <2>2. RowsMove
    BY <1>3, <2>1, OneRowMoves
  <2>3. del' \in [Deliveries -> DeliveryType]
    BY <1>0, <1>3, <2>1
  <2>4. worker[w].out # "none" => worker[w].copy.no \in 1 .. MaxAttempts
    BY <2>1, ResultFacts
  <2>5. log' \in [Deliveries -> SUBSET [no : 1 .. MaxAttempts, out : {"ok", "gone", "error"}]]
    BY <1>0, <1>3, <2>1, <2>4 DEF Logged
  <2> QED
    BY <1>1, <2>2, <2>3, <2>5, LeaveStep
<1> QED
  BY <1>2, <1>3 DEF Save

\* disableEndpoint, and a worker that dies.
LEMMA GoneStep ==
  ASSUME IInv, NEW w \in Workers, DisableEndpoint(w) \/ WorkerCrash(w)
  PROVE  IInv'
<1>0. /\ del \in [Deliveries -> DeliveryType]
      /\ log \in [Deliveries -> SUBSET [no : 1 .. MaxAttempts, out : {"ok", "gone", "error"}]]
  BY DEF IInv, TypeOK
<1>1. /\ worker' = [worker EXCEPT ![w] = Free]
      /\ UNCHANGED <<log, processed, retry, keys, errors, sent, resets>>
  BY DEF DisableEndpoint, WorkerCrash, store, ghosts
<1>2. CASE UNCHANGED del
  BY <1>0, <1>1, <1>2, RowsStay, LeaveStep
<1>3. CASE del' = [d \in Deliveries |->
                     IF d[2] = worker[w].on[2] /\ del[d].status \in {"pending", "failed", "in_flight"}
                       THEN Cancel(del[d]) ELSE del[d]]
  <2>1. \A d \in Deliveries :
          /\ Cancel(del[d]) \in DeliveryType /\ RowOK(Cancel(del[d]))
          /\ Cancel(del[d]).version = del[d].version + 1
    BY <1>0, CancelFacts
  <2>2. \A d \in Deliveries : Moves(d) /\ del'[d] \in DeliveryType /\ RowOK(del'[d])
    BY <1>0, <1>3, <2>1 DEF Moves, IInv
  <2>3. RowsMove /\ del' \in [Deliveries -> DeliveryType]
    BY <1>3, <2>2 DEF RowsMove
  <2> QED
    BY <1>0, <1>1, <2>3, LeaveStep
<1> QED
  BY <1>2, <1>3 DEF DisableEndpoint, WorkerCrash, store

\* ReapStuck.
LEMMA ReapStep ==
  ASSUME IInv, NEW d \in Deliveries, Reap(d)
  PROVE  IInv'
<1>1. del[d] \in DeliveryType /\ del[d].status = "in_flight"
  BY DEF IInv, TypeOK, Reap
<1>2. /\ Failing(del[d]) \in DeliveryType /\ RowOK(Failing(del[d]))
      /\ Failing(del[d]).version = del[d].version + 1
  BY <1>1, FailingFacts
<1>3. RowsMove
  BY <1>1, <1>2, OneRowMoves DEF Reap
<1>4. del' \in [Deliveries -> DeliveryType]
  BY <1>2 DEF Reap, IInv, TypeOK
<1>5. TypeOK'
  BY <1>4 DEF Reap, IInv, TypeOK, ghosts
<1> QED
  BY <1>3, <1>5, OthersKeep DEF Reap

\* What a RetryDelivery call whose version still matches finds and writes.
LEMMA RetryEffect ==
  ASSUME IInv, NEW r \in Retriers, retry[r].pc = "resetting",
         CanSave(retry[r].on, ResetForRetry(retry[r].copy))
  PROVE  /\ retry[r].on \in Deliveries /\ retry[r].copy = del[retry[r].on]
         /\ retry[r].copy \in DeliveryType /\ CanRetryManually(del[retry[r].on])
<1>1. /\ retry[r].on \in Deliveries /\ RetryOK(retry[r]) /\ retry[r].copy \in DeliveryType
  BY DEF IInv, TypeOK, RetryOK
<1>2. /\ ResetForRetry(retry[r].copy).version = retry[r].copy.version + 1
      /\ retry[r].copy.version \in Nat /\ del[retry[r].on].version \in Nat
  BY <1>1, ResetFacts DEF DeliveryType, IInv, TypeOK
<1>3. del[retry[r].on].version = retry[r].copy.version
  BY <1>2 DEF CanSave
<1> QED
  BY <1>1, <1>3 DEF RetryOK

\* RetryDelivery.
LEMMA RetryInv ==
  ASSUME IInv, NEW r \in Retriers, RetryStep(r)
  PROVE  IInv'
<1>0. /\ retry \in [Retriers -> RetryType] /\ retry[r] \in RetryType /\ RetryOK(retry[r])
      /\ keys \in [RetryKeys -> Deliveries \cup {NoOne}] /\ RetryKey[r] \in RetryKeys
      /\ del \in [Deliveries -> DeliveryType] /\ resets \in [Deliveries -> Nat]
  BY WebhookAssumption DEF IInv, TypeOK, RetryType
<1>1. ASSUME NEW c \in RetryType, RetryOK(c), retry' = [retry EXCEPT ![r] = c],
             UNCHANGED <<del, log, processed, worker, errors, sent, resets>>,
             keys' \in [RetryKeys -> Deliveries \cup {NoOne}]
      PROVE  IInv'
  <2>1. retry' \in [Retriers -> RetryType]
    BY <1>0, <1>1
  <2>2. TypeOK'
    BY <1>1, <2>1 DEF IInv, TypeOK, RetryType
  <2>3. RetryOK(c)'
    BY <1>1, StillOK, RowsStay
  <2> QED
    BY <1>1, <2>2, <2>3, RowsStay, OthersKeep
<1>2. ASSUME NEW pc \in {"done", "keeping"},
             pc = "keeping" => retry[r].pc = "resetting"
      PROVE  LET c == [retry[r] EXCEPT !.pc = pc] IN c \in RetryType /\ RetryOK(c)
  BY <1>0, <1>2 DEF RetryType, RetryOK
<1>3. CASE RetryTo(r, "done") /\ UNCHANGED <<del, log, processed, worker, errors, sent, resets>>
           /\ keys' \in [RetryKeys -> Deliveries \cup {NoOne}]
  <2>1. retry' = [retry EXCEPT ![r] = [retry[r] EXCEPT !.pc = "done"]]
    BY <1>0, <1>3 DEF RetryTo
  <2> QED
    BY <1>1, <1>2, <1>3, <2>1
<1>4. CASE RetryCheck(r)
  <2>1. CASE RetryTo(r, "done")
    BY <1>0, <1>3, <1>4, <2>1 DEF RetryCheck, store, ghosts
  <2>2. CASE ~RetryTo(r, "done")
    <3>1. PICK d \in Deliveries : retry' = [retry EXCEPT ![r].pc = "loading", ![r].on = d]
      BY <1>4, <2>2 DEF RetryCheck
    <3>2. PICK c : c = [retry[r] EXCEPT !.pc = "loading", !.on = d]
      OBVIOUS
    <3>3. c \in RetryType /\ RetryOK(c)
      BY <1>0, <3>2 DEF RetryType, RetryOK
    <3>4. retry' = [retry EXCEPT ![r] = c]
      BY <1>0, <3>1, <3>2
    <3> QED
      BY <1>0, <1>1, <1>4, <3>3, <3>4 DEF RetryCheck, store, ghosts
  <2> QED
    BY <2>1, <2>2
<1>5. CASE RetryLoad(r)
  <2>1. CASE ~CanRetryManually(del[retry[r].on])
    BY <1>0, <1>3, <1>5, <2>1 DEF RetryLoad, store, ghosts
  <2>2. CASE CanRetryManually(del[retry[r].on])
    <3>1. retry[r].on \in Deliveries /\ del[retry[r].on] \in DeliveryType
      BY <1>0, <1>5 DEF RetryLoad, RetryOK
    <3>2. PICK c : c = [retry[r] EXCEPT !.pc = "resetting", !.copy = del[retry[r].on]]
      OBVIOUS
    <3>3. c \in RetryType /\ c.pc = "resetting" /\ c.on = retry[r].on /\ c.copy = del[retry[r].on]
      BY <1>0, <3>1, <3>2 DEF RetryType
    <3>4. del[retry[r].on].version \in Nat
      BY <3>1 DEF DeliveryType
    <3>5. RetryOK(c)
      BY <2>2, <3>1, <3>3, <3>4 DEF RetryOK
    <3>6. retry' = [retry EXCEPT ![r] = c]
      BY <1>0, <1>5, <2>2, <3>2 DEF RetryLoad
    <3> QED
      BY <1>0, <1>1, <1>5, <3>3, <3>5, <3>6 DEF RetryLoad, store, ghosts
  <2> QED
    BY <2>1, <2>2
<1>6. CASE RetrySave(r)
  <2>1. CASE RetryTo(r, "done") /\ UNCHANGED <<del, resets>>
    BY <1>0, <1>3, <1>6, <2>1 DEF RetrySave
  <2>2. CASE ~(RetryTo(r, "done") /\ UNCHANGED <<del, resets>>)
    <3> DEFINE row == ResetForRetry(retry[r].copy)
    <3>1. /\ retry[r].pc = "resetting" /\ CanSave(retry[r].on, row)
          /\ del' = [del EXCEPT ![retry[r].on] = row]
          /\ resets' = [resets EXCEPT ![retry[r].on] = @ + 1]
          /\ retry' = [retry EXCEPT ![r].pc = "keeping"]
          /\ UNCHANGED <<log, processed, worker, keys, errors, sent>>
      BY <1>6, <2>2 DEF RetrySave
    <3>2. /\ retry[r].on \in Deliveries /\ retry[r].copy = del[retry[r].on]
          /\ retry[r].copy \in DeliveryType /\ CanRetryManually(del[retry[r].on])
      BY <3>1, RetryEffect
    <3>3. row \in DeliveryType /\ RowOK(row) /\ row.version = del[retry[r].on].version + 1
      BY <3>2, ResetFacts
    <3>4. del[retry[r].on].status # "none"
      BY <3>2 DEF CanRetryManually
    <3> HIDE DEF row
    <3>5. RowsMove
      BY <3>1, <3>2, <3>3, <3>4, OneRowMoves
    <3>6. PICK c : c = [retry[r] EXCEPT !.pc = "keeping"]
      OBVIOUS
    <3>7. c \in RetryType /\ c.pc = "keeping" /\ c.on \in Deliveries
      BY <1>0, <3>2, <3>6 DEF RetryType
    <3>8. retry' = [retry EXCEPT ![r] = c]
      BY <1>0, <3>1, <3>6
    <3>9. /\ retry' \in [Retriers -> RetryType] /\ del' \in [Deliveries -> DeliveryType]
          /\ resets' \in [Deliveries -> Nat]
      BY <1>0, <3>1, <3>2, <3>3, <3>7, <3>8
    <3>10. TypeOK'
      BY <3>1, <3>9 DEF IInv, TypeOK, RetryType
    <3>11. RetryOK(c)'
      BY <3>7 DEF RetryOK
    <3> QED
      BY <3>1, <3>5, <3>7, <3>8, <3>10, <3>11, OthersKeep
  <2> QED
    BY <2>1, <2>2
<1>7. CASE RetryPut(r)
  <2>1. retry[r].on \in Deliveries
    BY <1>0, <1>7 DEF RetryPut, RetryOK
  <2>2. keys' \in [RetryKeys -> Deliveries \cup {NoOne}]
    BY <1>0, <1>7, <2>1 DEF RetryPut
  <2> QED
    BY <1>3, <1>7, <2>2 DEF RetryPut, store, ghosts
<1> QED
  BY <1>4, <1>5, <1>6, <1>7 DEF RetryStep

\* The invariant is inductive.
LEMMA NextInv == IInv /\ [Next]_vars => IInv'
<1> SUFFICES ASSUME IInv, [Next]_vars PROVE IInv'
  OBVIOUS
<1>1. CASE UNCHANGED vars
  <2>1. TypeOK'
    BY <1>1 DEF vars, IInv, TypeOK
  <2> QED
    BY <1>1, <2>1, RowsStay, OthersKeep DEF vars
<1>2. ASSUME NEW ev \in Events, Ingest(ev) PROVE IInv'
  BY <1>2, IngestStep
<1>3. ASSUME NEW w \in Workers, NEW d \in Deliveries, Claim(w, d) PROVE IInv'
  BY <1>3, ClaimStep
<1>4. ASSUME NEW w \in Workers, LookupFails(w) \/ WorkerStep(w) \/ WorkerCrash(w) PROVE IInv'
  BY <1>4, DeliverStep, SaveStep, GoneStep DEF WorkerStep
<1>5. ASSUME NEW d \in Deliveries, Reap(d) PROVE IInv'
  BY <1>5, ReapStep
<1>6. ASSUME NEW r \in Retriers, RetryStep(r) PROVE IInv'
  BY <1>6, RetryInv
<1> QED
  BY <1>1, <1>2, <1>3, <1>4, <1>5, <1>6 DEF Next

\* Before the first event there is nothing to deliver.
LEMMA InitInv == Init => IInv
<1> SUFFICES ASSUME Init PROVE IInv
  OBVIOUS
<1>1. Free \in WorkerType /\ Asked \in RetryType
  BY Constructors DEF Free, Asked, WorkerType, RetryType
<1>2. TypeOK
  BY <1>1, WebhookAssumption, Constructors DEF Init, TypeOK, WorkerType, RetryType
<1>3. \A d \in Deliveries : RowOK(del[d])
  BY Constructors DEF Init
<1>4. WorkersOK /\ Fenced
  BY Constructors DEF Init, WorkersOK, ClaimOK, OutcomeOK, Fenced, Holding
<1>5. \A r \in Retriers : RetryOK(retry[r])
  BY Constructors DEF Init, RetryOK
<1> QED
  BY <1>2, <1>3, <1>4, <1>5 DEF IInv

\* Every reachable state satisfies the inductive invariant.
LEMMA Inductive == Spec => []IInv
<1> QED
  BY InitInv, NextInv, PTL DEF Spec

\* The state of webhook-service is well typed: no goroutine works on a delivery that does not
\* exist, and attempt_no stays within MaxAttempts in every row and in every copy.
THEOREM TypeCorrect == Spec => []TypeOK
<1>1. IInv => TypeOK
  BY DEF IInv
<1> QED
  BY <1>1, Inductive, PTL

\* The version of the row fences workers off: of all those that claimed a delivery, at most one
\* can still save its outcome, and only while the row is in_flight with the attempt it claimed.
THEOREM Fencing == Spec => []OneHolder
<1>1. IInv => OneHolder
  <2> SUFFICES ASSUME IInv, NEW w \in Workers, Holding(w), Held(w) = del[worker[w].on].version
               PROVE  /\ del[worker[w].on].status = "in_flight"
                      /\ worker[w].pc # "saving" => worker[w].copy = del[worker[w].on]
                      /\ \A v \in Workers :
                           (Holding(v) /\ worker[v].on = worker[w].on /\ Held(v) = Held(w)) => v = w
    BY DEF OneHolder
  <2>1. /\ worker[w] \in WorkerType /\ ClaimOK(worker[w]) /\ OutcomeOK(worker[w])
    BY DEF IInv, TypeOK, WorkerType, WorkersOK
  <2>2. worker[w].copy.version \in Nat
    BY <2>1 DEF WorkerType, DeliveryType
  <2>3. /\ del[worker[w].on].status = "in_flight"
        /\ worker[w].pc # "saving" => worker[w].copy = del[worker[w].on]
    BY <2>1, <2>2 DEF Holding, Held, ClaimOK, OutcomeOK
  <2> QED
    BY <2>3 DEF IInv, Fenced
<1> QED
  BY <1>1, Inductive, PTL

-----------------------------------------------------------------------------
(* What may become of a delivery                                           *)

\* A row changes without an attempt being recorded: it is created, claimed, reaped or canceled.
Unlogged(d) ==
  \/ del'[d] = del[d]
  \/ del[d].status = "none" /\ del'[d] = NewDelivery
  \/ IsDue(del[d]) /\ del'[d] = Claimed(del[d])
  \/ del[d].status = "in_flight" /\ del'[d] = Failing(del[d])
  \/ del[d].status \in {"pending", "failed", "in_flight"} /\ del'[d] = Cancel(del[d])

\* The one worker that may saves its outcome, and the attempt with it.
Saved(d) ==
  /\ del[d].status = "in_flight"
  /\ \E out \in {"none", "ok", "gone", "error"} :
       /\ Result(del[d], del'[d], out)
       /\ log'[d] = Logged(log[d], del'[d].no, out)

\* Every step does one of these to a delivery, or reopens it for a manual retry.
LEMMA RowChange ==
  ASSUME IInv, [Next]_vars, NEW d \in Deliveries
  PROVE  \/ Unlogged(d) /\ log'[d] = log[d] /\ resets'[d] = resets[d]
         \/ Saved(d) /\ resets'[d] = resets[d]
         \/ /\ CanRetryManually(del[d]) /\ del'[d] = ResetForRetry(del[d])
            /\ resets'[d] = resets[d] + 1 /\ log'[d] = log[d]
<1>0. /\ del \in [Deliveries -> DeliveryType]
      /\ log \in [Deliveries -> SUBSET [no : 1 .. MaxAttempts, out : {"ok", "gone", "error"}]]
      /\ resets \in [Deliveries -> Nat]
  BY DEF IInv, TypeOK
<1>1. CASE UNCHANGED <<del, log, resets>>
  BY <1>1 DEF Unlogged
<1>2. ASSUME NEW ev \in Events, Ingest(ev)
      PROVE  Unlogged(d) /\ log'[d] = log[d] /\ resets'[d] = resets[d]
  BY <1>2 DEF Ingest, store, ghosts, Unlogged
<1>3. ASSUME NEW w \in Workers, NEW x \in Deliveries, Claim(w, x)
      PROVE  Unlogged(d) /\ log'[d] = log[d] /\ resets'[d] = resets[d]
  BY <1>0, <1>3 DEF Claim, ghosts, Unlogged
<1>4. ASSUME NEW w \in Workers, Save(w), ~UNCHANGED <<del, log>>
      PROVE  \/ Unlogged(d) /\ log'[d] = log[d] /\ resets'[d] = resets[d]
             \/ Saved(d) /\ resets'[d] = resets[d]
  <2>1. /\ worker[w].pc = "saving" /\ CanSave(worker[w].on, worker[w].copy)
        /\ del' = [del EXCEPT ![worker[w].on] = worker[w].copy]
        /\ log' = [log EXCEPT ![worker[w].on] = Logged(@, worker[w].copy.no, worker[w].out)]
        /\ UNCHANGED resets
    BY <1>4 DEF Save, ghosts
  <2>2. /\ worker[w].on \in Deliveries /\ worker[w].out \in {"none", "ok", "gone", "error"}
        /\ del[worker[w].on].status = "in_flight"
        /\ Result(del[worker[w].on], worker[w].copy, worker[w].out)
    BY <2>1, SaveEffect
  <2>3. CASE d = worker[w].on
    <3>1. del'[d] = worker[w].copy /\ log'[d] = Logged(log[d], worker[w].copy.no, worker[w].out)
      BY <1>0, <2>1, <2>2, <2>3
    <3> QED
      BY <2>1, <2>2, <2>3, <3>1 DEF Saved
  <2>4. CASE d # worker[w].on
    <3>1. del'[d] = del[d] /\ log'[d] = log[d]
      BY <1>0, <2>1, <2>4
    <3> QED
      BY <2>1, <3>1 DEF Unlogged
  <2> QED
    BY <2>3, <2>4
<1>5. ASSUME NEW w \in Workers, DisableEndpoint(w)
      PROVE  Unlogged(d) /\ log'[d] = log[d] /\ resets'[d] = resets[d]
  BY <1>0, <1>5 DEF DisableEndpoint, ghosts, Unlogged
<1>6. ASSUME NEW x \in Deliveries, Reap(x)
      PROVE  Unlogged(d) /\ log'[d] = log[d] /\ resets'[d] = resets[d]
  BY <1>0, <1>6 DEF Reap, ghosts, Unlogged
<1>7. ASSUME NEW r \in Retriers, RetrySave(r), ~UNCHANGED <<del, resets>>
      PROVE  \/ Unlogged(d) /\ log'[d] = log[d] /\ resets'[d] = resets[d]
             \/ /\ CanRetryManually(del[d]) /\ del'[d] = ResetForRetry(del[d])
                /\ resets'[d] = resets[d] + 1 /\ log'[d] = log[d]
  <2>1. /\ retry[r].pc = "resetting" /\ CanSave(retry[r].on, ResetForRetry(retry[r].copy))
        /\ del' = [del EXCEPT ![retry[r].on] = ResetForRetry(retry[r].copy)]
        /\ resets' = [resets EXCEPT ![retry[r].on] = @ + 1]
        /\ UNCHANGED log
    BY <1>7 DEF RetrySave
  <2>2. /\ retry[r].on \in Deliveries /\ retry[r].copy = del[retry[r].on]
        /\ CanRetryManually(del[retry[r].on])
    BY <2>1, RetryEffect
  <2>3. CASE d = retry[r].on
    BY <1>0, <2>1, <2>2, <2>3
  <2>4. CASE d # retry[r].on
    BY <1>0, <2>1, <2>4 DEF Unlogged
  <2> QED
    BY <2>3, <2>4
<1>8. \/ UNCHANGED <<del, log, resets>>
      \/ \E ev \in Events : Ingest(ev)
      \/ \E w \in Workers : DisableEndpoint(w) \/ \E x \in Deliveries : Claim(w, x)
      \/ \E w \in Workers : Save(w) /\ ~UNCHANGED <<del, log>>
      \/ \E x \in Deliveries : Reap(x)
      \/ \E r \in Retriers : RetrySave(r) /\ ~UNCHANGED <<del, resets>>
  BY DEF Next, vars, store, ghosts, WorkerStep, RetryStep, LookupFails, Lookup, Send, WorkerCrash,
         RetryCheck, RetryLoad, RetryPut, Save, RetrySave
<1> QED
  BY <1>1, <1>2, <1>3, <1>4, <1>5, <1>6, <1>7, <1>8

\* A canceled delivery stays canceled and a succeeded or dead_letter one is reopened by
\* RetryDelivery only, and as a whole: late workers and reapers never touch it.
THEOREM FinalStays == Spec => FinalUntilRetried
<1>1. ASSUME IInv, [Next]_vars, NEW d \in Deliveries, IsTerminal(del[d]), del'[d] # del[d]
      PROVE  del[d].status # "canceled" /\ del'[d] = ResetForRetry(del[d])
  BY <1>1, RowChange DEF Unlogged, Saved, IsTerminal, IsDue, CanRetryManually
<1>2. IInv /\ [Next]_vars =>
        [\A d \in Deliveries :
           (IsTerminal(del[d]) /\ del'[d] # del[d]) =>
             del[d].status # "canceled" /\ del'[d] = ResetForRetry(del[d])]_vars
  BY <1>1
<1> QED
  BY <1>2, Inductive, PTL DEF Spec, FinalUntilRetried

\* The attempts table keeps explaining the row through every change of it.
LEMMA LogStep ==
  ASSUME IInv, LogExplainsStatus, [Next]_vars
  PROVE  LogExplainsStatus'
<1> SUFFICES ASSUME NEW d \in Deliveries, resets'[d] = 0
             PROVE  /\ \A a, b \in log'[d] : a.no = b.no => a = b
                    /\ \A a \in log'[d] : a.no <= del'[d].no
                    /\ del'[d].status = "in_flight" => \A a \in log'[d] : a.no < del'[d].no
                    /\ \A a \in log'[d] :
                         a.out = "ok" <=> (del'[d].status = "succeeded" /\ a.no = del'[d].no)
                    /\ del'[d].status = "succeeded" => \E a \in log'[d] : a.no = del'[d].no
  BY DEF LogExplainsStatus
<1>0. /\ del[d] \in DeliveryType /\ RowOK(del[d]) /\ resets[d] \in Nat
      /\ log[d] \subseteq [no : 1 .. MaxAttempts, out : {"ok", "gone", "error"}]
      /\ del[d].no \in 0 .. MaxAttempts /\ MaxAttempts \in Nat
  BY WebhookAssumption DEF IInv, TypeOK, DeliveryType
<1>1. resets[d] = 0 /\ ((Unlogged(d) /\ log'[d] = log[d]) \/ Saved(d))
  BY <1>0, RowChange
<1>2. /\ \A a, b \in log[d] : a.no = b.no => a = b
      /\ \A a \in log[d] : a.no <= del[d].no
      /\ del[d].status = "in_flight" => \A a \in log[d] : a.no < del[d].no
      /\ \A a \in log[d] : a.out = "ok" <=> (del[d].status = "succeeded" /\ a.no = del[d].no)
      /\ del[d].status = "succeeded" => \E a \in log[d] : a.no = del[d].no
      /\ \A a \in log[d] : a.no \in Nat
  BY <1>0, <1>1 DEF LogExplainsStatus
<1>3. CASE Unlogged(d) /\ log'[d] = log[d]
  <2>1. CASE del'[d] = del[d]
    BY <1>2, <1>3, <2>1
  <2>2. CASE del[d].status = "none" /\ del'[d] = NewDelivery
    BY <1>0, <1>2, <1>3, <2>2, Constructors DEF RowOK
  <2>3. CASE IsDue(del[d]) /\ del'[d] = Claimed(del[d])
    <3>1. del'[d].status = "in_flight" /\ del'[d].no = del[d].no + 1
      BY <1>0, <2>3, ClaimedFacts DEF RowOK
    <3>2. del[d].status # "succeeded"
      BY <2>3 DEF IsDue
    <3> QED
      BY <1>0, <1>2, <1>3, <3>1, <3>2
  <2>4. CASE del[d].status = "in_flight" /\ del'[d] = Failing(del[d])
    <3>1. del'[d].status \in {"failed", "dead_letter"} /\ del'[d].no = del[d].no
      BY <1>0, <2>4, FailingFacts
    <3> QED
      BY <1>2, <1>3, <2>4, <3>1
  <2>5. CASE del[d].status \in {"pending", "failed", "in_flight"} /\ del'[d] = Cancel(del[d])
    <3>1. del'[d].status = "canceled" /\ del'[d].no = del[d].no
      BY <1>0, <2>5, CancelFacts
    <3> QED
      BY <1>2, <1>3, <2>5, <3>1
  <2> QED
    BY <1>3, <2>1, <2>2, <2>3, <2>4, <2>5 DEF Unlogged
<1>4. CASE Saved(d)
  <2>1. PICK out \in {"none", "ok", "gone", "error"} :
          Result(del[d], del'[d], out) /\ log'[d] = Logged(log[d], del'[d].no, out)
    BY <1>4 DEF Saved
  <2>2. del[d].status = "in_flight" /\ del[d].no >= 1
    BY <1>0, <1>4 DEF Saved, RowOK
  <2>3. /\ del'[d].status # "in_flight"
        /\ del'[d].no = IF out = "none" /\ del'[d].status = "failed" THEN del[d].no - 1 ELSE del[d].no
        /\ del'[d].status = "succeeded" <=> out = "ok"
    BY <1>0, <2>1, <2>2, ResultFacts
  <2>4. CASE out = "none"
    <3>1. log'[d] = log[d]
      BY <2>1, <2>4 DEF Logged
    <3> QED
      BY <1>0, <1>2, <2>2, <2>3, <2>4, <3>1
  <2>5. CASE out # "none"
    <3>1. log'[d] = log[d] \cup {[no |-> del[d].no, out |-> out]}
      BY <1>0, <1>2, <2>1, <2>2, <2>3, <2>5 DEF Logged
    <3>2. PICK new : new = [no |-> del[d].no, out |-> out]
      OBVIOUS
    <3>3. new.no = del[d].no /\ new.out = out /\ log'[d] = log[d] \cup {new}
      BY <3>1, <3>2
    <3>4. del'[d].no = del[d].no
      BY <2>3, <2>5
    <3>5. \A a \in log'[d] : a = new \/ (a \in log[d] /\ a.no < del[d].no /\ a.out # "ok" /\ a.no # new.no)
      BY <1>0, <1>2, <2>2, <3>3
    <3>6. \A a, b \in log'[d] : a.no = b.no => a = b
      BY <1>2, <3>5
    <3>7. \A a \in log'[d] : a.no <= del'[d].no
      BY <1>0, <1>2, <3>3, <3>4, <3>5
    <3>8. \A a \in log'[d] : a.out = "ok" <=> (del'[d].status = "succeeded" /\ a.no = del'[d].no)
      BY <1>0, <1>2, <2>3, <3>3, <3>4, <3>5
    <3>9. \E a \in log'[d] : a.no = del'[d].no
      BY <3>3, <3>4
    <3> QED
      BY <2>3, <3>6, <3>7, <3>8, <3>9
  <2> QED
    BY <2>4, <2>5
<1> QED
  BY <1>1, <1>3, <1>4

\* Until it is retried by hand, the attempts table explains the delivery: one row per number, no
\* number that was not claimed, and a success that is the last of them.
THEOREM LogExplains == Spec => []LogExplainsStatus
<1>1. Init => LogExplainsStatus
  BY Constructors DEF Init, LogExplainsStatus
<1>2. IInv /\ LogExplainsStatus /\ [Next]_vars => LogExplainsStatus'
  BY LogStep
<1> QED
  BY <1>1, <1>2, Inductive, PTL DEF Spec

-----------------------------------------------------------------------------
(* The attempt budget                                                      *)

\* Counting the workers that are owed a request.
LEMMA Counting ==
  ASSUME NEW S \in SUBSET Workers, NEW T \in SUBSET Workers
  PROVE  /\ Cardinality(S) \in Nat /\ Cardinality(T) \in Nat
         /\ T \subseteq S => Cardinality(T) <= Cardinality(S)
         /\ \A w \in Workers : T \subseteq S \cup {w} => Cardinality(T) <= Cardinality(S) + 1
         /\ \A w \in S : T \subseteq S \ {w} => Cardinality(T) <= Cardinality(S) - 1
<1>1. IsFiniteSet(S) /\ IsFiniteSet(T)
  BY WebhookAssumption, FS_Subset
<1>2. Cardinality(S) \in Nat /\ Cardinality(T) \in Nat
  BY <1>1, FS_CardinalityType
<1>3. T \subseteq S => Cardinality(T) <= Cardinality(S)
  BY <1>1, FS_Subset
<1>4. ASSUME NEW w \in Workers, T \subseteq S \cup {w}
      PROVE  Cardinality(T) <= Cardinality(S) + 1
  <2>1. /\ IsFiniteSet(S \cup {w})
        /\ Cardinality(S \cup {w}) = IF w \in S THEN Cardinality(S) ELSE Cardinality(S) + 1
    BY <1>1, FS_AddElement
  <2>2. Cardinality(T) <= Cardinality(S \cup {w})
    BY <1>4, <2>1, FS_Subset
  <2> QED
    BY <1>2, <2>1, <2>2
<1>5. ASSUME NEW w \in S, T \subseteq S \ {w}
      PROVE  Cardinality(T) <= Cardinality(S) - 1
  <2>1. IsFiniteSet(S \ {w}) /\ Cardinality(S \ {w}) = Cardinality(S) - 1
    BY <1>1, <1>5, FS_RemoveElement
  <2>2. Cardinality(T) <= Cardinality(S \ {w})
    BY <1>5, <2>1, FS_Subset
  <2> QED
    BY <1>2, <2>1, <2>2
<1> QED
  BY <1>2, <1>3, <1>4, <1>5

\* What one step does to the requests made for d, the workers that still owe one, and the number.
BudgetKept(d) ==
  \/ /\ Owed(d)' \subseteq Owed(d) /\ sent'[d] = sent[d]
     /\ del'[d].no = del[d].no /\ resets'[d] = resets[d]
  \/ \E w \in Workers :
       /\ Owed(d)' \subseteq Owed(d) \cup {w} /\ sent'[d] = sent[d]
       /\ del'[d].no = del[d].no + 1 /\ resets'[d] = resets[d]
  \/ \E w \in Owed(d) :
       /\ Owed(d)' \subseteq Owed(d) \ {w} /\ resets'[d] = resets[d]
       /\ \/ sent'[d] = sent[d] + 1 /\ del'[d].no = del[d].no
          \/ sent'[d] = sent[d] /\ del'[d].no = del[d].no - 1
  \/ /\ Owed(d)' \subseteq Owed(d) /\ sent'[d] = sent[d]
     /\ del'[d].no = 0 /\ resets'[d] = resets[d] + 1

\* Whatever a worker does other than claim, it owes no more than before.
LEMMA OwesNoMore ==
  ASSUME IInv, NEW d \in Deliveries, NEW w \in Workers,
         NEW c, worker' = [worker EXCEPT ![w] = c],
         \/ c.pc \in {"idle", "gone"}
         \/ /\ worker[w].pc \in {"lookup", "sending"} /\ c.on = worker[w].on
            /\ c.pc \in {"sending", "saving"}
  PROVE  /\ Owed(d)' \subseteq Owed(d)
         /\ (c.pc \in {"idle", "gone"} \/ (c.pc = "saving" /\ c.out # "none")) =>
              Owed(d)' \subseteq Owed(d) \ {w}
<1>1. worker'[w] = c /\ \A v \in Workers \ {w} : worker'[v] = worker[v]
  BY DEF IInv, TypeOK
<1> QED
  BY <1>1 DEF Owed, Releasing

\* Every step keeps the budget of every delivery.
LEMMA BudgetChange ==
  ASSUME IInv, [Next]_vars, NEW d \in Deliveries
  PROVE  BudgetKept(d)
<1>0. /\ del \in [Deliveries -> DeliveryType] /\ worker \in [Workers -> WorkerType]
      /\ sent \in [Deliveries -> Nat] /\ resets \in [Deliveries -> Nat]
      /\ del[d] \in DeliveryType /\ del[d].no \in Nat /\ RowOK(del[d])
  BY DEF IInv, TypeOK, WorkerType, DeliveryType
<1>1. CASE UNCHANGED <<del, worker, sent, resets>>
  BY <1>1 DEF BudgetKept, Owed, Releasing
<1>2. ASSUME NEW ev \in Events, Ingest(ev) PROVE BudgetKept(d)
  <2>1. UNCHANGED <<worker, sent, resets>> /\ Owed(d)' = Owed(d)
    BY <1>2 DEF Ingest, ghosts, Owed, Releasing
  <2>2. del'[d] = del[d] \/ (del[d].status = "none" /\ del'[d] = NewDelivery)
    BY <1>2 DEF Ingest, store
  <2>3. del'[d].no = del[d].no
    BY <1>0, <2>2, Constructors DEF RowOK
  <2> QED
    BY <2>1, <2>3 DEF BudgetKept
<1>3. ASSUME NEW w \in Workers, NEW x \in Deliveries, Claim(w, x) PROVE BudgetKept(d)
  <2>1. UNCHANGED <<sent, resets>> /\ del' = [del EXCEPT ![x] = Claimed(del[x])]
    BY <1>3 DEF Claim, ghosts
  <2>2. Claimed(del[x]).no = del[x].no + 1
    BY <1>0, <1>3, ClaimedFacts DEF Claim, RowOK, IInv
  <2>3. worker'[w].on = x /\ \A v \in Workers \ {w} : worker'[v] = worker[v]
    BY <1>0, <1>3 DEF Claim
  <2>4. CASE x = d
    <3>1. Owed(d)' \subseteq Owed(d) \cup {w}
      BY <2>3 DEF Owed, Releasing
    <3> QED
      BY <1>0, <2>1, <2>2, <2>4, <3>1 DEF BudgetKept
  <2>5. CASE x # d
    <3>1. Owed(d)' \subseteq Owed(d)
      BY <2>3, <2>5 DEF Owed, Releasing
    <3> QED
      BY <1>0, <2>1, <2>5, <3>1 DEF BudgetKept
  <2> QED
    BY <2>4, <2>5
<1>4. ASSUME NEW w \in Workers, LookupFails(w) \/ Lookup(w) PROVE BudgetKept(d)
  <2>1. PICK c : /\ worker' = [worker EXCEPT ![w] = c] /\ c.on = worker[w].on
                 /\ c.pc \in {"sending", "saving"}
    BY <1>0, <1>4 DEF LookupFails, Lookup, ToSave, WorkerType
  <2>2. UNCHANGED <<del, sent, resets>> /\ worker[w].pc = "lookup"
    BY <1>4 DEF LookupFails, Lookup, store, ghosts
  <2> QED
    BY <2>1, <2>2, OwesNoMore DEF BudgetKept
<1>5. ASSUME NEW w \in Workers, Send(w) PROVE BudgetKept(d)
  <2>1. PICK c : /\ worker' = [worker EXCEPT ![w] = c] /\ c.on = worker[w].on
                 /\ c.pc = "saving" /\ c.out # "none"
    <3>1. PICK out \in {"ok", "gone", "error"} :
            ToSave(w, ApplyOutcome(worker[w].copy, out), out)
      BY <1>5 DEF Send
    <3>2. PICK c : c = [worker[w] EXCEPT !.pc = "saving",
                                         !.copy = ApplyOutcome(worker[w].copy, out), !.out = out]
      OBVIOUS
    <3>3. c.on = worker[w].on /\ c.pc = "saving" /\ c.out = out
      BY <1>0, <3>2 DEF WorkerType
    <3>4. worker' = [worker EXCEPT ![w] = c]
      BY <1>0, <3>1, <3>2 DEF ToSave
    <3> QED
      BY <3>3, <3>4
  <2>2. /\ UNCHANGED <<del, resets>> /\ worker[w].pc = "sending"
        /\ sent' = [sent EXCEPT ![worker[w].on] = @ + 1]
    BY <1>5 DEF Send, store
  <2>3. Owed(d)' \subseteq Owed(d) \ {w}
    BY <2>1, <2>2, OwesNoMore
  <2>4. CASE worker[w].on = d
    <3>1. w \in Owed(d) /\ sent'[d] = sent[d] + 1
      BY <1>0, <2>2, <2>4 DEF Owed
    <3> QED
      BY <2>2, <2>3, <3>1 DEF BudgetKept
  <2>5. CASE worker[w].on # d
    <3>1. Owed(d)' \subseteq Owed(d) /\ sent'[d] = sent[d]
      BY <1>0, <2>2, <2>3, <2>5
    <3> QED
      BY <2>2, <3>1 DEF BudgetKept
  <2> QED
    BY <2>4, <2>5
<1>6. ASSUME NEW w \in Workers, Save(w) PROVE BudgetKept(d)
  <2>1. PICK c : worker' = [worker EXCEPT ![w] = c] /\ c.pc \in {"idle", "gone"}
    <3>1. [worker[w] EXCEPT !.pc = "gone"].pc = "gone"
      BY <1>0 DEF WorkerType
    <3> QED
      BY <1>0, <1>6, <3>1, Constructors DEF Save
  <2>2. Owed(d)' \subseteq Owed(d) \ {w}
    BY <2>1, OwesNoMore
  <2>3. UNCHANGED <<sent, resets>> /\ worker[w].pc = "saving"
    BY <1>6 DEF Save, ghosts
  <2>4. CASE del'[d] = del[d]
    BY <2>2, <2>3, <2>4 DEF BudgetKept
  <2>5. CASE del'[d] # del[d]
    <3>1. CanSave(worker[w].on, worker[w].copy) /\ worker[w].on = d /\ del'[d] = worker[w].copy
      BY <1>0, <1>6, <2>5 DEF Save
    <3>2. /\ del[d].no \in 1 .. MaxAttempts /\ Result(del[d], worker[w].copy, worker[w].out)
          /\ worker[w].out \in {"none", "ok", "gone", "error"}
      BY <2>3, <3>1, SaveEffect
    <3>3. worker[w].copy.no =
            IF worker[w].out = "none" /\ worker[w].copy.status = "failed" THEN del[d].no - 1 ELSE del[d].no
      BY <1>0, <3>2, ResultFacts
    <3>4. CASE Releasing(w)
      <4>1. w \in Owed(d) /\ del'[d].no = del[d].no - 1
        BY <3>1, <3>3, <3>4 DEF Owed, Releasing
      <4> QED
        BY <2>2, <2>3, <4>1 DEF BudgetKept
    <3>5. CASE ~Releasing(w)
      <4>1. del'[d].no = del[d].no
        BY <2>3, <3>1, <3>3, <3>5 DEF Releasing
      <4> QED
        BY <2>2, <2>3, <4>1 DEF BudgetKept
    <3> QED
      BY <3>4, <3>5
  <2> QED
    BY <2>4, <2>5
<1>7. ASSUME NEW w \in Workers, DisableEndpoint(w) \/ WorkerCrash(w) PROVE BudgetKept(d)
  <2>1. worker' = [worker EXCEPT ![w] = Free] /\ UNCHANGED <<sent, resets>>
    BY <1>7 DEF DisableEndpoint, WorkerCrash, ghosts
  <2>2. del'[d] = del[d] \/ del'[d] = Cancel(del[d])
    BY <1>7 DEF DisableEndpoint, WorkerCrash, store
  <2>3. del'[d].no = del[d].no
    BY <1>0, <2>2, CancelFacts
  <2> QED
    BY <2>1, <2>3, Constructors, OwesNoMore DEF BudgetKept
<1>8. ASSUME NEW x \in Deliveries, Reap(x) PROVE BudgetKept(d)
  <2>1. UNCHANGED <<worker, sent, resets>> /\ Owed(d)' = Owed(d)
    BY <1>8 DEF Reap, ghosts, Owed, Releasing
  <2>2. del'[d] = del[d] \/ del'[d] = Failing(del[d])
    BY <1>0, <1>8 DEF Reap
  <2>3. del'[d].no = del[d].no
    BY <1>0, <2>2, FailingFacts
  <2> QED
    BY <2>1, <2>3 DEF BudgetKept
<1>9. ASSUME NEW r \in Retriers, RetrySave(r), ~UNCHANGED <<del, resets>> PROVE BudgetKept(d)
  <2>1. /\ retry[r].pc = "resetting" /\ CanSave(retry[r].on, ResetForRetry(retry[r].copy))
        /\ del' = [del EXCEPT ![retry[r].on] = ResetForRetry(retry[r].copy)]
        /\ resets' = [resets EXCEPT ![retry[r].on] = @ + 1]
        /\ UNCHANGED <<worker, sent>>
    BY <1>9 DEF RetrySave
  <2>2. ResetForRetry(retry[r].copy).no = 0
    BY <2>1, RetryEffect, ResetFacts
  <2>3. Owed(d)' = Owed(d)
    BY <2>1 DEF Owed, Releasing
  <2>4. CASE retry[r].on = d
    BY <1>0, <2>1, <2>2, <2>3, <2>4 DEF BudgetKept
  <2>5. CASE retry[r].on # d
    BY <1>0, <2>1, <2>3, <2>5 DEF BudgetKept
  <2> QED
    BY <2>4, <2>5
<1>10. \/ UNCHANGED <<del, worker, sent, resets>>
       \/ \E ev \in Events : Ingest(ev)
       \/ \E w \in Workers :
            \/ \E x \in Deliveries : Claim(w, x)
            \/ LookupFails(w) \/ Lookup(w) \/ Send(w) \/ Save(w) \/ DisableEndpoint(w) \/ WorkerCrash(w)
       \/ \E x \in Deliveries : Reap(x)
       \/ \E r \in Retriers : RetrySave(r) /\ ~UNCHANGED <<del, resets>>
  BY DEF Next, vars, store, ghosts, WorkerStep, RetryStep, RetryCheck, RetryLoad, RetryPut, RetrySave
<1> QED
  BY <1>1, <1>2, <1>3, <1>4, <1>5, <1>6, <1>7, <1>8, <1>9, <1>10

\* The budget is inductive.
LEMMA BudgetStep ==
  ASSUME IInv, Budget, [Next]_vars
  PROVE  Budget'
<1> SUFFICES ASSUME NEW d \in Deliveries
             PROVE  sent'[d] + Cardinality(Owed(d)') <= MaxAttempts * resets'[d] + del'[d].no
  BY DEF Budget
<1>1. /\ sent[d] \in Nat /\ resets[d] \in Nat /\ del[d].no \in 0 .. MaxAttempts
      /\ MaxAttempts \in Nat
  BY WebhookAssumption DEF IInv, TypeOK, DeliveryType
<1>2. Owed(d) \in SUBSET Workers /\ Owed(d)' \in SUBSET Workers
  BY DEF Owed
<1>3. PICK n \in Nat, m \in Nat : n = Cardinality(Owed(d)) /\ m = Cardinality(Owed(d)')
  BY <1>2, Counting
<1>4. /\ Owed(d)' \subseteq Owed(d) => m <= n
      /\ \A w \in Workers : Owed(d)' \subseteq Owed(d) \cup {w} => m <= n + 1
      /\ \A w \in Owed(d) : Owed(d)' \subseteq Owed(d) \ {w} => m <= n - 1
  BY <1>2, <1>3, Counting
<1>5. sent[d] + n <= MaxAttempts * resets[d] + del[d].no
  BY <1>3 DEF Budget
<1>6. /\ MaxAttempts * resets[d] \in Nat
      /\ MaxAttempts * (resets[d] + 1) = MaxAttempts * resets[d] + MaxAttempts
  BY <1>1
<1>7. PICK used \in Nat : used = MaxAttempts * resets[d]
  BY <1>6
<1>8. /\ sent[d] + n <= used + del[d].no
      /\ resets'[d] = resets[d] => MaxAttempts * resets'[d] = used
      /\ resets'[d] = resets[d] + 1 => MaxAttempts * resets'[d] = used + MaxAttempts
  BY <1>5, <1>6, <1>7
<1>9. sent'[d] + m <= MaxAttempts * resets'[d] + del'[d].no
  <2>1. CASE /\ Owed(d)' \subseteq Owed(d) /\ sent'[d] = sent[d]
             /\ del'[d].no = del[d].no /\ resets'[d] = resets[d]
    BY <1>1, <1>4, <1>8, <2>1
  <2>2. ASSUME NEW w \in Workers,
               Owed(d)' \subseteq Owed(d) \cup {w}, sent'[d] = sent[d],
               del'[d].no = del[d].no + 1, resets'[d] = resets[d]
        PROVE  sent'[d] + m <= MaxAttempts * resets'[d] + del'[d].no
    BY <1>1, <1>4, <1>8, <2>2
  <2>3. ASSUME NEW w \in Owed(d),
               Owed(d)' \subseteq Owed(d) \ {w}, resets'[d] = resets[d],
               \/ sent'[d] = sent[d] + 1 /\ del'[d].no = del[d].no
               \/ sent'[d] = sent[d] /\ del'[d].no = del[d].no - 1
        PROVE  sent'[d] + m <= MaxAttempts * resets'[d] + del'[d].no
    <3>1. m <= n - 1
      BY <1>4, <2>3
    <3> QED
      BY <1>1, <1>8, <2>3, <3>1
  <2>4. CASE /\ Owed(d)' \subseteq Owed(d) /\ sent'[d] = sent[d]
             /\ del'[d].no = 0 /\ resets'[d] = resets[d] + 1
    BY <1>1, <1>4, <1>8, <2>4
  <2> QED
    BY <2>1, <2>2, <2>3, <2>4, BudgetChange DEF BudgetKept
<1> QED
  BY <1>3, <1>9

\* An endpoint gets at most MaxAttempts requests for a delivery, and as many again for each manual
\* retry, whatever workers die, are reaped while they are still sending, or release the delivery.
THEOREM BudgetHolds == Spec => []AttemptBudget
<1>1. Init => Budget
  <2> SUFFICES ASSUME Init, NEW d \in Deliveries
               PROVE  sent[d] + Cardinality(Owed(d)) <= MaxAttempts * resets[d] + del[d].no
    BY DEF Budget
  <2>1. Owed(d) = {}
    BY Constructors DEF Init, Owed, Releasing
  <2>2. Cardinality({}) = 0
    BY FS_EmptySet
  <2> QED
    BY <2>1, <2>2, Constructors DEF Init
<1>2. IInv /\ Budget /\ [Next]_vars => Budget'
  BY BudgetStep
<1>3. IInv /\ Budget => AttemptBudget
  <2> SUFFICES ASSUME IInv, Budget, NEW d \in Deliveries
               PROVE  sent[d] <= MaxAttempts * (resets[d] + 1)
    BY DEF AttemptBudget
  <2>1. /\ sent[d] \in Nat /\ resets[d] \in Nat /\ del[d].no \in 0 .. MaxAttempts
        /\ MaxAttempts \in Nat
    BY WebhookAssumption DEF IInv, TypeOK, DeliveryType
  <2>2. Cardinality(Owed(d)) \in Nat
    BY Counting DEF Owed
  <2>3. sent[d] + Cardinality(Owed(d)) <= MaxAttempts * resets[d] + del[d].no
    BY DEF Budget
  <2>4. /\ MaxAttempts * resets[d] \in Nat
        /\ MaxAttempts * (resets[d] + 1) = MaxAttempts * resets[d] + MaxAttempts
    BY <2>1
  <2> QED
    BY <2>1, <2>2, <2>3, <2>4
<1> QED
  BY <1>1, <1>2, <1>3, Inductive, PTL DEF Spec
=============================================================================
