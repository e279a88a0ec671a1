--------------------------- MODULE WebhookDelivery ---------------------------
(***************************************************************************)
(* webhook-service: payment events fanned out to the merchant's endpoints  *)
(* and delivered over HTTP by competing workers (internal/webhook).        *)
(*                                                                         *)
(* A worker is one goroutine of DispatchDue, in any replica; it works on   *)
(* the copy of the webhook_deliveries row that ClaimDue returned and saves *)
(* it under the row's version.  Its steps are split where the code leaves  *)
(* the database, asks for the endpoint or sends the request, and it may    *)
(* die between any two of them.                                            *)
(*                                                                         *)
(* Time is left out: a due date may always have come (so a pending or      *)
(* failed delivery may be claimed) and an in_flight one may always have     *)
(* been so for InFlightTimeout (its worker waits for the semaphore, for the *)
(* endpoint lookup, which has no deadline, or is dead).                    *)
(*                                                                         *)
(* merchant-service owns the endpoints.  The merchant may change them at   *)
(* any time and EndpointCache may serve a list up to ten minutes old, so a *)
(* lookup may answer anything: the endpoint is enabled, it is not, or an    *)
(* error.  The events belong to one merchant.                              *)
(***************************************************************************)
EXTENDS Integers, FiniteSets

CONSTANTS
  Events, Endpoints,
  Subscriptions,    \* <<event, endpoint>>: mode and event type match (Accepts)
  Workers,
  Retriers,         \* RetryDelivery calls
  RetryKeys, RetryKey,   \* their idempotency keys
  MaxAttempts,      \* attempts before dead_letter
  MaxLookupErrors   \* bound: endpoint lookups of workers that fail

ASSUME WebhookAssumption ==
  /\ Subscriptions \subseteq Events \X Endpoints
  /\ RetryKey \in [Retriers -> RetryKeys]
  /\ MaxAttempts \in Nat \ {0}
  /\ MaxLookupErrors \in Nat
  /\ IsFiniteSet(Workers)

\* A delivery is identified by its event and its endpoint
\* (webhook_deliveries_event_endpoint_key).
Deliveries == Subscriptions

VARIABLES
  del,         \* the webhook_deliveries rows
  log,         \* the webhook_delivery_attempts rows of each delivery
  processed,   \* the events in processed_events
  worker, retry,    \* the state of every goroutine
  keys,        \* retryKeys: the idempotency keys seen, with their delivery
  errors,      \* endpoint lookups that failed so far
  sent,        \* HTTP requests made for each delivery
  resets       \* manual retries of each delivery

store == <<del, log, processed>>
ghosts == <<sent, resets>>
vars == <<del, log, processed, worker, retry, keys, errors, sent, resets>>

-----------------------------------------------------------------------------
(* The delivery's own commands (domain/delivery.go)                        *)

NoDelivery == [status |-> "none", no |-> 0, version |-> 0]
NewDelivery == [NoDelivery EXCEPT !.status = "pending"]

\* Mutant of IsDue: a failed delivery is never claimed again.
IsDueOnce(d) == d.status = "pending"

IsDue(d) == d.status \in {"pending", "failed"}
IsTerminal(d) == d.status \in {"succeeded", "dead_letter", "canceled"}

To(d, status) == [d EXCEPT !.status = status, !.version = @ + 1]

Claimed(d) == [To(d, "in_flight") EXCEPT !.no = @ + 1]

\* Mutant of GivenUp: one attempt too many.
GivenUpLate(d) == d.no > MaxAttempts

GivenUp(d) == d.no >= MaxAttempts

Failing(d) == To(d, IF GivenUp(d) THEN "dead_letter" ELSE "failed")

\* ApplyOutcome: "ok" is a 2xx, "gone" a 410, "error" everything else.
ApplyOutcome(d, out) ==
  CASE out = "ok"   -> To(d, "succeeded")
    [] out = "gone" -> To(d, "canceled")
    [] OTHER        -> Failing(d)

\* Mutant of Release: the attempt number goes back by two.
ReleaseTwice(d) == [To(d, "failed") EXCEPT !.no = IF @ > 1 THEN @ - 2 ELSE 0]

\* Release: no request was made, so the attempt does not count.
Release(d) == [To(d, "failed") EXCEPT !.no = IF @ > 0 THEN @ - 1 ELSE 0]

Cancel(d) == To(d, "canceled")

CanRetryManually(d) == d.status \in {"failed", "dead_letter", "succeeded"}

ResetForRetry(d) == [To(d, "pending") EXCEPT !.no = 0]

-----------------------------------------------------------------------------
(* IngestEvent                                                             *)

\* FanOut: the enabled endpoints that accept the event.
FanOut(ev, eps) == {d \in Deliveries : d[1] = ev /\ d[2] \in eps}

\* MarkProcessed's answer.
AlreadyProcessed(ev) == ev \in processed

\* An event is consumed, for the first time or again (the offset is committed
\* only afterwards).  Its endpoints are listed outside the transaction that
\* writes the inbox row, the event and its deliveries; an error or a crash
\* before the commit leaves nothing behind.
Ingest(ev) ==
  /\ \E eps \in SUBSET Endpoints :
       IF AlreadyProcessed(ev) THEN UNCHANGED store
       ELSE /\ processed' = processed \cup {ev}
            /\ del' = [d \in Deliveries |->
                         IF d \in FanOut(ev, eps) /\ del[d].status = "none"
                           THEN NewDelivery ELSE del[d]]
            /\ UNCHANGED log
  /\ UNCHANGED <<worker, retry, keys, errors, ghosts>>

-----------------------------------------------------------------------------
(* DispatchDue and Deliver.  copy is the delivery as the worker has it, out *)
(* the outcome of its request ("none": no request, no attempt row).        *)

NoOne == <<"none", "none">>
Free == [pc |-> "idle", on |-> NoOne, copy |-> NoDelivery, out |-> "none"]

\* ClaimDue: UPDATE ... FOR UPDATE SKIP LOCKED RETURNING, one row of the batch.
Claim(w, d) ==
  /\ worker[w].pc = "idle"
  /\ IsDue(del[d])
  /\ del' = [del EXCEPT ![d] = Claimed(@)]
  /\ worker' = [worker EXCEPT ![w] =
       [pc |-> "lookup", on |-> d, copy |-> Claimed(del[d]), out |-> "none"]]
  /\ UNCHANGED <<log, processed, retry, keys, errors, ghosts>>

\* The worker's copy after a command, to be saved.
ToSave(w, copy, out) ==
  worker' = [worker EXCEPT ![w].pc = "saving", ![w].copy = copy, ![w].out = out]

LookupFails(w) ==
  /\ worker[w].pc = "lookup"
  /\ errors < MaxLookupErrors
  /\ errors' = errors + 1
  /\ ToSave(w, Release(worker[w].copy), "none")
  /\ UNCHANGED <<store, retry, keys, ghosts>>

\* GetEndpoint: an endpoint that is not listed as enabled cancels the delivery.
Lookup(w) ==
  /\ worker[w].pc = "lookup"
  /\ \/ worker' = [worker EXCEPT ![w].pc = "sending"]
     \/ ToSave(w, Cancel(worker[w].copy), "none")
  /\ UNCHANGED <<store, retry, keys, errors, ghosts>>

\* send and ApplyOutcome.  A request the URL policy or the signer refuses is an
\* "error" as well, and counts as sent.
Send(w) ==
  /\ worker[w].pc = "sending"
  /\ sent' = [sent EXCEPT ![worker[w].on] = @ + 1]
  /\ \E out \in {"ok", "gone", "error"} :
       ToSave(w, ApplyOutcome(worker[w].copy, out), out)
  /\ UNCHANGED <<store, retry, keys, errors, resets>>

\* Mutant of CanSave: UPDATE ... without "AND version = $10 - 1".
CanSaveUnlocked(d, copy) == TRUE

CanSave(d, copy) == del[d].version = copy.version - 1

\* The attempt row is not inserted when its number is already there.
Logged(rows, no, out) ==
  IF out = "none" \/ \E a \in rows : a.no = no
    THEN rows ELSE rows \cup {[no |-> no, out |-> out]}

\* Save: the row and the attempt in one transaction.  A lost race or a database
\* error is only logged, and a 410 is followed by disableEndpoint either way.
Save(w) ==
  LET c == worker[w]
  IN  /\ c.pc = "saving"
      /\ \/ /\ CanSave(c.on, c.copy)
            /\ del' = [del EXCEPT ![c.on] = c.copy]
            /\ log' = [log EXCEPT ![c.on] = Logged(@, c.copy.no, c.out)]
         \/ UNCHANGED <<del, log>>
      /\ worker' = [worker EXCEPT ![w] =
           IF c.out = "gone" THEN [@ EXCEPT !.pc = "gone"] ELSE Free]
      /\ UNCHANGED <<processed, retry, keys, errors, ghosts>>

\* disableEndpoint: CancelForEndpoint, or its failure (only logged), before the
\* endpoint is disabled at merchant-service and the cache entry dropped.
DisableEndpoint(w) ==
  /\ worker[w].pc = "gone"
  /\ \/ del' = [d \in Deliveries |->
           IF d[2] = worker[w].on[2] /\ del[d].status \in {"pending", "failed", "in_flight"}
             THEN Cancel(del[d]) ELSE del[d]]
     \/ del' = del
  /\ worker' = [worker EXCEPT ![w] = Free]
  /\ UNCHANGED <<log, processed, retry, keys, errors, ghosts>>

WorkerCrash(w) ==
  /\ worker[w].pc # "idle"
  /\ worker' = [worker EXCEPT ![w] = Free]
  /\ UNCHANGED <<store, retry, keys, errors, ghosts>>

\* Mutant of Reap: the UPDATE leaves the version alone.
ReapSameVersion(d) ==
  /\ del[d].status = "in_flight"
  /\ del' = [del EXCEPT ![d].status = Failing(del[d]).status]
  /\ UNCHANGED <<log, processed, worker, retry, keys, errors, ghosts>>

\* ReapStuck, for one of the rows it updates.
Reap(d) ==
  /\ del[d].status = "in_flight"
  /\ del' = [del EXCEPT ![d] = Failing(@)]
  /\ UNCHANGED <<log, processed, worker, retry, keys, errors, ghosts>>

-----------------------------------------------------------------------------
(* RetryDelivery                                                           *)

Asked == [pc |-> "idle", on |-> NoOne, copy |-> NoDelivery]

RetryTo(r, pc) == retry' = [retry EXCEPT ![r].pc = pc]

\* The idempotency key: a known one is answered with the delivery as it is.
RetryCheck(r) ==
  /\ retry[r].pc = "idle"
  /\ \E d \in Deliveries :
       IF keys[RetryKey[r]] # NoOne THEN RetryTo(r, "done")
       ELSE retry' = [retry EXCEPT ![r].pc = "loading", ![r].on = d]
  /\ UNCHANGED <<store, worker, keys, errors, ghosts>>

RetryLoad(r) ==
  LET d == del[retry[r].on]
  IN  /\ retry[r].pc = "loading"
      /\ IF CanRetryManually(d)
           THEN retry' = [retry EXCEPT ![r].pc = "resetting", ![r].copy = d]
           ELSE RetryTo(r, "done")
      /\ UNCHANGED <<store, worker, keys, errors, ghosts>>

\* The endpoint must be enabled; then ResetForRetry is saved under the version.
RetrySave(r) ==
  LET c == retry[r]
      d == ResetForRetry(c.copy)
  IN  /\ c.pc = "resetting"
      /\ \/ /\ CanSave(c.on, d)
            /\ del' = [del EXCEPT ![c.on] = d]
            /\ resets' = [resets EXCEPT ![c.on] = @ + 1]
            /\ retry' = [retry EXCEPT ![r].pc = "keeping"]
         \/ RetryTo(r, "done") /\ UNCHANGED <<del, resets>>
      /\ UNCHANGED <<log, processed, worker, keys, errors, sent>>

\* retryKeyPut, or the process dies before it.
RetryPut(r) ==
  /\ retry[r].pc = "keeping"
  /\ keys' \in {keys, [keys EXCEPT ![RetryKey[r]] = retry[r].on]}
  /\ RetryTo(r, "done")
  /\ UNCHANGED <<store, worker, errors, ghosts>>

-----------------------------------------------------------------------------
Init ==
  /\ del = [d \in Deliveries |-> NoDelivery]
  /\ log = [d \in Deliveries |-> {}]
  /\ processed = {}
  /\ worker = [w \in Workers |-> Free]
  /\ retry = [r \in Retriers |-> Asked]
  /\ keys = [k \in RetryKeys |-> NoOne]
  /\ errors = 0
  /\ sent = [d \in Deliveries |-> 0]
  /\ resets = [d \in Deliveries |-> 0]

WorkerStep(w) == Lookup(w) \/ Send(w) \/ Save(w) \/ DisableEndpoint(w)

RetryStep(r) == RetryCheck(r) \/ RetryLoad(r) \/ RetrySave(r) \/ RetryPut(r)

Next ==
  \/ \E ev \in Events : Ingest(ev)
  \/ \E w \in Workers :
       \/ \E d \in Deliveries : Claim(w, d)
       \/ LookupFails(w) \/ WorkerStep(w) \/ WorkerCrash(w)
  \/ \E d \in Deliveries : Reap(d)
  \/ \E r \in Retriers : RetryStep(r)

Spec == Init /\ [][Next]_vars

\* Workers run on (the request, the lookup and the save return), the dispatcher
\* claims what is due and the reaper finds what is stuck.  Nothing obliges the
\* merchant, the endpoints or Kafka.
FairSpec ==
  /\ Spec
  /\ \A w \in Workers : WF_vars(WorkerStep(w))
  /\ \A d \in Deliveries : WF_vars(\E w \in Workers : Claim(w, d)) /\ WF_vars(Reap(d))

-----------------------------------------------------------------------------
(* Properties                                                              *)

DeliveryStatus ==
  {"none", "pending", "in_flight", "succeeded", "failed", "dead_letter", "canceled"}

DeliveryType == [status : DeliveryStatus, no : 0 .. MaxAttempts, version : Nat]

\* The state of webhook-service; in particular attempt_no never exceeds
\* MaxAttempts, in a row or in a copy.
TypeOK ==
  /\ del \in [Deliveries -> DeliveryType]
  /\ log \in [Deliveries -> SUBSET [no : 1 .. MaxAttempts, out : {"ok", "gone", "error"}]]
  /\ processed \subseteq Events
  /\ worker \in [Workers ->
       [pc : {"idle", "lookup", "sending", "saving", "gone"},
        on : Deliveries \cup {NoOne}, copy : DeliveryType,
        out : {"none", "ok", "gone", "error"}]]
  /\ retry \in [Retriers ->
       [pc : {"idle", "loading", "resetting", "keeping", "done"},
        on : Deliveries \cup {NoOne}, copy : DeliveryType]]
  /\ keys \in [RetryKeys -> Deliveries \cup {NoOne}]
  /\ errors \in 0 .. MaxLookupErrors
  /\ sent \in [Deliveries -> Nat]
  /\ resets \in [Deliveries -> Nat]

\* A worker that still has an outcome to save, and the version it claimed.
Holding(w) == worker[w].pc \in {"lookup", "sending", "saving"}
Held(w) == worker[w].copy.version - (IF worker[w].pc = "saving" THEN 1 ELSE 0)

\* The version fences workers off: of all that claimed a delivery, live, reaped
\* or overtaken, at most one can still write its outcome, and it can only while
\* the row is in_flight with the attempt it claimed.
OneHolder ==
  \A w \in Workers :
    (Holding(w) /\ Held(w) = del[worker[w].on].version) =>
      /\ del[worker[w].on].status = "in_flight"
      /\ worker[w].pc # "saving" => worker[w].copy = del[worker[w].on]
      /\ \A v \in Workers :
           (Holding(v) /\ worker[v].on = worker[w].on /\ Held(v) = Held(w)) => v = w

\* An endpoint gets at most MaxAttempts requests for a delivery, and as many
\* again for each manual retry, whatever workers die, are reaped while they are
\* still sending, or release the delivery.
AttemptBudget ==
  \A d \in Deliveries : sent[d] <= MaxAttempts * (resets[d] + 1)

\* Until it is retried by hand, the attempts table explains the delivery: one row
\* per number, none above attempt_no, none yet for an attempt in flight; a success
\* is the last row and there is no other.
LogExplainsStatus ==
  \A d \in Deliveries : resets[d] = 0 =>
    /\ \A a, b \in log[d] : a.no = b.no => a = b
    /\ \A a \in log[d] : a.no <= del[d].no
    /\ del[d].status = "in_flight" => \A a \in log[d] : a.no < del[d].no
    /\ \A a \in log[d] : a.out = "ok" <=> (del[d].status = "succeeded" /\ a.no = del[d].no)
    /\ del[d].status = "succeeded" => \E a \in log[d] : a.no = del[d].no

\* A canceled delivery stays canceled, and a succeeded or dead_letter one is only
\* reopened by RetryDelivery, as a whole: no late worker and no reaper touches it.
FinalUntilRetried ==
  [][\A d \in Deliveries :
       (IsTerminal(del[d]) /\ del'[d] # del[d]) =>
         del[d].status # "canceled" /\ del'[d] = ResetForRetry(del[d])]_vars

\* Every delivery comes to an end, delivered, given up or canceled: nothing stays
\* pending, failed or in_flight for ever.
Settles ==
  \A d \in Deliveries : del[d].status # "none" ~> IsTerminal(del[d])
=============================================================================
