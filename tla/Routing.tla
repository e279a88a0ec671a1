------------------------------ MODULE Routing ------------------------------
(***************************************************************************)
(* payment-service's Router and its circuit breakers                       *)
(* (internal/payment/adapter/provider/provider.go), with the part of the   *)
(* authorization saga that uses them (internal/payment/app/                *)
(* create_payment.go): Route asks every breaker, the saga then calls the   *)
(* candidates one after the other as far as it needs them and reports each *)
(* result.  PaymentService models the saga itself.                         *)
(***************************************************************************)
EXTENDS Naturals, Sequences, SequencesExt

CONSTANTS
    Order,        \* the providers, as orderedNames returns them
    Sagas,        \* CreatePayment calls at work at a time
    Threshold,    \* consecutive failures that open a breaker (5)
    MaxAttempts,  \* attempts of one saga (3)
    MaxOutages    \* bound: how often providers go down

Providers == Range(Order)

VARIABLES
    breaker,   \* per provider: state, consecutive, probing, and whether OpenDuration has passed
    saga,      \* per saga: where it is, and the candidates it has not tried yet
    up,        \* whether a provider works
    outages

vars == <<breaker, saga, up, outages>>

Idle == [pc |-> "idle", left |-> <<>>, tries |-> 0]

TypeOK ==
    /\ breaker \in [Providers -> [state : {"closed", "open", "half_open"},
                                  consecutive : 0 .. Threshold,
                                  probing : BOOLEAN, cooled : BOOLEAN]]
    /\ DOMAIN saga = Sagas
    /\ \A s \in Sagas : /\ saga[s].pc \in {"idle", "tx1", "call"}
                        /\ saga[s].left \in SeqOf(Providers, Len(Order))
                        /\ saga[s].tries \in 0 .. MaxAttempts
    /\ up \in [Providers -> BOOLEAN]
    /\ outages \in 0 .. MaxOutages

Init ==
    /\ breaker = [p \in Providers |-> [state |-> "closed", consecutive |-> 0,
                                       probing |-> FALSE, cooled |-> FALSE]]
    /\ saga = [s \in Sagas |-> Idle]
    /\ up = [p \in Providers |-> TRUE]
    /\ outages = 0

-----------------------------------------------------------------------------
(* The breaker.                                                            *)

\* Allow's answer.
Allows(b) ==
    \/ b.state = "closed"
    \/ b.state = "open" /\ b.cooled
    \/ b.state = "half_open" /\ ~b.probing

\* What asking does to the breaker: outside closed, an allowed caller takes the probe.
Allow(b) ==
    IF Allows(b) /\ b.state # "closed"
      THEN [b EXCEPT !.state = "half_open", !.probing = TRUE]
      ELSE b

\* Report of a failure category.  Only consecutive >= Threshold is ever asked, so it is capped.
ReportFailure(b) ==
    LET n == IF b.consecutive < Threshold THEN b.consecutive + 1 ELSE Threshold IN
    IF b.state = "half_open" \/ n = Threshold
      THEN [state |-> "open", consecutive |-> n, probing |-> FALSE, cooled |-> FALSE]
      ELSE [b EXCEPT !.consecutive = n]

\* Report of anything else, a decline included.
ReportOther(b) == [b EXCEPT !.state = "closed", !.consecutive = 0, !.probing = FALSE]

-----------------------------------------------------------------------------
(* Route, tx1 and the saga's calls.                                        *)

\* Route asks the breaker of every provider that passes the filters (HealthCheck's currencies
\* and status, the token's provider) and lists those that allow the call.
Route(s) ==
    /\ saga[s].pc = "idle"
    /\ \E eligible \in SUBSET Providers :
         LET Listed(p) == p \in eligible /\ Allows(breaker[p])
             listed == SelectSeq(Order, Listed)
         IN /\ breaker' = [p \in Providers |->
                             IF p \in eligible THEN Allow(breaker[p]) ELSE breaker[p]]
            /\ saga' = [saga EXCEPT ![s] =
                          IF listed = <<>> THEN Idle ELSE [pc |-> "tx1", left |-> listed, tries |-> 0]]
    /\ UNCHANGED <<up, outages>>

\* tx1 inserts the payment, or its key is taken and the call ends with a replay.
Tx1(s) ==
    /\ saga[s].pc = "tx1"
    /\ saga' = [saga EXCEPT ![s] = Idle]
         \/ saga' = [saga EXCEPT ![s].pc = "call", ![s].tries = 1]
    /\ UNCHANGED <<breaker, up, outages>>

Called(s) == Head(saga[s].left)

\* The saga gives up or is through; or it starts another attempt with the next candidate.
EndSaga(s) == saga' = [saga EXCEPT ![s] = Idle]
Failover(s) ==
    /\ saga[s].tries < MaxAttempts
    /\ Len(saga[s].left) > 1
    /\ saga' = [saga EXCEPT ![s].left = Tail(@), ![s].tries = @ + 1]
\* RetrySameProviderOnUnavailable, when there is no other candidate.
RetrySame(s) ==
    /\ saga[s].tries < MaxAttempts
    /\ Len(saga[s].left) = 1
    /\ saga' = [saga EXCEPT ![s].tries = @ + 1]

\* The provider works: approved, a challenge, or declined.  The saga ends; a soft decline of the
\* whitelist fails over.
CallAnswered(s) ==
    /\ saga[s].pc = "call"
    /\ up[Called(s)]
    /\ breaker' = [breaker EXCEPT ![Called(s)] = ReportOther(@)]
    /\ EndSaga(s) \/ Failover(s)
    /\ UNCHANGED <<up, outages>>

\* The provider is down: unavailable fails over, an unresolved timeout ends the saga.
CallFailed(s) ==
    /\ saga[s].pc = "call"
    /\ ~up[Called(s)]
    /\ breaker' = [breaker EXCEPT ![Called(s)] = ReportFailure(@)]
    /\ EndSaga(s) \/ Failover(s) \/ RetrySame(s)
    /\ UNCHANGED <<up, outages>>

-----------------------------------------------------------------------------
(* Time and the providers.                                                 *)

\* OpenDuration passes.
Cool(p) ==
    /\ breaker[p].state = "open" /\ ~breaker[p].cooled
    /\ breaker' = [breaker EXCEPT ![p].cooled = TRUE]
    /\ UNCHANGED <<saga, up, outages>>

GoDown(p) ==
    /\ up[p] /\ outages < MaxOutages
    /\ up' = [up EXCEPT ![p] = FALSE]
    /\ outages' = outages + 1
    /\ UNCHANGED <<breaker, saga>>

ComeUp(p) ==
    /\ ~up[p]
    /\ up' = [up EXCEPT ![p] = TRUE]
    /\ UNCHANGED <<breaker, saga, outages>>

Work(s) == Route(s) \/ Tx1(s) \/ CallAnswered(s) \/ CallFailed(s)

Next ==
    \/ \E s \in Sagas : Work(s)
    \/ \E p \in Providers : Cool(p) \/ GoDown(p) \/ ComeUp(p)

\* Requests keep coming and every call returns (the saga's budget), time passes, outages end.
Fairness ==
    /\ \A s \in Sagas : WF_vars(Work(s))
    /\ \A p \in Providers : WF_vars(Cool(p)) /\ WF_vars(ComeUp(p))

Spec == Init /\ [][Next]_vars /\ Fairness

-----------------------------------------------------------------------------
(* Properties.                                                             *)

\* A provider that works again is let in again: once outages have ended, its breaker keeps
\* allowing a call now and then, as the comment on Allow promises for an open breaker whose
\* time is up.
ProvidersComeBack == \A p \in Providers : []<>Allows(breaker[p])

=============================================================================
