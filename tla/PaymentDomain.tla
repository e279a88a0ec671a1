---------------------------- MODULE PaymentDomain ----------------------------
(***************************************************************************)
(* The payment aggregate of internal/payment/domain: its status table, its *)
(* commands and the error categories that drive failover.  Everything here *)
(* is a pure operator on a payments row; PaymentService supplies the state. *)
(*                                                                         *)
(* A command Xxx of payment.go is a pair of operators: XxxOK is its guard  *)
(* (every early return of the Go method) and Xxx the row it leaves behind. *)
(* Amounts are minor units of the payment's own currency; a request in     *)
(* another currency is rejected before any state changes.                  *)
(***************************************************************************)
EXTENDS Integers, Sequences

CONSTANT Amount     \* the amount of the payment, in minor units

ASSUME AmountAssumption == Amount \in Nat \ {0}

-----------------------------------------------------------------------------
(* Statuses.  "none" stands for a payments row that does not exist yet.    *)

Status == {"created", "requires_action", "authorized", "captured",
           "partially_refunded", "refunded", "voided", "failed", "expired",
           "disputed", "chargeback_won", "chargeback_lost"}

Transitions ==
  {<<"created", s>> :
     s \in {"requires_action", "authorized", "captured", "failed", "expired"}}
  \cup {<<"requires_action", s>> :
     s \in {"authorized", "captured", "failed", "expired", "voided"}}
  \cup {<<"authorized", s>> : s \in {"captured", "voided"}}
  \cup {<<"captured", s>> : s \in {"partially_refunded", "refunded", "disputed"}}
  \cup {<<"partially_refunded", s>> :
     s \in {"partially_refunded", "refunded", "disputed"}}
  \cup {<<"refunded", "disputed">>}
  \cup {<<"disputed", s>> : s \in {"chargeback_won", "chargeback_lost"}}
  \cup {<<"chargeback_won", s>> :
     s \in {"disputed", "partially_refunded", "refunded"}}

CanTransition(from, to) == <<from, to>> \in Transitions

-----------------------------------------------------------------------------
(* The payments row and the events each command emits.                     *)

NoRow == [status |-> "none", method |-> "manual", authorized |-> 0,
          captured |-> 0, refunded |-> 0, pending |-> 0,
          provider |-> "none", ref |-> 0, version |-> 0]

\* Mutant of Emit: the version is not incremented.
EmitSameVersion(p, to) == [p EXCEPT !.status = to]

\* emit: the new status, version + 1.
Emit(p, to) == [p EXCEPT !.status = to, !.version = @ + 1]

\* The event of a command that takes p to status to: seq is the new version.
Event(type, p, to) ==
  [type |-> type, from |-> p.status, to |-> to, seq |-> p.version + 1]

NewPayment(method, provider) ==
  [Emit(NoRow, "created") EXCEPT !.method = method, !.provider = provider]

RequireAction(p, ref) == [Emit(p, "requires_action") EXCEPT !.ref = ref]

\* late: the payer's deadline (ExpiresAt) had passed when the result was read.
AuthorizeOK(p, late) ==
  /\ ~(p.status = "requires_action" /\ late)
  /\ CanTransition(p.status, "authorized")

Authorize(p, provider, ref) ==
  [Emit(p, "authorized") EXCEPT !.authorized = Amount,
                                !.provider = provider, !.ref = ref]

\* late: the authorization's own validity (AuthExpiresAt) has passed.
CaptureOK(p, amount, late) ==
  /\ p.status = "authorized"
  /\ amount > 0
  /\ amount <= p.authorized
  /\ ~late

Capture(p, amount) == [Emit(p, "captured") EXCEPT !.captured = amount]

VoidOK(p) ==
  /\ p.status \notin {"captured", "partially_refunded", "refunded", "disputed",
                      "chargeback_won"}
  /\ CanTransition(p.status, "voided")

Void(p) == Emit(p, "voided")

Fail(p) == Emit(p, "failed")

\* money.Sub refuses a negative result, and the caller then answers zero.
AvailableToRefund(p) ==
  IF p.refunded + p.pending > p.captured
    THEN 0
    ELSE p.captured - p.refunded - p.pending

ReserveRefundOK(p, amount) ==
  /\ p.status \in {"captured", "partially_refunded", "chargeback_won"}
  /\ amount > 0
  /\ amount <= AvailableToRefund(p)

\* The reservation keeps the status but takes a version and an event.
ReserveRefund(p, amount) ==
  [Emit(p, p.status) EXCEPT !.pending = @ + amount]

RefundedStatus(p, amount) ==
  IF p.refunded + amount = p.captured THEN "refunded" ELSE "partially_refunded"

MarkRefundedOK(p, amount) ==
  /\ amount <= p.pending
  /\ p.refunded + amount <= p.captured
  /\ CanTransition(p.status, RefundedStatus(p, amount))

\* Mutant of MarkRefunded: the reservation is kept.
MarkRefundedKeepsPending(p, amount) ==
  [Emit(p, RefundedStatus(p, amount)) EXCEPT !.refunded = @ + amount]

MarkRefunded(p, amount) ==
  [Emit(p, RefundedStatus(p, amount)) EXCEPT !.pending = @ - amount,
                                             !.refunded = @ + amount]

ReleaseRefundOK(p, amount) == amount <= p.pending

\* Mutant of ReleaseRefund: every reservation is released, not just this one.
ReleaseAllRefunds(p, amount) == [Emit(p, p.status) EXCEPT !.pending = 0]

ReleaseRefund(p, amount) ==
  [Emit(p, p.status) EXCEPT !.pending = @ - amount]

\* The CHECK constraints of the payments table: an UPDATE that breaks one
\* makes the whole transaction fail.
DbChecks(p) ==
  /\ p.pending >= 0
  /\ p.authorized <= Amount
  /\ p.captured <= p.authorized
  /\ p.refunded + p.pending <= p.captured

-----------------------------------------------------------------------------
(* Provider error categories, folded to the four the service tells apart:  *)
(* declined_hard also stands for fraud_suspected, authentication_failed,   *)
(* invalid_request, duplicate_request, unsupported_operation and for soft  *)
(* declines whose code is not whitelisted; declined_soft for the           *)
(* whitelisted codes; provider_unavailable also for rate limiting and      *)
(* configuration errors; provider_timeout also for unknown.                *)

Category == {"declined_hard", "declined_soft", "provider_unavailable",
             "provider_timeout"}

AttemptStatus(cat) ==
  CASE cat \in {"declined_hard", "declined_soft"} -> "declined"
    [] cat = "provider_unavailable"               -> "unavailable"
    [] OTHER                                      -> "unknown"

AttemptStatuses == {"pending", "requires_action", "approved", "declined",
                    "unavailable", "unknown"}

IsOpen(a) == a.status \in {"pending", "requires_action", "unknown"}

\* CanFailover of the attempt that ended with category cat.
CanFailover(cat) ==
  \/ AttemptStatus(cat) = "unavailable"
  \/ cat = "declined_soft"

NewAttempt(provider) == [provider |-> provider, status |-> "pending", ref |-> 0]
=============================================================================
