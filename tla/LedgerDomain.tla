----------------------------- MODULE LedgerDomain -----------------------------
(***************************************************************************)
(* internal/ledger/domain: the chart of accounts, the journal templates    *)
(* that turn a payment event into balanced entries, and the rules on       *)
(* journals and reversals.  One merchant, one provider, one currency and   *)
(* one mode: the code keeps the books of each combination apart through    *)
(* the account key, so an account is its kind.                             *)
(***************************************************************************)
EXTENDS Integers, Sequences, FiniteSetsExt

CONSTANT RefundChargebackFeeOnWin      \* Policy: the fee of a won dispute is returned

ASSUME PolicyAssumption == RefundChargebackFeeOnWin \in BOOLEAN

-----------------------------------------------------------------------------
(* Accounts. *)

DebitKinds == {"psp_receivable", "bank_cash", "settlement_suspense",
               "psp_fee_expense", "chargeback_fee_expense"}
CreditKinds == {"merchant_payable", "refund_clearing", "chargeback_reserve",
                "fee_revenue", "chargeback_fee_revenue"}
Accounts == DebitKinds \cup CreditKinds

NormalBalance(a) == IF a \in DebitKinds THEN "debit" ELSE "credit"

\* What an entry does to its account's balance, kept positive on the normal side.
SignedDelta(e) ==
  IF e.direction = NormalBalance(e.account) THEN e.amount ELSE -e.amount

-----------------------------------------------------------------------------
(* Entries and journals. *)

Directions == {"debit", "credit"}
Opposite(d) == IF d = "debit" THEN "credit" ELSE "debit"

Debit(a, n)  == [account |-> a, direction |-> "debit",  amount |-> n]
Credit(a, n) == [account |-> a, direction |-> "credit", amount |-> n]

Total(entries, d) ==
  SumFunction([i \in DOMAIN entries |->
                 IF entries[i].direction = d THEN entries[i].amount ELSE 0])

\* Journal.Validate; the database checks the same at commit (assert_journal_balanced).
Valid(entries) ==
  /\ Len(entries) >= 2
  /\ \A i \in DOMAIN entries : entries[i].amount > 0
  /\ Total(entries, "debit") = Total(entries, "credit")

\* What the entries add to the balance of account a.
Effect(entries, a) ==
  SumFunction([i \in DOMAIN entries |->
                 IF entries[i].account = a THEN SignedDelta(entries[i]) ELSE 0])

\* Reverse: every entry with its direction swapped.
Mirror(entries) ==
  [i \in DOMAIN entries |-> [entries[i] EXCEPT !.direction = Opposite(@)]]

Occurrences(x, entries) == Cardinality({i \in DOMAIN entries : entries[i] = x})

\* ValidateReversal: the two are mirror images as multisets of lines.
Mirrors(orig, rev) ==
  /\ Len(orig) = Len(rev)
  /\ \A i \in DOMAIN rev : Occurrences(rev[i], rev) = Occurrences(rev[i], Mirror(orig))

-----------------------------------------------------------------------------
(* Templates.  An event carries its type, the payment, refund or dispute   *)
(* it is about, its amount and its fee (0 for none).                       *)

PostingTypes == {"payment.captured", "refund.created", "refund.succeeded", "refund.failed",
                 "dispute.opened", "dispute.lost", "dispute.won"}
RefundTypes == {"refund.created", "refund.succeeded", "refund.failed"}
SilentTypes == {"payment.created", "payment.requires_action", "payment.authorized",
                "payment.voided", "payment.failed", "payment.expired",
                "dispute.evidence_submitted"}

TemplateName ==
  [t \in PostingTypes |->
     CASE t = "payment.captured" -> "J-CAP"
       [] t = "refund.created"   -> "J-REF-PEND"
       [] t = "refund.succeeded" -> "J-REF-OK"
       [] t = "refund.failed"    -> "J-REF-FAIL"
       [] t = "dispute.opened"   -> "J-CB-OPEN"
       [] t = "dispute.lost"     -> "J-CB-LOST"
       [] t = "dispute.won"      -> "J-CB-WON"]

Lines(condition, entries) == IF condition THEN entries ELSE << >>

\* Mutant of TemplateCapture: the merchant is credited the gross amount.
TemplateCaptureGross(ev) ==
  <<Debit("psp_receivable", ev.amount), Credit("merchant_payable", ev.amount)>>
  \o Lines(ev.fee > 0, <<Credit("fee_revenue", ev.fee)>>)

TemplateCapture(ev) ==
  <<Debit("psp_receivable", ev.amount)>>
  \o Lines(ev.amount > ev.fee, <<Credit("merchant_payable", ev.amount - ev.fee)>>)
  \o Lines(ev.fee > 0, <<Credit("fee_revenue", ev.fee)>>)

TemplateRefundPending(ev) ==
  <<Debit("merchant_payable", ev.amount), Credit("refund_clearing", ev.amount)>>

TemplateRefundSucceeded(ev) ==
  <<Debit("refund_clearing", ev.amount), Credit("psp_receivable", ev.amount)>>
  \o Lines(ev.fee > 0, <<Debit("merchant_payable", ev.fee), Credit("fee_revenue", ev.fee)>>)

\* Mutant of TemplateRefundFailed: the lines of the pending refund, not their mirror.
TemplateRefundFailedAgain(ev) ==
  <<Debit("merchant_payable", ev.amount), Credit("refund_clearing", ev.amount)>>

TemplateRefundFailed(ev) ==
  <<Debit("refund_clearing", ev.amount), Credit("merchant_payable", ev.amount)>>

TemplateDisputeOpened(ev) ==
  <<Debit("merchant_payable", ev.amount), Credit("chargeback_reserve", ev.amount)>>
  \o Lines(ev.fee > 0,
           <<Debit("merchant_payable", ev.fee), Credit("chargeback_fee_revenue", ev.fee)>>)

TemplateDisputeLost(ev) ==
  <<Debit("chargeback_reserve", ev.amount), Credit("psp_receivable", ev.amount)>>

TemplateDisputeWon(ev) ==
  <<Debit("chargeback_reserve", ev.amount), Credit("merchant_payable", ev.amount)>>
  \o Lines(RefundChargebackFeeOnWin /\ ev.fee > 0,
           <<Debit("chargeback_fee_revenue", ev.fee), Credit("merchant_payable", ev.fee)>>)

\* The entries TemplateFor gives an event that posts.
EntriesFor(ev) ==
  CASE ev.type = "payment.captured" -> TemplateCapture(ev)
    [] ev.type = "refund.created"   -> TemplateRefundPending(ev)
    [] ev.type = "refund.succeeded" -> TemplateRefundSucceeded(ev)
    [] ev.type = "refund.failed"    -> TemplateRefundFailed(ev)
    [] ev.type = "dispute.opened"   -> TemplateDisputeOpened(ev)
    [] ev.type = "dispute.lost"     -> TemplateDisputeLost(ev)
    [] ev.type = "dispute.won"      -> TemplateDisputeWon(ev)

\* baseJournal, ErrFeeExceedsAmount: the events a template can be filled from.
WellFormed(ev) ==
  /\ ev.amount > 0
  /\ ev.fee >= 0
  /\ ev.type = "payment.captured" => ev.fee <= ev.amount

=============================================================================
