--------------------------- MODULE PaymentService ----------------------------
(***************************************************************************)
(* payment-service: the use cases of internal/payment/app running           *)
(* concurrently against one payment, its database rows and the PSP.        *)
(*                                                                         *)
(* Every element of Creators, Confirmers, Capturers, Voiders and Refunders *)
(* is one API call served by its own goroutine (possibly in another        *)
(* replica).  All creators carry the same (merchant, Idempotency-Key).      *)
(* A call's steps are split exactly where the Go code leaves the database  *)
(* or calls the PSP, so every interleaving of those points is explored;    *)
(* a database transaction is one step.                                     *)
(*                                                                         *)
(* A PSP call is a message in net.  The PSP may execute it at any time,    *)
(* also after the caller's deadline, or never; the caller sees the reply   *)
(* or a transport error whether or not the PSP executed the call.          *)
(***************************************************************************)
EXTENDS PaymentDomain, FiniteSets, Functions

CONSTANTS
  Creators,      \* CreatePayment calls, all with one idempotency key
  Confirmers,    \* ConfirmPayment calls
  Capturers,     \* CapturePayment calls
  Voiders,       \* VoidPayment calls
  Refunders,     \* CreateRefund calls
  RefundKeys,    \* idempotency keys of the refund calls (= refund ids)
  RefundKey,     \* [Refunders -> RefundKeys]
  Candidates,    \* the routed provider list, best first
  MaxAttempts,   \* Config.MaxAttempts
  MaxResolve,    \* len(Config.ResolveDelays)
  Linearizable   \* the PSP executes each call atomically (see PspRead)

Callers == Creators \cup Confirmers \cup Capturers \cup Voiders \cup Refunders
Providers == {Candidates[i] : i \in 1 .. Len(Candidates)}
Refs == 1 .. MaxAttempts

ASSUME ServiceAssumption ==
  /\ MaxAttempts \in Nat \ {0}
  /\ MaxResolve \in Nat
  /\ Linearizable \in BOOLEAN
  /\ Candidates \in Seq(STRING \ {"none"})
  /\ Len(Candidates) > 0
  /\ RefundKey \in [Refunders -> RefundKeys]
  /\ Creators \cap (Confirmers \cup Capturers \cup Voiders \cup Refunders) = {}
  /\ Confirmers \cap (Capturers \cup Voiders \cup Refunders) = {}
  /\ Capturers \cap (Voiders \cup Refunders) = {}
  /\ Voiders \cap Refunders = {}

VARIABLES
  row,        \* the payments row
  attempts,   \* its payment_attempts, in attempt_no order
  events,     \* its payment_events (and, in the same transaction, the outbox)
  refunds,    \* the refunds rows, by idempotency key
  txn,        \* the PSP's transactions; attempt n creates the one with reference n
  net,        \* PSP calls on the wire
  req,        \* the state of every API call
  lapsed      \* deadlines that have passed: "action" (ExpiresAt), "auth" (AuthExpiresAt)

db == <<row, attempts, events, refunds>>
vars == <<row, attempts, events, refunds, txn, net, req, lapsed>>

-----------------------------------------------------------------------------
(* API calls.  p is the payment as the call loaded it, att the attempt it  *)
(* works on, amt its amount, idx the candidate in use, tries the status    *)
(* queries left, late the payer's deadline as read by the clock, out the   *)
(* PSP's answer (authOutcome / resultCategory).                            *)

NoOut == [kind |-> "none", cat |-> "none", captured |-> FALSE, amt |-> 0]
Approved(captured, amt) ==
  [kind |-> "approved", cat |-> "none", captured |-> captured, amt |-> amt]
ActionRequired == [NoOut EXCEPT !.kind = "requires_action"]
Failed(cat) == [NoOut EXCEPT !.kind = "failed", !.cat = cat]
Accepted == [NoOut EXCEPT !.kind = "pending"]   \* an asynchronous refund

\* Mutant of Succeeded: every answer of the PSP is taken for a success.
SucceededOnAnyAnswer(out) == out.kind # "none"

\* resultCategory: only an explicit success of the PSP counts as one.
Succeeded(out) == out.kind = "approved"

Idle == [pc |-> "idle", p |-> NoRow, att |-> 0, amt |-> 0, idx |-> 1,
         tries |-> 0, late |-> FALSE, out |-> NoOut]
Done == [Idle EXCEPT !.pc = "done"]

\* The call returns to its client.
End(r) == req' = [req EXCEPT ![r] = Done]

Goto(r, pc) == req' = [req EXCEPT ![r].pc = pc]

NoTxn == [status |-> "none", provider |-> "none", auto |-> FALSE,
          captured |-> 0, refunded |-> 0, done |-> {}]

\* copy: the transaction as the PSP's handler of the call read it, NoTxn before.
Message(op, r, provider, ref, amt, immediately) ==
  [op |-> op, by |-> r, provider |-> provider, ref |-> ref, amt |-> amt,
   immediately |-> immediately, copy |-> NoTxn]

\* The pc in which the sender of a message of kind op waits for its reply.
WaitingFor(op) ==
  CASE op = "authorize" -> "authorizing"
    [] op = "capture"   -> "capturing"
    [] op = "void"      -> "voiding"
    [] OTHER            -> "refunding"

-----------------------------------------------------------------------------
(* persist: the payment row under the optimistic lock, an attempt, the     *)
(* events and their outbox rows, in one transaction; a version conflict or *)
(* a failed CHECK rolls all of it back.                                    *)

\* Mutant of CanPersist: UPDATE payments without "AND version = $2".
CanPersistUnlocked(p, expectedVersion) == DbChecks(p)

CanPersist(p, expectedVersion) == row.version = expectedVersion /\ DbChecks(p)

Persist(p, expectedVersion, newAttempts, newEvents) ==
  IF CanPersist(p, expectedVersion)
    THEN /\ row' = p
         /\ attempts' = newAttempts
         /\ events' = events \o newEvents
    ELSE UNCHANGED <<row, attempts, events>>

-----------------------------------------------------------------------------
(* CreatePayment                                                           *)

\* Steps 1 and 2: the idempotency lookup, NewPayment's validation and the
\* routing.  An existing payment is replayed; an invalid command or an empty
\* candidate list is refused without creating anything.
CreateLookup(r) ==
  /\ req[r].pc = "idle"
  /\ IF row.status # "none" THEN End(r) ELSE Goto(r, "inserting") \/ End(r)
  /\ UNCHANGED <<db, txn, net, lapsed>>

\* Mutant of DuplicateKey: no unique index on (merchant_id, idempotency_key).
DuplicateKeyUnseen == FALSE

\* payments_merchant_idem_key refuses a second row of the merchant's key.
DuplicateKey == row.status # "none"

\* Step 3 (tx1): the row, the first attempt and payment.created.  The unique
\* index on (merchant_id, idempotency_key) turns a lost race into a replay.
CreateTx1(r) ==
  /\ req[r].pc = "inserting"
  /\ IF DuplicateKey
       THEN End(r) /\ UNCHANGED <<db, net>>
       ELSE \E method \in {"automatic", "manual"} :
              LET p == NewPayment(method, Candidates[1])
              IN  /\ row' = p
                  /\ attempts' = <<NewAttempt(Candidates[1])>>
                  /\ events' = <<Event("payment.created", NoRow, "created")>>
                  /\ net' = net \cup {Message("authorize", r, Candidates[1], 1,
                                              Amount, method = "automatic")}
                  /\ req' = [req EXCEPT ![r].pc = "authorizing", ![r].p = p,
                                        ![r].att = 1]
                  /\ UNCHANGED refunds
  /\ UNCHANGED <<txn, lapsed>>

\* What a call sees instead of a reply: its deadline (or a cancellation), or a
\* connection that was refused or broke.  Neither says what the PSP did.
TransportErrors == {Failed("provider_timeout"), Failed("provider_unavailable")}

\* authorizeOnce returns: the PSP's reply, or the transport error that took
\* its place.  A timeout goes to resolveUnknown before anything is recorded.
AuthorizeReturns(r) ==
  /\ req[r].pc = "authorizing"
  /\ \E out \in {req[r].out} \cup TransportErrors :
       /\ out.kind # "none"
       /\ req' = [req EXCEPT
            ![r].out = out,
            ![r].tries = MaxResolve,
            ![r].pc = IF out.kind = "failed" /\ AttemptStatus(out.cat) = "unknown"
                        THEN "resolving" ELSE "applying"]
  /\ UNCHANGED <<db, txn, net, lapsed>>

\* What the PSP knows under a provider reference; 0 is the empty reference.
StatusOf(provider, ref) ==
  IF ref \in Refs /\ txn[ref].status # "none" /\ txn[ref].provider = provider
    THEN txn[ref].status ELSE "not_found"

\* The PSP statuses that end an authorization as failed.
DeadAtPsp == {"failed", "voided"}

\* Mutant of ResolveUnknown: a failed query is tried again without limit.
ResolveUnknownForever(r) ==
  /\ req[r].pc = "resolving"
  /\ req' = [req EXCEPT ![r].tries = IF @ > 1 THEN 1 ELSE MaxResolve]
  /\ UNCHANGED <<db, txn, net, lapsed>>

\* resolveUnknown: one GetPaymentStatus by attempt.ProviderReference, which
\* an attempt that timed out does not have.  A failed query or an
\* inconclusive status uses up one of the delays; with none left (or the
\* context ended) the attempt stays unknown.
ResolveUnknown(r) ==
  LET a  == attempts[req[r].att]
      st == StatusOf(a.provider, a.ref)
      Conclude(out) == req' = [req EXCEPT ![r].out = out, ![r].pc = "applying"]
      Inconclusive ==
        IF req[r].tries > 1
          THEN req' = [req EXCEPT ![r].tries = @ - 1]
          ELSE Goto(r, "applying")
  IN  /\ req[r].pc = "resolving"
      /\ \/ IF req[r].tries = 0 THEN Goto(r, "applying")
            ELSE CASE st = "authorized"  -> Conclude(Approved(FALSE, 0))
                   [] st = "captured"    -> Conclude(Approved(TRUE, 0))
                   [] st = "not_found"   -> Conclude(Failed("provider_unavailable"))
                   [] st \in DeadAtPsp   -> Conclude(Failed("declined_hard"))
                   [] OTHER              -> Inconclusive
         \/ req[r].tries > 0 /\ Inconclusive
      /\ UNCHANGED <<db, txn, net, lapsed>>

\* Mutant of NextCandidate: Config.MaxAttempts is not looked at.
NextCandidateUnbounded(a, idx, cat, budget) ==
  IF ~CanFailover(cat) \/ ~budget THEN <<0, "none">>
  ELSE <<Len(Candidates), Candidates[Len(Candidates)]>>

\* nextCandidate: the candidates after idx with another provider, in order;
\* with none left an unavailable provider is retried
\* (RetrySameProviderOnUnavailable).  The result is <<idx, provider>>, or
\* <<0, "none">> when the saga must stop.  budget: at least
\* MinRemainingForFailover of the saga's time is left.
NextCandidate(a, idx, cat, budget) ==
  LET others == {i \in (idx + 1) .. Len(Candidates) : Candidates[i] # a.provider}
      first  == CHOOSE i \in others : \A j \in others : i <= j
  IN  IF ~CanFailover(cat) \/ Len(attempts) >= MaxAttempts \/ ~budget
        THEN <<0, "none">>
      ELSE IF others # {} THEN <<first, Candidates[first]>>
      ELSE IF AttemptStatus(cat) = "unavailable"
        THEN <<Len(Candidates), a.provider>>
      ELSE <<0, "none">>

\* Mutant of Marked: the attempt's status is not written back.
MarkedKeepsStatus(att, status, ref) == [attempts EXCEPT ![att].ref = ref]

\* The attempt after MarkRequiresAction / MarkFailed / MarkApproved.
Marked(att, status, ref) ==
  [attempts EXCEPT ![att] =
     [provider |-> attempts[att].provider, status |-> status, ref |-> ref]]

\* outcomeRequiresAction: created -> requires_action.
ApplyRequiresAction(r) ==
  LET c == req[r]
  IN  /\ c.pc = "applying" /\ c.out.kind = "requires_action"
      /\ Persist(RequireAction(c.p, c.att), c.p.version,
                 Marked(c.att, "requires_action", c.att),
                 <<Event("payment.requires_action", c.p, "requires_action")>>)
      /\ End(r)
      /\ UNCHANGED <<refunds, txn, net, lapsed>>

\* outcomeFailed of the saga: keep an unknown attempt open, or fail over to
\* the next candidate with a new attempt, or fail the payment.
ApplyFailed(r) ==
  LET c   == req[r]
      st  == AttemptStatus(c.out.cat)
      ats == Marked(c.att, st, 0)
  IN  /\ c.pc = "applying" /\ c.out.kind = "failed"
      /\ \E budget \in BOOLEAN :
           LET next == NextCandidate(attempts[c.att], c.idx, c.out.cat, budget)
               p    == [c.p EXCEPT !.provider = next[2]]
           IN  IF st = "unknown"
                 THEN /\ Persist(c.p, c.p.version, ats, <<>>)
                      /\ End(r) /\ UNCHANGED net
               ELSE IF next[1] = 0
                 THEN /\ Persist(Fail(c.p), c.p.version, ats,
                                 <<Event("payment.failed", c.p, "failed")>>)
                      /\ End(r) /\ UNCHANGED net
               ELSE IF ~CanPersist(p, c.p.version)
                 THEN End(r) /\ UNCHANGED <<row, attempts, events, net>>
               ELSE /\ Persist(p, c.p.version, Append(ats, NewAttempt(next[2])), <<>>)
                    /\ net' = net \cup {Message("authorize", r, next[2], c.att + 1,
                                          Amount, c.p.method = "automatic")}
                    /\ req' = [req EXCEPT ![r].pc = "authorizing", ![r].p = p,
                                 ![r].att = c.att + 1, ![r].idx = next[1],
                                 ![r].out = NoOut]
      /\ UNCHANGED <<refunds, txn, lapsed>>

-----------------------------------------------------------------------------
(* applyApproved, shared by CreatePayment and ConfirmPayment               *)

\* The provider reference an approval is recorded under: the one the payment
\* already carries (ConfirmPayment), else the one in the PSP's reply.
Reference(c) == IF c.p.ref # 0 THEN c.p.ref ELSE c.att

\* Automatic capture that the PSP has not done yet: captureNow.
ApprovedNeedsCapture(r) ==
  LET c == req[r]
  IN  /\ c.pc = "applying" /\ c.out.kind = "approved"
      /\ c.p.method = "automatic" /\ ~c.out.captured
      /\ IF AuthorizeOK(c.p, c.late)
           THEN /\ net' = net \cup {Message("capture", r, attempts[c.att].provider,
                                            Reference(c), Amount, FALSE)}
                /\ req' = [req EXCEPT ![r].pc = "capturing", ![r].amt = Amount,
                                      ![r].out = NoOut]
           ELSE End(r) /\ UNCHANGED net
      /\ UNCHANGED <<db, txn, lapsed>>

\* captureNow returned: the PSP's reply counts only as success or failure.
CaptureNowReturns(r) ==
  /\ req[r].pc = "capturing"
  /\ \E out \in {req[r].out} \cup TransportErrors :
       /\ out.kind # "none"
       /\ req' = [req EXCEPT ![r].pc = "approving",
                    ![r].out = Approved(Succeeded(out), 0)]
  /\ UNCHANGED <<db, txn, net, lapsed>>

\* No (further) capture call needed: go straight to the transaction.
ApprovedAsIs(r) ==
  LET c == req[r]
  IN  /\ c.pc = "applying" /\ c.out.kind = "approved"
      /\ c.p.method = "manual" \/ c.out.captured
      /\ IF AuthorizeOK(c.p, c.late) THEN Goto(r, "approving") ELSE End(r)
      /\ UNCHANGED <<db, txn, net, lapsed>>

\* The amount an automatic payment is captured for: the PSP's own figure when
\* it gave one, else the payment's.
CapturedAmount(out) == IF out.amt > 0 THEN out.amt ELSE Amount

\* The transaction: authorized, and captured too when an automatic payment's
\* capture is known to have happened.
ApplyApproved(r) ==
  LET c  == req[r]
      a  == Authorize(c.p, attempts[c.att].provider, Reference(c))
      ea == Event("payment.authorized", c.p, "authorized")
      both == c.p.method = "automatic" /\ c.out.captured
  IN  /\ c.pc = "approving"
      /\ IF both /\ ~CaptureOK(a, CapturedAmount(c.out), FALSE)
           THEN UNCHANGED <<row, attempts, events>>
           ELSE Persist(IF both THEN Capture(a, CapturedAmount(c.out)) ELSE a,
                        c.p.version, Marked(c.att, "approved", Reference(c)),
                        IF both THEN <<ea, Event("payment.captured", a, "captured")>>
                                ELSE <<ea>>)
      /\ End(r)
      /\ UNCHANGED <<refunds, txn, net, lapsed>>

-----------------------------------------------------------------------------
(* ConfirmPayment                                                          *)

OpenAttempts == {i \in 1 .. Len(attempts) : IsOpen(attempts[i])}

\* The payment is loaded and the clock read before the PSP is asked.
ConfirmLoad(r) ==
  /\ req[r].pc = "idle"
  /\ IF row.status = "requires_action" /\ OpenAttempts # {}
       THEN \E i \in OpenAttempts :
              req' = [req EXCEPT ![r].pc = "confirming", ![r].p = row,
                                 ![r].att = i, ![r].late = "action" \in lapsed]
       ELSE End(r)
  /\ UNCHANGED <<db, txn, net, lapsed>>

\* GetPaymentStatus by the payment's provider reference.  A failed query and
\* a status that does not settle the authorization leave everything alone.
ConfirmQuery(r) ==
  LET c  == req[r]
      st == StatusOf(c.p.provider, c.p.ref)
      Conclude(out) == req' = [req EXCEPT ![r].out = out, ![r].pc = "applying"]
  IN  /\ c.pc = "confirming"
      /\ \/ CASE st = "authorized" -> Conclude(Approved(FALSE, 0))
              [] st = "captured"   -> Conclude(Approved(TRUE, txn[c.p.ref].captured))
              [] st \in DeadAtPsp \cup {"not_found"} ->
                                      Conclude(Failed("declined_hard"))
              [] OTHER             -> End(r)
         \/ End(r)
      /\ UNCHANGED <<db, txn, net, lapsed>>

\* The authentication failed: requires_action -> failed.
ConfirmFailed(r) ==
  LET c == req[r]
  IN  /\ c.pc = "applying" /\ c.out.kind = "failed"
      /\ Persist(Fail(c.p), c.p.version,
                 Marked(c.att, AttemptStatus(c.out.cat), attempts[c.att].ref),
                 <<Event("payment.failed", c.p, "failed")>>)
      /\ End(r)
      /\ UNCHANGED <<refunds, txn, net, lapsed>>

-----------------------------------------------------------------------------
(* CapturePayment                                                          *)

\* Probe the guards on the loaded payment, then ask the PSP.  An already
\* captured payment is answered as it is.
CaptureLoad(r) ==
  /\ req[r].pc = "idle"
  /\ \E amt \in 0 .. Amount + 1 :
       IF CaptureOK(row, amt, "auth" \in lapsed)
         THEN /\ req' = [req EXCEPT ![r].pc = "capturing", ![r].p = row,
                                    ![r].amt = amt]
              /\ net' = net \cup {Message("capture", r, row.provider, row.ref,
                                          amt, FALSE)}
         ELSE End(r) /\ UNCHANGED net
  /\ UNCHANGED <<db, txn, lapsed>>

\* Mutant of AmountTaken: the requested amount, whatever the PSP answered.
AmountAsked(c) == c.amt

\* The amount a successful capture is recorded with: the one the PSP reports.
AmountTaken(c) == IF c.out.amt > 0 THEN c.out.amt ELSE c.amt

\* The PSP's captured amount replaces the requested one; any failure or
\* timeout ends the call and leaves the payment authorized.
CaptureReturns(r) ==
  /\ req[r].pc = "capturing"
  /\ \/ /\ Succeeded(req[r].out)
        /\ req' = [req EXCEPT ![r].pc = "capture_tx2", ![r].amt = AmountTaken(req[r])]
     \/ End(r)
  /\ UNCHANGED <<db, txn, net, lapsed>>

\* tx2 locks the row, compares the version and captures by the clock of now.
CaptureTx2(r) ==
  LET c == req[r]
  IN  /\ c.pc = "capture_tx2"
      /\ IF row.version = c.p.version /\ CaptureOK(row, c.amt, "auth" \in lapsed)
           THEN Persist(Capture(row, c.amt), c.p.version, attempts,
                        <<Event("payment.captured", row, "captured")>>)
           ELSE UNCHANGED <<row, attempts, events>>
      /\ End(r)
      /\ UNCHANGED <<refunds, txn, net, lapsed>>

-----------------------------------------------------------------------------
(* VoidPayment                                                             *)

VoidLoad(r) ==
  /\ req[r].pc = "idle"
  /\ IF ~VoidOK(row) THEN End(r) /\ UNCHANGED net
     ELSE /\ req' = [req EXCEPT ![r].p = row, ![r].pc =
                       IF row.ref = 0 THEN "void_tx2" ELSE "voiding"]
          /\ net' = IF row.ref = 0 THEN net
                    ELSE net \cup {Message("void", r, row.provider, row.ref, 0, FALSE)}
  /\ UNCHANGED <<db, txn, lapsed>>

VoidReturns(r) ==
  /\ req[r].pc = "voiding"
  /\ \/ Succeeded(req[r].out) /\ Goto(r, "void_tx2")
     \/ End(r)
  /\ UNCHANGED <<db, txn, net, lapsed>>

VoidTx2(r) ==
  LET c == req[r]
  IN  /\ c.pc = "void_tx2"
      /\ IF row.version = c.p.version /\ VoidOK(row)
           THEN Persist(Void(row), c.p.version, attempts,
                        <<Event("payment.voided", row, "voided")>>)
           ELSE UNCHANGED <<row, attempts, events>>
      /\ End(r)
      /\ UNCHANGED <<refunds, txn, net, lapsed>>

-----------------------------------------------------------------------------
(* CreateRefund                                                            *)

NoRefund == [status |-> "none", amount |-> 0]

\* The idempotency lookup: an existing refund is replayed.
RefundLookup(r) ==
  /\ req[r].pc = "idle"
  /\ IF refunds[RefundKey[r]].status # "none" THEN End(r) ELSE Goto(r, "reserving")
  /\ UNCHANGED <<db, txn, net, lapsed>>

\* tx1: lock the payment, reserve the amount, insert the refund (the unique
\* index refuses a second one with the same key), then call the PSP.
RefundTx1(r) ==
  LET k == RefundKey[r]
  IN  /\ req[r].pc = "reserving"
      /\ \E amt \in 0 .. Amount :
           IF /\ ReserveRefundOK(row, amt)
              /\ refunds[k].status = "none"
              /\ CanPersist(ReserveRefund(row, amt), row.version)
             THEN /\ Persist(ReserveRefund(row, amt), row.version, attempts,
                             <<Event("refund.created", row, row.status)>>)
                  /\ refunds' = [refunds EXCEPT ![k] =
                                   [status |-> "pending", amount |-> amt]]
                  /\ net' = net \cup {Message("refund", r, row.provider, row.ref,
                                              amt, FALSE)}
                  /\ req' = [req EXCEPT ![r].pc = "refunding", ![r].amt = amt]
             ELSE End(r) /\ UNCHANGED <<db, net>>
      /\ UNCHANGED <<txn, lapsed>>

\* The PSP's answer or a transport error.  An unknown outcome and an
\* asynchronous refund leave the refund pending.
RefundReturns(r) ==
  /\ req[r].pc = "refunding"
  /\ \E out \in {req[r].out} \cup TransportErrors :
       /\ out.kind # "none"
       /\ IF \/ out.kind = "pending"
             \/ out.kind = "failed" /\ AttemptStatus(out.cat) = "unknown"
            THEN End(r)
            ELSE req' = [req EXCEPT ![r].out = out, ![r].pc = "refund_tx2"]
  /\ UNCHANGED <<db, txn, net, lapsed>>

\* tx2 works on the row as it is now: MarkRefunded or ReleaseRefund, with the
\* refund row and the event in the same transaction.
RefundTx2(r) ==
  LET c  == req[r]
      ok == Succeeded(c.out)
      p  == IF ok THEN MarkRefunded(row, c.amt) ELSE ReleaseRefund(row, c.amt)
      done == IF ok THEN "succeeded" ELSE "failed"
  IN  /\ c.pc = "refund_tx2"
      /\ IF /\ IF ok THEN MarkRefundedOK(row, c.amt) ELSE ReleaseRefundOK(row, c.amt)
            /\ CanPersist(p, row.version)
           THEN /\ Persist(p, row.version, attempts,
                           <<Event(IF ok THEN "refund.succeeded" ELSE "refund.failed",
                                   row, p.status)>>)
                /\ refunds' = [refunds EXCEPT ![RefundKey[r]].status = done]
           ELSE UNCHANGED db
      /\ End(r)
      /\ UNCHANGED <<txn, net, lapsed>>

-----------------------------------------------------------------------------
(* The PSP behind its adapter.  It executes a call at any time after it    *)
(* was sent; idempotency keys make a repeated capture or refund answer as  *)
(* the first one did.  provider-mock reads the transaction, decides and    *)
(* writes in separate critical sections of its store (Linearizable =       *)
(* FALSE); that a PSP does it in one (TRUE) is an assumption about the     *)
(* PSPs in production, which the repository does not contain.              *)

\* m leaves the wire; its answer reaches the sender if it still waits.
Answer(m, out) ==
  LET c == req[m.by]
      waiting == /\ c.pc = WaitingFor(m.op) /\ c.out.kind = "none"
                 /\ m.op = "authorize" => c.att = m.ref
  IN  /\ net' = net \ {m}
      /\ req' = IF waiting THEN [req EXCEPT ![m.by].out = out] ELSE req

Captured(t, amt) == [t EXCEPT !.status = "captured", !.captured = amt]

\* The outcomes of an authorization that reaches the issuer: the transaction
\* created (if any) and the answer.
PspAuthorize(m) ==
  LET t == [NoTxn EXCEPT !.status = "authorized", !.provider = m.provider,
                         !.auto = m.immediately]
  IN  /\ m.op = "authorize"
      /\ \/ /\ txn' = [txn EXCEPT ![m.ref] = t]
            /\ Answer(m, Approved(FALSE, 0))
         \/ /\ m.immediately
            /\ txn' = [txn EXCEPT ![m.ref] = Captured(t, m.amt)]
            /\ Answer(m, Approved(TRUE, m.amt))
         \/ /\ txn' = [txn EXCEPT ![m.ref] = [t EXCEPT !.status = "requires_action"]]
            /\ Answer(m, ActionRequired)
         \/ /\ txn' = txn
            /\ \E cat \in Category \ {"provider_timeout"} : Answer(m, Failed(cat))
      /\ UNCHANGED <<db, lapsed>>

\* Store.Get: the handler of m takes its copy of the transaction and gives up
\* the store's lock.
PspRead(m) ==
  /\ ~Linearizable
  /\ m.op # "authorize" /\ m.copy = NoTxn /\ txn[m.ref] # NoTxn
  /\ net' = (net \ {m}) \cup {[m EXCEPT !.copy = txn[m.ref]]}
  /\ UNCHANGED <<db, txn, req, lapsed>>

\* What the handler of m decides on: its copy, or the transaction itself when
\* nothing happens between its Get and its Update.
View(m) == IF m.copy = NoTxn THEN txn[m.ref] ELSE m.copy

\* Decide on the view, write to the transaction (Store.Update).
PspCapture(m) ==
  LET t == View(m)
  IN  /\ m.op = "capture"
      /\ CASE t.status = "captured" ->
                txn' = txn /\ Answer(m, Approved(TRUE, t.captured))
           [] t.status \in {"authorized", "requires_action"} ->
                /\ txn' = [txn EXCEPT ![m.ref] = Captured(@, m.amt)]
                /\ Answer(m, Approved(TRUE, m.amt))
           [] OTHER -> txn' = txn /\ Answer(m, Failed("declined_hard"))
      /\ UNCHANGED <<db, lapsed>>

\* An authorization that is void already is answered without a write.
PspVoid(m) ==
  LET t == View(m)
  IN  /\ m.op = "void"
      /\ CASE t.status = "voided" -> txn' = txn /\ Answer(m, Approved(FALSE, 0))
           [] t.status \in {"authorized", "requires_action"} ->
                /\ txn' = [txn EXCEPT ![m.ref].status = "voided"]
                /\ Answer(m, Approved(FALSE, 0))
           [] OTHER -> txn' = txn /\ Answer(m, Failed("declined_hard"))
      /\ UNCHANGED <<db, lapsed>>

\* Refunds is a map, which the copy shares with the transaction; the counter
\* is written from the copy, the status from the amount captured by then.  A
\* refund may also be declined by the issuer, or be accepted and settle later.
PspRefund(m) ==
  LET t == View(m)
      k == RefundKey[m.by]
      due == t.refunded + m.amt
  IN  /\ m.op = "refund"
      /\ IF k \in txn[m.ref].done
           THEN txn' = txn /\ Answer(m, Approved(FALSE, 0))
         ELSE IF t.status \notin {"captured", "partially_refunded"} \/ due > t.captured
           THEN txn' = txn /\ Answer(m, Failed("declined_hard"))
         ELSE \/ /\ txn' = [txn EXCEPT ![m.ref] =
                     [txn[m.ref] EXCEPT !.refunded = due, !.done = @ \cup {k},
                        !.status = IF due = txn[m.ref].captured THEN "refunded"
                                   ELSE "partially_refunded"]]
                 /\ \E out \in {Approved(FALSE, 0), Accepted} : Answer(m, out)
              \/ txn' = txn /\ Answer(m, Failed("declined_hard"))
      /\ UNCHANGED <<db, lapsed>>

\* GetPaymentStatus finds a pending authentication, which it will take for a
\* finished one.
QueryRead(r) ==
  LET p == req[r].p
  IN  /\ ~Linearizable
      /\ req[r].pc = "confirming" /\ StatusOf(p.provider, p.ref) = "requires_action"
      /\ net' = net \cup {[Message("status", r, p.provider, p.ref, 0, FALSE)
                             EXCEPT !.copy = txn[p.ref]]}
      /\ UNCHANGED <<db, txn, req, lapsed>>

\* It writes "authorized", whatever the transaction has become by then; the
\* reply is what ConfirmQuery reads.
PspStatus(m) ==
  /\ m.op = "status"
  /\ txn' = [txn EXCEPT ![m.ref].status = "authorized"]
  /\ net' = net \ {m}
  /\ UNCHANGED <<db, req, lapsed>>

\* The payer finishes, or fails, the authentication of transaction n.
PspAction(n) ==
  /\ txn[n].status = "requires_action"
  /\ \/ txn' = [txn EXCEPT ![n].status = "authorized"]
     \/ txn[n].auto /\ txn' = [txn EXCEPT ![n] = Captured(@, Amount)]
     \/ txn' = [txn EXCEPT ![n].status = "failed"]
  /\ UNCHANGED <<db, net, req, lapsed>>

-----------------------------------------------------------------------------
(* The environment: time, crashes and clients that go away.                *)

Lapse ==
  /\ lapsed' = lapsed \cup (CASE row.status = "requires_action" -> {"action"}
                              [] row.status = "authorized"      -> {"auth"}
                              [] OTHER                          -> {})
  /\ lapsed' # lapsed
  /\ UNCHANGED <<db, txn, net, req>>

Active(r) == req[r].pc \notin {"idle", "done", "cancelled"}

\* The process dies, or the database refuses the next statement: the call is
\* gone and only what it committed or sent remains.
Crash(r) ==
  /\ Active(r)
  /\ End(r)
  /\ UNCHANGED <<db, txn, net, lapsed>>

\* The client hangs up.  The calls whose last transaction runs under the
\* request's own context stop where they are; the others run on, because
\* context.WithoutCancel protects their tx2.
ClientCancel(r) ==
  /\ Active(r)
  /\ r \in Creators \cup Confirmers
  /\ ~(r \in Confirmers /\ req[r].pc = "applying" /\ req[r].out.kind = "failed")
  /\ req' = [req EXCEPT ![r] =
       [Done EXCEPT !.pc = "cancelled", !.att = req[r].att,
          !.out = IF req[r].pc \in {"applying", "approving"} THEN req[r].out ELSE NoOut]]
  /\ UNCHANGED <<db, txn, net, lapsed>>

-----------------------------------------------------------------------------
Init ==
  /\ row = NoRow
  /\ attempts = <<>>
  /\ events = <<>>
  /\ refunds = [k \in RefundKeys |-> NoRefund]
  /\ txn = [n \in Refs |-> NoTxn]
  /\ net = {}
  /\ req = [r \in Callers |-> Idle]
  /\ lapsed = {}

CreateStep(r) ==
  \/ CreateLookup(r) \/ CreateTx1(r) \/ AuthorizeReturns(r) \/ ResolveUnknown(r)
  \/ ApplyRequiresAction(r) \/ ApplyFailed(r)

ConfirmStep(r) == ConfirmLoad(r) \/ ConfirmQuery(r) \/ ConfirmFailed(r)

ApproveStep(r) ==
  \/ ApprovedNeedsCapture(r) \/ CaptureNowReturns(r)
  \/ ApprovedAsIs(r) \/ ApplyApproved(r)

CaptureStep(r) == CaptureLoad(r) \/ CaptureReturns(r) \/ CaptureTx2(r)

VoidStep(r) == VoidLoad(r) \/ VoidReturns(r) \/ VoidTx2(r)

RefundStep(r) ==
  RefundLookup(r) \/ RefundTx1(r) \/ RefundReturns(r) \/ RefundTx2(r)

\* The next step of the goroutine that serves call r.
Step(r) ==
  \/ r \in Creators /\ CreateStep(r)
  \/ r \in Confirmers /\ ConfirmStep(r)
  \/ r \in Creators \cup Confirmers /\ ApproveStep(r)
  \/ r \in Capturers /\ CaptureStep(r)
  \/ r \in Voiders /\ VoidStep(r)
  \/ r \in Refunders /\ RefundStep(r)

Psp ==
  \/ \E m \in net :
       \/ PspAuthorize(m) \/ PspRead(m) \/ PspCapture(m) \/ PspVoid(m)
       \/ PspRefund(m) \/ PspStatus(m)
  \/ \E r \in Confirmers : QueryRead(r)
  \/ \E n \in Refs : PspAction(n)

Next ==
  \/ \E r \in Callers : Step(r) \/ Crash(r) \/ ClientCancel(r)
  \/ Psp
  \/ Lapse

Spec == Init /\ [][Next]_vars

\* Every goroutine keeps running: each PSP call has a deadline (callCtx), so a
\* call that waits can always go on with a timeout.  The PSP, the payer, the
\* clients and the clock are under no obligation.
FairSpec == Spec /\ \A r \in Callers : WF_vars(Active(r) /\ Step(r))

-----------------------------------------------------------------------------
(* Types                                                                   *)

RowType ==
  [status : Status \cup {"none"}, method : {"automatic", "manual"},
   authorized : Nat, captured : Nat, refunded : Nat, pending : Nat,
   provider : Providers \cup {"none"}, ref : Refs \cup {0}, version : Nat]

AttemptType ==
  [provider : Providers, status : AttemptStatuses, ref : Refs \cup {0}]

EventName ==
  {"payment.created", "payment.requires_action", "payment.authorized",
   "payment.captured", "payment.voided", "payment.failed", "refund.created",
   "refund.succeeded", "refund.failed"}

EventType ==
  [type : EventName, from : Status \cup {"none"}, to : Status, seq : Nat]

RefundType ==
  [status : {"none", "pending", "succeeded", "failed"}, amount : Nat]

TxnStatus ==
  {"none", "requires_action", "authorized", "captured", "voided", "failed",
   "partially_refunded", "refunded"}

TxnType ==
  [status : TxnStatus, provider : Providers \cup {"none"}, auto : BOOLEAN,
   captured : Nat, refunded : Nat, done : SUBSET RefundKeys]

OutType ==
  [kind : {"none", "approved", "requires_action", "failed", "pending"},
   cat : Category \cup {"none"}, captured : BOOLEAN, amt : Nat]

PcType ==
  {"idle", "inserting", "authorizing", "resolving", "applying", "approving",
   "confirming", "capturing", "capture_tx2", "voiding", "void_tx2",
   "reserving", "refunding", "refund_tx2", "cancelled", "done"}

ReqType ==
  [pc : PcType, p : RowType, att : Refs \cup {0}, amt : Nat, idx : Nat,
   tries : 0 .. MaxResolve, late : BOOLEAN, out : OutType]

MessageType ==
  {m \in [op : {"authorize", "capture", "void", "refund", "status"}, by : Callers,
          provider : Providers \cup {"none"}, ref : Refs, amt : Nat,
          immediately : BOOLEAN, copy : TxnType] :
     /\ m.op = "refund" => m.by \in Refunders
     /\ m.op # "status" => m.provider \in Providers}

\* The type invariant of payment-service's state.  It is more than a shape:
\* no step runs with an attempt number, a provider reference or a candidate
\* that does not exist, and a refund call never makes an amount negative.
TypeOK ==
  /\ row \in RowType
  /\ attempts \in Seq(AttemptType)
  /\ events \in Seq(EventType)
  /\ refunds \in [RefundKeys -> RefundType]
  /\ txn \in [Refs -> TxnType]
  /\ net \subseteq MessageType
  /\ req \in [Callers -> ReqType]
  /\ lapsed \subseteq {"action", "auth"}

-----------------------------------------------------------------------------
(* Safety                                                                  *)

\* The payment_events log (and so the outbox) tells the row's history without
\* a gap, a duplicate or a contradiction, however the calls interleave: as
\* many events as versions, numbered 1, 2, ..., each starting where the one
\* before ended, each a transition of the status table or a refund that keeps
\* the status, the last one ending in the row's status.
LogMatchesRow ==
  /\ Len(events) = row.version
  /\ \A i \in 1 .. Len(events) :
       LET e == events[i]
       IN  /\ e.seq = i
           /\ e.from = IF i = 1 THEN "none" ELSE events[i - 1].to
           /\ \/ i = 1 /\ e.to = "created"
              \/ CanTransition(e.from, e.to)
              \/ e.from = e.to /\ e.type \in {"refund.created", "refund.failed"}
  /\ row.version > 0 => events[row.version].to = row.status

\* attempts against the payment: never two open at once (the second could be
\* authorized as well), never more than MaxAttempts, and a payment is past
\* authorization exactly when one attempt, the last, was approved, whose
\* provider and reference are the ones every later capture, void and refund
\* will use.
AttemptDiscipline ==
  /\ Cardinality(OpenAttempts) <= 1
  /\ Len(attempts) <= MaxAttempts
  /\ row.status \in {"authorized", "captured", "partially_refunded", "refunded"} =>
       /\ Len(attempts) > 0
       /\ LET a == attempts[Len(attempts)]
          IN  a.status = "approved" /\ a.provider = row.provider /\ a.ref = row.ref
  /\ row.status \in {"created", "failed"} =>
       \A i \in 1 .. Len(attempts) : attempts[i].status # "approved"
  /\ row.status = "requires_action" => OpenAttempts = {Len(attempts)}

\* At most one CreatePayment call of an idempotency key drives the
\* authorization: the loser of the unique index never calls a PSP.
OneSagaPerKey ==
  \A r, s \in Creators :
    /\ req[r].pc \in {"authorizing", "resolving", "applying", "capturing", "approving"}
    /\ req[s].pc \in {"authorizing", "resolving", "applying", "capturing", "approving"}
    => r = s

\* What the row says was captured is what the PSP captured under the payment's
\* reference, to the minor unit: also when a second capture call found the
\* money already taken, for another amount than it asked for.  It takes a
\* Linearizable PSP: two handlers that have both read "authorized" both write.
CapturedMatchesPsp ==
  row.captured > 0 =>
    row.ref \in Refs /\ txn[row.ref].captured = row.captured

\* A voided payment's authorization is void at the PSP as well, so it will
\* never be charged: also against captures still on the wire.  It takes a
\* Linearizable PSP: a void and a capture decided on old copies both succeed.
VoidedIsVoidAtPsp ==
  row.status = "voided" => row.ref \in Refs /\ txn[row.ref].status = "voided"

\* The optimistic lock: a copy of the payment that a call still holds is
\* either out of date, and then its transaction is refused, or it is the row.
CopiesAreStaleOrCurrent ==
  \A r \in Callers :
    req[r].p.status # "none" =>
      /\ req[r].p.version <= row.version
      /\ req[r].p.version = row.version => req[r].p = row

RefundTotal(status) ==
  SumFunctionOnSet([k \in RefundKeys |-> refunds[k].amount],
                   {k \in RefundKeys : refunds[k].status = status})

\* The payment's counters are the sums of its refunds rows: pending is exactly
\* what is reserved, refunded exactly what succeeded.
RefundCountersMatch ==
  /\ row.pending = RefundTotal("pending")
  /\ row.refunded = RefundTotal("succeeded")

\* A refund recorded as succeeded was carried out by the PSP, once, and the
\* PSP never gives back more than it captured.  It takes a Linearizable PSP: a
\* capture decided on an old copy overwrites the amount refunds were drawn on.
RefundsBackedByPsp ==
  /\ \A k \in RefundKeys :
       refunds[k].status = "succeeded" => row.ref \in Refs /\ k \in txn[row.ref].done
  /\ \A n \in Refs : txn[n].refunded <= txn[n].captured

\* CreateRefund's second transaction always goes through: after the PSP
\* answered, no interleaving with other refunds leaves the payment in a state
\* in which MarkRefunded or ReleaseRefund, or a CHECK of the table, refuses.
RefundTx2NeverRejected ==
  \A r \in Refunders :
    req[r].pc = "refund_tx2" =>
      IF Succeeded(req[r].out)
        THEN /\ MarkRefundedOK(row, req[r].amt)
             /\ DbChecks(MarkRefunded(row, req[r].amt))
        ELSE /\ ReleaseRefundOK(row, req[r].amt)
             /\ DbChecks(ReleaseRefund(row, req[r].amt))

-----------------------------------------------------------------------------
(* Refinement and liveness                                                 *)

Lifecycle ==
  INSTANCE PaymentLifecycle WITH
    status <- row.status, authorized <- row.authorized, captured <- row.captured,
    refunded <- row.refunded, pending <- row.pending

\* payment-service implements the lifecycle of one payment: whatever calls,
\* copies, crashes and late PSP answers interleave, the committed row only ever
\* takes the atomic steps PaymentLifecycle allows of the row as it was.
ImplementsLifecycle == Lifecycle!Spec

\* Every call that has begun returns: the failover loop, the status queries of
\* resolveUnknown and the waits for the PSP are all bounded.
CallsReturn ==
  \A r \in Callers : Active(r) ~> req[r].pc \in {"done", "cancelled"}

-----------------------------------------------------------------------------
(* What the documentation promises and the code does not keep              *)

\* The payer is never authorized twice for one payment: at most one PSP
\* transaction of the payment holds or has taken money.
NoDoubleAuthorization ==
  Cardinality({n \in Refs :
    txn[n].status \notin {"none", "failed", "voided", "requires_action"}}) <= 1

\* Every capture of a payment carries the PSP idempotency key
\* {pay_id}:capture:1, so two calls that are both told of a success are told
\* of the same one: the PSP captures once, for one amount.
SameKeySameResult ==
  \A r, s \in Callers :
    /\ req[r].pc = "capturing" /\ req[r].out.kind = "approved"
    /\ req[s].pc = "capturing" /\ req[s].out.kind = "approved"
    => req[r].out.amt = req[s].out.amt
=============================================================================
