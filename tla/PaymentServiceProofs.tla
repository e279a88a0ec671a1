------------------------ MODULE PaymentServiceProofs -------------------------
(***************************************************************************)
(* Theorems about PaymentService, for every number of calls, providers,    *)
(* attempts and every amount.                                              *)
(***************************************************************************)
EXTENDS PaymentService, SumTheorems

-----------------------------------------------------------------------------
(* The inductive invariant                                                 *)

\* Statuses of a payment of which nothing was captured.
Uncharged == {"none", "created", "requires_action", "authorized", "failed", "voided"}

\* The payments row on its own: once it exists it has a provider (and a status
\* some call can give it: disputes and expiry are not implemented); once the PSP
\* answered it has a reference; the CHECK constraints hold; and it carries no
\* captured, refunded or reserved money before it is captured.
RowOK(p) ==
  /\ p \in RowType
  /\ p.status \in Uncharged \cup {"captured", "partially_refunded", "refunded"}
  /\ p.status = "none" => p = NoRow
  /\ p.status # "none" => p.version >= 1 /\ p.provider \in Providers
  /\ p.status \in Status \ {"created", "failed"} => p.ref \in Refs
  /\ DbChecks(p)
  /\ p.status \in Uncharged => p.captured = 0 /\ p.refunded = 0 /\ p.pending = 0

\* The pcs of a call that holds a payment to be authorized.
Saga == {"authorizing", "resolving", "applying", "capturing", "approving"}
Confirming == {"confirming", "applying", "capturing", "approving"}

\* The state c of call r.  Any copy it holds is stale or current.  A creator in
\* its saga owns the payment: its copy is the row, still created, and its
\* attempt is the last one.  No other call ever holds a created payment.
CallOK(r, c) ==
  /\ c \in ReqType
  /\ c.p.status # "none" =>
       /\ c.p.version \in 1 .. row.version
       /\ c.p.version = row.version => c.p = row
  /\ r \in Creators =>
       IF c.pc \in Saga
         THEN /\ c.p = row /\ row.status = "created"
              /\ c.att = Len(attempts) /\ c.att \in Refs
         ELSE c.p.status = "none"
  /\ r \notin Creators => c.p.status # "created"
  /\ (r \in Confirmers /\ c.pc \in Confirming) =>
       c.p.status = "requires_action" /\ c.att \in 1 .. Len(attempts) /\ c.att \in Refs
  /\ (r \in Refunders /\ c.pc \in {"refunding", "refund_tx2"}) => c.amt \in 1 .. Amount

StoreOK ==
  /\ attempts \in Seq(AttemptType)
  /\ Len(attempts) <= MaxAttempts
  /\ events \in Seq(EventType)
  /\ refunds \in [RefundKeys -> RefundType]
  /\ txn \in [Refs -> TxnType]
  /\ net \subseteq MessageType
  /\ lapsed \subseteq {"action", "auth"}

IInv ==
  /\ RowOK(row)
  /\ StoreOK
  /\ req \in [Callers -> ReqType]
  /\ \A r \in Callers : CallOK(r, req[r])
  /\ OneSagaPerKey

-----------------------------------------------------------------------------
(* Facts about the constants and the constructors                          *)

\* The attempt numbers and the routed providers exist.
LEMMA Constants ==
  /\ Amount \in Nat /\ Amount > 0
  /\ 1 \in Refs /\ Refs \subseteq Nat /\ 0 \notin Refs
  /\ Candidates[1] \in Providers
  /\ \A i \in 1 .. Len(Candidates) : Candidates[i] \in Providers
  /\ Len(Candidates) \in Nat /\ Len(Candidates) > 0
  /\ "none" \notin Providers
  /\ MaxAttempts \in Nat /\ MaxResolve \in Nat
BY AmountAssumption, ServiceAssumption DEF Refs, Providers

\* The answers of the PSP and the resting states of a call are well typed.
LEMMA Constructors ==
  /\ NoRow \in RowType
  /\ NoOut \in OutType /\ ActionRequired \in OutType /\ Accepted \in OutType
  /\ \A cat \in Category : Failed(cat) \in OutType
  /\ \A b \in BOOLEAN, n \in Nat : Approved(b, n) \in OutType
  /\ Idle \in ReqType /\ Done \in ReqType
  /\ Idle.pc = "idle" /\ Idle.p = NoRow
  /\ Done.pc = "done" /\ Done.p = NoRow
  /\ TransportErrors \subseteq OutType
<1>1. NoRow \in RowType
  BY DEF NoRow, RowType
<1>2. /\ NoOut \in OutType /\ ActionRequired \in OutType /\ Accepted \in OutType
      /\ \A cat \in Category : Failed(cat) \in OutType
      /\ \A b \in BOOLEAN, n \in Nat : Approved(b, n) \in OutType
  BY DEF NoOut, ActionRequired, Accepted, Failed, Approved, OutType
<1>3. Idle \in ReqType /\ Idle.pc = "idle" /\ Idle.p = NoRow
  BY <1>1, <1>2, Constants DEF Idle, ReqType, PcType
<1>4. Done \in ReqType /\ Done.pc = "done" /\ Done.p = NoRow
  BY <1>3 DEF Done, ReqType, PcType
<1>5. TransportErrors \subseteq OutType
  BY <1>2 DEF TransportErrors, Category
<1> QED
  BY <1>1, <1>2, <1>3, <1>4, <1>5

\* Assigning one field of a call, or of a payment, keeps it well typed.
LEMMA CallFields ==
  ASSUME NEW c \in ReqType
  PROVE  /\ \A v \in PcType : [c EXCEPT !.pc = v] \in ReqType
         /\ \A v \in RowType : [c EXCEPT !.p = v] \in ReqType
         /\ \A v \in Refs \cup {0} : [c EXCEPT !.att = v] \in ReqType
         /\ \A v \in Nat : [c EXCEPT !.amt = v] \in ReqType
         /\ \A v \in Nat : [c EXCEPT !.idx = v] \in ReqType
         /\ \A v \in 0 .. MaxResolve : [c EXCEPT !.tries = v] \in ReqType
         /\ \A v \in BOOLEAN : [c EXCEPT !.late = v] \in ReqType
         /\ \A v \in OutType : [c EXCEPT !.out = v] \in ReqType
BY DEF ReqType

\* Assigning one field of a payment keeps it well typed.
LEMMA RowFields ==
  ASSUME NEW p \in RowType
  PROVE  /\ \A v \in Status : [p EXCEPT !.status = v] \in RowType
         /\ \A v \in {"automatic", "manual"} : [p EXCEPT !.method = v] \in RowType
         /\ \A v \in Nat : [p EXCEPT !.authorized = v] \in RowType
         /\ \A v \in Nat : [p EXCEPT !.captured = v] \in RowType
         /\ \A v \in Nat : [p EXCEPT !.refunded = v] \in RowType
         /\ \A v \in Nat : [p EXCEPT !.pending = v] \in RowType
         /\ \A v \in Providers : [p EXCEPT !.provider = v] \in RowType
         /\ \A v \in Refs : [p EXCEPT !.ref = v] \in RowType
         /\ \A v \in Nat : [p EXCEPT !.version = v] \in RowType
BY DEF RowType

\* A PSP call for an existing attempt and provider is well typed.
LEMMA MessageOK ==
  ASSUME NEW op \in {"authorize", "capture", "void", "refund"}, NEW r \in Callers,
         NEW provider \in Providers, NEW ref \in Refs, NEW amt \in Nat,
         NEW immediately \in BOOLEAN, op = "refund" => r \in Refunders
  PROVE  Message(op, r, provider, ref, amt, immediately) \in MessageType
<1>1. NoTxn \in TxnType
  BY DEF NoTxn, TxnType, TxnStatus
<1> QED
  BY <1>1 DEF Message, MessageType

-----------------------------------------------------------------------------
(* Steps of one call that leave the payment alone                          *)

\* A call that is over holds nothing.
LEMMA DoneOK ==
  ASSUME NEW r \in Callers
  PROVE  CallOK(r, Done)
BY Constructors DEF CallOK, NoRow, Saga, Confirming

\* A step that changes one call only, to a state CallOK allows, and does not
\* start a saga.
LEMMA QuietStep ==
  ASSUME IInv, NEW r \in Callers, NEW c, CallOK(r, c),
         req' = [req EXCEPT ![r] = c], row' = row, Len(attempts') = Len(attempts),
         StoreOK',
         (r \in Creators /\ c.pc \in Saga) => req[r].pc \in Saga
  PROVE  IInv'
<1>1. RowOK(row)'
  BY DEF IInv, RowOK, DbChecks
<1>2. req' \in [Callers -> ReqType]
  BY DEF IInv, CallOK
<1>3. \A s \in Callers : req'[s] = IF s = r THEN c ELSE req[s]
  BY DEF IInv
<1>4. \A s \in Callers : CallOK(s, req[s])'
  BY <1>3 DEF IInv, CallOK
<1>5. OneSagaPerKey'
  BY <1>3 DEF IInv, OneSagaPerKey, Saga, Callers
<1> QED
  BY <1>1, <1>2, <1>4, <1>5 DEF IInv

\* A call that returns without a transaction.
LEMMA EndStep ==
  ASSUME IInv, NEW r \in Callers, End(r), row' = row,
         Len(attempts') = Len(attempts), StoreOK'
  PROVE  IInv'
BY QuietStep, DoneOK, Constructors DEF End, Saga

\* A change of a call that keeps its copy and its attempt.
LEMMA SameHold ==
  ASSUME NEW r \in Callers, NEW c, NEW d, CallOK(r, c), d \in ReqType,
         d.p = c.p, d.att = c.att,
         r \in Creators => (d.pc \in Saga <=> c.pc \in Saga),
         (r \in Confirmers /\ d.pc \in Confirming) => c.pc \in Confirming,
         (r \in Refunders /\ d.pc \in {"refunding", "refund_tx2"}) => d.amt \in 1 .. Amount
  PROVE  CallOK(r, d)
BY DEF CallOK

\* The roles of the calls are disjoint.
LEMMA Roles ==
  /\ Creators \subseteq Callers /\ Confirmers \subseteq Callers
  /\ Capturers \subseteq Callers /\ Voiders \subseteq Callers
  /\ Refunders \subseteq Callers
  /\ \A r \in Creators : r \notin Confirmers \cup Capturers \cup Voiders \cup Refunders
  /\ \A r \in Confirmers : r \notin Creators \cup Capturers \cup Voiders \cup Refunders
  /\ \A r \in Capturers : r \notin Creators \cup Confirmers \cup Voiders \cup Refunders
  /\ \A r \in Voiders : r \notin Creators \cup Confirmers \cup Capturers \cup Refunders
  /\ \A r \in Refunders : r \notin Creators \cup Confirmers \cup Capturers \cup Voiders
BY ServiceAssumption DEF Callers

\* The idempotency lookup of CreatePayment only moves its own call.
LEMMA CreateLookupInv ==
  ASSUME IInv, NEW r \in Creators, CreateLookup(r)
  PROVE  IInv'
<1> DEFINE c == [req[r] EXCEPT !.pc = "inserting"]
<1>1. row' = row /\ attempts' = attempts /\ StoreOK' /\ r \in Callers
  BY Roles DEF CreateLookup, db, IInv, StoreOK
<1>2. CASE End(r)
  BY <1>1, <1>2, EndStep
<1>3. CASE Goto(r, "inserting")
  <2>1. c \in ReqType /\ c.p = req[r].p /\ c.att = req[r].att /\ c.pc = "inserting"
    BY <1>1 DEF IInv, ReqType, PcType
  <2>2. CallOK(r, c)
    BY <1>1, <2>1, SameHold, Roles DEF CreateLookup, IInv, Saga
  <2>3. req' = [req EXCEPT ![r] = c]
    BY <1>3 DEF Goto
  <2> QED
    BY <1>1, <2>1, <2>2, <2>3, QuietStep DEF Saga
<1> QED
  BY <1>2, <1>3 DEF CreateLookup

\* authorizeOnce returning: the saga goes on with the same attempt.
LEMMA AuthorizeReturnsInv ==
  ASSUME IInv, NEW r \in Creators, AuthorizeReturns(r)
  PROVE  IInv'
<1>1. row' = row /\ attempts' = attempts /\ StoreOK' /\ r \in Callers
  BY Roles DEF AuthorizeReturns, db, IInv, StoreOK
<1>2. PICK out \in {req[r].out} \cup TransportErrors, pc \in {"resolving", "applying"} :
        req' = [req EXCEPT ![r].out = out, ![r].tries = MaxResolve, ![r].pc = pc]
  BY DEF AuthorizeReturns
<1> DEFINE c == [req[r] EXCEPT !.out = out, !.tries = MaxResolve, !.pc = pc]
<1>3. out \in OutType /\ pc \in PcType /\ MaxResolve \in 0 .. MaxResolve /\ req[r] \in ReqType
  BY <1>1, Constructors, Constants DEF IInv, ReqType, PcType
<1>4. c \in ReqType
  BY <1>3, CallFields, Zenon
<1>5. c.p = req[r].p /\ c.att = req[r].att /\ c.pc = pc
  BY <1>3 DEF ReqType
<1>6. req' = [req EXCEPT ![r] = c]
  BY <1>2
<1> HIDE DEF c
<1>7. CallOK(r, c)
  BY <1>1, <1>4, <1>5, SameHold, Roles DEF AuthorizeReturns, IInv, Saga
<1> QED
  BY <1>1, <1>4, <1>5, <1>6, <1>7, QuietStep DEF Saga, AuthorizeReturns

\* ResolveUnknown ends with an answer, or with one query fewer, or as it was.
LEMMA ResolveUnknownInv ==
  ASSUME IInv, NEW r \in Creators, ResolveUnknown(r)
  PROVE  IInv'
<1>1. row' = row /\ attempts' = attempts /\ StoreOK' /\ r \in Callers
  BY Roles DEF ResolveUnknown, db, IInv, StoreOK
<1>2. req[r] \in ReqType /\ req[r].pc = "resolving"
  BY <1>1 DEF IInv, ResolveUnknown
<1>3. \/ \E out \in OutType : req' = [req EXCEPT ![r].out = out, ![r].pc = "applying"]
      \/ req[r].tries > 1 /\ req' = [req EXCEPT ![r].tries = @ - 1]
      \/ req' = [req EXCEPT ![r].pc = "applying"]
  BY Constructors DEF ResolveUnknown, Goto, Category
<1>4. CASE \E out \in OutType : req' = [req EXCEPT ![r].out = out, ![r].pc = "applying"]
  <2>1. PICK out \in OutType : req' = [req EXCEPT ![r].out = out, ![r].pc = "applying"]
    BY <1>4
  <2> DEFINE c == [req[r] EXCEPT !.out = out, !.pc = "applying"]
  <2>2. c \in ReqType /\ c.p = req[r].p /\ c.att = req[r].att /\ c.pc = "applying"
    BY <1>2 DEF ReqType, PcType
  <2>3. req' = [req EXCEPT ![r] = c]
    BY <2>1
  <2> HIDE DEF c
  <2>4. CallOK(r, c)
    BY <1>1, <1>2, <2>2, SameHold, Roles DEF IInv, Saga
  <2> QED
    BY <1>1, <1>2, <2>2, <2>3, <2>4, QuietStep DEF Saga
<1>5. CASE req[r].tries > 1 /\ req' = [req EXCEPT ![r].tries = @ - 1]
  <2> DEFINE c == [req[r] EXCEPT !.tries = @ - 1]
  <2>1. req[r].tries - 1 \in 0 .. MaxResolve
    BY <1>2, <1>5, Constants DEF ReqType
  <2>2. c \in ReqType /\ c.p = req[r].p /\ c.att = req[r].att /\ c.pc = "resolving"
    BY <1>2, <2>1 DEF ReqType
  <2>3. req' = [req EXCEPT ![r] = c]
    BY <1>5
  <2> HIDE DEF c
  <2>4. CallOK(r, c)
    BY <1>1, <1>2, <2>2, SameHold, Roles DEF IInv, Saga
  <2> QED
    BY <1>1, <1>2, <2>2, <2>3, <2>4, QuietStep DEF Saga
<1>6. CASE req' = [req EXCEPT ![r].pc = "applying"]
  <2> DEFINE c == [req[r] EXCEPT !.pc = "applying"]
  <2>2. c \in ReqType /\ c.p = req[r].p /\ c.att = req[r].att /\ c.pc = "applying"
    BY <1>2 DEF ReqType, PcType
  <2>3. req' = [req EXCEPT ![r] = c]
    BY <1>6
  <2> HIDE DEF c
  <2>4. CallOK(r, c)
    BY <1>1, <1>2, <2>2, SameHold, Roles DEF IInv, Saga
  <2> QED
    BY <1>1, <1>2, <2>2, <2>3, <2>4, QuietStep DEF Saga
<1> QED
  BY <1>3, <1>4, <1>5, <1>6

\* SameHold and QuietStep together: the call moves on with what it holds.
LEMMA MoveStep ==
  ASSUME IInv, NEW r \in Callers, NEW c \in ReqType,
         c.p = req[r].p, c.att = req[r].att,
         r \in Creators => (c.pc \in Saga <=> req[r].pc \in Saga),
         (r \in Confirmers /\ c.pc \in Confirming) => req[r].pc \in Confirming,
         (r \in Refunders /\ c.pc \in {"refunding", "refund_tx2"}) => c.amt \in 1 .. Amount,
         req' = [req EXCEPT ![r] = c], row' = row, attempts' = attempts, StoreOK'
  PROVE  IInv'
<1>1. CallOK(r, c)
  BY SameHold DEF IInv
<1> QED
  BY <1>1, QuietStep

\* A call that only moves to another point of its code.
LEMMA GotoStep ==
  ASSUME IInv, NEW r \in Callers, NEW pc \in PcType, Goto(r, pc),
         r \in Creators => (pc \in Saga <=> req[r].pc \in Saga),
         (r \in Confirmers /\ pc \in Confirming) => req[r].pc \in Confirming,
         r \in Refunders => pc \notin {"refunding", "refund_tx2"},
         row' = row, attempts' = attempts, StoreOK'
  PROVE  IInv'
<1> DEFINE c == [req[r] EXCEPT !.pc = pc]
<1>1. c \in ReqType /\ c.p = req[r].p /\ c.att = req[r].att /\ c.pc = pc
  BY DEF IInv, ReqType
<1>2. req' = [req EXCEPT ![r] = c]
  BY DEF Goto
<1> HIDE DEF c
<1> QED
  BY <1>1, <1>2, MoveStep

\* What a call that is to record an approval holds.
LEMMA ApproverHolds ==
  ASSUME IInv, NEW r \in Creators \cup Confirmers,
         req[r].pc \in {"applying", "capturing", "approving"}
  PROVE  /\ r \in Callers /\ req[r] \in ReqType
         /\ req[r].att \in 1 .. Len(attempts) /\ req[r].att \in Refs
         /\ attempts[req[r].att] \in AttemptType
         /\ Reference(req[r]) \in Refs
         /\ req[r].p.status \in {"created", "requires_action"}
<1>1. r \in Callers /\ req[r] \in ReqType
  BY Roles DEF IInv
<1>2. /\ req[r].att \in 1 .. Len(attempts) /\ req[r].att \in Refs
      /\ req[r].p.status \in {"created", "requires_action"}
  <2>1. CASE r \in Creators
    <3>1. req[r].att = Len(attempts) /\ req[r].att \in Refs /\ req[r].p.status = "created"
      BY <1>1, <2>1 DEF IInv, CallOK, Saga
    <3> QED
      BY <3>1 DEF Refs
  <2>2. CASE r \in Confirmers
    BY <1>1, <2>2 DEF IInv, CallOK, Confirming
  <2> QED
    BY <2>1, <2>2
<1>3. attempts[req[r].att] \in AttemptType
  BY <1>2 DEF IInv, StoreOK
<1>4. Reference(req[r]) \in Refs
  BY <1>1, <1>2 DEF Reference, ReqType, RowType
<1> QED
  BY <1>1, <1>2, <1>3, <1>4

\* captureNow sends a capture for the attempt the call holds.
LEMMA ApprovedNeedsCaptureInv ==
  ASSUME IInv, NEW r \in Creators \cup Confirmers, ApprovedNeedsCapture(r)
  PROVE  IInv'
<1>1. row' = row /\ attempts' = attempts /\ r \in Callers /\ req[r] \in ReqType
  BY Roles DEF ApprovedNeedsCapture, db, IInv
<1>2. req[r].pc = "applying" /\ r \notin Refunders
  BY Roles DEF ApprovedNeedsCapture
<1>3. CASE End(r) /\ UNCHANGED net
  <2>1. StoreOK'
    BY <1>3 DEF ApprovedNeedsCapture, db, IInv, StoreOK
  <2> QED
    BY <1>1, <1>3, <2>1, EndStep
<1>4. CASE /\ net' = net \cup {Message("capture", r, attempts[req[r].att].provider,
                                       Reference(req[r]), Amount, FALSE)}
           /\ req' = [req EXCEPT ![r].pc = "capturing", ![r].amt = Amount, ![r].out = NoOut]
  <2>1. Message("capture", r, attempts[req[r].att].provider, Reference(req[r]), Amount, FALSE)
          \in MessageType
    BY <1>1, <1>2, ApproverHolds, MessageOK, Constants DEF AttemptType
  <2>2. StoreOK'
    BY <1>4, <2>1 DEF ApprovedNeedsCapture, db, IInv, StoreOK
  <2> DEFINE c == [req[r] EXCEPT !.pc = "capturing", !.amt = Amount, !.out = NoOut]
  <2>3. "capturing" \in PcType /\ Amount \in Nat /\ NoOut \in OutType
    BY Constants, Constructors DEF PcType
  <2>4. c \in ReqType
    BY <1>1, <2>3, CallFields, Zenon
  <2>5. c.p = req[r].p /\ c.att = req[r].att /\ c.pc = "capturing"
    BY <1>1 DEF ReqType
  <2>6. req' = [req EXCEPT ![r] = c]
    BY <1>4
  <2> HIDE DEF c
  <2> QED
    BY <1>1, <1>2, <2>2, <2>4, <2>5, <2>6, MoveStep DEF Saga, Confirming
<1> QED
  BY <1>3, <1>4 DEF ApprovedNeedsCapture

\* captureNow's answer changes only what the call knows.
LEMMA CaptureNowReturnsInv ==
  ASSUME IInv, NEW r \in Creators \cup Confirmers, CaptureNowReturns(r)
  PROVE  IInv'
<1>1. /\ row' = row /\ attempts' = attempts /\ StoreOK'
      /\ r \in Callers /\ r \notin Refunders /\ req[r] \in ReqType
  BY Roles DEF CaptureNowReturns, db, IInv, StoreOK
<1>2. PICK out : req' = [req EXCEPT ![r].pc = "approving",
                                    ![r].out = Approved(Succeeded(out), 0)]
  BY DEF CaptureNowReturns
<1> DEFINE c == [req[r] EXCEPT !.pc = "approving", !.out = Approved(Succeeded(out), 0)]
<1>3. "approving" \in PcType /\ Approved(Succeeded(out), 0) \in OutType
  BY Constructors DEF PcType, Succeeded
<1>4. c \in ReqType
  BY <1>1, <1>3, CallFields, Zenon
<1>5. c.p = req[r].p /\ c.att = req[r].att /\ c.pc = "approving"
  BY <1>1 DEF ReqType
<1>6. req' = [req EXCEPT ![r] = c]
  BY <1>2
<1> HIDE DEF c
<1> QED
  BY <1>1, <1>4, <1>5, <1>6, MoveStep DEF Saga, Confirming, CaptureNowReturns

\* An approval that needs no capture leads straight to the transaction.
LEMMA ApprovedAsIsInv ==
  ASSUME IInv, NEW r \in Creators \cup Confirmers, ApprovedAsIs(r)
  PROVE  IInv'
<1>1. /\ row' = row /\ attempts' = attempts /\ StoreOK'
      /\ r \in Callers /\ r \notin Refunders /\ req[r].pc = "applying"
      /\ End(r) \/ Goto(r, "approving")
  BY Roles DEF ApprovedAsIs, db, IInv, StoreOK
<1> QED
  BY <1>1, EndStep, GotoStep DEF Saga, Confirming, PcType

\* A call that loads the row: its copy is current.
LEMMA LoadedCopy ==
  ASSUME IInv, row.status # "none"
  PROVE  row \in RowType /\ row.version \in 1 .. row.version /\ row.provider \in Providers
BY DEF IInv, RowOK, RowType

\* ConfirmPayment loads the row as it is, in requires_action.
LEMMA ConfirmLoadInv ==
  ASSUME IInv, NEW r \in Confirmers, ConfirmLoad(r)
  PROVE  IInv'
<1>1. /\ row' = row /\ attempts' = attempts /\ StoreOK'
      /\ r \in Callers /\ r \notin Refunders \cup Creators /\ req[r] \in ReqType
  BY Roles DEF ConfirmLoad, db, IInv, StoreOK
<1>2. CASE End(r)
  BY <1>1, <1>2, EndStep
<1>3. CASE /\ row.status = "requires_action"
           /\ \E i \in OpenAttempts :
                req' = [req EXCEPT ![r].pc = "confirming", ![r].p = row,
                                   ![r].att = i, ![r].late = "action" \in lapsed]
  <2>1. PICK i \in OpenAttempts :
          req' = [req EXCEPT ![r].pc = "confirming", ![r].p = row,
                             ![r].att = i, ![r].late = "action" \in lapsed]
    BY <1>3
  <2>2. i \in 1 .. Len(attempts) /\ i \in Refs
    BY Constants DEF OpenAttempts, IInv, StoreOK, Refs
  <2> DEFINE c == [req[r] EXCEPT !.pc = "confirming", !.p = row, !.att = i,
                                 !.late = "action" \in lapsed]
  <2>3. /\ "confirming" \in PcType /\ row \in RowType /\ i \in Refs \cup {0}
        /\ ("action" \in lapsed) \in BOOLEAN
    BY <1>3, <2>2, LoadedCopy DEF PcType
  <2>4. c \in ReqType
    BY <1>1, <2>3, CallFields, Zenon
  <2>5. c.p = row /\ c.att = i /\ c.pc = "confirming"
    BY <1>1 DEF ReqType
  <2>6. req' = [req EXCEPT ![r] = c]
    BY <2>1
  <2> HIDE DEF c
  <2>7. CallOK(r, c)
    BY <1>1, <1>3, <2>2, <2>4, <2>5, LoadedCopy DEF CallOK
  <2> QED
    BY <1>1, <2>6, <2>7, QuietStep
<1> QED
  BY <1>2, <1>3 DEF ConfirmLoad

\* ConfirmPayment's status query changes nothing but the call.
LEMMA ConfirmQueryInv ==
  ASSUME IInv, NEW r \in Confirmers, ConfirmQuery(r)
  PROVE  IInv'
<1>1. /\ row' = row /\ attempts' = attempts /\ StoreOK' /\ req[r].pc = "confirming"
      /\ r \in Callers /\ r \notin Refunders \cup Creators /\ req[r] \in ReqType
  BY Roles DEF ConfirmQuery, db, IInv, StoreOK
<1>2. \/ End(r)
      \/ \E out \in OutType : req' = [req EXCEPT ![r].out = out, ![r].pc = "applying"]
  <2>1. Failed("declined_hard") \in OutType /\ Approved(FALSE, 0) \in OutType
    BY Constructors DEF Category
  <2>2. req[r].p.ref \in Refs => Approved(TRUE, txn[req[r].p.ref].captured) \in OutType
    BY Constructors DEF IInv, StoreOK, TxnType
  <2>3. StatusOf(req[r].p.provider, req[r].p.ref) = "captured" => req[r].p.ref \in Refs
    BY DEF StatusOf
  <2> QED
    BY <2>1, <2>2, <2>3 DEF ConfirmQuery
<1>3. CASE \E out \in OutType : req' = [req EXCEPT ![r].out = out, ![r].pc = "applying"]
  <2>1. PICK out \in OutType : req' = [req EXCEPT ![r].out = out, ![r].pc = "applying"]
    BY <1>3
  <2> DEFINE c == [req[r] EXCEPT !.out = out, !.pc = "applying"]
  <2>2. c \in ReqType /\ c.p = req[r].p /\ c.att = req[r].att /\ c.pc = "applying"
    BY <1>1 DEF ReqType, PcType
  <2>3. req' = [req EXCEPT ![r] = c]
    BY <2>1
  <2> HIDE DEF c
  <2> QED
    BY <1>1, <2>2, <2>3, MoveStep DEF Confirming
<1> QED
  BY <1>1, <1>2, <1>3, EndStep

\* CapturePayment loads an authorized row and sends a well-typed capture.
LEMMA CaptureLoadInv ==
  ASSUME IInv, NEW r \in Capturers, CaptureLoad(r)
  PROVE  IInv'
<1>1. /\ row' = row /\ attempts' = attempts /\ r \in Callers /\ req[r] \in ReqType
      /\ r \notin Refunders \cup Creators \cup Confirmers
  BY Roles DEF CaptureLoad, db, IInv
<1>2. CASE End(r) /\ UNCHANGED net
  <2>1. StoreOK'
    BY <1>2 DEF CaptureLoad, db, IInv, StoreOK
  <2> QED
    BY <1>1, <1>2, <2>1, EndStep
<1>3. CASE \E amt \in 0 .. Amount + 1 :
             /\ CaptureOK(row, amt, "auth" \in lapsed)
             /\ req' = [req EXCEPT ![r].pc = "capturing", ![r].p = row, ![r].amt = amt]
             /\ net' = net \cup {Message("capture", r, row.provider, row.ref, amt, FALSE)}
  <2>1. PICK amt \in 0 .. Amount + 1 :
             /\ CaptureOK(row, amt, "auth" \in lapsed)
             /\ req' = [req EXCEPT ![r].pc = "capturing", ![r].p = row, ![r].amt = amt]
             /\ net' = net \cup {Message("capture", r, row.provider, row.ref, amt, FALSE)}
    BY <1>3
  <2>2. row.status = "authorized" /\ amt \in Nat
    BY <2>1, Constants DEF CaptureOK
  <2>3. row.provider \in Providers /\ row.ref \in Refs /\ row \in RowType
    BY <2>2 DEF IInv, RowOK, Status
  <2>4. Message("capture", r, row.provider, row.ref, amt, FALSE) \in MessageType
    BY <1>1, <2>2, <2>3, MessageOK
  <2>5. StoreOK'
    BY <2>1, <2>4 DEF CaptureLoad, db, IInv, StoreOK
  <2> DEFINE c == [req[r] EXCEPT !.pc = "capturing", !.p = row, !.amt = amt]
  <2>6. "capturing" \in PcType
    BY DEF PcType
  <2>7. c \in ReqType
    BY <1>1, <2>2, <2>3, <2>6, CallFields, Zenon
  <2>8. c.p = row /\ c.pc = "capturing"
    BY <1>1 DEF ReqType
  <2>9. req' = [req EXCEPT ![r] = c]
    BY <2>1
  <2> HIDE DEF c
  <2>10. CallOK(r, c)
    BY <1>1, <2>2, <2>7, <2>8, LoadedCopy DEF CallOK
  <2> QED
    BY <1>1, <2>5, <2>9, <2>10, QuietStep
<1> QED
  BY <1>2, <1>3 DEF CaptureLoad

\* The PSP's capture answer leaves the call with a proper amount.
LEMMA CaptureReturnsInv ==
  ASSUME IInv, NEW r \in Capturers, CaptureReturns(r)
  PROVE  IInv'
<1>1. /\ row' = row /\ attempts' = attempts /\ StoreOK' /\ req[r] \in ReqType
      /\ r \in Callers /\ r \notin Refunders \cup Creators \cup Confirmers
  BY Roles DEF CaptureReturns, db, IInv, StoreOK
<1>2. CASE End(r)
  BY <1>1, <1>2, EndStep
<1>3. CASE req' = [req EXCEPT ![r].pc = "capture_tx2", ![r].amt = AmountTaken(req[r])]
  <2> DEFINE c == [req[r] EXCEPT !.pc = "capture_tx2", !.amt = AmountTaken(req[r])]
  <2>1. "capture_tx2" \in PcType /\ AmountTaken(req[r]) \in Nat
    BY <1>1 DEF PcType, AmountTaken, ReqType, OutType
  <2>2. c \in ReqType
    BY <1>1, <2>1, CallFields, Zenon
  <2>3. c.p = req[r].p /\ c.att = req[r].att
    BY <1>1 DEF ReqType
  <2>4. req' = [req EXCEPT ![r] = c]
    BY <1>3
  <2> HIDE DEF c
  <2> QED
    BY <1>1, <2>2, <2>3, <2>4, MoveStep
<1> QED
  BY <1>2, <1>3 DEF CaptureReturns

\* VoidPayment loads a voidable row; no PSP call without a reference.
LEMMA VoidLoadInv ==
  ASSUME IInv, NEW r \in Voiders, VoidLoad(r)
  PROVE  IInv'
<1>1. /\ row' = row /\ attempts' = attempts /\ r \in Callers /\ req[r] \in ReqType
      /\ r \notin Refunders \cup Creators \cup Confirmers
  BY Roles DEF VoidLoad, db, IInv
<1>2. CASE ~VoidOK(row)
  <2>1. StoreOK' /\ End(r)
    BY <1>2 DEF VoidLoad, db, IInv, StoreOK
  <2> QED
    BY <1>1, <2>1, EndStep
<1>3. CASE VoidOK(row)
  <2>1. row.status \in {"requires_action", "authorized"}
    BY <1>3 DEF VoidOK, CanTransition, Transitions
  <2>2. row.provider \in Providers /\ row.ref \in Refs /\ row \in RowType
    BY <2>1 DEF IInv, RowOK, Status
  <2>3. /\ req' = [req EXCEPT ![r].p = row, ![r].pc = "voiding"]
        /\ net' = net \cup {Message("void", r, row.provider, row.ref, 0, FALSE)}
    BY <1>3, <2>2, Constants DEF VoidLoad
  <2>4. Message("void", r, row.provider, row.ref, 0, FALSE) \in MessageType
    BY <1>1, <2>2, MessageOK
  <2>5. StoreOK'
    BY <2>3, <2>4 DEF VoidLoad, db, IInv, StoreOK
  <2> DEFINE c == [req[r] EXCEPT !.p = row, !.pc = "voiding"]
  <2>6. c \in ReqType /\ c.p = row
    BY <1>1, <2>2 DEF ReqType, PcType
  <2>7. req' = [req EXCEPT ![r] = c]
    BY <2>3
  <2> HIDE DEF c
  <2>8. CallOK(r, c)
    BY <1>1, <2>1, <2>6, LoadedCopy DEF CallOK
  <2> QED
    BY <1>1, <2>5, <2>7, <2>8, QuietStep
<1> QED
  BY <1>2, <1>3

\* The PSP's void answer moves the call only.
LEMMA VoidReturnsInv ==
  ASSUME IInv, NEW r \in Voiders, VoidReturns(r)
  PROVE  IInv'
<1>1. /\ row' = row /\ attempts' = attempts /\ StoreOK'
      /\ r \in Callers /\ r \notin Refunders \cup Creators \cup Confirmers
      /\ End(r) \/ Goto(r, "void_tx2")
  BY Roles DEF VoidReturns, db, IInv, StoreOK
<1> QED
  BY <1>1, EndStep, GotoStep DEF PcType

\* The idempotency lookup of CreateRefund only moves its own call.
LEMMA RefundLookupInv ==
  ASSUME IInv, NEW r \in Refunders, RefundLookup(r)
  PROVE  IInv'
<1>1. /\ row' = row /\ attempts' = attempts /\ StoreOK'
      /\ r \in Callers /\ r \notin Creators \cup Confirmers
      /\ End(r) \/ Goto(r, "reserving")
  BY Roles DEF RefundLookup, db, IInv, StoreOK
<1> QED
  BY <1>1, EndStep, GotoStep DEF PcType

\* The PSP's refund answer leaves the call with its reserved amount.
LEMMA RefundReturnsInv ==
  ASSUME IInv, NEW r \in Refunders, RefundReturns(r)
  PROVE  IInv'
<1>1. /\ row' = row /\ attempts' = attempts /\ StoreOK'
      /\ r \in Callers /\ r \notin Creators \cup Confirmers
      /\ req[r] \in ReqType /\ req[r].amt \in 1 .. Amount
  BY Roles DEF RefundReturns, db, IInv, StoreOK, CallOK
<1>2. CASE End(r)
  BY <1>1, <1>2, EndStep
<1>3. CASE \E out \in {req[r].out} \cup TransportErrors :
             req' = [req EXCEPT ![r].out = out, ![r].pc = "refund_tx2"]
  <2>1. PICK out \in {req[r].out} \cup TransportErrors :
             req' = [req EXCEPT ![r].out = out, ![r].pc = "refund_tx2"]
    BY <1>3
  <2> DEFINE c == [req[r] EXCEPT !.out = out, !.pc = "refund_tx2"]
  <2>2. out \in OutType
    BY <1>1, Constructors DEF ReqType
  <2>3. c \in ReqType /\ c.p = req[r].p /\ c.att = req[r].att /\ c.amt = req[r].amt
    BY <1>1, <2>2 DEF ReqType, PcType
  <2>4. req' = [req EXCEPT ![r] = c]
    BY <2>1
  <2> HIDE DEF c
  <2> QED
    BY <1>1, <2>3, <2>4, MoveStep
<1> QED
  BY <1>2, <1>3 DEF RefundReturns

\* A crash forgets a call and nothing else.
LEMMA CrashInv ==
  ASSUME IInv, NEW r \in Callers, Crash(r)
  PROVE  IInv'
<1>1. row' = row /\ attempts' = attempts /\ StoreOK' /\ End(r)
  BY DEF Crash, db, IInv, StoreOK
<1> QED
  BY <1>1, EndStep

\* A client that hangs up ends its call and nothing else.
LEMMA ClientCancelInv ==
  ASSUME IInv, NEW r \in Callers, ClientCancel(r)
  PROVE  IInv'
<1>1. /\ row' = row /\ attempts' = attempts /\ StoreOK' /\ req[r] \in ReqType
      /\ r \in Creators \cup Confirmers /\ r \notin Refunders
  BY Roles DEF ClientCancel, db, IInv, StoreOK
<1>2. PICK out \in OutType :
        req' = [req EXCEPT ![r] = [Done EXCEPT !.pc = "cancelled", !.att = req[r].att,
                                               !.out = out]]
  BY <1>1, Constructors DEF ClientCancel, ReqType
<1> DEFINE c == [Done EXCEPT !.pc = "cancelled", !.att = req[r].att, !.out = out]
<1>3. "cancelled" \in PcType /\ req[r].att \in Refs \cup {0} /\ Done \in ReqType
  BY <1>1, Constructors DEF PcType, ReqType
<1>4. c \in ReqType
  BY <1>3, CallFields, Zenon
<1>5. c.p = NoRow /\ c.pc = "cancelled"
  BY <1>3, Constructors DEF ReqType
<1>6. req' = [req EXCEPT ![r] = c]
  BY <1>2
<1> HIDE DEF c
<1>7. CallOK(r, c)
  BY <1>1, <1>4, <1>5, Roles DEF CallOK, NoRow, Saga, Confirming
<1> QED
  BY <1>1, <1>5, <1>6, <1>7, QuietStep DEF Saga

-----------------------------------------------------------------------------
(* Steps of the PSP and of time                                            *)

\* An answer changes at most the out field of a waiting call.
LEMMA AnswerStep ==
  ASSUME IInv, NEW m \in net, NEW out \in OutType, Answer(m, out),
         UNCHANGED <<db, lapsed>>, txn' \in [Refs -> TxnType]
  PROVE  IInv'
<1> DEFINE r == m.by
<1>1. r \in Callers /\ req[r] \in ReqType
  BY DEF IInv, StoreOK, MessageType
<1>2. row' = row /\ attempts' = attempts /\ StoreOK'
  BY DEF IInv, StoreOK, db, Answer
<1>3. req' = [req EXCEPT ![r].out = out] \/ req' = req
  BY DEF Answer
<1>4. \E c \in ReqType :
        /\ c.p = req[r].p /\ c.att = req[r].att /\ c.pc = req[r].pc /\ c.amt = req[r].amt
        /\ req' = [req EXCEPT ![r] = c]
  <2>1. CASE req' = req
    <3>1. req' = [req EXCEPT ![r] = req[r]]
      BY <1>1, <2>1 DEF IInv
    <3> QED
      BY <1>1, <3>1
  <2>2. CASE req' = [req EXCEPT ![r].out = out]
    <3> DEFINE c == [req[r] EXCEPT !.out = out]
    <3>1. /\ c \in ReqType
          /\ c.p = req[r].p /\ c.att = req[r].att /\ c.pc = req[r].pc /\ c.amt = req[r].amt
      BY <1>1 DEF ReqType
    <3>2. req' = [req EXCEPT ![r] = c]
      BY <2>2
    <3> QED
      BY <3>1, <3>2
  <2> QED
    BY <1>3, <2>1, <2>2
<1>5. r \in Refunders /\ req[r].pc \in {"refunding", "refund_tx2"} => req[r].amt \in 1 .. Amount
  BY <1>1 DEF IInv, CallOK
<1> QED
  BY <1>1, <1>2, <1>4, <1>5, MoveStep

\* A message on the wire names a transaction of the PSP.
LEMMA MessageFacts ==
  ASSUME IInv, NEW m \in net
  PROVE  /\ m.op = "refund" => m.by \in Refunders
         /\ m \in MessageType /\ m.ref \in Refs /\ m.amt \in Nat
         /\ m.immediately \in BOOLEAN /\ (m.op # "status" => m.provider \in Providers)
         /\ txn \in [Refs -> TxnType] /\ txn[m.ref] \in TxnType
         /\ m.copy \in TxnType /\ View(m) \in TxnType
BY DEF IInv, StoreOK, MessageType, View

\* Assigning one field of a PSP transaction keeps it well typed.
LEMMA TxnFields ==
  ASSUME NEW t \in TxnType
  PROVE  /\ \A v \in TxnStatus : [t EXCEPT !.status = v] \in TxnType
         /\ \A v \in Providers : [t EXCEPT !.provider = v] \in TxnType
         /\ \A v \in BOOLEAN : [t EXCEPT !.auto = v] \in TxnType
         /\ \A v \in Nat : [t EXCEPT !.captured = v] \in TxnType
         /\ \A v \in Nat : [t EXCEPT !.refunded = v] \in TxnType
         /\ \A v \in SUBSET RefundKeys : [t EXCEPT !.done = v] \in TxnType
BY DEF TxnType

\* A captured PSP transaction is well typed.
LEMMA CapturedTyped ==
  ASSUME NEW t \in TxnType, NEW amt \in Nat
  PROVE  Captured(t, amt) \in TxnType
<1>1. "captured" \in TxnStatus
  BY DEF TxnStatus
<1> QED
  BY <1>1, TxnFields, Zenon DEF Captured

\* The PSP executing an authorization does not touch payment-service's rows.
LEMMA PspAuthorizeInv ==
  ASSUME IInv, NEW m \in net, PspAuthorize(m)
  PROVE  IInv'
<1> DEFINE t == [NoTxn EXCEPT !.status = "authorized", !.provider = m.provider,
                              !.auto = m.immediately]
<1>1. NoTxn \in TxnType
  BY DEF NoTxn, TxnType, TxnStatus
<1>2. {"authorized", "requires_action"} \subseteq TxnStatus
  BY DEF TxnStatus
<1>3. t \in TxnType
  <2>1. m.provider \in Providers /\ m.immediately \in BOOLEAN
    BY MessageFacts DEF PspAuthorize
  <2> QED
    BY <1>1, <1>2, <2>1, TxnFields, Zenon
<1>4. [t EXCEPT !.status = "requires_action"] \in TxnType
  BY <1>2, <1>3, TxnFields, Zenon
<1>5. Captured(t, m.amt) \in TxnType
  BY <1>3, CapturedTyped, MessageFacts
<1>6. PICK out \in OutType : Answer(m, out) /\
        \/ txn' = txn
        \/ txn' = [txn EXCEPT ![m.ref] = t]
        \/ txn' = [txn EXCEPT ![m.ref] = Captured(t, m.amt)]
        \/ txn' = [txn EXCEPT ![m.ref] = [t EXCEPT !.status = "requires_action"]]
  BY Constructors, MessageFacts DEF PspAuthorize, Category
<1> HIDE DEF t
<1>7. txn' \in [Refs -> TxnType]
  BY <1>3, <1>4, <1>5, <1>6, MessageFacts
<1>8. UNCHANGED <<db, lapsed>>
  BY DEF PspAuthorize
<1> QED
  BY <1>6, <1>7, <1>8, AnswerStep

\* The PSP executing a capture does not touch payment-service's rows.
LEMMA PspCaptureInv ==
  ASSUME IInv, NEW m \in net, PspCapture(m)
  PROVE  IInv'
<1>1. PICK out \in OutType : Answer(m, out) /\
        (txn' = txn \/ txn' = [txn EXCEPT ![m.ref] = Captured(txn[m.ref], m.amt)])
  <2>1. View(m).captured \in Nat
    BY MessageFacts DEF TxnType
  <2> QED
    BY <2>1, Constructors, MessageFacts DEF PspCapture, Category
<1>2. txn' \in [Refs -> TxnType]
  BY <1>1, MessageFacts, CapturedTyped
<1>3. UNCHANGED <<db, lapsed>>
  BY DEF PspCapture
<1> QED
  BY <1>1, <1>2, <1>3, AnswerStep

\* The PSP executing a void does not touch payment-service's rows.
LEMMA PspVoidInv ==
  ASSUME IInv, NEW m \in net, PspVoid(m)
  PROVE  IInv'
<1>1. PICK out \in OutType : Answer(m, out) /\
        (txn' = txn \/ txn' = [txn EXCEPT ![m.ref].status = "voided"])
  BY Constructors DEF PspVoid, Category
<1>2. txn' \in [Refs -> TxnType]
  BY <1>1, MessageFacts DEF TxnType, TxnStatus
<1>3. UNCHANGED <<db, lapsed>>
  BY DEF PspVoid
<1> QED
  BY <1>1, <1>2, <1>3, AnswerStep

\* The PSP executing a refund does not touch payment-service's rows.
LEMMA PspRefundInv ==
  ASSUME IInv, NEW m \in net, PspRefund(m)
  PROVE  IInv'
<1> DEFINE t == txn[m.ref]
           k == RefundKey[m.by]
           due == View(m).refunded + m.amt
           st == IF due = t.captured THEN "refunded" ELSE "partially_refunded"
           paid == [t EXCEPT !.refunded = due, !.done = @ \cup {k}, !.status = st]
<1>1. t \in TxnType /\ due \in Nat /\ st \in TxnStatus /\ (t.done \cup {k}) \in SUBSET RefundKeys
  BY MessageFacts, ServiceAssumption DEF PspRefund, TxnType, TxnStatus
<1>2. paid = [[[t EXCEPT !.refunded = due] EXCEPT !.done = t.done \cup {k}] EXCEPT !.status = st]
  BY <1>1 DEF TxnType
<1> HIDE DEF due, st, k
<1>3. paid \in TxnType
  BY <1>1, <1>2, TxnFields, Zenon
<1>4. PICK out \in OutType : Answer(m, out) /\
        (txn' = txn \/ txn' = [txn EXCEPT ![m.ref] = paid])
  BY Constructors DEF PspRefund, Category, due, st, k
<1> HIDE DEF paid
<1>5. txn' \in [Refs -> TxnType]
  BY <1>3, <1>4, MessageFacts
<1>6. UNCHANGED <<db, lapsed>>
  BY DEF PspRefund
<1> QED
  BY <1>4, <1>5, <1>6, AnswerStep

\* A step that touches neither the payment nor a call.
LEMMA OutsideStep ==
  ASSUME IInv, UNCHANGED <<db, req>>, StoreOK'
  PROVE  IInv'
<1>1. RowOK(row)'
  BY DEF IInv, RowOK, DbChecks, db
<1>2. \A s \in Callers : CallOK(s, req[s])'
  BY DEF IInv, CallOK, db
<1>3. OneSagaPerKey'
  BY DEF IInv, OneSagaPerKey
<1> QED
  BY <1>1, <1>2, <1>3 DEF IInv

\* The payer's authentication changes the PSP's transaction only.
LEMMA PspActionInv ==
  ASSUME IInv, NEW n \in Refs, PspAction(n)
  PROVE  IInv'
<1>1. txn \in [Refs -> TxnType] /\ txn[n] \in TxnType /\ Captured(txn[n], Amount) \in TxnType
  BY CapturedTyped, Constants DEF IInv, StoreOK
<1>2. \/ txn' = [txn EXCEPT ![n].status = "authorized"]
      \/ txn' = [txn EXCEPT ![n] = Captured(txn[n], Amount)]
      \/ txn' = [txn EXCEPT ![n].status = "failed"]
  BY <1>1 DEF PspAction
<1>3. txn' \in [Refs -> TxnType]
  BY <1>1, <1>2 DEF TxnType, TxnStatus
<1>4. UNCHANGED <<db, req>> /\ StoreOK'
  BY <1>3 DEF PspAction, IInv, StoreOK, db
<1> QED
  BY <1>4, OutsideStep

\* Reading a transaction, and a status query that reads or writes one, touch
\* neither the rows nor the calls.
LEMMA PspReadInv ==
  ASSUME IInv, \/ \E m \in net : PspRead(m) \/ PspStatus(m)
               \/ \E r \in Confirmers : QueryRead(r)
  PROVE  IInv' /\ row' = row
<1>1. UNCHANGED <<db, req>> /\ lapsed' = lapsed
  BY DEF PspRead, PspStatus, QueryRead
<1>2. txn' \in [Refs -> TxnType] /\ net' \subseteq MessageType
  <2>1. txn \in [Refs -> TxnType] /\ net \subseteq MessageType
    BY DEF IInv, StoreOK
  <2>2. CASE \E m \in net : PspRead(m)
    <3>1. PICK m \in net : PspRead(m)
      BY <2>2
    <3>2. PICK t : t = txn[m.ref]
      OBVIOUS
    <3>3. t \in TxnType /\ m \in MessageType
      BY <3>1, <3>2, MessageFacts
    <3>4. [m EXCEPT !.copy = t] \in MessageType
      BY <3>3 DEF MessageType
    <3>5. txn' = txn /\ net' = (net \ {m}) \cup {[m EXCEPT !.copy = t]}
      BY <3>1, <3>2 DEF PspRead
    <3> QED
      BY <2>1, <3>4, <3>5
  <2>3. CASE \E m \in net : PspStatus(m)
    <3>1. PICK m \in net : PspStatus(m)
      BY <2>3
    <3>2. txn' = [txn EXCEPT ![m.ref].status = "authorized"] /\ net' = net \ {m}
      BY <3>1 DEF PspStatus
    <3>3. txn' \in [Refs -> TxnType]
      BY <3>1, <3>2, MessageFacts DEF TxnType, TxnStatus
    <3> QED
      BY <2>1, <3>2, <3>3
  <2>4. CASE \E r \in Confirmers : QueryRead(r)
    <3>1. PICK r \in Confirmers : QueryRead(r)
      BY <2>4
    <3>2. PICK n, prov : n = req[r].p.ref /\ prov = req[r].p.provider
      OBVIOUS
    <3>3. StatusOf(prov, n) = "requires_action"
      BY <3>1, <3>2 DEF QueryRead
    <3>4. n \in Refs /\ txn[n].status # "none" /\ txn[n].provider = prov
      BY <3>3 DEF StatusOf
    <3>5. txn[n] \in TxnType /\ r \in Callers /\ req[r] \in ReqType
      BY <2>1, <3>1, <3>4 DEF IInv, Callers
    <3>6. prov \in Providers \cup {"none"}
      BY <3>2, <3>5 DEF ReqType, RowType
    <3>7. PICK t, m : t = txn[n] /\ m = Message("status", r, prov, n, 0, FALSE)
      OBVIOUS
    <3>8. m \in MessageType /\ t \in TxnType
      <4>1. NoTxn \in TxnType
        BY DEF NoTxn, TxnType, TxnStatus
      <4> QED
        BY <3>4, <3>5, <3>6, <3>7, <4>1 DEF Message, MessageType
    <3>9. [m EXCEPT !.copy = t] \in MessageType
      BY <3>8 DEF MessageType
    <3>10. txn' = txn /\ net' = net \cup {[m EXCEPT !.copy = t]}
      BY <3>1, <3>2, <3>7 DEF QueryRead
    <3> QED
      BY <2>1, <3>9, <3>10
  <2> QED
    BY <2>2, <2>3, <2>4
<1>3. StoreOK'
  BY <1>1, <1>2 DEF IInv, StoreOK, db
<1> QED
  BY <1>1, <1>3, OutsideStep DEF db

\* Time passing changes the lapsed deadlines only.
LEMMA LapseInv ==
  ASSUME IInv, Lapse
  PROVE  IInv'
<1>1. UNCHANGED <<db, req>> /\ StoreOK'
  BY DEF Lapse, IInv, StoreOK, db
<1> QED
  BY <1>1, OutsideStep

-----------------------------------------------------------------------------
(* Steps that commit a change of the payment                               *)

\* A call that commits a new version of the payment and goes on in state d,
\* outside the saga: every copy another call holds becomes stale, and no saga
\* can be under way but its own.
LEMMA CommitTo ==
  ASSUME IInv, NEW r \in Callers, NEW d \in ReqType, req' = [req EXCEPT ![r] = d],
         CallOK(r, d)', r \in Creators => d.pc \notin Saga, RowOK(row)', StoreOK',
         row'.version > row.version, Len(attempts') = Len(attempts),
         row.status = "created" => (r \in Creators /\ req[r].pc \in Saga)
  PROVE  IInv'
<1>1. req' \in [Callers -> ReqType] /\ \A s \in Callers : req'[s] = IF s = r THEN d ELSE req[s]
  BY DEF IInv
<1>2. row.version \in Nat /\ row'.version \in Nat /\ Len(attempts) \in Nat
  BY DEF IInv, RowOK, RowType, StoreOK
<1>3. \A s \in Callers : s # r => ~(s \in Creators /\ req[s].pc \in Saga)
  BY DEF IInv, CallOK, OneSagaPerKey, Saga
<1>4. ASSUME NEW s \in Callers, s # r
      PROVE  CallOK(s, req[s])'
  <2>1. CallOK(s, req[s]) /\ req'[s] = req[s]
    BY <1>1, <1>4 DEF IInv
  <2>2. req[s].p.version \in Nat
    BY <2>1 DEF CallOK, ReqType, RowType
  <2> QED
    BY <1>2, <1>3, <1>4, <2>1, <2>2 DEF CallOK
<1>5. CallOK(r, req[r])'
  BY <1>1 DEF CallOK
<1>6. OneSagaPerKey'
  BY <1>1, <1>3, Roles DEF OneSagaPerKey, Saga
<1> QED
  BY <1>1, <1>4, <1>5, <1>6 DEF IInv

\* A call that commits a new version of the payment and returns.
LEMMA CommitStep ==
  ASSUME IInv, NEW r \in Callers, End(r), RowOK(row)', StoreOK',
         row'.version > row.version, Len(attempts') = Len(attempts),
         row.status = "created" => (r \in Creators /\ req[r].pc \in Saga)
  PROVE  IInv'
<1>1. Done \in ReqType /\ Done.pc \notin Saga /\ CallOK(r, Done)'
  BY Constructors DEF CallOK, NoRow, Saga, Confirming
<1>2. req' = [req EXCEPT ![r] = Done]
  BY DEF End
<1> QED
  BY <1>1, <1>2, CommitTo

\* The effect of persist: refused and nothing happens, or the new row.
LEMMA PersistCases ==
  ASSUME NEW p, NEW v, NEW ats, NEW evs, Persist(p, v, ats, evs)
  PROVE  \/ UNCHANGED <<row, attempts, events>>
         \/ /\ row.version = v /\ DbChecks(p)
            /\ row' = p /\ attempts' = ats /\ events' = events \o evs
BY DEF Persist, CanPersist

\* Marking an attempt changes neither how many there are nor their providers.
LEMMA MarkedTyped ==
  ASSUME attempts \in Seq(AttemptType), NEW att, NEW st \in AttemptStatuses,
         NEW ref \in Refs \cup {0}
  PROVE  /\ Marked(att, st, ref) \in Seq(AttemptType)
         /\ Len(Marked(att, st, ref)) = Len(attempts)
<1> DEFINE ats == Marked(att, st, ref)
<1>1. DOMAIN ats = 1 .. Len(attempts) /\ Len(attempts) \in Nat
  BY DEF Marked
<1>2. ASSUME NEW i \in 1 .. Len(attempts)
      PROVE  ats[i] \in AttemptType
  <2>1. attempts[i] \in AttemptType
    OBVIOUS
  <2>2. [provider |-> attempts[i].provider, status |-> st, ref |-> ref] \in AttemptType
    BY <2>1 DEF AttemptType
  <2>3. ats[i] = IF i = att
                   THEN [provider |-> attempts[i].provider, status |-> st, ref |-> ref]
                   ELSE attempts[i]
    BY DEF Marked
  <2> HIDE DEF ats
  <2> QED
    BY <2>1, <2>2, <2>3
<1>3. ats = [i \in 1 .. Len(attempts) |-> ats[i]]
  BY <1>1 DEF Marked
<1> HIDE DEF ats
<1>4. ats \in Seq(AttemptType)
  BY <1>1, <1>2, <1>3
<1>5. Len(ats) = Len(attempts)
  BY <1>1, <1>4
<1> QED
  BY <1>4, <1>5 DEF ats

\* A sequence of one element is a sequence over any set that has it.
LEMMA Singleton ==
  ASSUME NEW S, NEW e \in S
  PROVE  <<e>> \in Seq(S)
OBVIOUS

\* The event of a command is well typed.
LEMMA EventTyped ==
  ASSUME NEW type \in EventName, NEW p \in RowType, NEW to \in Status
  PROVE  /\ Event(type, p, to) \in EventType
         /\ <<Event(type, p, to)>> \in Seq(EventType)
<1>1. Event(type, p, to) \in EventType
  BY DEF Event, EventType, RowType
<1> QED
  BY <1>1, Singleton, Zenon

\* A new version of a payment: the status and the version change.
LEMMA EmitFacts ==
  ASSUME NEW p \in RowType, NEW to \in Status
  PROVE  /\ Emit(p, to) \in RowType
         /\ Emit(p, to).status = to /\ Emit(p, to).version = p.version + 1
         /\ Emit(p, to).method = p.method /\ Emit(p, to).authorized = p.authorized
         /\ Emit(p, to).captured = p.captured /\ Emit(p, to).refunded = p.refunded
         /\ Emit(p, to).pending = p.pending /\ Emit(p, to).provider = p.provider
         /\ Emit(p, to).ref = p.ref
<1>1. p.version + 1 \in Nat
  BY DEF RowType
<1> DEFINE q == [[p EXCEPT !.status = to] EXCEPT !.version = p.version + 1]
<1>2. Emit(p, to) = q
  BY DEF Emit, RowType
<1>3. q \in RowType
  BY <1>1, RowFields, Zenon
<1>4. Emit(p, to) \in RowType
  BY <1>2, <1>3, Zenon
<1>5. Emit(p, to).status = to /\ Emit(p, to).version = p.version + 1
  BY DEF Emit, RowType
<1>6. /\ Emit(p, to).method = p.method /\ Emit(p, to).authorized = p.authorized
      /\ Emit(p, to).captured = p.captured /\ Emit(p, to).refunded = p.refunded
      /\ Emit(p, to).pending = p.pending /\ Emit(p, to).provider = p.provider
      /\ Emit(p, to).ref = p.ref
  BY DEF Emit, RowType
<1> QED
  BY <1>4, <1>5, <1>6, Zenon

\* The commands of the payment aggregate: the row each leaves behind, field by
\* field, and that it is again a proper row.
LEMMA NewPaymentRow ==
  ASSUME NEW method \in {"automatic", "manual"}, NEW provider \in Providers
  PROVE  LET q == NewPayment(method, provider)
         IN  /\ RowOK(q) /\ q.status = "created" /\ q.version = 1
             /\ q.authorized = 0 /\ q.captured = 0 /\ q.refunded = 0 /\ q.pending = 0
             /\ q.provider = provider /\ q.ref = 0
<1> DEFINE e == Emit(NoRow, "created")
           q == NewPayment(method, provider)
<1>1. "created" \in Status
  BY DEF Status
<1>2. /\ e \in RowType /\ e.status = "created" /\ e.version = 1 /\ e.ref = 0
      /\ e.authorized = 0 /\ e.captured = 0 /\ e.refunded = 0 /\ e.pending = 0
  BY <1>1, Constructors, EmitFacts DEF NoRow
<1>3. q = [e EXCEPT !.method = method, !.provider = provider]
  BY DEF NewPayment
<1> HIDE DEF e, q
<1>4. q \in RowType
  BY <1>2, <1>3, RowFields, Zenon
<1>5. /\ q.status = "created" /\ q.version = 1 /\ q.provider = provider /\ q.ref = 0
      /\ q.authorized = 0 /\ q.captured = 0 /\ q.refunded = 0 /\ q.pending = 0
  BY <1>2, <1>3 DEF RowType
<1>6. RowOK(q)
  BY <1>4, <1>5, Constants DEF RowOK, DbChecks, Uncharged
<1> QED
  BY <1>5, <1>6 DEF q

\* RequireAction leaves a proper row, with the amounts of the lifecycle's Challenge.
LEMMA RequireActionRow ==
  ASSUME NEW p, RowOK(p), p.status = "created", NEW ref \in Refs
  PROVE  LET q == RequireAction(p, ref)
         IN  /\ RowOK(q) /\ q.status = "requires_action" /\ q.version = p.version + 1
             /\ q.authorized = p.authorized /\ q.captured = p.captured
             /\ q.refunded = p.refunded /\ q.pending = p.pending
             /\ q.provider = p.provider /\ q.ref = ref
<1> DEFINE e == Emit(p, "requires_action")
           q == RequireAction(p, ref)
<1>1. p \in RowType /\ "requires_action" \in Status
  BY DEF RowOK, Status
<1>2. /\ e \in RowType /\ e.status = "requires_action" /\ e.version = p.version + 1
      /\ e.authorized = p.authorized /\ e.captured = p.captured
      /\ e.refunded = p.refunded /\ e.pending = p.pending /\ e.provider = p.provider
  BY <1>1, EmitFacts
<1>3. q = [e EXCEPT !.ref = ref]
  BY DEF RequireAction
<1> HIDE DEF e, q
<1>4. q \in RowType /\ q.ref = ref
  BY <1>2, <1>3 DEF RowType
<1>5. /\ q.status = "requires_action" /\ q.version = p.version + 1
      /\ q.authorized = p.authorized /\ q.captured = p.captured
      /\ q.refunded = p.refunded /\ q.pending = p.pending /\ q.provider = p.provider
  BY <1>2, <1>3 DEF RowType
<1>6. RowOK(q)
  BY <1>1, <1>4, <1>5 DEF RowOK, DbChecks, Uncharged, RowType
<1> QED
  BY <1>4, <1>5, <1>6 DEF q

\* Authorize leaves a proper row, with the amounts of the lifecycle's Approve.
LEMMA AuthorizeRow ==
  ASSUME NEW p, RowOK(p), p.status \in {"created", "requires_action"},
         NEW provider \in Providers, NEW ref \in Refs
  PROVE  LET q == Authorize(p, provider, ref)
         IN  /\ RowOK(q) /\ q.status = "authorized" /\ q.version = p.version + 1
             /\ q.authorized = Amount /\ q.captured = p.captured
             /\ q.refunded = p.refunded /\ q.pending = p.pending
             /\ q.provider = provider /\ q.ref = ref
<1> DEFINE e == Emit(p, "authorized")
           q == Authorize(p, provider, ref)
<1>1. p \in RowType /\ "authorized" \in Status /\ Amount \in Nat
  BY Constants DEF RowOK, Status
<1>2. /\ e \in RowType /\ e.status = "authorized" /\ e.version = p.version + 1
      /\ e.captured = p.captured /\ e.refunded = p.refunded /\ e.pending = p.pending
  BY <1>1, EmitFacts
<1>3. q = [e EXCEPT !.authorized = Amount, !.provider = provider, !.ref = ref]
  BY DEF Authorize
<1> HIDE DEF e, q
<1>4. q \in RowType
  BY <1>1, <1>2, <1>3, RowFields, Zenon
<1>5. /\ q.status = "authorized" /\ q.version = p.version + 1 /\ q.authorized = Amount
      /\ q.captured = p.captured /\ q.refunded = p.refunded /\ q.pending = p.pending
      /\ q.provider = provider /\ q.ref = ref
  BY <1>2, <1>3 DEF RowType
<1>6. RowOK(q)
  BY <1>1, <1>4, <1>5 DEF RowOK, DbChecks, Uncharged, RowType
<1> QED
  BY <1>5, <1>6 DEF q

\* Capture leaves a proper row with what was captured.
LEMMA CaptureRow ==
  ASSUME NEW p, RowOK(p), p.status = "authorized", NEW amount \in Nat,
         amount > 0, amount <= p.authorized
  PROVE  LET q == Capture(p, amount)
         IN  /\ RowOK(q) /\ q.status = "captured" /\ q.version = p.version + 1
             /\ q.authorized = p.authorized /\ q.captured = amount
             /\ q.refunded = p.refunded /\ q.pending = p.pending
             /\ q.provider = p.provider /\ q.ref = p.ref
             /\ amount \in 1 .. Amount
<1> DEFINE e == Emit(p, "captured")
           q == Capture(p, amount)
<1>1. p \in RowType /\ "captured" \in Status /\ "authorized" \in Status
  BY DEF RowOK, Status
<1>2. /\ e \in RowType /\ e.status = "captured" /\ e.version = p.version + 1
      /\ e.authorized = p.authorized /\ e.refunded = p.refunded /\ e.pending = p.pending
      /\ e.provider = p.provider /\ e.ref = p.ref
  BY <1>1, EmitFacts
<1>3. q = [e EXCEPT !.captured = amount]
  BY DEF Capture
<1> HIDE DEF e, q
<1>4. q \in RowType /\ q.captured = amount
  BY <1>2, <1>3 DEF RowType
<1>5. /\ q.status = "captured" /\ q.version = p.version + 1 /\ q.authorized = p.authorized
      /\ q.refunded = p.refunded /\ q.pending = p.pending
      /\ q.provider = p.provider /\ q.ref = p.ref
  BY <1>2, <1>3 DEF RowType
<1>6. /\ p.version >= 1 /\ p.provider \in Providers /\ p.ref \in Refs
      /\ p.refunded = 0 /\ p.pending = 0 /\ p.authorized <= Amount
      /\ p.authorized \in Nat /\ p.version \in Nat
  BY <1>1 DEF RowOK, DbChecks, Uncharged, RowType
<1>7. amount \in 1 .. Amount
  BY <1>6, Constants
<1>8. DbChecks(q)
  BY <1>4, <1>5, <1>6, Constants DEF DbChecks
<1>9. RowOK(q)
  BY <1>4, <1>5, <1>6, <1>8 DEF RowOK, Uncharged
<1> QED
  BY <1>4, <1>5, <1>7, <1>9 DEF q

\* Void and Fail change nothing but the status and the version.
LEMMA CloseRow ==
  ASSUME NEW p, RowOK(p), NEW to \in {"voided", "failed"},
         p.status \in {"created", "requires_action", "authorized"},
         to = "voided" => p.status # "created"
  PROVE  LET q == Emit(p, to)
         IN  /\ RowOK(q) /\ q.status = to /\ q.version = p.version + 1
             /\ q.authorized = p.authorized /\ q.captured = p.captured
             /\ q.refunded = p.refunded /\ q.pending = p.pending
             /\ q.provider = p.provider /\ q.ref = p.ref
<1> DEFINE q == Emit(p, to)
<1>1. p \in RowType /\ to \in Status
  BY DEF RowOK, Status
<1>2. /\ q \in RowType /\ q.status = to /\ q.version = p.version + 1
      /\ q.authorized = p.authorized /\ q.captured = p.captured
      /\ q.refunded = p.refunded /\ q.pending = p.pending
      /\ q.provider = p.provider /\ q.ref = p.ref
  BY <1>1, EmitFacts
<1> HIDE DEF q
<1>3. RowOK(q)
  BY <1>1, <1>2 DEF RowOK, DbChecks, Uncharged, RowType, Status
<1> QED
  BY <1>2, <1>3 DEF q

\* ReserveRefund leaves a proper row, with the amounts of the lifecycle's Reserve.
LEMMA ReserveRow ==
  ASSUME NEW p, RowOK(p), NEW amount \in Nat, ReserveRefundOK(p, amount)
  PROVE  LET q == ReserveRefund(p, amount)
         IN  /\ RowOK(q) /\ q.status = p.status /\ q.version = p.version + 1
             /\ q.authorized = p.authorized /\ q.captured = p.captured
             /\ q.refunded = p.refunded /\ q.pending = p.pending + amount
             /\ q.provider = p.provider /\ q.ref = p.ref
             /\ p.status \in {"captured", "partially_refunded"}
             /\ amount \in 1 .. Amount
             /\ p.refunded + p.pending + amount <= p.captured
<1> DEFINE e == Emit(p, p.status)
           q == ReserveRefund(p, amount)
<1>1. p.status \in {"captured", "partially_refunded"}
  BY DEF RowOK, ReserveRefundOK, Uncharged
<1>2. /\ p \in RowType /\ p.status \in Status /\ p.version \in Nat /\ p.version >= 1
      /\ p.provider \in Providers /\ p.ref \in Refs /\ DbChecks(p)
  BY <1>1 DEF RowOK, Status, RowType
<1>3. /\ p.authorized \in Nat /\ p.captured \in Nat /\ p.refunded \in Nat /\ p.pending \in Nat
      /\ p.captured <= Amount
  BY <1>2, Constants DEF RowType, DbChecks
<1>4. amount > 0 /\ p.refunded + p.pending + amount <= p.captured
  BY <1>2, <1>3 DEF ReserveRefundOK, AvailableToRefund, DbChecks
<1>5. amount \in 1 .. Amount
  BY <1>3, <1>4, Constants
<1>6. /\ e \in RowType /\ e.status = p.status /\ e.version = p.version + 1
      /\ e.authorized = p.authorized /\ e.captured = p.captured
      /\ e.refunded = p.refunded /\ e.pending = p.pending
      /\ e.provider = p.provider /\ e.ref = p.ref
  BY <1>2, EmitFacts
<1>7. q = [e EXCEPT !.pending = e.pending + amount]
  BY DEF ReserveRefund
<1> HIDE DEF e, q
<1>8. q \in RowType /\ q.pending = p.pending + amount
  BY <1>3, <1>6, <1>7 DEF RowType
<1>9. /\ q.status = p.status /\ q.version = p.version + 1
      /\ q.authorized = p.authorized /\ q.captured = p.captured
      /\ q.refunded = p.refunded /\ q.provider = p.provider /\ q.ref = p.ref
  BY <1>6, <1>7 DEF RowType
<1>10. DbChecks(q)
  BY <1>2, <1>3, <1>4, <1>8, <1>9 DEF DbChecks
<1>11. RowOK(q)
  BY <1>1, <1>2, <1>8, <1>9, <1>10 DEF RowOK, Uncharged
<1> QED
  BY <1>1, <1>4, <1>5, <1>8, <1>9, <1>11 DEF q

\* ReleaseRefund leaves a proper row, with the amounts of the lifecycle's Release.
LEMMA ReleaseRow ==
  ASSUME NEW p, RowOK(p), NEW amount \in 1 .. Amount, amount <= p.pending
  PROVE  LET q == ReleaseRefund(p, amount)
         IN  /\ RowOK(q) /\ q.status = p.status /\ q.version = p.version + 1
             /\ q.authorized = p.authorized /\ q.captured = p.captured
             /\ q.refunded = p.refunded /\ q.pending = p.pending - amount
             /\ q.provider = p.provider /\ q.ref = p.ref
             /\ p.status \in {"captured", "partially_refunded", "refunded"}
<1> DEFINE e == Emit(p, p.status)
           q == ReleaseRefund(p, amount)
<1>1. p \in RowType /\ p.pending \in Nat /\ p.pending > 0 /\ amount \in Nat
  BY Constants DEF RowOK, RowType
<1>2. p.status \in {"captured", "partially_refunded", "refunded"}
  BY <1>1 DEF RowOK
<1>3. /\ p.status \in Status /\ p.version \in Nat /\ p.version >= 1
      /\ p.provider \in Providers /\ p.ref \in Refs /\ DbChecks(p)
      /\ p.authorized \in Nat /\ p.captured \in Nat /\ p.refunded \in Nat
  BY <1>1, <1>2 DEF RowOK, Status, RowType
<1>4. /\ e \in RowType /\ e.status = p.status /\ e.version = p.version + 1
      /\ e.authorized = p.authorized /\ e.captured = p.captured
      /\ e.refunded = p.refunded /\ e.pending = p.pending
      /\ e.provider = p.provider /\ e.ref = p.ref
  BY <1>1, <1>3, EmitFacts
<1>5. q = [e EXCEPT !.pending = e.pending - amount] /\ p.pending - amount \in Nat
  BY <1>1 DEF ReleaseRefund
<1> HIDE DEF e, q
<1>6. q \in RowType /\ q.pending = p.pending - amount
  BY <1>1, <1>4, <1>5 DEF RowType
<1>7. /\ q.status = p.status /\ q.version = p.version + 1
      /\ q.authorized = p.authorized /\ q.captured = p.captured
      /\ q.refunded = p.refunded /\ q.provider = p.provider /\ q.ref = p.ref
  BY <1>4, <1>5 DEF RowType
<1>8. DbChecks(q)
  BY <1>1, <1>3, <1>5, <1>6, <1>7 DEF DbChecks
<1>9. RowOK(q)
  BY <1>2, <1>3, <1>6, <1>7, <1>8 DEF RowOK, Uncharged
<1> QED
  BY <1>2, <1>6, <1>7, <1>9 DEF q

\* MarkRefunded leaves a proper row, with the amounts of the lifecycle's GiveBack.
LEMMA MarkRefundedRow ==
  ASSUME NEW p, RowOK(p), NEW amount \in 1 .. Amount, MarkRefundedOK(p, amount)
  PROVE  LET q == MarkRefunded(p, amount)
         IN  /\ RowOK(q) /\ q.status = RefundedStatus(p, amount)
             /\ q.version = p.version + 1
             /\ q.authorized = p.authorized /\ q.captured = p.captured
             /\ q.refunded = p.refunded + amount /\ q.pending = p.pending - amount
             /\ q.provider = p.provider /\ q.ref = p.ref
             /\ p.status \in {"captured", "partially_refunded"}
<1> DEFINE st == RefundedStatus(p, amount)
           e == Emit(p, st)
           q == MarkRefunded(p, amount)
<1>1. st \in {"refunded", "partially_refunded"} /\ amount \in Nat /\ amount <= p.pending
  BY Constants DEF RefundedStatus, MarkRefundedOK
<1>2. p.status \in {"captured", "partially_refunded"}
  BY <1>1 DEF RowOK, MarkRefundedOK, CanTransition, Transitions, Uncharged
<1>3. /\ p \in RowType /\ st \in Status /\ p.version \in Nat /\ p.version >= 1
      /\ p.provider \in Providers /\ p.ref \in Refs /\ DbChecks(p)
      /\ p.authorized \in Nat /\ p.captured \in Nat /\ p.refunded \in Nat /\ p.pending \in Nat
  BY <1>1, <1>2 DEF RowOK, Status, RowType
<1>4. p.refunded + amount \in Nat /\ p.pending - amount \in Nat
  BY <1>1, <1>3
<1>5. /\ e \in RowType /\ e.status = st /\ e.version = p.version + 1
      /\ e.authorized = p.authorized /\ e.captured = p.captured
      /\ e.refunded = p.refunded /\ e.pending = p.pending
      /\ e.provider = p.provider /\ e.ref = p.ref
  BY <1>3, EmitFacts
<1>6. q = [[e EXCEPT !.pending = p.pending - amount] EXCEPT !.refunded = p.refunded + amount]
  BY <1>5 DEF MarkRefunded, RowType
<1> HIDE DEF st, e, q
<1>7. q \in RowType
  BY <1>4, <1>5, <1>6, RowFields, Zenon
<1>8. /\ q.status = st /\ q.version = p.version + 1
      /\ q.authorized = p.authorized /\ q.captured = p.captured
      /\ q.refunded = p.refunded + amount /\ q.pending = p.pending - amount
      /\ q.provider = p.provider /\ q.ref = p.ref
  BY <1>5, <1>6 DEF RowType
<1>9. DbChecks(q)
  BY <1>1, <1>3, <1>4, <1>8 DEF DbChecks
<1>10. RowOK(q)
  BY <1>1, <1>3, <1>7, <1>8, <1>9 DEF RowOK, Uncharged
<1> QED
  BY <1>2, <1>8, <1>10 DEF q, st

-----------------------------------------------------------------------------
(* The committing actions: each keeps the invariant and is a step of the   *)
(* abstract lifecycle, or leaves the row alone.                            *)

RowStep == Lifecycle!Next \/ row' = row \/ UNCHANGED Lifecycle!lifecycle

\* A call whose copy has the row's version holds the row itself.
LEMMA CurrentCopy ==
  ASSUME IInv, NEW r \in Callers, req[r].p.status # "none",
         req[r].p.version = row.version
  PROVE  req[r].p = row
BY DEF IInv, CallOK

\* The first transaction starts the only saga there is.
LEMMA CreateTx1Inv ==
  ASSUME IInv, NEW r \in Creators, CreateTx1(r)
  PROVE  IInv' /\ RowStep
<1>1. r \in Callers /\ req[r] \in ReqType /\ req[r].pc = "inserting"
  BY Roles DEF CreateTx1, IInv
<1>2. CASE DuplicateKey
  <2>1. End(r) /\ row' = row /\ attempts' = attempts /\ StoreOK'
    BY <1>2 DEF CreateTx1, IInv, StoreOK, db
  <2> QED
    BY <1>1, <2>1, EndStep DEF RowStep
<1>3. CASE ~DuplicateKey
  <2>1. row.status = "none" /\ row = NoRow
    BY <1>3 DEF DuplicateKey, IInv, RowOK
  <2>2. PICK method \in {"automatic", "manual"} :
          LET p == NewPayment(method, Candidates[1])
          IN  /\ row' = p
              /\ attempts' = <<NewAttempt(Candidates[1])>>
              /\ events' = <<Event("payment.created", NoRow, "created")>>
              /\ net' = net \cup {Message("authorize", r, Candidates[1], 1,
                                          Amount, method = "automatic")}
              /\ req' = [req EXCEPT ![r].pc = "authorizing", ![r].p = p, ![r].att = 1]
              /\ UNCHANGED refunds
    BY <1>3 DEF CreateTx1
  <2> DEFINE p == NewPayment(method, Candidates[1])
             c == [req[r] EXCEPT !.pc = "authorizing", !.p = p, !.att = 1]
  <2>3. /\ RowOK(p) /\ p \in RowType /\ p.status = "created" /\ p.version = 1
        /\ p.authorized = 0 /\ p.captured = 0 /\ p.refunded = 0 /\ p.pending = 0
    BY NewPaymentRow, Constants DEF RowOK
  <2>4. /\ Message("authorize", r, Candidates[1], 1, Amount, method = "automatic")
             \in MessageType
        /\ <<NewAttempt(Candidates[1])>> \in Seq(AttemptType)
        /\ Len(<<NewAttempt(Candidates[1])>>) = 1
        /\ <<Event("payment.created", NoRow, "created")>> \in Seq(EventType)
    <3>1. Message("authorize", r, Candidates[1], 1, Amount, method = "automatic")
            \in MessageType
      BY <1>1, MessageOK, Constants
    <3>2. NewAttempt(Candidates[1]) \in AttemptType
      BY Constants DEF NewAttempt, AttemptType, AttemptStatuses
    <3>3. "payment.created" \in EventName /\ "created" \in Status /\ NoRow \in RowType
      BY Constructors DEF Status, EventName
    <3>4. <<Event("payment.created", NoRow, "created")>> \in Seq(EventType)
      BY <3>3, EventTyped, Zenon
    <3> QED
      BY <3>1, <3>2, <3>4
  <2> HIDE DEF p
  <2>5. /\ row' = p /\ attempts' \in Seq(AttemptType) /\ Len(attempts') = 1
        /\ events' \in Seq(EventType) /\ net' \subseteq MessageType
        /\ refunds' = refunds /\ txn' = txn /\ lapsed' = lapsed
    <3>1. net \subseteq MessageType /\ txn' = txn /\ lapsed' = lapsed
      BY DEF IInv, StoreOK, CreateTx1
    <3> QED
      BY <2>2, <2>4, <3>1 DEF p
  <2>5a. req' = [req EXCEPT ![r] = c]
    BY <2>2 DEF p
  <2>6. StoreOK'
    BY <2>5, Constants DEF IInv, StoreOK, Refs
  <2>7. RowOK(row)'
    BY <2>3, <2>5 DEF RowOK, DbChecks
  <2>8. "authorizing" \in PcType /\ 1 \in Refs \cup {0}
    BY Constants DEF PcType
  <2>9. c \in ReqType
    BY <1>1, <2>3, <2>8, CallFields, Zenon
  <2>10. c.p = p /\ c.att = 1 /\ c.pc = "authorizing"
    BY <1>1 DEF ReqType
  <2> HIDE DEF c
  <2>11. /\ req' \in [Callers -> ReqType]
         /\ \A s \in Callers : req'[s] = IF s = r THEN c ELSE req[s]
    BY <1>1, <2>5a, <2>9 DEF IInv
  <2>12. \A s \in Callers : req[s].p.status = "none"
    BY <2>1 DEF IInv, CallOK, NoRow
  <2>13. \A s \in Creators : req[s].pc \notin Saga
    BY <2>1, Roles DEF IInv, CallOK
  <2>14. CallOK(r, req[r])'
    BY <1>1, <2>3, <2>5, <2>9, <2>10, <2>11, Roles, Constants DEF CallOK, Saga
  <2>15. ASSUME NEW s \in Callers, s # r PROVE CallOK(s, req[s])'
    <3>1. CallOK(s, req[s]) /\ req'[s] = req[s]
      BY <2>11, <2>15 DEF IInv
    <3>2. ~(s \in Confirmers /\ req[s].pc \in Confirming)
      BY <2>12, <3>1 DEF CallOK
    <3> QED
      BY <2>12, <2>13, <3>1, <3>2 DEF CallOK
  <2>16. OneSagaPerKey'
    BY <2>11, <2>13, Roles DEF OneSagaPerKey, Saga
  <2>17. Lifecycle!Create
    BY <2>1, <2>3, <2>5 DEF Lifecycle!Create, Lifecycle!Move, Lifecycle!amounts, NoRow
  <2> QED
    BY <2>6, <2>7, <2>11, <2>14, <2>15, <2>16, <2>17 DEF IInv, RowStep, Lifecycle!Next
<1> QED
  BY <1>2, <1>3

\* A transaction on the payment, its attempts, its events and its refunds at
\* the end of a call: refused as a whole, or the new row and a proper state.
LEMMA PersistStep ==
  ASSUME IInv, NEW r \in Callers, End(r), NEW q, NEW v, NEW ats, NEW evs,
         RowOK(q), q.version > row.version,
         ats \in Seq(AttemptType), Len(ats) = Len(attempts), evs \in Seq(EventType),
         Persist(q, v, ats, evs),
         refunds' \in [RefundKeys -> RefundType], UNCHANGED <<txn, net, lapsed>>,
         row.status = "created" => (r \in Creators /\ req[r].pc \in Saga)
  PROVE  IInv' /\ (row' = row \/ row' = q)
<1>1. CASE UNCHANGED <<row, attempts, events>>
  <2>1. StoreOK'
    BY <1>1 DEF IInv, StoreOK
  <2> QED
    BY <1>1, <2>1, EndStep
<1>2. CASE row' = q /\ attempts' = ats /\ events' = events \o evs
  <2>1. events' \in Seq(EventType)
    BY <1>2 DEF IInv, StoreOK
  <2>2. StoreOK'
    BY <1>2, <2>1 DEF IInv, StoreOK
  <2>3. RowOK(row)'
    BY <1>2 DEF RowOK, DbChecks
  <2> QED
    BY <1>2, <2>2, <2>3, CommitStep
<1> QED
  BY <1>1, <1>2, PersistCases

\* Recording requires_action ends the saga in a proper state.
LEMMA ApplyRequiresActionInv ==
  ASSUME IInv, NEW r \in Creators, ApplyRequiresAction(r)
  PROVE  IInv' /\ RowStep
<1> DEFINE q == RequireAction(row, req[r].att)
           ats == Marked(req[r].att, "requires_action", req[r].att)
           evs == <<Event("payment.requires_action", row, "requires_action")>>
<1>1. r \in Callers /\ r \in Creators /\ req[r].pc \in Saga /\ End(r)
  BY Roles DEF ApplyRequiresAction, Saga
<1>2. req[r].p = row /\ row.status = "created" /\ req[r].att \in Refs /\ RowOK(row)
  BY <1>1 DEF IInv, CallOK
<1>3. /\ RowOK(q) /\ q.status = "requires_action" /\ q.version = row.version + 1
      /\ q.authorized = row.authorized /\ q.captured = row.captured
      /\ q.refunded = row.refunded /\ q.pending = row.pending
  BY <1>2, RequireActionRow
<1>4. ats \in Seq(AttemptType) /\ Len(ats) = Len(attempts)
  BY <1>2, MarkedTyped DEF IInv, StoreOK, AttemptStatuses
<1>5. /\ row \in RowType /\ row.version \in Nat
      /\ "payment.requires_action" \in EventName /\ "requires_action" \in Status
  BY <1>2 DEF RowOK, RowType, Status, EventName
<1>6. evs \in Seq(EventType)
  BY <1>5, EventTyped, Zenon
<1>7. /\ UNCHANGED <<txn, net, lapsed>> /\ refunds' \in [RefundKeys -> RefundType]
      /\ Persist(q, row.version, ats, evs)
  BY <1>2 DEF ApplyRequiresAction, IInv, StoreOK
<1> HIDE DEF q, ats, evs
<1>8. IInv' /\ (row' = row \/ row' = q)
  BY <1>1, <1>3, <1>4, <1>5, <1>6, <1>7, PersistStep
<1>9. row' = q => Lifecycle!Challenge
  BY <1>2, <1>3 DEF Lifecycle!Challenge, Lifecycle!Move, Lifecycle!amounts
<1> QED
  BY <1>8, <1>9 DEF RowStep, Lifecycle!Next

\* A transaction that is rolled back changes the call only.
LEMMA Refused ==
  ASSUME IInv, NEW r \in Callers, End(r),
         UNCHANGED <<row, attempts, events, refunds, txn, net, lapsed>>
  PROVE  IInv' /\ RowStep
<1>1. StoreOK'
  BY DEF IInv, StoreOK
<1> QED
  BY <1>1, EndStep DEF RowStep

\* Recording a failed authentication leaves a proper state.
LEMMA ConfirmFailedInv ==
  ASSUME IInv, NEW r \in Confirmers, ConfirmFailed(r)
  PROVE  IInv' /\ RowStep
<1> DEFINE c == req[r]
           st == AttemptStatus(c.out.cat)
           q == Emit(row, "failed")
           ats == Marked(c.att, st, attempts[c.att].ref)
           evs == <<Event("payment.failed", row, "failed")>>
<1>1. /\ r \in Callers /\ End(r) /\ c.pc = "applying"
      /\ UNCHANGED <<refunds, txn, net, lapsed>>
      /\ Persist(Fail(c.p), c.p.version, ats, <<Event("payment.failed", c.p, "failed")>>)
  BY Roles DEF ConfirmFailed
<1>2. c.p.status = "requires_action" /\ attempts[c.att] \in AttemptType /\ RowOK(row)
  BY <1>1, ApproverHolds DEF IInv, CallOK, Confirming
<1>3. CASE c.p.version # row.version
  <2>1. UNCHANGED <<row, attempts, events>>
    BY <1>1, <1>3 DEF Persist, CanPersist
  <2> QED
    BY <1>1, <2>1, Refused
<1>4. CASE c.p.version = row.version
  <2>1. c.p = row
    BY <1>1, <1>2, <1>4, CurrentCopy
  <2>2. Persist(q, row.version, ats, evs)
    BY <1>1, <2>1 DEF Fail
  <2>3. /\ RowOK(q) /\ q.status = "failed" /\ q.version = row.version + 1
        /\ q.authorized = row.authorized /\ q.captured = row.captured
        /\ q.refunded = row.refunded /\ q.pending = row.pending
    BY <1>2, <2>1, CloseRow
  <2>4. st \in AttemptStatuses /\ attempts[c.att].ref \in Refs \cup {0}
    BY <1>2 DEF AttemptStatus, AttemptStatuses, AttemptType
  <2>5. ats \in Seq(AttemptType) /\ Len(ats) = Len(attempts)
    BY <2>4, MarkedTyped DEF IInv, StoreOK
  <2>6. /\ row \in RowType /\ row.version \in Nat
        /\ "payment.failed" \in EventName /\ "failed" \in Status
    BY <1>2 DEF RowOK, RowType, Status, EventName
  <2>7. evs \in Seq(EventType)
    BY <2>6, EventTyped, Zenon
  <2>8. refunds' \in [RefundKeys -> RefundType] /\ row.status = "requires_action"
    BY <1>1, <1>2, <2>1 DEF IInv, StoreOK
  <2> HIDE DEF q, ats, evs, st
  <2>9. IInv' /\ (row' = row \/ row' = q)
    BY <1>1, <2>2, <2>3, <2>5, <2>6, <2>7, <2>8, PersistStep
  <2>10. row' = q => Lifecycle!Reject
    BY <2>3, <2>8 DEF Lifecycle!Reject, Lifecycle!Move, Lifecycle!amounts
  <2> QED
    BY <2>9, <2>10 DEF RowStep, Lifecycle!Next
<1> QED
  BY <1>3, <1>4

\* CapturePayment's second transaction is the lifecycle's Take, or is refused.
LEMMA CaptureTx2Inv ==
  ASSUME IInv, NEW r \in Capturers, CaptureTx2(r)
  PROVE  IInv' /\ RowStep
<1> DEFINE c == req[r]
           q == Capture(row, c.amt)
           evs == <<Event("payment.captured", row, "captured")>>
<1>1. r \in Callers /\ End(r) /\ UNCHANGED <<refunds, txn, net, lapsed>>
  BY Roles DEF CaptureTx2
<1>2. CASE UNCHANGED <<row, attempts, events>>
  BY <1>1, <1>2, Refused
<1>3. CASE /\ row.version = c.p.version /\ CaptureOK(row, c.amt, "auth" \in lapsed)
           /\ Persist(q, c.p.version, attempts, evs)
  <2>1. RowOK(row) /\ c.amt \in Nat /\ row.status = "authorized"
    BY <1>1, <1>3 DEF IInv, ReqType, CaptureOK
  <2>2. /\ RowOK(q) /\ q.status = "captured" /\ q.version = row.version + 1
        /\ q.authorized = row.authorized /\ q.captured = c.amt
        /\ q.refunded = row.refunded /\ q.pending = row.pending
        /\ c.amt \in 1 .. Amount
    BY <1>3, <2>1, CaptureRow DEF CaptureOK
  <2>3. /\ row \in RowType /\ row.version \in Nat
        /\ "payment.captured" \in EventName /\ "captured" \in Status
    BY <2>1 DEF RowOK, RowType, Status, EventName
  <2>4. evs \in Seq(EventType)
    BY <2>3, EventTyped, Zenon
  <2>5. refunds' \in [RefundKeys -> RefundType] /\ attempts \in Seq(AttemptType)
    BY <1>1 DEF IInv, StoreOK
  <2> HIDE DEF q, evs, c
  <2>6. IInv' /\ (row' = row \/ row' = q)
    BY <1>1, <1>3, <2>1, <2>2, <2>3, <2>4, <2>5, PersistStep
  <2>7. row' = q => Lifecycle!Take(c.amt)
    BY <2>1, <2>2 DEF Lifecycle!Take, Lifecycle!Move
  <2> QED
    BY <2>2, <2>6, <2>7 DEF RowStep, Lifecycle!Next
<1> QED
  BY <1>2, <1>3 DEF CaptureTx2

\* VoidPayment's second transaction is the lifecycle's Cancel, or is refused.
LEMMA VoidTx2Inv ==
  ASSUME IInv, NEW r \in Voiders, VoidTx2(r)
  PROVE  IInv' /\ RowStep
<1> DEFINE c == req[r]
           q == Emit(row, "voided")
           evs == <<Event("payment.voided", row, "voided")>>
<1>1. r \in Callers /\ End(r) /\ UNCHANGED <<refunds, txn, net, lapsed>>
  BY Roles DEF VoidTx2
<1>2. CASE UNCHANGED <<row, attempts, events>>
  BY <1>1, <1>2, Refused
<1>3. CASE VoidOK(row) /\ Persist(q, c.p.version, attempts, evs)
  <2>1. RowOK(row) /\ row.status \in {"requires_action", "authorized"}
    BY <1>3 DEF IInv, VoidOK, CanTransition, Transitions
  <2>2. /\ RowOK(q) /\ q.status = "voided" /\ q.version = row.version + 1
        /\ q.authorized = row.authorized /\ q.captured = row.captured
        /\ q.refunded = row.refunded /\ q.pending = row.pending
    BY <2>1, CloseRow
  <2>3. /\ row \in RowType /\ row.version \in Nat
        /\ "payment.voided" \in EventName /\ "voided" \in Status
    BY <2>1 DEF RowOK, RowType, Status, EventName
  <2>4. evs \in Seq(EventType)
    BY <2>3, EventTyped, Zenon
  <2>5. refunds' \in [RefundKeys -> RefundType] /\ attempts \in Seq(AttemptType)
    BY <1>1 DEF IInv, StoreOK
  <2> HIDE DEF q, evs, c
  <2>6. IInv' /\ (row' = row \/ row' = q)
    BY <1>1, <1>3, <2>1, <2>2, <2>3, <2>4, <2>5, PersistStep
  <2>7. row' = q => Lifecycle!Cancel
    BY <2>1, <2>2 DEF Lifecycle!Cancel, Lifecycle!Move, Lifecycle!amounts
  <2> QED
    BY <2>6, <2>7 DEF RowStep, Lifecycle!Next
<1> QED
  BY <1>2, <1>3 DEF VoidTx2, Void

\* The approval of an automatic payment becomes visible together with its
\* capture, that of a manual one on its own.
LEMMA ApplyApprovedInv ==
  ASSUME IInv, NEW r \in Creators \cup Confirmers, ApplyApproved(r)
  PROVE  IInv' /\ RowStep
<1> DEFINE c == req[r]
           prov == attempts[c.att].provider
           ref == Reference(c)
           amt == CapturedAmount(c.out)
           a == Authorize(row, prov, ref)
           ats == Marked(c.att, "approved", ref)
           ea == Event("payment.authorized", row, "authorized")
           ec == Event("payment.captured", a, "captured")
<1>1. /\ r \in Callers /\ End(r) /\ c.pc = "approving"
      /\ UNCHANGED <<refunds, txn, net, lapsed>>
  BY Roles DEF ApplyApproved
<1>2. /\ c \in ReqType /\ prov \in Providers /\ ref \in Refs /\ RowOK(row)
      /\ c.p.status \in {"created", "requires_action"}
  BY <1>1, ApproverHolds DEF IInv, AttemptType
<1>3. CASE UNCHANGED <<row, attempts, events>>
  BY <1>1, <1>3, Refused
<1>4. CASE ~UNCHANGED <<row, attempts, events>>
  <2>1. c.p.version = row.version
    BY <1>4 DEF ApplyApproved, Persist, CanPersist
  <2>2. c.p = row
    BY <1>1, <1>2, <2>1, CurrentCopy
  <2>3. row.status = "created" => r \in Creators /\ c.pc \in Saga
    BY <1>1, <2>2 DEF IInv, CallOK, Saga
  <2>4. /\ row \in RowType /\ row.version \in Nat
        /\ "payment.authorized" \in EventName /\ "authorized" \in Status
        /\ "payment.captured" \in EventName /\ "captured" \in Status
    BY <1>2 DEF RowOK, RowType, Status, EventName
  <2>5. /\ RowOK(a) /\ a \in RowType /\ a.status = "authorized"
        /\ a.version = row.version + 1
        /\ a.authorized = Amount /\ a.captured = row.captured
        /\ a.refunded = row.refunded /\ a.pending = row.pending
    BY <1>2, <2>2, AuthorizeRow DEF RowOK
  <2>6. ea \in EventType /\ ec \in EventType
    BY <2>4, <2>5, EventTyped, Zenon
  <2>7. ats \in Seq(AttemptType) /\ Len(ats) = Len(attempts)
    BY <1>2, MarkedTyped DEF IInv, StoreOK, AttemptStatuses
  <2>8. refunds' \in [RefundKeys -> RefundType]
    BY <1>1 DEF IInv, StoreOK
  <2>9. \/ Persist(a, row.version, ats, <<ea>>)
        \/ /\ CaptureOK(a, amt, FALSE)
           /\ Persist(Capture(a, amt), row.version, ats, <<ea, ec>>)
    BY <1>4, <2>2 DEF ApplyApproved
  <2>10. amt \in Nat
    BY <1>2, Constants DEF CapturedAmount, ReqType, OutType
  <2> HIDE DEF a, ea, ec, ats, amt, c
  <2>11. CASE Persist(a, row.version, ats, <<ea>>)
    <3> DEFINE evs == <<ea>>
    <3>1. evs \in Seq(EventType) /\ Persist(a, row.version, ats, evs)
      BY <2>6, <2>11, Singleton, Zenon
    <3>1a. a.version > row.version
      BY <2>4, <2>5
    <3> HIDE DEF evs
    <3>2. IInv' /\ (row' = row \/ row' = a)
      BY <1>1, <2>3, <2>5, <2>7, <2>8, <3>1, <3>1a, PersistStep DEF c
    <3>3. row' = a => Lifecycle!Approve
      BY <1>2, <2>2, <2>5 DEF Lifecycle!Approve, Lifecycle!Move
    <3> QED
      BY <3>2, <3>3 DEF RowStep, Lifecycle!Next
  <2>12. CASE /\ CaptureOK(a, amt, FALSE)
              /\ Persist(Capture(a, amt), row.version, ats, <<ea, ec>>)
    <3> DEFINE q == Capture(a, amt)
    <3>1. <<ea, ec>> \in Seq(EventType)
      BY <2>6
    <3>2. /\ RowOK(q) /\ q.status = "captured" /\ q.version = a.version + 1
          /\ q.authorized = a.authorized /\ q.captured = amt
          /\ q.refunded = a.refunded /\ q.pending = a.pending /\ amt \in 1 .. Amount
      BY <2>5, <2>10, <2>12, CaptureRow DEF CaptureOK
    <3>3. q.version > row.version
      BY <2>4, <2>5, <3>2
    <3> HIDE DEF q
    <3>4. IInv' /\ (row' = row \/ row' = q)
      BY <1>1, <2>3, <2>7, <2>8, <2>12, <3>1, <3>2, <3>3, PersistStep DEF c, q
    <3>5. row' = q => Lifecycle!ApproveAndTake(amt)
      BY <1>2, <2>2, <2>5, <3>2 DEF Lifecycle!ApproveAndTake, Lifecycle!Move
    <3> QED
      BY <3>2, <3>4, <3>5 DEF RowStep, Lifecycle!Next
  <2> QED
    BY <2>9, <2>11, <2>12
<1> QED
  BY <1>3, <1>4

\* CreateRefund's second transaction is GiveBack or Release, or is refused.
LEMMA RefundTx2Inv ==
  ASSUME IInv, NEW r \in Refunders, RefundTx2(r)
  PROVE  IInv' /\ RowStep
<1> DEFINE amt == req[r].amt
           mark == MarkRefunded(row, amt)
           free == ReleaseRefund(row, amt)
<1>1. /\ r \in Callers /\ End(r) /\ UNCHANGED <<txn, net, lapsed>>
      /\ req[r].pc = "refund_tx2" /\ RefundKey[r] \in RefundKeys
  BY Roles, ServiceAssumption DEF RefundTx2
<1>2. RowOK(row) /\ amt \in 1 .. Amount
  BY <1>1 DEF IInv, CallOK
<1>3. /\ row \in RowType /\ row.version \in Nat /\ attempts \in Seq(AttemptType)
      /\ refunds \in [RefundKeys -> RefundType]
      /\ "refund.succeeded" \in EventName /\ "refund.failed" \in EventName
  BY <1>2 DEF RowOK, RowType, EventName, IInv, StoreOK
<1>4. CASE UNCHANGED db
  <2>1. UNCHANGED <<row, attempts, events, refunds>>
    BY <1>4 DEF db
  <2> QED
    BY <1>1, <2>1, Refused
<1>5. CASE /\ MarkRefundedOK(row, amt)
           /\ Persist(mark, row.version, attempts,
                      <<Event("refund.succeeded", row, mark.status)>>)
           /\ refunds' = [refunds EXCEPT ![RefundKey[r]].status = "succeeded"]
  <2> DEFINE evs == <<Event("refund.succeeded", row, mark.status)>>
  <2>1. /\ RowOK(mark) /\ mark.status = RefundedStatus(row, amt)
        /\ mark.version = row.version + 1
        /\ mark.authorized = row.authorized /\ mark.captured = row.captured
        /\ mark.refunded = row.refunded + amt /\ mark.pending = row.pending - amt
        /\ row.status \in {"captured", "partially_refunded"}
    BY <1>2, <1>5, MarkRefundedRow
  <2>2. mark.status \in Status
    BY <2>1 DEF RefundedStatus, Status
  <2>3. evs \in Seq(EventType)
    BY <1>3, <2>2, EventTyped, Zenon
  <2>4. refunds' \in [RefundKeys -> RefundType]
    BY <1>1, <1>3, <1>5 DEF RefundType
  <2>4a. /\ Persist(mark, row.version, attempts, evs)
         /\ mark.version > row.version /\ row.status # "created"
    BY <1>3, <1>5, <2>1
  <2> HIDE DEF mark, evs, amt
  <2>5. IInv' /\ (row' = row \/ row' = mark)
    BY <1>1, <1>3, <2>1, <2>3, <2>4, <2>4a, PersistStep
  <2>6. row' = mark => Lifecycle!GiveBack(amt)
    BY <1>5, <2>1 DEF Lifecycle!GiveBack, Lifecycle!Move, RefundedStatus, MarkRefundedOK
  <2> QED
    BY <1>2, <2>5, <2>6 DEF RowStep, Lifecycle!Next
<1>6. CASE /\ ReleaseRefundOK(row, amt)
           /\ Persist(free, row.version, attempts,
                      <<Event("refund.failed", row, free.status)>>)
           /\ refunds' = [refunds EXCEPT ![RefundKey[r]].status = "failed"]
  <2> DEFINE evs == <<Event("refund.failed", row, free.status)>>
  <2>1. /\ RowOK(free) /\ free.status = row.status
        /\ free.version = row.version + 1
        /\ free.authorized = row.authorized /\ free.captured = row.captured
        /\ free.refunded = row.refunded /\ free.pending = row.pending - amt
        /\ row.status \in {"captured", "partially_refunded", "refunded"}
    BY <1>2, <1>6, ReleaseRow DEF ReleaseRefundOK
  <2>2. free.status \in Status
    BY <2>1 DEF Status
  <2>3. evs \in Seq(EventType)
    BY <1>3, <2>2, EventTyped, Zenon
  <2>4. refunds' \in [RefundKeys -> RefundType]
    BY <1>1, <1>3, <1>6 DEF RefundType
  <2>4a. /\ Persist(free, row.version, attempts, evs)
         /\ free.version > row.version /\ row.status # "created"
    BY <1>3, <1>6, <2>1
  <2> HIDE DEF free, evs, amt
  <2>5. IInv' /\ (row' = row \/ row' = free)
    BY <1>1, <1>3, <2>1, <2>3, <2>4, <2>4a, PersistStep
  <2>6. row' = free => Lifecycle!Release(amt)
    BY <1>6, <2>1 DEF Lifecycle!Release, ReleaseRefundOK
  <2> QED
    BY <1>2, <2>5, <2>6 DEF RowStep, Lifecycle!Next
<1> QED
  BY <1>4, <1>5, <1>6 DEF RefundTx2

\* The reservation of a refund: the call goes on to the PSP with its amount.
LEMMA RefundTx1Inv ==
  ASSUME IInv, NEW r \in Refunders, RefundTx1(r)
  PROVE  IInv' /\ RowStep
<1>1. /\ r \in Callers /\ r \notin Creators \cup Confirmers /\ req[r] \in ReqType
      /\ RefundKey[r] \in RefundKeys /\ UNCHANGED <<txn, lapsed>>
  BY Roles, ServiceAssumption DEF RefundTx1, IInv
<1>2. CASE End(r) /\ UNCHANGED <<db, net>>
  <2>1. UNCHANGED <<row, attempts, events, refunds, txn, net, lapsed>>
    BY <1>1, <1>2 DEF db
  <2> QED
    BY <1>1, <1>2, <2>1, Refused
<1>3. CASE ~(End(r) /\ UNCHANGED <<db, net>>)
  <2>1. PICK amt \in 0 .. Amount :
          /\ ReserveRefundOK(row, amt)
          /\ CanPersist(ReserveRefund(row, amt), row.version)
          /\ Persist(ReserveRefund(row, amt), row.version, attempts,
                     <<Event("refund.created", row, row.status)>>)
          /\ refunds' = [refunds EXCEPT ![RefundKey[r]] =
                           [status |-> "pending", amount |-> amt]]
          /\ net' = net \cup {Message("refund", r, row.provider, row.ref, amt, FALSE)}
          /\ req' = [req EXCEPT ![r].pc = "refunding", ![r].amt = amt]
    BY <1>3 DEF RefundTx1
  <2> DEFINE q == ReserveRefund(row, amt)
             evs == <<Event("refund.created", row, row.status)>>
  <2>2. amt \in Nat /\ RowOK(row)
    BY Constants DEF IInv
  <2>3. /\ RowOK(q) /\ q.status = row.status /\ q.version = row.version + 1
        /\ q.authorized = row.authorized /\ q.captured = row.captured
        /\ q.refunded = row.refunded /\ q.pending = row.pending + amt
        /\ row.status \in {"captured", "partially_refunded"}
        /\ amt \in 1 .. Amount
        /\ row.refunded + row.pending + amt <= row.captured
    BY <2>1, <2>2, ReserveRow
  <2>4. /\ row \in RowType /\ row.version \in Nat /\ row.provider \in Providers
        /\ row.ref \in Refs
        /\ "refund.created" \in EventName /\ row.status \in Status
    BY <2>2, <2>3 DEF RowOK, RowType, Status, EventName
  <2>5. evs \in Seq(EventType)
    BY <2>4, EventTyped, Zenon
  <2>6. row' = q /\ attempts' = attempts /\ events' = events \o evs
    BY <2>1 DEF Persist
  <2>7. net' \subseteq MessageType
    <3>1. Message("refund", r, row.provider, row.ref, amt, FALSE) \in MessageType
      BY <1>1, <2>2, <2>4, MessageOK
    <3> QED
      BY <2>1, <3>1 DEF IInv, StoreOK
  <2>8. refunds' \in [RefundKeys -> RefundType]
    <3>1. [status |-> "pending", amount |-> amt] \in RefundType
      BY <2>2 DEF RefundType
    <3> QED
      BY <1>1, <2>1, <3>1 DEF IInv, StoreOK
  <2>9. PICK d \in ReqType :
          /\ d.pc = "refunding" /\ d.amt = amt /\ d.p = req[r].p
          /\ d.att = req[r].att /\ req' = [req EXCEPT ![r] = d]
    <3> DEFINE e == [req[r] EXCEPT !.pc = "refunding", !.amt = amt]
    <3>1. /\ e \in ReqType /\ e.pc = "refunding" /\ e.amt = amt /\ e.p = req[r].p
          /\ e.att = req[r].att /\ req' = [req EXCEPT ![r] = e]
      BY <1>1, <2>1, <2>2 DEF ReqType, PcType
    <3> HIDE DEF e
    <3> QED
      BY <3>1
  <2>10. req[r].p.status # "created" /\ req[r].p.version \in Nat
         /\ (req[r].p.status # "none" => req[r].p.version \in 1 .. row.version)
    BY <1>1 DEF IInv, CallOK, ReqType, RowType
  <2> HIDE DEF q, evs
  <2>11. events' \in Seq(EventType)
    BY <2>5, <2>6 DEF IInv, StoreOK
  <2>12. StoreOK' /\ RowOK(row)'
    <3>1. StoreOK'
      BY <1>1, <2>6, <2>7, <2>8, <2>11 DEF IInv, StoreOK
    <3> QED
      BY <2>3, <2>6, <3>1 DEF RowOK, DbChecks
  <2>13. row'.version > row.version /\ row'.version = row.version + 1
         /\ Len(attempts') = Len(attempts)
    BY <2>3, <2>4, <2>6
  <2>14. CallOK(r, d)'
    <3>1. req[r].p.status # "none" =>
            /\ req[r].p.version \in 1 .. row'.version
            /\ req[r].p.version # row'.version
      BY <2>4, <2>10, <2>13
    <3> QED
      BY <1>1, <2>3, <2>9, <2>10, <3>1 DEF CallOK
  <2>14a. r \in Creators => d.pc \notin Saga
    BY <1>1
  <2>14b. row.status # "created"
    BY <2>3
  <2>15. IInv'
    BY <1>1, <2>9, <2>12, <2>13, <2>14, <2>14a, <2>14b, CommitTo
  <2>16. Lifecycle!Reserve(amt)
    BY <2>3, <2>6 DEF Lifecycle!Reserve
  <2> QED
    BY <2>3, <2>15, <2>16 DEF RowStep, Lifecycle!Next
<1> QED
  BY <1>2, <1>3

\* The least element of a set of natural numbers.
LEMMA Least ==
  ASSUME NEW T \in SUBSET Nat, T # {}
  PROVE  \E i \in T : \A j \in T : i <= j
<1>1. IsWellFoundedOn(OpToRel(<, Nat), Nat)
  BY NatLessThanWellFounded
<1>2. PICK x \in T : \A y \in T : <<y, x>> \notin OpToRel(<, Nat)
  BY <1>1, WFMin
<1>3. ASSUME NEW y \in Nat, NEW z \in Nat, y < z
      PROVE  <<y, z>> \in OpToRel(<, Nat)
  <2>1. <<y, z>> \in Nat \X Nat /\ <<y, z>>[1] < <<y, z>>[2]
    BY <1>3
  <2> QED
    BY <2>1, Zenon DEF OpToRel
<1>4. \A y \in T : ~(y < x)
  BY <1>2, <1>3
<1> QED
  BY <1>4

\* nextCandidate goes on only within MaxAttempts, and to a routed provider.
LEMMA NextCandidateTyped ==
  ASSUME NEW a \in AttemptType, NEW idx \in Nat, NEW cat, NEW budget \in BOOLEAN,
         NEW n, n = NextCandidate(a, idx, cat, budget), n[1] # 0
  PROVE  n[1] \in Nat /\ n[2] \in Providers /\ ~(Len(attempts) >= MaxAttempts)
<1> DEFINE others == {i \in (idx + 1) .. Len(Candidates) : Candidates[i] # a.provider}
           first == CHOOSE i \in others : \A j \in others : i <= j
<1>1. others # {} => first \in Nat /\ Candidates[first] \in Providers
  <2>1. SUFFICES ASSUME others # {} PROVE first \in others
    BY Constants
  <2>2. others \in SUBSET Nat
    BY Constants
  <2>3. \E i \in others : \A j \in others : i <= j
    BY <2>1, <2>2, Least
  <2> QED
    BY <2>3
<1>2. a.provider \in Providers /\ Len(Candidates) \in Nat
  BY Constants DEF AttemptType
<1>3. \/ n = <<0, "none">>
      \/ /\ ~(Len(attempts) >= MaxAttempts)
         /\ \/ others # {} /\ n = <<first, Candidates[first]>>
            \/ n = <<Len(Candidates), a.provider>>
  BY DEF NextCandidate
<1> HIDE DEF others, first
<1> QED
  BY <1>1, <1>2, <1>3

\* The failover transaction keeps the version: no other call can hold a copy of
\* the created payment it changes.
LEMMA FailoverStep ==
  ASSUME IInv, NEW r \in Creators, req[r].pc \in Saga, NEW prov \in Providers,
         NEW d \in ReqType, d.pc \in Saga, d.att = req[r].att + 1,
         d.p = [row EXCEPT !.provider = prov], row' = d.p,
         req' = [req EXCEPT ![r] = d], Len(attempts') = Len(attempts) + 1, StoreOK'
  PROVE  IInv' /\ RowStep
<1>1. /\ r \in Callers /\ row.status = "created" /\ req[r].att = Len(attempts)
      /\ Len(attempts) \in Nat /\ RowOK(row) /\ row \in RowType
  BY Roles DEF IInv, CallOK, RowOK, StoreOK
<1>2. /\ d.p \in RowType /\ d.p.status = "created" /\ d.p.version = row.version
      /\ d.p.provider = prov /\ d.p.authorized = row.authorized
      /\ d.p.captured = row.captured /\ d.p.refunded = row.refunded
      /\ d.p.pending = row.pending
  BY <1>1 DEF RowType
<1>3. RowOK(row)' /\ row.version \in Nat /\ row.version >= 1
  BY <1>1, <1>2 DEF RowOK, DbChecks, Uncharged, RowType
<1>4. /\ req' \in [Callers -> ReqType]
      /\ \A s \in Callers : req'[s] = IF s = r THEN d ELSE req[s]
  BY <1>1 DEF IInv
<1>5. \A s \in Creators : s # r => req[s].pc \notin Saga
  BY DEF IInv, OneSagaPerKey, Saga
<1>6. d.att \in Refs
  BY <1>1, Constants DEF StoreOK, Refs
<1>7. CallOK(r, req[r])'
  <2>1. req'[r] = d /\ d.p = row' /\ d.att = Len(attempts')
    BY <1>1, <1>4
  <2>2. d.p.version \in 1 .. row'.version /\ row'.status = "created"
    BY <1>2, <1>3, <2>1
  <2>3. r \notin Confirmers /\ r \notin Refunders
    BY Roles
  <2> QED
    BY <1>6, <2>1, <2>2, <2>3 DEF CallOK
<1>8. ASSUME NEW s \in Callers, s # r PROVE CallOK(s, req[s])'
  <2>1. CallOK(s, req[s]) /\ req'[s] = req[s] /\ ~(s \in Creators /\ req[s].pc \in Saga)
    BY <1>4, <1>5, <1>8 DEF IInv
  <2>2. req[s].p.status # "none" => req[s].p.version # row.version
    BY <1>1, <2>1 DEF CallOK
  <2> QED
    BY <1>1, <1>2, <2>1, <2>2 DEF CallOK
<1>9. OneSagaPerKey'
  BY <1>4, <1>5, Roles DEF OneSagaPerKey, Saga
<1>10. UNCHANGED Lifecycle!lifecycle
  BY <1>1, <1>2 DEF Lifecycle!lifecycle
<1> QED
  BY <1>3, <1>4, <1>7, <1>8, <1>9, <1>10 DEF IInv, RowStep

\* A failed attempt: left unknown, failed over, or the payment fails.
LEMMA ApplyFailedInv ==
  ASSUME IInv, NEW r \in Creators, ApplyFailed(r)
  PROVE  IInv' /\ RowStep
<1> DEFINE c == req[r]
           st == AttemptStatus(c.out.cat)
           ats == Marked(c.att, st, 0)
<1>1. /\ r \in Callers /\ c.pc = "applying" /\ c.pc \in Saga
      /\ UNCHANGED <<refunds, txn, lapsed>>
  BY Roles DEF ApplyFailed, Saga
<1>2. /\ c.p = row /\ row.status = "created" /\ RowOK(row) /\ row \in RowType
      /\ row.version \in Nat /\ c \in ReqType /\ c.idx \in Nat
      /\ c.att = Len(attempts) /\ c.att \in Refs /\ attempts[c.att] \in AttemptType
  BY <1>1, ApproverHolds DEF IInv, CallOK, RowOK, RowType, ReqType
<1>3. st \in AttemptStatuses
  BY DEF AttemptStatus, AttemptStatuses
<1>4. ats \in Seq(AttemptType) /\ Len(ats) = Len(attempts)
  BY <1>3, MarkedTyped DEF IInv, StoreOK
<1>5. PICK budget \in BOOLEAN :
        LET next == NextCandidate(attempts[c.att], c.idx, c.out.cat, budget)
            p    == [c.p EXCEPT !.provider = next[2]]
        IN  IF st = "unknown"
              THEN /\ Persist(c.p, c.p.version, ats, <<>>)
                   /\ End(r) /\ UNCHANGED net
            ELSE IF next[1] = 0
              THEN /\ Persist(Fail(c.p), c.p.version, ats,
                              <<Event("payment.failed", c.p, "failed")>>)
                   /\ End(r) /\ UNCHANGED net
            ELSE IF ~CanPersist(p, c.p.version)
              THEN End(r) /\ UNCHANGED <<row, attempts, events, net>>
            ELSE /\ Persist(p, c.p.version, Append(ats, NewAttempt(next[2])), <<>>)
                 /\ net' = net \cup {Message("authorize", r, next[2], c.att + 1,
                                       Amount, c.p.method = "automatic")}
                 /\ req' = [req EXCEPT ![r].pc = "authorizing", ![r].p = p,
                              ![r].att = c.att + 1, ![r].idx = next[1],
                              ![r].out = NoOut]
  BY DEF ApplyFailed
<1> DEFINE next == NextCandidate(attempts[c.att], c.idx, c.out.cat, budget)
           p == [row EXCEPT !.provider = next[2]]
<1>6. CASE Persist(row, row.version, ats, <<>>) /\ End(r) /\ UNCHANGED net
  <2>1. row' = row /\ (attempts' = attempts \/ attempts' = ats)
        /\ (events' = events \/ events' = events \o <<>>)
    BY <1>6 DEF Persist
  <2> HIDE DEF ats
  <2>2. Len(attempts') = Len(attempts) /\ StoreOK'
    BY <1>1, <1>4, <1>6, <2>1 DEF IInv, StoreOK
  <2> QED
    BY <1>1, <1>6, <2>1, <2>2, EndStep DEF RowStep
<1>7. CASE /\ Persist(Emit(row, "failed"), row.version, ats,
                      <<Event("payment.failed", row, "failed")>>)
           /\ End(r) /\ UNCHANGED net
  <2> DEFINE q == Emit(row, "failed")
             evs == <<Event("payment.failed", row, "failed")>>
  <2>1. /\ RowOK(q) /\ q.status = "failed" /\ q.version = row.version + 1
        /\ q.authorized = row.authorized /\ q.captured = row.captured
        /\ q.refunded = row.refunded /\ q.pending = row.pending
    BY <1>2, CloseRow
  <2>2. "payment.failed" \in EventName /\ "failed" \in Status
    BY DEF Status, EventName
  <2>3. evs \in Seq(EventType)
    BY <1>2, <2>2, EventTyped, Zenon
  <2>4. refunds' \in [RefundKeys -> RefundType] /\ q.version > row.version
    BY <1>1, <1>2, <2>1 DEF IInv, StoreOK
  <2>5. Persist(q, row.version, ats, evs)
    BY <1>7
  <2> HIDE DEF q, evs, ats, c
  <2>6. IInv' /\ (row' = row \/ row' = q)
    BY <1>1, <1>4, <1>7, <2>1, <2>3, <2>4, <2>5, PersistStep DEF c
  <2>7. row' = q => Lifecycle!Reject
    BY <1>2, <2>1 DEF Lifecycle!Reject, Lifecycle!Move, Lifecycle!amounts
  <2> QED
    BY <2>6, <2>7 DEF RowStep, Lifecycle!Next
<1>8. CASE End(r) /\ UNCHANGED <<row, attempts, events, net>>
  BY <1>1, <1>8, Refused
<1>9. CASE /\ next[1] # 0 /\ CanPersist(p, row.version)
           /\ Persist(p, row.version, Append(ats, NewAttempt(next[2])), <<>>)
           /\ net' = net \cup {Message("authorize", r, next[2], c.att + 1,
                                 Amount, row.method = "automatic")}
           /\ req' = [req EXCEPT ![r].pc = "authorizing", ![r].p = p,
                        ![r].att = c.att + 1, ![r].idx = next[1], ![r].out = NoOut]
  <2>1. PICK n : n = next
    OBVIOUS
  <2>2. n[1] \in Nat /\ n[2] \in Providers /\ ~(Len(attempts) >= MaxAttempts)
    BY <1>2, <1>9, <2>1, NextCandidateTyped
  <2>3. c.att + 1 \in Refs
    BY <1>2, <2>2, Constants DEF Refs, IInv, StoreOK
  <2>4. /\ row' = p /\ attempts' = Append(ats, NewAttempt(n[2]))
        /\ events' = events \o <<>>
    BY <1>9, <2>1 DEF Persist
  <2>5. NewAttempt(n[2]) \in AttemptType
    BY <2>2 DEF NewAttempt, AttemptType, AttemptStatuses
  <2>6. Message("authorize", r, n[2], c.att + 1, Amount, row.method = "automatic")
          \in MessageType
    BY <1>1, <2>2, <2>3, MessageOK, Constants
  <2>7. PICK d \in ReqType :
          /\ d.pc = "authorizing" /\ d.att = c.att + 1
          /\ d.p = [row EXCEPT !.provider = n[2]] /\ req' = [req EXCEPT ![r] = d]
    <3> DEFINE e == [req[r] EXCEPT !.pc = "authorizing", !.p = p,
                       !.att = c.att + 1, !.idx = n[1], !.out = NoOut]
    <3>1. p \in RowType
      BY <1>2, <2>1, <2>2, RowFields, Zenon
    <3>2. req[r] \in ReqType /\ "authorizing" \in PcType /\ NoOut \in OutType
          /\ c.att + 1 \in Refs \cup {0}
      BY <1>2, <2>3, Constructors DEF PcType
    <3> HIDE DEF p, next
    <3>3. e \in ReqType
      BY <2>2, <3>1, <3>2, CallFields, Zenon
    <3>4. e.pc = "authorizing" /\ e.att = c.att + 1 /\ e.p = p
      BY <3>2 DEF ReqType
    <3>5. req' = [req EXCEPT ![r] = e]
      BY <1>9, <2>1
    <3>6. p = [row EXCEPT !.provider = n[2]]
      BY <2>1 DEF p
    <3> HIDE DEF e
    <3> QED
      BY <3>3, <3>4, <3>5, <3>6
  <2>8. row' = d.p
    BY <2>1, <2>4, <2>7
  <2> HIDE DEF ats, p, next, c
  <2>9. attempts' \in Seq(AttemptType) /\ Len(attempts') = Len(attempts) + 1
    BY <1>4, <2>4, <2>5
  <2>10. StoreOK'
    <3>1. net' \subseteq MessageType
      BY <1>9, <2>1, <2>6 DEF IInv, StoreOK
    <3>2. events' \in Seq(EventType)
      BY <2>4 DEF IInv, StoreOK
    <3>3. Len(attempts') <= MaxAttempts
      BY <2>2, <2>9, Constants DEF IInv, StoreOK
    <3> QED
      BY <1>1, <2>9, <3>1, <3>2, <3>3 DEF IInv, StoreOK
  <2> QED
    BY <1>1, <2>2, <2>7, <2>8, <2>9, <2>10, FailoverStep DEF Saga, c
<1> QED
  BY <1>2, <1>5, <1>6, <1>7, <1>8, <1>9 DEF Fail

-----------------------------------------------------------------------------
(* The theorems                                                            *)

\* The initial state satisfies the invariant.
LEMMA InitInv == Init => IInv
<1> SUFFICES ASSUME Init PROVE IInv
  OBVIOUS
<1>1. /\ row = NoRow /\ attempts = <<>> /\ events = <<>> /\ net = {} /\ lapsed = {}
      /\ refunds = [k \in RefundKeys |-> NoRefund] /\ txn = [n \in Refs |-> NoTxn]
      /\ req = [r \in Callers |-> Idle]
  BY DEF Init
<1>2. RowOK(row)
  BY <1>1, Constructors, Constants DEF RowOK, DbChecks, NoRow, Uncharged, Status
<1>3. NoRefund \in RefundType /\ NoTxn \in TxnType
  BY DEF NoRefund, RefundType, NoTxn, TxnType, TxnStatus
<1>4. StoreOK
  BY <1>1, <1>3, Constants DEF StoreOK
<1>5. req \in [Callers -> ReqType] /\ \A r \in Callers : req[r] = Idle
  BY <1>1, Constructors
<1>6. \A r \in Callers : CallOK(r, Idle)
  BY Constructors DEF CallOK, NoRow, Saga, Confirming
<1>7. OneSagaPerKey
  BY <1>5, Constructors, Roles DEF OneSagaPerKey
<1> QED
  BY <1>2, <1>4, <1>5, <1>6, <1>7 DEF IInv

\* Every step of a call keeps the invariant and is a step of the lifecycle.
LEMMA StepInv ==
  ASSUME IInv, NEW r \in Callers, Step(r)
  PROVE  IInv' /\ RowStep
<1>1. CASE r \in Creators /\ CreateStep(r)
  <2>1. CASE CreateLookup(r)
    BY <1>1, <2>1, CreateLookupInv DEF CreateLookup, db, RowStep
  <2>2. CASE CreateTx1(r)
    BY <1>1, <2>2, CreateTx1Inv
  <2>3. CASE AuthorizeReturns(r)
    BY <1>1, <2>3, AuthorizeReturnsInv DEF AuthorizeReturns, db, RowStep
  <2>4. CASE ResolveUnknown(r)
    <3>1. row' = row
      BY <2>4 DEF ResolveUnknown, db
    <3> QED
      BY <1>1, <2>4, <3>1, ResolveUnknownInv DEF RowStep
  <2>5. CASE ApplyRequiresAction(r)
    BY <1>1, <2>5, ApplyRequiresActionInv
  <2>6. CASE ApplyFailed(r)
    BY <1>1, <2>6, ApplyFailedInv
  <2> QED
    BY <1>1, <2>1, <2>2, <2>3, <2>4, <2>5, <2>6 DEF CreateStep
<1>2. CASE r \in Confirmers /\ ConfirmStep(r)
  <2>1. CASE ConfirmLoad(r)
    BY <1>2, <2>1, ConfirmLoadInv DEF ConfirmLoad, db, RowStep
  <2>2. CASE ConfirmQuery(r)
    <3>1. row' = row
      BY <2>2 DEF ConfirmQuery, db
    <3> QED
      BY <1>2, <2>2, <3>1, ConfirmQueryInv DEF RowStep
  <2>3. CASE ConfirmFailed(r)
    BY <1>2, <2>3, ConfirmFailedInv
  <2> QED
    BY <1>2, <2>1, <2>2, <2>3 DEF ConfirmStep
<1>3. CASE r \in Creators \cup Confirmers /\ ApproveStep(r)
  <2>1. CASE ApprovedNeedsCapture(r)
    <3>1. row' = row
      BY <2>1 DEF ApprovedNeedsCapture, db
    <3> QED
      BY <1>3, <2>1, <3>1, ApprovedNeedsCaptureInv DEF RowStep
  <2>2. CASE CaptureNowReturns(r)
    BY <1>3, <2>2, CaptureNowReturnsInv DEF CaptureNowReturns, db, RowStep
  <2>3. CASE ApprovedAsIs(r)
    BY <1>3, <2>3, ApprovedAsIsInv DEF ApprovedAsIs, db, RowStep
  <2>4. CASE ApplyApproved(r)
    BY <1>3, <2>4, ApplyApprovedInv
  <2> QED
    BY <1>3, <2>1, <2>2, <2>3, <2>4 DEF ApproveStep
<1>4. CASE r \in Capturers /\ CaptureStep(r)
  <2>1. CASE CaptureLoad(r)
    BY <1>4, <2>1, CaptureLoadInv DEF CaptureLoad, db, RowStep
  <2>2. CASE CaptureReturns(r)
    BY <1>4, <2>2, CaptureReturnsInv DEF CaptureReturns, db, RowStep
  <2>3. CASE CaptureTx2(r)
    BY <1>4, <2>3, CaptureTx2Inv
  <2> QED
    BY <1>4, <2>1, <2>2, <2>3 DEF CaptureStep
<1>5. CASE r \in Voiders /\ VoidStep(r)
  <2>1. CASE VoidLoad(r)
    BY <1>5, <2>1, VoidLoadInv DEF VoidLoad, db, RowStep
  <2>2. CASE VoidReturns(r)
    BY <1>5, <2>2, VoidReturnsInv DEF VoidReturns, db, RowStep
  <2>3. CASE VoidTx2(r)
    BY <1>5, <2>3, VoidTx2Inv
  <2> QED
    BY <1>5, <2>1, <2>2, <2>3 DEF VoidStep
<1>6. CASE r \in Refunders /\ RefundStep(r)
  <2>1. CASE RefundLookup(r)
    BY <1>6, <2>1, RefundLookupInv DEF RefundLookup, db, RowStep
  <2>2. CASE RefundTx1(r)
    BY <1>6, <2>2, RefundTx1Inv
  <2>3. CASE RefundReturns(r)
    BY <1>6, <2>3, RefundReturnsInv DEF RefundReturns, db, RowStep
  <2>4. CASE RefundTx2(r)
    BY <1>6, <2>4, RefundTx2Inv
  <2> QED
    BY <1>6, <2>1, <2>2, <2>3, <2>4 DEF RefundStep
<1> QED
  BY <1>1, <1>2, <1>3, <1>4, <1>5, <1>6 DEF Step

\* The induction step, for the invariant and for the refinement.
LEMMA NextInv ==
  ASSUME IInv, [Next]_vars
  PROVE  IInv' /\ RowStep
<1>1. CASE \E r \in Callers : Step(r)
  BY <1>1, StepInv
<1>2. CASE \E r \in Callers : Crash(r)
  BY <1>2, CrashInv DEF Crash, db, RowStep
<1>3. CASE \E r \in Callers : ClientCancel(r)
  BY <1>3, ClientCancelInv DEF ClientCancel, db, RowStep
<1>4. CASE \E m \in net : PspAuthorize(m)
  <2>1. PICK m \in net : PspAuthorize(m)
    BY <1>4
  <2>2. row' = row
    BY <2>1 DEF PspAuthorize, db
  <2> QED
    BY <2>1, <2>2, PspAuthorizeInv DEF RowStep
<1>5. CASE \E m \in net : PspCapture(m)
  <2>1. PICK m \in net : PspCapture(m)
    BY <1>5
  <2>2. row' = row
    BY <2>1 DEF PspCapture, db
  <2> QED
    BY <2>1, <2>2, PspCaptureInv DEF RowStep
<1>6. CASE \E m \in net : PspVoid(m)
  <2>1. PICK m \in net : PspVoid(m)
    BY <1>6
  <2>2. row' = row
    BY <2>1 DEF PspVoid, db
  <2> QED
    BY <2>1, <2>2, PspVoidInv DEF RowStep
<1>7. CASE \E m \in net : PspRefund(m)
  <2>1. PICK m \in net : PspRefund(m)
    BY <1>7
  <2>2. row' = row
    BY <2>1 DEF PspRefund, db
  <2> QED
    BY <2>1, <2>2, PspRefundInv DEF RowStep
<1>8. CASE \E n \in Refs : PspAction(n)
  BY <1>8, PspActionInv DEF PspAction, db, RowStep
<1>9. CASE Lapse
  BY <1>9, LapseInv DEF Lapse, db, RowStep
<1>10. CASE UNCHANGED vars
  <2>1. UNCHANGED <<db, req>> /\ StoreOK'
    BY <1>10 DEF vars, db, IInv, StoreOK
  <2> QED
    BY <2>1, OutsideStep DEF RowStep, db
<1>11. CASE \/ \E m \in net : PspRead(m) \/ PspStatus(m)
            \/ \E r \in Confirmers : QueryRead(r)
  BY <1>11, PspReadInv DEF RowStep
<1> QED
  BY <1>1, <1>2, <1>3, <1>4, <1>5, <1>6, <1>7, <1>8, <1>9, <1>10, <1>11 DEF Next, Psp

\* The invariant holds throughout every execution of payment-service.
THEOREM Inductive == Spec => []IInv
<1>1. IInv /\ [Next]_vars => IInv'
  BY NextInv
<1> QED
  BY InitInv, <1>1, PTL DEF Spec

\* Type correctness, for every number of calls, attempts and providers: no
\* handler reads an attempt, a provider or a reference that does not exist, and
\* no counter of the payment ever goes below zero.
THEOREM TypeCorrect == Spec => []TypeOK
<1>1. IInv => TypeOK
  BY DEF IInv, StoreOK, RowOK, TypeOK
<1> QED
  BY Inductive, <1>1, PTL

\* The optimistic lock is sound: a call's copy of the payment is out of date,
\* and will be refused by persist, or it is the row itself.
THEOREM OptimisticLock == Spec => []CopiesAreStaleOrCurrent
<1>1. IInv => CopiesAreStaleOrCurrent
  <2> SUFFICES ASSUME IInv, NEW r \in Callers, req[r].p.status # "none"
               PROVE  /\ req[r].p.version <= row.version
                      /\ req[r].p.version = row.version => req[r].p = row
    BY DEF CopiesAreStaleOrCurrent
  <2> QED
    BY DEF IInv, CallOK, RowOK, RowType
<1> QED
  BY Inductive, <1>1, PTL

\* One idempotency key, one authorization saga: of all the CreatePayment calls
\* of the key at most one is ever past its first transaction.
THEOREM OneSaga == Spec => []OneSagaPerKey
<1>1. IInv => OneSagaPerKey
  BY DEF IInv
<1> QED
  BY Inductive, <1>1, PTL

\* payment-service implements PaymentLifecycle: every committed change of the
\* payment, by whichever call, is one of the abstract steps on the row as it was.
THEOREM Refinement == Spec => ImplementsLifecycle
<1>1. Init => Lifecycle!Init
  BY DEF Init, Lifecycle!Init, NoRow
<1>2. IInv /\ [Next]_vars => [Lifecycle!Next]_(Lifecycle!lifecycle)
  BY NextInv DEF RowStep, Lifecycle!lifecycle
<1> QED
  BY Inductive, <1>1, <1>2, PTL DEF Spec, ImplementsLifecycle, Lifecycle!Spec

-----------------------------------------------------------------------------
(* Money                                                                   *)

\* Money appears in the order authorized, captured, refunded: nothing is
\* captured, and so nothing refunded or reserved, before status captured.
MoneyInv ==
  /\ row.refunded \in Nat /\ row.pending \in Nat /\ row.captured \in Nat
  /\ Lifecycle!Conservation
  /\ row.status \in {"none", "created", "requires_action", "authorized"} =>
       row.captured = 0 /\ row.refunded = 0 /\ row.pending = 0
  /\ row.status = "authorized" => row.authorized = Amount

\* Every step of the lifecycle keeps MoneyInv.
LEMMA MoneyStep ==
  ASSUME MoneyInv, [Lifecycle!Next]_(Lifecycle!lifecycle)
  PROVE  MoneyInv'
<1> USE Constants DEF MoneyInv, Lifecycle!Conservation, Lifecycle!amounts, Lifecycle!Move
<1>1. CASE Lifecycle!Create
  BY <1>1 DEF Lifecycle!Create
<1>2. CASE Lifecycle!Challenge
  BY <1>2 DEF Lifecycle!Challenge
<1>3. CASE Lifecycle!Reject
  BY <1>3 DEF Lifecycle!Reject
<1>4. CASE Lifecycle!Approve
  BY <1>4 DEF Lifecycle!Approve
<1>5. CASE Lifecycle!Cancel
  BY <1>5 DEF Lifecycle!Cancel
<1>6. ASSUME NEW a \in 1 .. Amount, Lifecycle!ApproveAndTake(a) PROVE MoneyInv'
  BY <1>6 DEF Lifecycle!ApproveAndTake
<1>7. ASSUME NEW a \in 1 .. Amount, Lifecycle!Take(a) PROVE MoneyInv'
  BY <1>7 DEF Lifecycle!Take
<1>8. ASSUME NEW a \in 1 .. Amount, Lifecycle!Reserve(a) PROVE MoneyInv'
  <2>1. /\ row.refunded + row.pending + a <= row.captured
        /\ row'.pending = row.pending + a /\ row'.refunded = row.refunded
        /\ row'.captured = row.captured /\ row'.authorized = row.authorized
        /\ row'.status = row.status /\ row.status \in {"captured", "partially_refunded"}
    BY <1>8 DEF Lifecycle!Reserve
  <2>2. row.pending + a \in Nat /\ row.refunded + (row.pending + a) <= row.captured
    BY <1>8, <2>1
  <2> QED
    BY <2>1, <2>2
<1>9. ASSUME NEW a \in 1 .. Amount, Lifecycle!GiveBack(a) PROVE MoneyInv'
  BY <1>9 DEF Lifecycle!GiveBack
<1>10. ASSUME NEW a \in 1 .. Amount, Lifecycle!Release(a) PROVE MoneyInv'
  BY <1>10 DEF Lifecycle!Release
<1>11. CASE UNCHANGED Lifecycle!lifecycle
  BY <1>11 DEF Lifecycle!lifecycle
<1> QED
  BY <1>1, <1>2, <1>3, <1>4, <1>5, <1>6, <1>7, <1>8, <1>9, <1>10, <1>11 DEF Lifecycle!Next

\* The lifecycle conserves money, for every amount: captures stay within the
\* authorization, refunds and reservations within the capture, whatever order
\* refunds are reserved, given back and released in.
LEMMA LifecycleConserves == ImplementsLifecycle => []Lifecycle!Conservation
<1>1. Lifecycle!Init => MoneyInv
  BY Constants DEF Lifecycle!Init, MoneyInv, Lifecycle!Conservation
<1>2. MoneyInv /\ [Lifecycle!Next]_(Lifecycle!lifecycle) => MoneyInv'
  BY MoneyStep
<1>3. MoneyInv => Lifecycle!Conservation
  BY DEF MoneyInv
<1> QED
  BY <1>1, <1>2, <1>3, PTL DEF ImplementsLifecycle, Lifecycle!Spec

\* The payments row conserves money, because it implements the lifecycle:
\* refunds given back or promised never exceed what was captured, nor captures
\* what the payer agreed to, whatever calls and PSP answers interleave.
THEOREM MoneyConserved == Spec => []Lifecycle!Conservation
BY Refinement, LifecycleConserves, PTL

-----------------------------------------------------------------------------
(* What the transactions write                                             *)
(*                                                                         *)
(* The invariants above say that the calls keep out of each other's way.   *)
(* With the one below, about the attempts, every step of the system is one *)
(* of a few transactions on the row as it was, whoever runs it; the log,   *)
(* the attempts and the refunds are then argued about from that list.      *)

\* Statuses of a payment that a PSP has approved, and of one it has charged.
Taken == {"captured", "partially_refunded", "refunded"}
Settled == {"authorized"} \cup Taken

\* The attempts and the row: the attempts before the last are closed and were not
\* approved; the last is open while the payer authenticates and, once the payment
\* is settled, approved under the row's own provider and reference.  A call that
\* confirms works on the last attempt.
AttemptsOK ==
  /\ row.status = "none" => attempts = <<>>
  /\ row.status # "none" => Len(attempts) > 0
  /\ row.status = "created" =>
       row.version = 1 /\ row.ref = 0 /\ attempts[Len(attempts)].ref = 0
  /\ \A i \in 1 .. Len(attempts) : IsOpen(attempts[i]) => i = Len(attempts)
  /\ row.status \in {"none", "created", "requires_action", "failed"} =>
       \A i \in 1 .. Len(attempts) : attempts[i].status # "approved"
  /\ row.status = "requires_action" => IsOpen(attempts[Len(attempts)])
  /\ row.status \in Settled =>
       /\ attempts[Len(attempts)].status = "approved"
       /\ attempts[Len(attempts)].provider = row.provider
       /\ attempts[Len(attempts)].ref = row.ref
  /\ \A r \in Confirmers : req[r].pc \in Confirming => req[r].att = Len(attempts)

SameMoney ==
  row'.captured = row.captured /\ row'.refunded = row.refunded /\ row'.pending = row.pending

SameRoute == row'.provider = row.provider /\ row'.ref = row.ref

\* One command of the aggregate: the next version of the row and its event.
Logs(type, to) ==
  /\ row'.status = to /\ row'.version = row.version + 1
  /\ events' = events \o <<Event(type, row, to)>>

MarksLast(status, ref) == attempts' = Marked(Len(attempts), status, ref)

TxInsert(prov) ==
  /\ row = NoRow /\ row'.status = "created" /\ row'.version = 1
  /\ row'.provider = prov /\ row'.ref = 0 /\ SameMoney
  /\ attempts' = <<NewAttempt(prov)>>
  /\ events' = <<Event("payment.created", NoRow, "created")>>
  /\ refunds' = refunds

TxChallenge ==
  /\ row.status = "created" /\ Logs("payment.requires_action", "requires_action")
  /\ row'.provider = row.provider /\ row'.ref = Len(attempts) /\ SameMoney
  /\ MarksLast("requires_action", Len(attempts)) /\ refunds' = refunds

TxUnknown ==
  /\ row.status = "created" /\ row' = row /\ events' = events
  /\ MarksLast("unknown", 0) /\ refunds' = refunds

TxFailover(status, prov) ==
  /\ row.status = "created" /\ row'.status = "created" /\ row'.version = row.version
  /\ row'.provider = prov /\ row'.ref = row.ref /\ SameMoney
  /\ attempts' = Append(Marked(Len(attempts), status, 0), NewAttempt(prov))
  /\ events' = events /\ refunds' = refunds

TxReject(status, ref) ==
  /\ row.status \in {"created", "requires_action"} /\ Logs("payment.failed", "failed")
  /\ SameRoute /\ SameMoney /\ MarksLast(status, ref) /\ refunds' = refunds

TxApprove(ref) ==
  /\ row.status \in {"created", "requires_action"}
  /\ Logs("payment.authorized", "authorized")
  /\ row'.provider = attempts[Len(attempts)].provider /\ row'.ref = ref /\ SameMoney
  /\ MarksLast("approved", ref) /\ refunds' = refunds

TxApproveAndTake(ref, amt) ==
  /\ row.status \in {"created", "requires_action"}
  /\ row'.status = "captured" /\ row'.version = row.version + 2
  /\ \E a : /\ a.status = "authorized" /\ a.version = row.version + 1
            /\ events' = events \o <<Event("payment.authorized", row, "authorized"),
                                     Event("payment.captured", a, "captured")>>
  /\ row'.provider = attempts[Len(attempts)].provider /\ row'.ref = ref
  /\ row'.captured = amt /\ row'.refunded = row.refunded /\ row'.pending = row.pending
  /\ MarksLast("approved", ref) /\ refunds' = refunds

TxTake(amt) ==
  /\ row.status = "authorized" /\ Logs("payment.captured", "captured") /\ SameRoute
  /\ row'.captured = amt /\ row'.refunded = row.refunded /\ row'.pending = row.pending
  /\ attempts' = attempts /\ refunds' = refunds

TxVoid ==
  /\ row.status \in {"requires_action", "authorized"} /\ Logs("payment.voided", "voided")
  /\ SameRoute /\ SameMoney /\ attempts' = attempts /\ refunds' = refunds

TxReserve(k, amt) ==
  /\ row.status \in {"captured", "partially_refunded"}
  /\ Logs("refund.created", row.status) /\ SameRoute
  /\ row'.captured = row.captured /\ row'.refunded = row.refunded
  /\ row'.pending = row.pending + amt /\ refunds[k].status = "none"
  /\ refunds' = [refunds EXCEPT ![k] = [status |-> "pending", amount |-> amt]]
  /\ attempts' = attempts

TxGiveBack(k, amt) ==
  /\ row.status \in {"captured", "partially_refunded"}
  /\ Logs("refund.succeeded", RefundedStatus(row, amt)) /\ SameRoute
  /\ row'.captured = row.captured /\ row'.refunded = row.refunded + amt
  /\ row'.pending = row.pending - amt
  /\ refunds' = [refunds EXCEPT ![k].status = "succeeded"] /\ attempts' = attempts

TxRelease(k, amt) ==
  /\ row.status \in Taken /\ Logs("refund.failed", row.status) /\ SameRoute
  /\ row'.captured = row.captured /\ row'.refunded = row.refunded
  /\ row'.pending = row.pending - amt
  /\ refunds' = [refunds EXCEPT ![k].status = "failed"] /\ attempts' = attempts

\* The transactions that leave the refunds alone, and every transaction there is.
RowTx ==
  \/ UNCHANGED db
  \/ \E prov \in Providers : TxInsert(prov)
  \/ TxChallenge \/ TxUnknown \/ TxVoid
  \/ \E prov \in Providers, st \in {"declined", "unavailable"} : TxFailover(st, prov)
  \/ \E st \in {"declined", "unavailable", "unknown"}, ref \in Refs \cup {0} : TxReject(st, ref)
  \/ \E ref \in Refs : TxApprove(ref) \/ \E amt \in 1 .. Amount : TxApproveAndTake(ref, amt)
  \/ \E amt \in 1 .. Amount : TxTake(amt)

DbStep ==
  \/ RowTx
  \/ \E r \in Refunders, amt \in 1 .. Amount :
       \/ TxReserve(RefundKey[r], amt)
       \/ TxGiveBack(RefundKey[r], amt)
       \/ TxRelease(RefundKey[r], amt)

\* CreatePayment's first transaction inserts, or replays the payment that is there.
LEMMA CreateTx1Writes ==
  ASSUME IInv, NEW r \in Creators, CreateTx1(r)
  PROVE  UNCHANGED db \/ TxInsert(Candidates[1])
<1>1. CASE DuplicateKey
  BY <1>1 DEF CreateTx1
<1>2. CASE ~DuplicateKey
  <2>1. row.status = "none" /\ row = NoRow
    BY <1>2 DEF DuplicateKey, IInv, RowOK
  <2>2. PICK method \in {"automatic", "manual"} :
          /\ row' = NewPayment(method, Candidates[1])
          /\ attempts' = <<NewAttempt(Candidates[1])>>
          /\ events' = <<Event("payment.created", NoRow, "created")>>
          /\ UNCHANGED refunds
    BY <1>2 DEF CreateTx1
  <2> QED
    BY <2>1, <2>2, NewPaymentRow, Constants DEF TxInsert, SameMoney, NoRow
<1> QED
  BY <1>1, <1>2

\* Recording that the payer has to act.
LEMMA ApplyRequiresActionWrites ==
  ASSUME IInv, NEW r \in Creators, ApplyRequiresAction(r)
  PROVE  UNCHANGED db \/ TxChallenge
<1> DEFINE n == req[r].att
           q == RequireAction(row, n)
<1>1. r \in Callers /\ req[r].pc \in Saga /\ refunds' = refunds
  BY Roles DEF ApplyRequiresAction, Saga
<1>2. req[r].p = row /\ row.status = "created" /\ n \in Refs /\ n = Len(attempts) /\ RowOK(row)
  BY <1>1 DEF IInv, CallOK
<1>3. Persist(q, row.version, Marked(n, "requires_action", n),
              <<Event("payment.requires_action", row, "requires_action")>>)
  BY <1>2 DEF ApplyRequiresAction
<1>4. /\ q.status = "requires_action" /\ q.version = row.version + 1
      /\ q.captured = row.captured /\ q.refunded = row.refunded /\ q.pending = row.pending
      /\ q.provider = row.provider /\ q.ref = n
  BY <1>2, RequireActionRow
<1> HIDE DEF q, n
<1> QED
  BY <1>1, <1>2, <1>3, <1>4, PersistCases DEF TxChallenge, Logs, SameMoney, MarksLast, db

\* A failed authorization: left unknown, failed over or given up.
LEMMA ApplyFailedWrites ==
  ASSUME IInv, NEW r \in Creators, ApplyFailed(r)
  PROVE  \/ UNCHANGED db \/ TxUnknown
         \/ \E prov \in Providers, st \in {"declined", "unavailable"} : TxFailover(st, prov)
         \/ \E st \in {"declined", "unavailable"} : TxReject(st, 0)
<1> DEFINE c == req[r]
           st == AttemptStatus(c.out.cat)
           n == Len(attempts)
           ats == Marked(n, st, 0)
<1>1. r \in Callers /\ c.pc = "applying" /\ c.pc \in Saga /\ refunds' = refunds
  BY Roles DEF ApplyFailed, Saga
<1>2. /\ c.p = row /\ row.status = "created" /\ RowOK(row) /\ row \in RowType
      /\ c.idx \in Nat /\ c.att = n /\ attempts[n] \in AttemptType
  BY <1>1, ApproverHolds DEF IInv, CallOK, RowOK, ReqType
<1>3. st \in {"declined", "unavailable", "unknown"}
  BY DEF AttemptStatus
<1>4. PICK budget \in BOOLEAN :
        LET next == NextCandidate(attempts[n], c.idx, c.out.cat, budget)
            p    == [row EXCEPT !.provider = next[2]]
        IN  \/ st = "unknown" /\ Persist(row, row.version, ats, <<>>)
            \/ st # "unknown" /\ Persist(Fail(row), row.version, ats,
                                         <<Event("payment.failed", row, "failed")>>)
            \/ UNCHANGED <<row, attempts, events>>
            \/ /\ st # "unknown" /\ next[1] # 0
               /\ Persist(p, row.version, Append(ats, NewAttempt(next[2])), <<>>)
  BY <1>2 DEF ApplyFailed
<1>5. events \o <<>> = events
  BY DEF IInv, StoreOK
<1>6. CASE st = "unknown" /\ Persist(row, row.version, ats, <<>>)
  BY <1>1, <1>2, <1>5, <1>6, PersistCases DEF TxUnknown, MarksLast, db
<1>7. CASE /\ st # "unknown"
           /\ Persist(Fail(row), row.version, ats, <<Event("payment.failed", row, "failed")>>)
  <2> DEFINE q == Emit(row, "failed")
  <2>1. /\ q.status = "failed" /\ q.version = row.version + 1
        /\ q.captured = row.captured /\ q.refunded = row.refunded /\ q.pending = row.pending
        /\ q.provider = row.provider /\ q.ref = row.ref
    BY <1>2, CloseRow
  <2>2. Persist(q, row.version, ats, <<Event("payment.failed", row, "failed")>>)
    BY <1>7 DEF Fail
  <2> HIDE DEF q
  <2>3. UNCHANGED db \/ TxReject(st, 0)
    BY <1>1, <1>2, <2>1, <2>2, PersistCases
       DEF TxReject, Logs, SameMoney, SameRoute, MarksLast, db
  <2> QED
    BY <1>3, <1>7, <2>3
<1>8. CASE UNCHANGED <<row, attempts, events>>
  BY <1>1, <1>8 DEF db
<1>9. ASSUME NEW m, m = NextCandidate(attempts[n], c.idx, c.out.cat, budget), m[1] # 0,
             st # "unknown",
             Persist([row EXCEPT !.provider = m[2]], row.version,
                     Append(ats, NewAttempt(m[2])), <<>>)
      PROVE  UNCHANGED db \/ \E prov \in Providers : TxFailover(st, prov)
  <2>1. m[2] \in Providers
    BY <1>2, <1>9, NextCandidateTyped
  <2> DEFINE q == [row EXCEPT !.provider = m[2]]
  <2>2. /\ q.status = row.status /\ q.version = row.version
        /\ q.captured = row.captured /\ q.refunded = row.refunded /\ q.pending = row.pending
        /\ q.provider = m[2] /\ q.ref = row.ref
    BY <1>2 DEF RowType
  <2>3. Persist(q, row.version, Append(ats, NewAttempt(m[2])), <<>>)
    BY <1>9
  <2> HIDE DEF q
  <2>4. UNCHANGED db \/ TxFailover(st, m[2])
    BY <1>1, <1>2, <1>5, <2>2, <2>3, PersistCases DEF TxFailover, SameMoney, db
  <2> QED
    BY <2>1, <2>4
<1> QED
  BY <1>3, <1>4, <1>6, <1>7, <1>8, <1>9

\* Recording that the payer failed to authenticate.
LEMMA ConfirmFailedWrites ==
  ASSUME IInv, AttemptsOK, NEW r \in Confirmers, ConfirmFailed(r)
  PROVE  \/ UNCHANGED db
         \/ \E st \in {"declined", "unavailable", "unknown"}, ref \in Refs \cup {0} :
              TxReject(st, ref)
<1> DEFINE c == req[r]
           n == Len(attempts)
           st == AttemptStatus(c.out.cat)
           ref == attempts[c.att].ref
           q == Emit(row, "failed")
<1>1. /\ r \in Callers /\ c.pc = "applying" /\ refunds' = refunds
      /\ Persist(Fail(c.p), c.p.version, Marked(c.att, st, ref),
                 <<Event("payment.failed", c.p, "failed")>>)
  BY Roles DEF ConfirmFailed
<1>2. /\ c.p.status = "requires_action" /\ attempts[c.att] \in AttemptType /\ RowOK(row)
      /\ c.att = n
  BY <1>1, ApproverHolds DEF IInv, CallOK, Confirming, AttemptsOK
<1>3. st \in {"declined", "unavailable", "unknown"} /\ ref \in Refs \cup {0}
  BY <1>2 DEF AttemptStatus, AttemptType
<1>4. CASE c.p.version # row.version
  BY <1>1, <1>4 DEF Persist, CanPersist, db
<1>5. CASE c.p.version = row.version
  <2>1. c.p = row
    BY <1>1, <1>2, <1>5, CurrentCopy
  <2>2. Persist(q, row.version, Marked(n, st, ref), <<Event("payment.failed", row, "failed")>>)
    BY <1>1, <1>2, <2>1 DEF Fail
  <2>3. /\ q.status = "failed" /\ q.version = row.version + 1
        /\ q.captured = row.captured /\ q.refunded = row.refunded /\ q.pending = row.pending
        /\ q.provider = row.provider /\ q.ref = row.ref
    BY <1>2, <2>1, CloseRow
  <2> HIDE DEF q, st, ref
  <2>4. UNCHANGED db \/ TxReject(st, ref)
    BY <1>1, <1>2, <2>1, <2>2, <2>3, PersistCases
       DEF TxReject, Logs, SameMoney, SameRoute, MarksLast, db
  <2> QED
    BY <1>3, <2>4
<1> QED
  BY <1>4, <1>5

\* The approval transaction: authorized, or authorized and captured at once.
LEMMA ApplyApprovedWrites ==
  ASSUME IInv, AttemptsOK, NEW r \in Creators \cup Confirmers, ApplyApproved(r)
  PROVE  \/ UNCHANGED db
         \/ /\ req[r].p = row /\ Reference(req[r]) \in Refs
            /\ \/ TxApprove(Reference(req[r]))
               \/ /\ req[r].out.captured /\ CapturedAmount(req[r].out) \in 1 .. Amount
                  /\ TxApproveAndTake(Reference(req[r]), CapturedAmount(req[r].out))
<1> DEFINE c == req[r]
           n == Len(attempts)
           prov == attempts[n].provider
           ref == Reference(c)
           amt == CapturedAmount(c.out)
           a == Authorize(row, prov, ref)
           ats == Marked(n, "approved", ref)
           ea == Event("payment.authorized", row, "authorized")
           ec == Event("payment.captured", a, "captured")
<1>1. r \in Callers /\ c.pc = "approving" /\ refunds' = refunds
  BY Roles DEF ApplyApproved
<1>2. /\ c \in ReqType /\ prov \in Providers /\ ref \in Refs /\ RowOK(row)
      /\ c.p.status \in {"created", "requires_action"} /\ c.att = n
  <2>1. c.att = n
    BY <1>1 DEF IInv, CallOK, Saga, Confirming, AttemptsOK
  <2> QED
    BY <1>1, <2>1, ApproverHolds DEF IInv, AttemptType
<1>3. CASE UNCHANGED <<row, attempts, events>>
  BY <1>1, <1>3 DEF db
<1>4. CASE ~UNCHANGED <<row, attempts, events>>
  <2>1. c.p.version = row.version
    BY <1>4 DEF ApplyApproved, Persist, CanPersist
  <2>2. c.p = row
    BY <1>1, <1>2, <2>1, CurrentCopy
  <2>3. /\ RowOK(a) /\ a.status = "authorized" /\ a.version = row.version + 1
        /\ a.authorized = Amount /\ a.captured = row.captured
        /\ a.refunded = row.refunded /\ a.pending = row.pending
        /\ a.provider = prov /\ a.ref = ref
    BY <1>2, <2>2, AuthorizeRow
  <2>4. \/ Persist(a, row.version, ats, <<ea>>)
        \/ /\ CaptureOK(a, amt, FALSE) /\ c.out.captured
           /\ Persist(Capture(a, amt), row.version, ats, <<ea, ec>>)
    BY <1>2, <1>4, <2>2 DEF ApplyApproved
  <2>5. amt \in Nat /\ row.version \in Nat
    BY <1>2, Constants DEF CapturedAmount, ReqType, OutType, RowOK, RowType
  <2> HIDE DEF a, ats, amt, prov, ref
  <2>6. CASE Persist(a, row.version, ats, <<ea>>)
    <3>1. row' = a /\ attempts' = ats /\ events' = events \o <<ea>>
      BY <1>4, <2>6, PersistCases
    <3>2. TxApprove(ref)
      BY <1>1, <1>2, <2>2, <2>3, <3>1 DEF TxApprove, Logs, SameMoney, MarksLast, prov, ats
    <3> QED
      BY <1>2, <2>2, <3>2 DEF ref
  <2>7. CASE /\ CaptureOK(a, amt, FALSE) /\ c.out.captured
             /\ Persist(Capture(a, amt), row.version, ats, <<ea, ec>>)
    <3> DEFINE q == Capture(a, amt)
    <3>1. /\ q.status = "captured" /\ q.version = a.version + 1
          /\ q.captured = amt /\ q.refunded = a.refunded /\ q.pending = a.pending
          /\ q.provider = a.provider /\ q.ref = a.ref /\ amt \in 1 .. Amount
      BY <2>3, <2>5, <2>7, CaptureRow DEF CaptureOK
    <3>2. q.version = row.version + 2
      BY <2>3, <2>5, <3>1
    <3> HIDE DEF q
    <3>3. row' = q /\ attempts' = ats /\ events' = events \o <<ea, ec>>
      BY <1>4, <2>7, PersistCases DEF q
    <3>4. TxApproveAndTake(ref, amt)
      BY <1>1, <1>2, <2>2, <2>3, <3>1, <3>2, <3>3
         DEF TxApproveAndTake, MarksLast, prov, ats
    <3> QED
      BY <1>2, <2>2, <2>7, <3>1, <3>4 DEF ref, amt
  <2> QED
    BY <2>4, <2>6, <2>7
<1> QED
  BY <1>3, <1>4

\* CapturePayment's second transaction.
LEMMA CaptureTx2Writes ==
  ASSUME IInv, NEW r \in Capturers, CaptureTx2(r)
  PROVE  \/ UNCHANGED db
         \/ /\ req[r].amt \in 1 .. Amount /\ req[r].p.version = row.version
            /\ TxTake(req[r].amt)
<1> DEFINE c == req[r]
           q == Capture(row, c.amt)
<1>1. r \in Callers /\ c \in ReqType /\ refunds' = refunds /\ RowOK(row)
  BY Roles DEF CaptureTx2, IInv
<1>2. CASE UNCHANGED <<row, attempts, events>>
  BY <1>1, <1>2 DEF db
<1>3. CASE ~UNCHANGED <<row, attempts, events>>
  <2>1. /\ row.version = c.p.version /\ CaptureOK(row, c.amt, "auth" \in lapsed)
        /\ Persist(q, row.version, attempts, <<Event("payment.captured", row, "captured")>>)
    BY <1>3 DEF CaptureTx2
  <2>2. c.amt \in Nat /\ row.status = "authorized" /\ c.amt > 0 /\ c.amt <= row.authorized
    BY <1>1, <2>1 DEF CaptureOK, ReqType
  <2>3. /\ q.status = "captured" /\ q.version = row.version + 1
        /\ q.captured = c.amt /\ q.refunded = row.refunded /\ q.pending = row.pending
        /\ q.provider = row.provider /\ q.ref = row.ref /\ c.amt \in 1 .. Amount
    BY <1>1, <2>2, CaptureRow
  <2> HIDE DEF q
  <2>4. /\ row' = q /\ attempts' = attempts
        /\ events' = events \o <<Event("payment.captured", row, "captured")>>
    BY <1>3, <2>1, PersistCases
  <2> QED
    BY <1>1, <2>1, <2>2, <2>3, <2>4 DEF TxTake, Logs, SameRoute
<1> QED
  BY <1>2, <1>3

\* VoidPayment's second transaction.
LEMMA VoidTx2Writes ==
  ASSUME IInv, NEW r \in Voiders, VoidTx2(r)
  PROVE  UNCHANGED db \/ (req[r].p.version = row.version /\ TxVoid)
<1> DEFINE q == Emit(row, "voided")
<1>1. refunds' = refunds /\ RowOK(row)
  BY DEF VoidTx2, IInv
<1>2. CASE UNCHANGED <<row, attempts, events>>
  BY <1>1, <1>2 DEF db
<1>3. CASE ~UNCHANGED <<row, attempts, events>>
  <2>1. /\ row.version = req[r].p.version /\ VoidOK(row)
        /\ Persist(q, row.version, attempts, <<Event("payment.voided", row, "voided")>>)
    BY <1>3 DEF VoidTx2, Void
  <2>2. row.status \in {"requires_action", "authorized"}
    BY <2>1 DEF VoidOK, CanTransition, Transitions
  <2>3. /\ q.status = "voided" /\ q.version = row.version + 1
        /\ q.captured = row.captured /\ q.refunded = row.refunded /\ q.pending = row.pending
        /\ q.provider = row.provider /\ q.ref = row.ref
    BY <1>1, <2>2, CloseRow
  <2> HIDE DEF q
  <2>4. /\ row' = q /\ attempts' = attempts
        /\ events' = events \o <<Event("payment.voided", row, "voided")>>
    BY <1>3, <2>1, PersistCases
  <2> QED
    BY <1>1, <2>1, <2>2, <2>3, <2>4 DEF TxVoid, Logs, SameRoute, SameMoney
<1> QED
  BY <1>2, <1>3

\* CreateRefund's first transaction: a refund is reserved and its call sent, or
\* the call returns.
LEMMA RefundTx1Writes ==
  ASSUME IInv, NEW r \in Refunders, RefundTx1(r)
  PROVE  \/ UNCHANGED <<db, net>> /\ End(r)
         \/ \E amt \in 1 .. Amount :
              /\ TxReserve(RefundKey[r], amt)
              /\ net' = net \cup {Message("refund", r, row.provider, row.ref, amt, FALSE)}
              /\ req' = [req EXCEPT ![r].pc = "refunding", ![r].amt = amt]
<1> DEFINE k == RefundKey[r]
<1>1. RowOK(row) /\ row.version = row.version
  BY DEF IInv
<1>2. PICK amt \in 0 .. Amount :
        \/ UNCHANGED <<db, net>> /\ End(r)
        \/ /\ ReserveRefundOK(row, amt) /\ refunds[k].status = "none"
           /\ CanPersist(ReserveRefund(row, amt), row.version)
           /\ Persist(ReserveRefund(row, amt), row.version, attempts,
                      <<Event("refund.created", row, row.status)>>)
           /\ refunds' = [refunds EXCEPT ![k] = [status |-> "pending", amount |-> amt]]
           /\ net' = net \cup {Message("refund", r, row.provider, row.ref, amt, FALSE)}
           /\ req' = [req EXCEPT ![r].pc = "refunding", ![r].amt = amt]
  BY DEF RefundTx1
<1>3. CASE UNCHANGED <<db, net>> /\ End(r)
  BY <1>3
<1>4. CASE /\ ReserveRefundOK(row, amt) /\ refunds[k].status = "none"
           /\ CanPersist(ReserveRefund(row, amt), row.version)
           /\ Persist(ReserveRefund(row, amt), row.version, attempts,
                      <<Event("refund.created", row, row.status)>>)
           /\ refunds' = [refunds EXCEPT ![k] = [status |-> "pending", amount |-> amt]]
           /\ net' = net \cup {Message("refund", r, row.provider, row.ref, amt, FALSE)}
           /\ req' = [req EXCEPT ![r].pc = "refunding", ![r].amt = amt]
  <2> DEFINE q == ReserveRefund(row, amt)
  <2>1. amt \in Nat
    BY Constants
  <2>2. /\ q.status = row.status /\ q.version = row.version + 1
        /\ q.captured = row.captured /\ q.refunded = row.refunded
        /\ q.pending = row.pending + amt /\ amt \in 1 .. Amount
        /\ q.provider = row.provider /\ q.ref = row.ref
        /\ row.status \in {"captured", "partially_refunded"}
    BY <1>1, <1>4, <2>1, ReserveRow
  <2>3. /\ row' = q /\ attempts' = attempts
        /\ events' = events \o <<Event("refund.created", row, row.status)>>
    BY <1>4 DEF Persist
  <2> HIDE DEF q
  <2>4. TxReserve(k, amt)
    BY <1>4, <2>2, <2>3 DEF TxReserve, Logs, SameRoute
  <2> QED
    BY <1>4, <2>2, <2>4
<1> QED
  BY <1>2, <1>3, <1>4

\* CreateRefund's second transaction.
LEMMA RefundTx2Writes ==
  ASSUME IInv, NEW r \in Refunders, RefundTx2(r)
  PROVE  /\ req[r].amt \in 1 .. Amount
         /\ \/ UNCHANGED db
            \/ Succeeded(req[r].out) /\ TxGiveBack(RefundKey[r], req[r].amt)
            \/ TxRelease(RefundKey[r], req[r].amt)
<1> DEFINE c == req[r]
           k == RefundKey[r]
<1>1. r \in Callers /\ c.amt \in 1 .. Amount /\ RowOK(row)
  BY Roles DEF RefundTx2, IInv, CallOK
<1>2. \/ UNCHANGED db
      \/ /\ Succeeded(c.out) /\ MarkRefundedOK(row, c.amt)
         /\ CanPersist(MarkRefunded(row, c.amt), row.version)
         /\ Persist(MarkRefunded(row, c.amt), row.version, attempts,
                    <<Event("refund.succeeded", row, MarkRefunded(row, c.amt).status)>>)
         /\ refunds' = [refunds EXCEPT ![k].status = "succeeded"]
      \/ /\ ~Succeeded(c.out) /\ ReleaseRefundOK(row, c.amt)
         /\ CanPersist(ReleaseRefund(row, c.amt), row.version)
         /\ Persist(ReleaseRefund(row, c.amt), row.version, attempts,
                    <<Event("refund.failed", row, ReleaseRefund(row, c.amt).status)>>)
         /\ refunds' = [refunds EXCEPT ![k].status = "failed"]
  BY DEF RefundTx2
<1>3. CASE /\ Succeeded(c.out) /\ MarkRefundedOK(row, c.amt)
           /\ CanPersist(MarkRefunded(row, c.amt), row.version)
           /\ Persist(MarkRefunded(row, c.amt), row.version, attempts,
                      <<Event("refund.succeeded", row, MarkRefunded(row, c.amt).status)>>)
           /\ refunds' = [refunds EXCEPT ![k].status = "succeeded"]
  <2> DEFINE q == MarkRefunded(row, c.amt)
  <2>1. /\ q.status = RefundedStatus(row, c.amt) /\ q.version = row.version + 1
        /\ q.captured = row.captured /\ q.refunded = row.refunded + c.amt
        /\ q.pending = row.pending - c.amt
        /\ q.provider = row.provider /\ q.ref = row.ref
        /\ row.status \in {"captured", "partially_refunded"}
    BY <1>1, <1>3, MarkRefundedRow
  <2>2. /\ row' = q /\ attempts' = attempts
        /\ events' = events \o <<Event("refund.succeeded", row, q.status)>>
    BY <1>3 DEF Persist
  <2> HIDE DEF q
  <2>3. TxGiveBack(k, c.amt)
    BY <1>3, <2>1, <2>2 DEF TxGiveBack, Logs, SameRoute
  <2> QED
    BY <1>1, <1>3, <2>3
<1>4. CASE /\ ~Succeeded(c.out) /\ ReleaseRefundOK(row, c.amt)
           /\ CanPersist(ReleaseRefund(row, c.amt), row.version)
           /\ Persist(ReleaseRefund(row, c.amt), row.version, attempts,
                      <<Event("refund.failed", row, ReleaseRefund(row, c.amt).status)>>)
           /\ refunds' = [refunds EXCEPT ![k].status = "failed"]
  <2> DEFINE q == ReleaseRefund(row, c.amt)
  <2>1. /\ q.status = row.status /\ q.version = row.version + 1
        /\ q.captured = row.captured /\ q.refunded = row.refunded
        /\ q.pending = row.pending - c.amt
        /\ q.provider = row.provider /\ q.ref = row.ref /\ row.status \in Taken
    BY <1>1, <1>4, ReleaseRow DEF ReleaseRefundOK, Taken
  <2>2. /\ row' = q /\ attempts' = attempts
        /\ events' = events \o <<Event("refund.failed", row, q.status)>>
    BY <1>4 DEF Persist
  <2> HIDE DEF q
  <2>3. TxRelease(k, c.amt)
    BY <1>4, <2>1, <2>2 DEF TxRelease, Logs, SameRoute
  <2> QED
    BY <1>1, <2>3
<1> QED
  BY <1>1, <1>2, <1>3, <1>4

\* Every step of a call is one of the transactions, or none.
LEMMA StepWrites ==
  ASSUME IInv, AttemptsOK, NEW r \in Callers, Step(r)
  PROVE  RowTx \/ (r \in Refunders /\ (RefundTx1(r) \/ RefundTx2(r)))
<1>1. CASE r \in Creators /\ CreateStep(r)
  <2>1. CASE CreateTx1(r)
    BY <1>1, <2>1, CreateTx1Writes, Constants DEF RowTx
  <2>2. CASE ApplyRequiresAction(r)
    BY <1>1, <2>2, ApplyRequiresActionWrites DEF RowTx
  <2>3. CASE ApplyFailed(r)
    BY <1>1, <2>3, ApplyFailedWrites DEF RowTx
  <2>4. CASE CreateLookup(r) \/ AuthorizeReturns(r) \/ ResolveUnknown(r)
    BY <2>4 DEF CreateLookup, AuthorizeReturns, ResolveUnknown, RowTx
  <2> QED
    BY <1>1, <2>1, <2>2, <2>3, <2>4 DEF CreateStep
<1>2. CASE r \in Confirmers /\ ConfirmStep(r)
  <2>1. CASE ConfirmFailed(r)
    BY <1>2, <2>1, ConfirmFailedWrites DEF RowTx
  <2>2. CASE ConfirmLoad(r) \/ ConfirmQuery(r)
    BY <2>2 DEF ConfirmLoad, ConfirmQuery, RowTx
  <2> QED
    BY <1>2, <2>1, <2>2 DEF ConfirmStep
<1>3. CASE r \in Creators \cup Confirmers /\ ApproveStep(r)
  <2>1. CASE ApplyApproved(r)
    BY <1>3, <2>1, ApplyApprovedWrites DEF RowTx
  <2>2. CASE ApprovedNeedsCapture(r) \/ CaptureNowReturns(r) \/ ApprovedAsIs(r)
    BY <2>2 DEF ApprovedNeedsCapture, CaptureNowReturns, ApprovedAsIs, RowTx
  <2> QED
    BY <1>3, <2>1, <2>2 DEF ApproveStep
<1>4. CASE r \in Capturers /\ CaptureStep(r)
  <2>1. CASE CaptureTx2(r)
    BY <1>4, <2>1, CaptureTx2Writes DEF RowTx
  <2>2. CASE CaptureLoad(r) \/ CaptureReturns(r)
    BY <2>2 DEF CaptureLoad, CaptureReturns, RowTx
  <2> QED
    BY <1>4, <2>1, <2>2 DEF CaptureStep
<1>5. CASE r \in Voiders /\ VoidStep(r)
  <2>1. CASE VoidTx2(r)
    BY <1>5, <2>1, VoidTx2Writes DEF RowTx
  <2>2. CASE VoidLoad(r) \/ VoidReturns(r)
    BY <2>2 DEF VoidLoad, VoidReturns, RowTx
  <2> QED
    BY <1>5, <2>1, <2>2 DEF VoidStep
<1>6. CASE r \in Refunders /\ RefundStep(r)
  <2>1. CASE RefundLookup(r) \/ RefundReturns(r)
    BY <2>1 DEF RefundLookup, RefundReturns, RowTx
  <2> QED
    BY <1>6, <2>1 DEF RefundStep
<1> QED
  BY <1>1, <1>2, <1>3, <1>4, <1>5, <1>6 DEF Step

\* Nothing but a call writes to the database.
LEMMA NextWrites ==
  ASSUME IInv, AttemptsOK, [Next]_vars
  PROVE  /\ DbStep
         /\ RowTx \/ \E r \in Refunders : RefundTx1(r) \/ RefundTx2(r)
<1> SUFFICES RowTx \/ \E r \in Refunders : RefundTx1(r) \/ RefundTx2(r)
  <2>1. ASSUME NEW r \in Refunders, RefundTx1(r) PROVE DbStep
    BY <2>1, RefundTx1Writes DEF DbStep, RowTx
  <2>2. ASSUME NEW r \in Refunders, RefundTx2(r) PROVE DbStep
    BY <2>2, RefundTx2Writes DEF DbStep, RowTx
  <2> QED
    BY <2>1, <2>2 DEF DbStep
<1>1. CASE \E r \in Callers : Step(r)
  BY <1>1, StepWrites
<1>2. CASE \E r \in Callers : Crash(r) \/ ClientCancel(r)
  BY <1>2 DEF Crash, ClientCancel, RowTx
<1>3. CASE Psp
  <2>1. CASE \E m \in net : PspAuthorize(m) \/ PspCapture(m) \/ PspVoid(m) \/ PspRefund(m)
    BY <2>1 DEF PspAuthorize, PspCapture, PspVoid, PspRefund, RowTx
  <2>2. CASE \E n \in Refs : PspAction(n)
    BY <2>2 DEF PspAction, RowTx
  <2>3. CASE \/ \E m \in net : PspRead(m) \/ PspStatus(m)
             \/ \E r \in Confirmers : QueryRead(r)
    BY <2>3 DEF PspRead, PspStatus, QueryRead, RowTx
  <2> QED
    BY <1>3, <2>1, <2>2, <2>3 DEF Psp
<1>4. CASE Lapse \/ UNCHANGED vars
  BY <1>4 DEF Lapse, vars, db, RowTx
<1> QED
  BY <1>1, <1>2, <1>3, <1>4 DEF Next

-----------------------------------------------------------------------------
(* The log                                                                 *)

\* LogMatchesRow of any log, version and status.
Story(log, version, status) ==
  /\ Len(log) = version
  /\ \A i \in 1 .. Len(log) :
       /\ log[i].seq = i
       /\ log[i].from = IF i = 1 THEN "none" ELSE log[i - 1].to
       /\ \/ i = 1 /\ log[i].to = "created"
          \/ CanTransition(log[i].from, log[i].to)
          \/ log[i].from = log[i].to /\ log[i].type \in {"refund.created", "refund.failed"}
  /\ version > 0 => log[version].to = status

\* One more event, from where the log ended, continues it.
LEMMA StoryGoesOn ==
  ASSUME NEW log \in Seq(EventType), NEW v \in Nat, NEW st, Story(log, v, st),
         NEW e \in EventType, e.seq = v + 1,
         IF v = 0 THEN e.from = "none" /\ e.to = "created"
         ELSE /\ e.from = st
              /\ \/ CanTransition(e.from, e.to)
                 \/ e.from = e.to /\ e.type \in {"refund.created", "refund.failed"}
  PROVE  Append(log, e) \in Seq(EventType) /\ Story(Append(log, e), v + 1, e.to)
<1>1. PICK l : l = Append(log, e)
  OBVIOUS
<1>2. /\ l \in Seq(EventType) /\ Len(l) = v + 1 /\ l[v + 1] = e
      /\ \A i \in 1 .. v : l[i] = log[i]
  BY <1>1 DEF Story
<1>3. ASSUME NEW i \in 1 .. v
      PROVE  /\ l[i].seq = i
             /\ l[i].from = IF i = 1 THEN "none" ELSE l[i - 1].to
             /\ \/ i = 1 /\ l[i].to = "created"
                \/ CanTransition(l[i].from, l[i].to)
                \/ l[i].from = l[i].to /\ l[i].type \in {"refund.created", "refund.failed"}
  <2>1. i # 1 => i - 1 \in 1 .. v
    OBVIOUS
  <2> QED
    BY <1>2, <2>1 DEF Story
<1>4. /\ l[v + 1].from = IF v + 1 = 1 THEN "none" ELSE l[v + 1 - 1].to
      /\ \/ v + 1 = 1 /\ l[v + 1].to = "created"
         \/ CanTransition(l[v + 1].from, l[v + 1].to)
         \/ /\ l[v + 1].from = l[v + 1].to
            /\ l[v + 1].type \in {"refund.created", "refund.failed"}
  <2>1. CASE v = 0
    BY <1>2, <2>1
  <2>2. CASE v # 0
    <3>1. v \in 1 .. v /\ v + 1 - 1 = v /\ v + 1 # 1 /\ l[v].to = st
      BY <1>2, <2>2 DEF Story
    <3> QED
      BY <1>2, <2>2, <3>1
  <2> QED
    BY <2>1, <2>2
<1>5. \A i \in 1 .. v + 1 : i \in 1 .. v \/ i = v + 1
  OBVIOUS
<1>6. Story(l, v + 1, e.to)
  BY <1>2, <1>3, <1>4, <1>5 DEF Story
<1> QED
  BY <1>1, <1>2, <1>6

\* A command of the aggregate continues the log with its event.
LEMMA Logged ==
  ASSUME IInv, LogMatchesRow, NEW type \in EventName, NEW to \in Status, Logs(type, to),
         row.status # "none",
         \/ CanTransition(row.status, to)
         \/ to = row.status /\ type \in {"refund.created", "refund.failed"}
  PROVE  LogMatchesRow'
<1> DEFINE e == Event(type, row, to)
<1>1. /\ events \in Seq(EventType) /\ row \in RowType /\ row.version \in Nat
      /\ row.version >= 1
  BY DEF IInv, StoreOK, RowOK, RowType
<1>2. e \in EventType
  BY <1>1, EventTyped
<1>3. e.seq = row.version + 1 /\ e.from = row.status /\ e.to = to /\ e.type = type
  BY DEF Event
<1> HIDE DEF e
<1>4. Story(events, row.version, row.status)
  BY DEF LogMatchesRow, Story
<1>5. Story(Append(events, e), row.version + 1, to)
  BY <1>1, <1>2, <1>3, <1>4, StoryGoesOn
<1>6. events' = Append(events, e)
  BY <1>1, <1>2 DEF Logs, e
<1>7. row'.version = row.version + 1 /\ row'.status = to
  BY DEF Logs
<1>8. Story(events', row'.version, row'.status)
  BY <1>5, <1>6, <1>7, Zenon
<1> QED
  BY <1>8 DEF LogMatchesRow, Story

\* Every transaction continues the log, by as many events as versions.
LEMMA LogStep ==
  ASSUME IInv, LogMatchesRow, DbStep
  PROVE  LogMatchesRow'
<1> USE DEF EventName, Status, CanTransition, Transitions
<1>1. CASE UNCHANGED db
  BY <1>1 DEF db, LogMatchesRow
<1>2. ASSUME NEW prov, TxInsert(prov) PROVE LogMatchesRow'
  <2>1. PICK e : e = Event("payment.created", NoRow, "created")
    OBVIOUS
  <2>2. e.seq = 1 /\ e.from = "none" /\ e.to = "created"
    BY <2>1 DEF Event, NoRow
  <2>3. events' = <<e>> /\ row'.version = 1 /\ row'.status = "created"
    BY <1>2, <2>1 DEF TxInsert
  <2>4. Len(<<e>>) = 1 /\ <<e>>[1] = e
    OBVIOUS
  <2> QED
    BY <2>2, <2>3, <2>4 DEF LogMatchesRow
<1>3. CASE TxChallenge
  BY <1>3, Logged DEF TxChallenge
<1>4. CASE TxUnknown
  BY <1>4 DEF TxUnknown, LogMatchesRow
<1>5. CASE TxVoid
  BY <1>5, Logged DEF TxVoid
<1>6. ASSUME NEW st, NEW prov, TxFailover(st, prov) PROVE LogMatchesRow'
  BY <1>6 DEF TxFailover, LogMatchesRow
<1>7. ASSUME NEW st, NEW ref, TxReject(st, ref) PROVE LogMatchesRow'
  BY <1>7, Logged DEF TxReject
<1>8. ASSUME NEW ref, TxApprove(ref) PROVE LogMatchesRow'
  BY <1>8, Logged DEF TxApprove
<1>9. ASSUME NEW ref, NEW amt, TxApproveAndTake(ref, amt) PROVE LogMatchesRow'
  <2>1. PICK a : /\ a.status = "authorized" /\ a.version = row.version + 1
                 /\ events' = events \o <<Event("payment.authorized", row, "authorized"),
                                          Event("payment.captured", a, "captured")>>
    BY <1>9 DEF TxApproveAndTake
  <2>2. /\ events \in Seq(EventType) /\ row \in RowType /\ row.version \in Nat
        /\ row.version >= 1 /\ row.status \in {"created", "requires_action"}
    BY <1>9 DEF IInv, StoreOK, RowOK, RowType, TxApproveAndTake
  <2>3. PICK e : e = Event("payment.authorized", row, "authorized")
    OBVIOUS
  <2>4. PICK f : f = Event("payment.captured", a, "captured")
    OBVIOUS
  <2>5. /\ e \in EventType /\ e.seq = row.version + 1 /\ e.from = row.status
        /\ e.to = "authorized"
    BY <2>2, <2>3 DEF Event, EventType
  <2>6. f \in EventType /\ f.seq = row.version + 1 + 1 /\ f.from = "authorized" /\ f.to = "captured"
    BY <2>1, <2>2, <2>4 DEF Event, EventType
  <2>7. Story(events, row.version, row.status)
    BY DEF LogMatchesRow, Story
  <2>8. PICK l : l = Append(events, e)
    OBVIOUS
  <2>9. l \in Seq(EventType) /\ Story(l, row.version + 1, "authorized")
    BY <2>2, <2>5, <2>7, <2>8, StoryGoesOn
  <2>10. Story(Append(l, f), row.version + 1 + 1, "captured")
    BY <2>2, <2>6, <2>9, StoryGoesOn
  <2>11. events' = Append(l, f)
    BY <2>1, <2>2, <2>3, <2>4, <2>5, <2>6, <2>8
  <2>12. row'.version = row.version + 1 + 1 /\ row'.status = "captured"
    BY <1>9, <2>2 DEF TxApproveAndTake
  <2> QED
    BY <2>10, <2>11, <2>12 DEF LogMatchesRow, Story
<1>10. ASSUME NEW amt, TxTake(amt) PROVE LogMatchesRow'
  BY <1>10, Logged DEF TxTake
<1>11. ASSUME NEW k, NEW amt, TxReserve(k, amt) PROVE LogMatchesRow'
  BY <1>11, Logged DEF TxReserve
<1>12. ASSUME NEW k, NEW amt, TxGiveBack(k, amt) PROVE LogMatchesRow'
  BY <1>12, Logged DEF TxGiveBack, RefundedStatus
<1>13. ASSUME NEW k, NEW amt, TxRelease(k, amt) PROVE LogMatchesRow'
  BY <1>13, Logged DEF TxRelease, Taken
<1> QED
  BY <1>1, <1>2, <1>3, <1>4, <1>5, <1>6, <1>7, <1>8, <1>9, <1>10, <1>11, <1>12, <1>13
     DEF DbStep, RowTx

-----------------------------------------------------------------------------
(* The attempts                                                            *)

\* Marking the last attempt leaves the others as they were.
LEMMA MarkedLast ==
  ASSUME attempts \in Seq(AttemptType), Len(attempts) > 0, NEW st \in AttemptStatuses,
         NEW ref \in Refs \cup {0}, NEW ats, ats = Marked(Len(attempts), st, ref)
  PROVE  /\ ats \in Seq(AttemptType) /\ Len(ats) = Len(attempts)
         /\ ats[Len(attempts)].status = st /\ ats[Len(attempts)].ref = ref
         /\ ats[Len(attempts)].provider = attempts[Len(attempts)].provider
         /\ \A i \in 1 .. Len(attempts) : i # Len(attempts) => ats[i] = attempts[i]
<1>1. ats \in Seq(AttemptType) /\ Len(ats) = Len(attempts)
  BY MarkedTyped
<1>2. Len(attempts) \in 1 .. Len(attempts)
  OBVIOUS
<1>3. ats[Len(attempts)] = [provider |-> attempts[Len(attempts)].provider,
                            status |-> st, ref |-> ref]
  BY <1>2 DEF Marked
<1>4. \A i \in 1 .. Len(attempts) : i # Len(attempts) => ats[i] = attempts[i]
  BY DEF Marked
<1> QED
  BY <1>1, <1>3, <1>4

\* A confirming call keeps its attempt, or has just chosen an open one.
ConfirmersHold ==
  \A s \in Confirmers : req'[s].pc \in Confirming =>
    \/ req[s].pc \in Confirming /\ req'[s].att = req[s].att
    \/ req'[s].att \in OpenAttempts /\ UNCHANGED db

\* A step that moves one call, with its attempt, keeps ConfirmersHold.
LEMMA OneMoves ==
  ASSUME IInv, NEW r, NEW c, req' = [req EXCEPT ![r] = c],
         (r \in Confirmers /\ c.pc \in Confirming) =>
           \/ req[r].pc \in Confirming /\ c.att = req[r].att
           \/ c.att \in OpenAttempts /\ UNCHANGED db
  PROVE  ConfirmersHold
<1>1. \A s \in Confirmers : req'[s] = IF s = r THEN c ELSE req[s]
  BY Roles DEF IInv
<1> QED
  BY <1>1 DEF ConfirmersHold

\* No step gives a confirming call another attempt.
LEMMA NextHolds ==
  ASSUME IInv, [Next]_vars
  PROVE  ConfirmersHold
<1>1. ASSUME NEW r \in Callers, End(r) PROVE ConfirmersHold
  BY <1>1, OneMoves, Constructors DEF End, Confirming
<1>2. ASSUME NEW r \in Callers, r \notin Confirmers, NEW c, req' = [req EXCEPT ![r] = c]
      PROVE  ConfirmersHold
  BY <1>2, OneMoves
<1>3. ASSUME NEW r \in Callers, Step(r) PROVE ConfirmersHold
  <2>1. req[r] \in ReqType
    BY DEF IInv
  <2>2. CASE r \in Creators /\ CreateStep(r)
    <3>1. \E c : req' = [req EXCEPT ![r] = c]
      BY <2>2 DEF CreateStep, CreateLookup, CreateTx1, AuthorizeReturns, ResolveUnknown,
                  ApplyRequiresAction, ApplyFailed, End, Goto
    <3> QED
      BY <1>2, <2>2, <3>1, Roles
  <2>3. CASE r \in Confirmers /\ ConfirmStep(r)
    <3>1. CASE ConfirmLoad(r)
      <4>1. CASE End(r)
        BY <1>1, <4>1
      <4>2. CASE \E i \in OpenAttempts :
              req' = [req EXCEPT ![r].pc = "confirming", ![r].p = row,
                                 ![r].att = i, ![r].late = "action" \in lapsed]
        <5>1. PICK i \in OpenAttempts :
              req' = [req EXCEPT ![r].pc = "confirming", ![r].p = row,
                                 ![r].att = i, ![r].late = "action" \in lapsed]
          BY <4>2
        <5>2. PICK c : c = [req[r] EXCEPT !.pc = "confirming", !.p = row,
                                 !.att = i, !.late = "action" \in lapsed]
          OBVIOUS
        <5>3. c.att = i /\ req' = [req EXCEPT ![r] = c] /\ UNCHANGED db
          BY <2>1, <3>1, <5>1, <5>2 DEF ReqType, ConfirmLoad
        <5> QED
          BY <5>3, OneMoves
      <4> QED
        BY <3>1, <4>1, <4>2 DEF ConfirmLoad
    <3>2. CASE ConfirmQuery(r)
      <4>1. CASE End(r)
        BY <1>1, <4>1
      <4>2. ASSUME NEW out, req' = [req EXCEPT ![r].out = out, ![r].pc = "applying"]
            PROVE  ConfirmersHold
        <5>1. PICK c : c = [req[r] EXCEPT !.out = out, !.pc = "applying"]
          OBVIOUS
        <5>2. c.att = req[r].att /\ req' = [req EXCEPT ![r] = c] /\ req[r].pc = "confirming"
          BY <2>1, <3>2, <4>2, <5>1 DEF ReqType, ConfirmQuery
        <5> QED
          BY <5>2, OneMoves DEF Confirming
      <4> QED
        BY <3>2, <4>1, <4>2 DEF ConfirmQuery
    <3>3. CASE ConfirmFailed(r)
      BY <1>1, <3>3 DEF ConfirmFailed
    <3> QED
      BY <2>3, <3>1, <3>2, <3>3 DEF ConfirmStep
  <2>4. CASE r \in Creators \cup Confirmers /\ ApproveStep(r)
    <3>1. CASE End(r)
      BY <1>1, <3>1
    <3>2. ASSUME NEW c, c.att = req[r].att, req' = [req EXCEPT ![r] = c],
                 req[r].pc \in {"applying", "capturing"}
          PROVE  ConfirmersHold
      BY <3>2, OneMoves DEF Confirming
    <3>3. CASE ApprovedNeedsCapture(r) /\ ~End(r)
      <4>1. PICK c : c = [req[r] EXCEPT !.pc = "capturing", !.amt = Amount, !.out = NoOut]
        OBVIOUS
      <4>2. c.att = req[r].att
        BY <2>1, <4>1 DEF ReqType
      <4> QED
        BY <3>2, <3>3, <4>1, <4>2 DEF ApprovedNeedsCapture
    <3>4. CASE CaptureNowReturns(r)
      <4>1. PICK out : req' = [req EXCEPT ![r].pc = "approving", ![r].out = out]
        BY <3>4 DEF CaptureNowReturns
      <4>2. PICK c : c = [req[r] EXCEPT !.pc = "approving", !.out = out]
        OBVIOUS
      <4>3. c.att = req[r].att /\ req' = [req EXCEPT ![r] = c]
        BY <2>1, <4>1, <4>2 DEF ReqType
      <4> QED
        BY <3>2, <3>4, <4>3 DEF CaptureNowReturns
    <3>5. CASE ApprovedAsIs(r) /\ ~End(r)
      <4>1. PICK c : c = [req[r] EXCEPT !.pc = "approving"]
        OBVIOUS
      <4>2. c.att = req[r].att
        BY <2>1, <4>1 DEF ReqType
      <4> QED
        BY <3>2, <3>5, <4>1, <4>2 DEF ApprovedAsIs, Goto
    <3> QED
      BY <2>4, <3>1, <3>3, <3>4, <3>5 DEF ApproveStep, ApplyApproved
  <2>5. CASE r \in Capturers /\ CaptureStep(r)
    <3>1. \E c : req' = [req EXCEPT ![r] = c]
      BY <2>5 DEF CaptureStep, CaptureLoad, CaptureReturns, CaptureTx2, End
    <3> QED
      BY <1>2, <2>5, <3>1, Roles
  <2>6. CASE r \in Voiders /\ VoidStep(r)
    <3>1. \E c : req' = [req EXCEPT ![r] = c]
      BY <2>6 DEF VoidStep, VoidLoad, VoidReturns, VoidTx2, End, Goto
    <3> QED
      BY <1>2, <2>6, <3>1, Roles
  <2>7. CASE r \in Refunders /\ RefundStep(r)
    <3>1. \E c : req' = [req EXCEPT ![r] = c]
      BY <2>7 DEF RefundStep, RefundLookup, RefundTx1, RefundReturns, RefundTx2, End, Goto
    <3> QED
      BY <1>2, <2>7, <3>1, Roles
  <2> QED
    BY <1>3, <2>2, <2>3, <2>4, <2>5, <2>6, <2>7 DEF Step
<1>4. CASE \E r \in Callers : Crash(r)
  BY <1>1, <1>4 DEF Crash
<1>5. ASSUME NEW r \in Callers, ClientCancel(r) PROVE ConfirmersHold
  <2>1. PICK out : req' = [req EXCEPT ![r] =
             [Done EXCEPT !.pc = "cancelled", !.att = req[r].att, !.out = out]]
    BY <1>5 DEF ClientCancel
  <2>2. PICK c : c = [Done EXCEPT !.pc = "cancelled", !.att = req[r].att, !.out = out]
    OBVIOUS
  <2>3. c.pc = "cancelled"
    BY <2>2, Constructors DEF ReqType
  <2> QED
    BY <2>1, <2>2, <2>3, OneMoves DEF Confirming
<1>6. ASSUME NEW m \in net, NEW out, Answer(m, out) PROVE ConfirmersHold
  <2>1. CASE req' = req
    BY <2>1 DEF ConfirmersHold
  <2>2. CASE req' = [req EXCEPT ![m.by].out = out]
    <3>1. PICK c : c = [req[m.by] EXCEPT !.out = out]
      OBVIOUS
    <3>2. m.by \in Callers /\ req[m.by] \in ReqType
      BY DEF IInv, StoreOK, MessageType
    <3>3. c.att = req[m.by].att /\ c.pc = req[m.by].pc /\ req' = [req EXCEPT ![m.by] = c]
      BY <2>2, <3>1, <3>2 DEF ReqType
    <3> QED
      BY <3>3, OneMoves
  <2> QED
    BY <1>6, <2>1, <2>2 DEF Answer
<1>7. CASE Psp
  <2>1. CASE \E m \in net : PspAuthorize(m) \/ PspCapture(m) \/ PspVoid(m) \/ PspRefund(m)
    BY <1>6, <2>1 DEF PspAuthorize, PspCapture, PspVoid, PspRefund
  <2>2. CASE \E n \in Refs : PspAction(n)
    BY <2>2 DEF PspAction, ConfirmersHold
  <2>3. CASE \/ \E m \in net : PspRead(m) \/ PspStatus(m)
             \/ \E r \in Confirmers : QueryRead(r)
    BY <2>3 DEF PspRead, PspStatus, QueryRead, ConfirmersHold
  <2> QED
    BY <1>7, <2>1, <2>2, <2>3 DEF Psp
<1>8. CASE Lapse \/ UNCHANGED vars
  BY <1>8 DEF Lapse, vars, ConfirmersHold
<1> QED
  BY <1>3, <1>4, <1>5, <1>7, <1>8 DEF Next

\* Closing an attempt: every status an attempt ends with but approved.
Ended == {"declined", "unavailable", "unknown"}

\* Every transaction keeps the attempts in order.
LEMMA AttemptsStep ==
  ASSUME IInv, AttemptsOK, DbStep, ConfirmersHold
  PROVE  AttemptsOK'
<1> DEFINE n == Len(attempts)
<1>1. attempts \in Seq(AttemptType) /\ n \in Nat /\ (n > 0 => n \in 1 .. n)
  BY DEF IInv, StoreOK
<1>2. OpenAttempts \subseteq {n}
  BY DEF OpenAttempts, AttemptsOK
\* A call can confirm only after the saga has ended, so nobody confirms while
\* attempts are added.
<1>3. row.status \in {"none", "created"} =>
        \A s \in Confirmers : req[s].pc \notin Confirming
  <2> SUFFICES ASSUME row.status \in {"none", "created"}, NEW s \in Confirmers,
                      req[s].pc \in Confirming
               PROVE  FALSE
    OBVIOUS
  <2>1. /\ CallOK(s, req[s]) /\ req[s].p.status = "requires_action"
        /\ req[s].p.version \in 1 .. row.version /\ row.version \in Nat
    BY Roles DEF IInv, CallOK, RowOK, RowType
  <2>2. row.version <= 1
    BY DEF AttemptsOK, IInv, RowOK, NoRow
  <2>3. req[s].p.version = row.version
    BY <2>1, <2>2
  <2> QED
    BY <2>1, <2>3 DEF CallOK, NoRow, IInv, RowOK
\* The confirming calls follow the last attempt.
<1> DEFINE Follow == \A s \in Confirmers : req'[s].pc \in Confirming => req'[s].att = Len(attempts')
<1>4. /\ Len(attempts') = n => Follow
      /\ row.status \in {"none", "created"} /\ attempts' # attempts => Follow
  BY <1>2, <1>3 DEF ConfirmersHold, AttemptsOK, db
\* An attempt closed or approved in place.
<1>5. ASSUME NEW st \in AttemptStatuses, NEW ref \in Refs \cup {0},
             row.status \in {"created", "requires_action"}, MarksLast(st, ref)
      PROVE  /\ n > 0 /\ attempts' \in Seq(AttemptType) /\ Len(attempts') = n
             /\ attempts'[n].status = st /\ attempts'[n].ref = ref
             /\ attempts'[n].provider = attempts[n].provider
             /\ \A i \in 1 .. n : i # n => attempts'[i] = attempts[i]
             /\ \A i \in 1 .. n : i # n => ~IsOpen(attempts[i]) /\ attempts[i].status # "approved"
  <2>1. n > 0 /\ \A i \in 1 .. n : i # n => ~IsOpen(attempts[i]) /\ attempts[i].status # "approved"
    BY <1>5 DEF AttemptsOK
  <2> QED
    BY <1>1, <1>5, <2>1, MarkedLast DEF MarksLast
<1>6. CASE UNCHANGED db
  <2>1. Follow
    BY <1>4, <1>6 DEF db
  <2> QED
    BY <1>6, <2>1 DEF db, AttemptsOK
<1>7. ASSUME NEW prov, TxInsert(prov) PROVE AttemptsOK'
  <2>1. PICK a : a = NewAttempt(prov)
    OBVIOUS
  <2>2. a.status = "pending" /\ a.ref = 0
    BY <2>1 DEF NewAttempt
  <2>3. /\ attempts' = <<a>> /\ row'.status = "created" /\ row'.version = 1 /\ row'.ref = 0
        /\ row.status = "none"
    BY <1>7, <2>1 DEF TxInsert, NoRow
  <2>4. Len(attempts') = 1 /\ attempts'[1] = a /\ \A i \in 1 .. Len(attempts') : i = 1
    BY <2>3
  <2>5. Follow
    BY <1>4, <2>3, <2>4 DEF AttemptsOK
  <2> QED
    BY <2>2, <2>3, <2>4, <2>5 DEF AttemptsOK, Settled, Taken
<1>8. CASE TxChallenge
  <2>1. row'.status = "requires_action" /\ n \in Refs \cup {0} /\ row.status = "created"
    BY <1>8, Constants DEF TxChallenge, Logs, IInv, StoreOK, Refs
  <2>2. /\ n > 0 /\ Len(attempts') = n /\ attempts'[n].status = "requires_action"
        /\ \A i \in 1 .. n : i # n => attempts'[i] = attempts[i]
        /\ \A i \in 1 .. n : i # n => ~IsOpen(attempts[i]) /\ attempts[i].status # "approved"
    BY <1>5, <1>8, <2>1 DEF TxChallenge, AttemptStatuses
  <2>3. Follow
    BY <1>4, <2>2
  <2> QED
    BY <2>1, <2>2, <2>3 DEF AttemptsOK, Settled, Taken, IsOpen
<1>9. CASE TxUnknown
  <2>1. row' = row /\ row.status = "created"
    BY <1>9 DEF TxUnknown
  <2>2. /\ n > 0 /\ Len(attempts') = n /\ attempts'[n].status = "unknown"
        /\ attempts'[n].ref = 0
        /\ \A i \in 1 .. n : i # n => attempts'[i] = attempts[i]
        /\ \A i \in 1 .. n : i # n => ~IsOpen(attempts[i]) /\ attempts[i].status # "approved"
    BY <1>5, <1>9, <2>1 DEF TxUnknown, AttemptStatuses
  <2>3. Follow
    BY <1>4, <2>2
  <2> QED
    BY <2>1, <2>2, <2>3 DEF AttemptsOK, Settled, Taken, IsOpen
<1>10. CASE TxVoid
  <2>1. row'.status = "voided" /\ attempts' = attempts /\ n > 0
    BY <1>10 DEF TxVoid, Logs, AttemptsOK
  <2>2. Follow
    BY <1>4, <2>1
  <2> QED
    BY <2>1, <2>2 DEF AttemptsOK, Settled, Taken
<1>11. ASSUME NEW st \in {"declined", "unavailable"}, NEW prov, TxFailover(st, prov)
       PROVE  AttemptsOK'
  <2>1. PICK ats : ats = Marked(n, st, 0)
    OBVIOUS
  <2>2. PICK a : a = NewAttempt(prov)
    OBVIOUS
  <2>3. a.status = "pending" /\ a.ref = 0
    BY <2>2 DEF NewAttempt
  <2>4. /\ row.status = "created" /\ row'.status = "created"
        /\ row'.version = row.version /\ row'.ref = row.ref /\ attempts' = Append(ats, a)
    BY <1>11, <2>1, <2>2 DEF TxFailover
  <2>5. /\ n > 0 /\ row.version = 1 /\ row.ref = 0
        /\ \A i \in 1 .. n : i # n => ~IsOpen(attempts[i]) /\ attempts[i].status # "approved"
    BY <2>4 DEF AttemptsOK
  <2>6. /\ ats \in Seq(AttemptType) /\ Len(ats) = n /\ ats[n].status = st
        /\ \A i \in 1 .. n : i # n => ats[i] = attempts[i]
    BY <1>1, <2>1, <2>5, MarkedLast DEF AttemptStatuses
  <2>7. \A i \in 1 .. n : ~IsOpen(ats[i]) /\ ats[i].status # "approved"
    BY <2>5, <2>6 DEF IsOpen
  <2>8. /\ Len(attempts') = n + 1 /\ attempts'[n + 1] = a
        /\ \A i \in 1 .. n : attempts'[i] = ats[i]
    BY <2>4, <2>6
  <2>9. \A i \in 1 .. n + 1 : i \in 1 .. n \/ i = n + 1
    BY <1>1
  <2>10. \A s \in Confirmers : req'[s].pc \in Confirming => req'[s].att = Len(attempts')
    BY <1>1, <1>4, <2>4, <2>8 DEF db
  <2>11. /\ \A i \in 1 .. Len(attempts') : IsOpen(attempts'[i]) => i = Len(attempts')
         /\ \A i \in 1 .. Len(attempts') : attempts'[i].status # "approved"
    BY <2>3, <2>7, <2>8, <2>9
  <2> QED
    BY <1>1, <2>3, <2>4, <2>5, <2>8, <2>10, <2>11 DEF AttemptsOK, Settled, Taken
<1>12. ASSUME NEW st \in Ended, NEW ref \in Refs \cup {0}, TxReject(st, ref)
       PROVE  AttemptsOK'
  <2>1. row'.status = "failed" /\ row.status \in {"created", "requires_action"}
    BY <1>12 DEF TxReject, Logs
  <2>2. /\ n > 0 /\ Len(attempts') = n /\ attempts'[n].status = st
        /\ \A i \in 1 .. n : i # n => attempts'[i] = attempts[i]
        /\ \A i \in 1 .. n : i # n => ~IsOpen(attempts[i]) /\ attempts[i].status # "approved"
    BY <1>5, <1>12, <2>1 DEF TxReject, AttemptStatuses, Ended
  <2>3. Follow
    BY <1>4, <2>2
  <2> QED
    BY <2>1, <2>2, <2>3 DEF AttemptsOK, Settled, Taken, IsOpen, Ended
<1>13. ASSUME NEW ref \in Refs, row.status \in {"created", "requires_action"},
              row'.status \in {"authorized", "captured"},
              row'.provider = attempts[n].provider, row'.ref = ref, MarksLast("approved", ref)
       PROVE  AttemptsOK'
  <2>1. /\ n > 0 /\ Len(attempts') = n /\ attempts'[n].status = "approved"
        /\ attempts'[n].ref = ref /\ attempts'[n].provider = attempts[n].provider
        /\ \A i \in 1 .. n : i # n => attempts'[i] = attempts[i]
        /\ \A i \in 1 .. n : i # n => ~IsOpen(attempts[i]) /\ attempts[i].status # "approved"
    BY <1>5, <1>13 DEF AttemptStatuses
  <2>2. Follow
    BY <1>4, <2>1
  <2> QED
    BY <1>13, <2>1, <2>2 DEF AttemptsOK, Settled, Taken, IsOpen
<1>14. ASSUME row.status \in Settled, row'.status \in Settled, SameRoute, attempts' = attempts
       PROVE  AttemptsOK'
  <2>1. Follow
    BY <1>4, <1>14
  <2> QED
    BY <1>14, <2>1 DEF AttemptsOK, Settled, Taken, SameRoute
<1>15. ASSUME NEW ref \in Refs, TxApprove(ref) PROVE AttemptsOK'
  BY <1>13, <1>15 DEF TxApprove, Logs
<1>16. ASSUME NEW ref \in Refs, NEW amt, TxApproveAndTake(ref, amt) PROVE AttemptsOK'
  BY <1>13, <1>16 DEF TxApproveAndTake
<1>17. ASSUME NEW amt, TxTake(amt) PROVE AttemptsOK'
  BY <1>14, <1>17 DEF TxTake, Logs, Settled, Taken
<1>18. ASSUME NEW k, NEW amt, TxReserve(k, amt) \/ TxGiveBack(k, amt) \/ TxRelease(k, amt)
       PROVE  AttemptsOK'
  BY <1>14, <1>18 DEF TxReserve, TxGiveBack, TxRelease, Logs, Settled, Taken, RefundedStatus
<1> QED
  BY <1>6, <1>7, <1>8, <1>9, <1>10, <1>11, <1>12, <1>15, <1>16, <1>17, <1>18
     DEF DbStep, RowTx, Ended

\* What the invariants so far say of every execution.
Recorded == IInv /\ AttemptsOK /\ LogMatchesRow

\* They hold at first and are kept by every step.
LEMMA RecordedAlways == Spec => []Recorded
<1>1. Init => Recorded
  <2> SUFFICES ASSUME Init PROVE AttemptsOK /\ LogMatchesRow
    BY InitInv DEF Recorded
  <2>1. row = NoRow /\ attempts = <<>> /\ events = <<>>
    BY DEF Init
  <2>2. \A r \in Confirmers : req[r].pc \notin Confirming
    BY Constructors, Roles DEF Init, Confirming
  <2> QED
    BY <2>1, <2>2 DEF NoRow, AttemptsOK, LogMatchesRow, Settled, Taken
<1>2. Recorded /\ [Next]_vars => Recorded'
  BY NextInv, NextWrites, NextHolds, AttemptsStep, LogStep DEF Recorded
<1> QED
  BY <1>1, <1>2, PTL DEF Spec

\* The event log (and so the outbox) is the row's history, without a gap, a
\* duplicate or a contradiction, for every interleaving of any number of calls.
THEOREM LogComplete == Spec => []LogMatchesRow
<1>1. Recorded => LogMatchesRow
  BY DEF Recorded
<1> QED
  BY RecordedAlways, <1>1, PTL

\* At most one attempt is open, at most MaxAttempts are made, and a settled
\* payment is routed to the attempt that was approved.
THEOREM AttemptsDisciplined == Spec => []AttemptDiscipline
<1>1. Recorded => AttemptDiscipline
  <2> SUFFICES ASSUME Recorded PROVE AttemptDiscipline
    OBVIOUS
  <2>1. OpenAttempts = {} \/ OpenAttempts = {Len(attempts)}
    BY DEF Recorded, AttemptsOK, OpenAttempts
  <2>2. Cardinality(OpenAttempts) <= 1
    <3>1. Cardinality({}) = 0 /\ Cardinality({Len(attempts)}) = 1
      BY FS_EmptySet, FS_Singleton
    <3>2. Cardinality(OpenAttempts) = 0 \/ Cardinality(OpenAttempts) = 1
      BY <2>1, <3>1, Zenon
    <3> QED
      BY <3>2
  <2>3. row.status = "requires_action" => OpenAttempts = {Len(attempts)}
    BY <2>1 DEF Recorded, AttemptsOK, OpenAttempts, IInv, StoreOK
  <2>4. Len(attempts) <= MaxAttempts
    BY DEF Recorded, IInv, StoreOK
  <2> QED
    BY <2>2, <2>3, <2>4 DEF AttemptDiscipline, Recorded, AttemptsOK, Settled, Taken
<1> QED
  BY RecordedAlways, <1>1, PTL

-----------------------------------------------------------------------------
(* The refunds                                                             *)

\* A call past its first transaction, with a refund of its own.
Refunding == {"refunding", "refund_tx2"}

Issued(rs) == {k \in RefundKeys : rs[k].status # "none"}

Total(rs, status) ==
  SumFunctionOnSet([k \in RefundKeys |-> rs[k].amount],
                   {k \in RefundKeys : rs[k].status = status})

\* The refunds and the row: a refund exists only of a captured payment; the
\* counters are the refunds' sums; a call past its first transaction owns the
\* pending refund of its key and amount, alone; of a refunded payment nothing is
\* left.
RefundsOK ==
  /\ IsFiniteSet(Issued(refunds))
  /\ \A k \in RefundKeys : refunds[k].status # "none" => row.status \in Taken
  /\ row.pending = Total(refunds, "pending") /\ row.refunded = Total(refunds, "succeeded")
  /\ \A r \in Refunders : req[r].pc \in Refunding =>
       refunds[RefundKey[r]] = [status |-> "pending", amount |-> req[r].amt]
  /\ \A r, s \in Refunders :
       req[r].pc \in Refunding /\ req[s].pc \in Refunding /\ RefundKey[r] = RefundKey[s] => r = s
  /\ row.status = "refunded" => row.refunded = row.captured

\* A refund that is issued, or changes its status, moves its amount from one sum
\* to another.
LEMMA TotalMoves ==
  ASSUME NEW rs \in [RefundKeys -> RefundType], IsFiniteSet(Issued(rs)), NEW k \in RefundKeys,
         NEW st \in {"pending", "succeeded", "failed"}, NEW amt \in Nat,
         rs[k].status # "none" => rs[k].amount = amt, rs[k].status # st,
         NEW new, new[k].status = st, new[k].amount = amt,
         \A j \in RefundKeys : j # k => new[j] = rs[j]
  PROVE  /\ IsFiniteSet(Issued(new))
         /\ Total(new, st) = Total(rs, st) + amt
         /\ \A u \in {"pending", "succeeded", "failed"} :
              u \notin {st, rs[k].status} => Total(new, u) = Total(rs, u)
         /\ rs[k].status # "none" =>
              Total(rs, rs[k].status) = Total(new, rs[k].status) + amt
<1> DEFINE f == [j \in RefundKeys |-> rs[j].amount]
           g == [j \in RefundKeys |-> new[j].amount]
           S(u) == {j \in RefundKeys : rs[j].status = u}
           N(u) == {j \in RefundKeys : new[j].status = u}
<1>1. /\ new[k].status = st /\ new[k].amount = amt
      /\ \A j \in RefundKeys : j # k => new[j] = rs[j]
  OBVIOUS
<1>2. IsFiniteSet(Issued(new))
  <2>1. Issued(new) = Issued(rs) \cup {k}
    BY <1>1 DEF Issued
  <2>2. PICK I : I = Issued(rs)
    OBVIOUS
  <2>3. IsFiniteSet(I \cup {k})
    BY <2>2, FS_AddElement
  <2> QED
    BY <2>1, <2>2, <2>3
<1>3. \A j \in RefundKeys : f[j] \in Int /\ g[j] \in Int /\ (j # k => g[j] = f[j])
  BY <1>1 DEF RefundType
<1>4. g[k] = amt /\ (rs[k].status # "none" => f[k] = amt)
  BY <1>1
<1>5. \A u \in {"pending", "succeeded", "failed"} : IsFiniteSet(S(u)) /\ IsFiniteSet(N(u))
  <2>1. \A u \in {"pending", "succeeded", "failed"} :
          S(u) \in SUBSET Issued(rs) /\ N(u) \in SUBSET Issued(new)
    BY DEF Issued
  <2> HIDE DEF S, N
  <2> QED
    BY <1>2, <2>1, FS_Subset
<1>6. N(st) = S(st) \cup {k} /\ k \notin S(st)
  BY <1>1
<1>7. /\ \A u : u \notin {st, rs[k].status} => N(u) = S(u) /\ k \notin S(u)
      /\ S(rs[k].status) = N(rs[k].status) \cup {k} /\ k \notin N(rs[k].status)
  BY <1>1
<1>8. \A u : S(u) \subseteq RefundKeys /\ N(u) \subseteq RefundKeys
  OBVIOUS
<1>9. \A u : Total(rs, u) = SumFunctionOnSet(f, S(u)) /\ Total(new, u) = SumFunctionOnSet(g, N(u))
  BY DEF Total
<1>a. rs[k].status \in {"none", "pending", "succeeded", "failed"}
  BY DEF RefundType
<1> HIDE DEF f, g, S, N
<1>10. Total(new, st) = Total(rs, st) + amt
  <2>1. SumFunctionOnSet(g, S(st) \cup {k}) = SumFunctionOnSet(g, S(st)) + g[k]
    <3>1. PICK X : X = S(st)
      OBVIOUS
    <3>2. IsFiniteSet(X) /\ k \notin X /\ \A y \in X \cup {k} : g[y] \in Int
      BY <1>3, <1>5, <1>6, <1>8, <3>1
    <3>3. SumFunctionOnSet(g, X \cup {k}) = SumFunctionOnSet(g, X) + g[k]
      BY <3>2, SumAdd
    <3> QED
      BY <3>1, <3>3
  <2>2. SumFunctionOnSet(f, S(st)) = SumFunctionOnSet(g, S(st))
    <3>1. \A y \in S(st) : f[y] \in Int /\ g[y] = f[y]
      BY <1>3, <1>6, <1>8
    <3> QED
      BY <1>5, <3>1, SumSame
  <2> QED
    BY <1>4, <1>6, <1>9, <2>1, <2>2
<1>11. ASSUME NEW u \in {"pending", "succeeded", "failed"}, u \notin {st, rs[k].status}
       PROVE  Total(new, u) = Total(rs, u)
  <2>1. N(u) = S(u) /\ k \notin S(u) /\ IsFiniteSet(S(u))
    BY <1>5, <1>7, <1>11
  <2>2. \A y \in S(u) : f[y] \in Int /\ g[y] = f[y]
    BY <1>3, <1>8, <2>1
  <2>3. SumFunctionOnSet(f, S(u)) = SumFunctionOnSet(g, S(u))
    BY <2>1, <2>2, SumSame
  <2> QED
    BY <1>9, <2>1, <2>3
<1>12. ASSUME rs[k].status # "none"
       PROVE  Total(rs, rs[k].status) = Total(new, rs[k].status) + amt
  <2>1. PICK u : u = rs[k].status
    OBVIOUS
  <2>2. S(u) = N(u) \cup {k} /\ k \notin N(u) /\ IsFiniteSet(N(u))
    BY <1>5, <1>7, <1>a, <1>12, <2>1
  <2>3. \A y \in N(u) \cup {k} : f[y] \in Int
    BY <1>3, <1>8
  <2>4. SumFunctionOnSet(f, N(u) \cup {k}) = SumFunctionOnSet(f, N(u)) + f[k]
    BY <2>2, <2>3, SumAdd
  <2>5. \A y \in N(u) : f[y] \in Int /\ g[y] = f[y]
    BY <1>3, <1>8, <2>2
  <2>6. SumFunctionOnSet(f, N(u)) = SumFunctionOnSet(g, N(u))
    BY <2>2, <2>5, SumSame
  <2> QED
    BY <1>4, <1>9, <1>12, <2>1, <2>2, <2>4, <2>6
<1> QED
  BY <1>2, <1>10, <1>11, <1>12

\* A refund's amount is within the sum of its status.
LEMMA TotalCovers ==
  ASSUME NEW rs \in [RefundKeys -> RefundType], IsFiniteSet(Issued(rs)), NEW k \in RefundKeys,
         rs[k].status = "pending"
  PROVE  Total(rs, "pending") \in Nat /\ rs[k].amount <= Total(rs, "pending")
<1> DEFINE f == [j \in RefundKeys |-> rs[j].amount]
           S == {j \in RefundKeys : rs[j].status = "pending"}
           R == S \ {k}
<1>1. S \in SUBSET Issued(rs) /\ R \in SUBSET S /\ S = R \cup {k} /\ k \notin R
  BY DEF Issued
<1>2. \A j \in RefundKeys : f[j] \in Nat
  BY DEF RefundType
<1>3. Total(rs, "pending") = SumFunctionOnSet(f, S) /\ f[k] = rs[k].amount
  BY DEF Total
<1>4. R \subseteq RefundKeys
  OBVIOUS
<1> HIDE DEF f, S, R
<1>5. IsFiniteSet(R)
  BY <1>1, FS_Subset
<1>6. SumFunctionOnSet(f, R) \in Nat
  BY <1>2, <1>4, <1>5, SumNat
<1>7. SumFunctionOnSet(f, R \cup {k}) = SumFunctionOnSet(f, R) + f[k]
  <2>1. \A y \in R \cup {k} : f[y] \in Int
    BY <1>2, <1>4
  <2> QED
    BY <1>1, <1>5, <2>1, SumAdd
<1> QED
  BY <1>1, <1>2, <1>3, <1>6, <1>7

\* A refund call is past its first transaction only if it was before.
RefundersKeep ==
  \A s \in Refunders : req'[s].pc \in Refunding =>
    req[s].pc \in Refunding /\ req'[s].amt = req[s].amt

\* A step that moves one call keeps RefundersKeep.
LEMMA OneRefunderMoves ==
  ASSUME IInv, NEW r, NEW c, req' = [req EXCEPT ![r] = c],
         (r \in Refunders /\ c.pc \in Refunding) =>
           req[r].pc \in Refunding /\ c.amt = req[r].amt
  PROVE  RefundersKeep
<1>1. \A s \in Refunders : req'[s] = IF s = r THEN c ELSE req[s]
  BY Roles DEF IInv
<1> QED
  BY <1>1 DEF RefundersKeep

\* Only RefundTx1 starts a refund.
LEMMA NextKeepsRefunders ==
  ASSUME IInv, [Next]_vars, \A r \in Refunders : RefundTx1(r) => End(r)
  PROVE  RefundersKeep
<1>1. ASSUME NEW r \in Callers, End(r) PROVE RefundersKeep
  BY <1>1, OneRefunderMoves, Constructors DEF End, Refunding
<1>2. ASSUME NEW r \in Callers, r \notin Refunders, NEW c, req' = [req EXCEPT ![r] = c]
      PROVE  RefundersKeep
  BY <1>2, OneRefunderMoves
<1>3. ASSUME NEW r \in Callers, Step(r) PROVE RefundersKeep
  <2>1. req[r] \in ReqType
    BY DEF IInv
  <2>2. CASE r \in Creators /\ CreateStep(r)
    <3>1. \E c : req' = [req EXCEPT ![r] = c]
      BY <2>2 DEF CreateStep, CreateLookup, CreateTx1, AuthorizeReturns, ResolveUnknown,
                  ApplyRequiresAction, ApplyFailed, End, Goto
    <3> QED
      BY <1>2, <2>2, <3>1, Roles
  <2>3. CASE r \in Confirmers /\ ConfirmStep(r)
    <3>1. \E c : req' = [req EXCEPT ![r] = c]
      BY <2>3 DEF ConfirmStep, ConfirmLoad, ConfirmQuery, ConfirmFailed, End
    <3> QED
      BY <1>2, <2>3, <3>1, Roles
  <2>4. CASE r \in Creators \cup Confirmers /\ ApproveStep(r)
    <3>1. \E c : req' = [req EXCEPT ![r] = c]
      BY <2>4 DEF ApproveStep, ApprovedNeedsCapture, CaptureNowReturns, ApprovedAsIs,
                  ApplyApproved, End, Goto
    <3> QED
      BY <1>2, <2>4, <3>1, Roles
  <2>5. CASE r \in Capturers /\ CaptureStep(r)
    <3>1. \E c : req' = [req EXCEPT ![r] = c]
      BY <2>5 DEF CaptureStep, CaptureLoad, CaptureReturns, CaptureTx2, End
    <3> QED
      BY <1>2, <2>5, <3>1, Roles
  <2>6. CASE r \in Voiders /\ VoidStep(r)
    <3>1. \E c : req' = [req EXCEPT ![r] = c]
      BY <2>6 DEF VoidStep, VoidLoad, VoidReturns, VoidTx2, End, Goto
    <3> QED
      BY <1>2, <2>6, <3>1, Roles
  <2>7. CASE r \in Refunders /\ RefundStep(r)
    <3>1. CASE End(r)
      BY <1>1, <3>1
    <3>2. CASE RefundLookup(r) /\ ~End(r)
      <4>1. PICK c : c = [req[r] EXCEPT !.pc = "reserving"]
        OBVIOUS
      <4>2. c.pc = "reserving" /\ req' = [req EXCEPT ![r] = c]
        BY <2>1, <3>2, <4>1 DEF RefundLookup, Goto, ReqType
      <4> QED
        BY <4>2, OneRefunderMoves DEF Refunding
    <3>3. CASE RefundReturns(r) /\ ~End(r)
      <4>1. PICK out : req' = [req EXCEPT ![r].out = out, ![r].pc = "refund_tx2"]
        BY <3>3 DEF RefundReturns
      <4>2. PICK c : c = [req[r] EXCEPT !.out = out, !.pc = "refund_tx2"]
        OBVIOUS
      <4>3. c.amt = req[r].amt /\ req' = [req EXCEPT ![r] = c] /\ req[r].pc = "refunding"
        BY <2>1, <3>3, <4>1, <4>2 DEF RefundReturns, ReqType
      <4> QED
        BY <4>3, OneRefunderMoves DEF Refunding
    <3> QED
      BY <2>7, <3>1, <3>2, <3>3 DEF RefundStep, RefundTx2
  <2> QED
    BY <1>3, <2>2, <2>3, <2>4, <2>5, <2>6, <2>7 DEF Step
<1>4. CASE \E r \in Callers : Crash(r)
  BY <1>1, <1>4 DEF Crash
<1>5. ASSUME NEW r \in Callers, ClientCancel(r) PROVE RefundersKeep
  <2>1. \E c : req' = [req EXCEPT ![r] = c]
    BY <1>5 DEF ClientCancel
  <2>2. r \notin Refunders
    BY <1>5, Roles DEF ClientCancel
  <2> QED
    BY <1>2, <2>1, <2>2
<1>6. ASSUME NEW m \in net, NEW out, Answer(m, out) PROVE RefundersKeep
  <2>1. CASE req' = req
    BY <2>1 DEF RefundersKeep
  <2>2. CASE req' = [req EXCEPT ![m.by].out = out]
    <3>1. PICK c : c = [req[m.by] EXCEPT !.out = out]
      OBVIOUS
    <3>2. m.by \in Callers /\ req[m.by] \in ReqType
      BY DEF IInv, StoreOK, MessageType
    <3>3. c.amt = req[m.by].amt /\ c.pc = req[m.by].pc /\ req' = [req EXCEPT ![m.by] = c]
      BY <2>2, <3>1, <3>2 DEF ReqType
    <3> QED
      BY <3>3, OneRefunderMoves
  <2> QED
    BY <1>6, <2>1, <2>2 DEF Answer
<1>7. CASE Psp
  <2>1. CASE \E m \in net : PspAuthorize(m) \/ PspCapture(m) \/ PspVoid(m) \/ PspRefund(m)
    BY <1>6, <2>1 DEF PspAuthorize, PspCapture, PspVoid, PspRefund
  <2>2. CASE \E n \in Refs : PspAction(n)
    BY <2>2 DEF PspAction, RefundersKeep
  <2>3. CASE \/ \E m \in net : PspRead(m) \/ PspStatus(m)
             \/ \E r \in Confirmers : QueryRead(r)
    BY <2>3 DEF PspRead, PspStatus, QueryRead, RefundersKeep
  <2> QED
    BY <1>7, <2>1, <2>2, <2>3 DEF Psp
<1>8. CASE Lapse \/ UNCHANGED vars
  BY <1>8 DEF Lapse, vars, RefundersKeep
<1> QED
  BY <1>3, <1>4, <1>5, <1>7, <1>8 DEF Next

\* A transaction that leaves the refunds alone keeps them in step with the row: it
\* is refused as soon as there is a refund, or is none of the row's own.
LEMMA RefundsQuiet ==
  ASSUME IInv, RefundsOK, RowTx, RefundersKeep
  PROVE  RefundsOK'
<1>1. refunds' = refunds /\ row'.pending = row.pending /\ row'.refunded = row.refunded
  BY DEF RowTx, TxInsert, TxChallenge, TxUnknown, TxVoid, TxFailover, TxReject, TxApprove,
         TxApproveAndTake, TxTake, SameMoney, db
<1>2. (row'.status = row.status /\ row'.captured = row.captured)
        \/ (row.status \notin Taken /\ row'.status # "refunded")
  BY DEF RowTx, TxInsert, TxChallenge, TxUnknown, TxVoid, TxFailover, TxReject, TxApprove,
         TxApproveAndTake, TxTake, SameMoney, Logs, db, NoRow, Taken
<1>3. \A s \in Refunders : req'[s].pc \in Refunding =>
        refunds'[RefundKey[s]] = [status |-> "pending", amount |-> req'[s].amt]
  BY <1>1 DEF RefundsOK, RefundersKeep
<1>4. \A r, s \in Refunders :
        req'[r].pc \in Refunding /\ req'[s].pc \in Refunding /\ RefundKey[r] = RefundKey[s]
          => r = s
  BY DEF RefundsOK, RefundersKeep
<1>5. Total(refunds, "pending")' = Total(refunds, "pending")
      /\ Total(refunds, "succeeded")' = Total(refunds, "succeeded")
      /\ Issued(refunds)' = Issued(refunds)
  BY <1>1 DEF Total, Issued
<1>6. /\ \A k \in RefundKeys : refunds'[k].status # "none" => row'.status \in Taken
      /\ row'.status = "refunded" => row'.refunded = row'.captured
  BY <1>1, <1>2 DEF RefundsOK
<1> QED
  BY <1>1, <1>3, <1>4, <1>5, <1>6 DEF RefundsOK

\* The keys of the refund calls are keys, and no refund call is another call.
LEMMA RefundKeyTyped ==
  /\ \A r \in Refunders : RefundKey[r] \in RefundKeys
  /\ Refunders \subseteq Callers
BY ServiceAssumption, Roles

\* A reservation adds a pending refund, which only its call owns.
LEMMA RefundsReserve ==
  ASSUME IInv, RefundsOK, NEW r \in Refunders, NEW amt \in 1 .. Amount,
         TxReserve(RefundKey[r], amt),
         req' = [req EXCEPT ![r].pc = "refunding", ![r].amt = amt]
  PROVE  RefundsOK'
<1>1. PICK k : k = RefundKey[r]
  OBVIOUS
<1>2. /\ k \in RefundKeys /\ amt \in Nat /\ refunds \in [RefundKeys -> RefundType]
      /\ refunds[k].status = "none"
      /\ refunds' = [refunds EXCEPT ![k] = [status |-> "pending", amount |-> amt]]
      /\ row'.pending = row.pending + amt /\ row'.refunded = row.refunded
      /\ row'.status = row.status /\ row.status \in {"captured", "partially_refunded"}
  BY <1>1, RefundKeyTyped, Constants DEF IInv, StoreOK, TxReserve, Logs
<1>3. PICK new : new = [refunds EXCEPT ![k] = [status |-> "pending", amount |-> amt]]
  OBVIOUS
<1>4. /\ IsFiniteSet(Issued(new)) /\ Total(new, "pending") = Total(refunds, "pending") + amt
      /\ Total(new, "succeeded") = Total(refunds, "succeeded")
  <2>1. PICK rs : rs = refunds
    OBVIOUS
  <2>2. /\ rs \in [RefundKeys -> RefundType] /\ IsFiniteSet(Issued(rs)) /\ rs[k].status = "none"
        /\ new[k].status = "pending" /\ new[k].amount = amt
        /\ \A j \in RefundKeys : j # k => new[j] = rs[j]
    BY <1>2, <1>3, <2>1 DEF RefundsOK
  <2>3. /\ IsFiniteSet(Issued(new)) /\ Total(new, "pending") = Total(rs, "pending") + amt
        /\ \A u \in {"pending", "succeeded", "failed"} :
             u \notin {"pending", rs[k].status} => Total(new, u) = Total(rs, u)
    <3>1. /\ k \in RefundKeys /\ amt \in Nat /\ rs[k].status # "pending"
          /\ rs[k].status # "none" => rs[k].amount = amt
      BY <1>2, <2>2
    <3> QED
      BY <2>2, <3>1, TotalMoves
  <2> QED
    BY <2>1, <2>2, <2>3
<1>5. new = refunds'
  BY <1>2, <1>3
<1>6. /\ new[k] = [status |-> "pending", amount |-> amt]
      /\ \A j \in RefundKeys : j # k => new[j] = refunds[j]
  BY <1>2, <1>3
<1>7. /\ req'[r].pc = "refunding" /\ req'[r].amt = amt
      /\ \A s \in Refunders : s # r => req'[s] = req[s]
  BY RefundKeyTyped DEF IInv, ReqType
<1>8. \A s \in Refunders : s # r /\ req[s].pc \in Refunding => RefundKey[s] # k
  <2>1. ASSUME NEW s \in Refunders, req[s].pc \in Refunding
        PROVE  refunds[RefundKey[s]].status = "pending"
    <3>1. refunds[RefundKey[s]] = [status |-> "pending", amount |-> req[s].amt]
      BY <2>1 DEF RefundsOK
    <3> QED
      BY <3>1
  <2> QED
    BY <1>2, <2>1
<1>9. \A s \in Refunders : req'[s].pc \in Refunding =>
        new[RefundKey[s]] = [status |-> "pending", amount |-> req'[s].amt]
  BY <1>1, <1>6, <1>7, <1>8, RefundKeyTyped DEF RefundsOK
<1>10. \A q, s \in Refunders :
        req'[q].pc \in Refunding /\ req'[s].pc \in Refunding /\ RefundKey[q] = RefundKey[s]
          => q = s
  BY <1>1, <1>7, <1>8 DEF RefundsOK
<1>11. row'.status \in Taken /\ row'.status # "refunded"
  BY <1>2 DEF Taken
<1>12. row'.pending = Total(new, "pending") /\ row'.refunded = Total(new, "succeeded")
  BY <1>2, <1>4 DEF RefundsOK
<1> QED
  BY <1>4, <1>5, <1>9, <1>10, <1>11, <1>12 DEF RefundsOK, Total, Issued

\* A call that settles its refund takes it out of pending.
LEMMA RefundsSettle ==
  ASSUME IInv, RefundsOK, NEW r \in Refunders, req[r].pc \in Refunding, End(r),
         NEW st \in {"succeeded", "failed"},
         refunds' = [refunds EXCEPT ![RefundKey[r]].status = st],
         row'.pending = row.pending - req[r].amt,
         row'.refunded = IF st = "succeeded" THEN row.refunded + req[r].amt ELSE row.refunded,
         row'.status \in Taken, row'.status = "refunded" => row'.refunded = row'.captured
  PROVE  RefundsOK'
<1>1. PICK k : k = RefundKey[r]
  OBVIOUS
<1>2. PICK amt : amt = req[r].amt
  OBVIOUS
<1>3. /\ k \in RefundKeys /\ amt \in Nat /\ refunds \in [RefundKeys -> RefundType]
      /\ refunds[k] = [status |-> "pending", amount |-> amt]
      /\ row.pending \in Nat
  BY <1>1, <1>2, RefundKeyTyped, Constants DEF IInv, StoreOK, RefundsOK, CallOK, Refunding,
     RowOK, RowType
<1>4. PICK new : new = [refunds EXCEPT ![k] = [status |-> st, amount |-> amt]]
  OBVIOUS
<1>5. new = refunds'
  <2>1. [refunds[k] EXCEPT !.status = st] = [status |-> st, amount |-> amt]
    BY <1>3
  <2>2. refunds' = [refunds EXCEPT ![k] = [refunds[k] EXCEPT !.status = st]]
    BY <1>1
  <2> QED
    BY <1>4, <2>1, <2>2
<1>6. refunds[k].status = "pending" /\ refunds[k].amount = amt
  BY <1>3
<1>7. /\ IsFiniteSet(Issued(new)) /\ Total(refunds, "pending") = Total(new, "pending") + amt
      /\ Total(new, st) = Total(refunds, st) + amt
      /\ st = "failed" => Total(new, "succeeded") = Total(refunds, "succeeded")
  <2>1. PICK rs : rs = refunds
    OBVIOUS
  <2>2. /\ rs \in [RefundKeys -> RefundType] /\ IsFiniteSet(Issued(rs))
        /\ rs[k].status = "pending" /\ rs[k].amount = amt
        /\ new[k].status = st /\ new[k].amount = amt
        /\ \A j \in RefundKeys : j # k => new[j] = rs[j]
    BY <1>3, <1>4, <1>6, <2>1 DEF RefundsOK
  <2>3. /\ IsFiniteSet(Issued(new)) /\ Total(new, st) = Total(rs, st) + amt
        /\ \A u \in {"pending", "succeeded", "failed"} :
             u \notin {st, rs[k].status} => Total(new, u) = Total(rs, u)
        /\ rs[k].status # "none" =>
             Total(rs, rs[k].status) = Total(new, rs[k].status) + amt
    <3>1. /\ k \in RefundKeys /\ amt \in Nat /\ rs[k].status # st
          /\ rs[k].status # "none" => rs[k].amount = amt
      BY <1>3, <2>2
    <3> QED
      BY <2>2, <3>1, TotalMoves
  <2> QED
    BY <2>1, <2>2, <2>3
<1>8. Total(new, "pending") \in Int
  <2> DEFINE S == {j \in RefundKeys : new[j].status = "pending"}
             f == [j \in RefundKeys |-> new[j].amount]
  <2>1. \A j \in RefundKeys : new[j].amount \in Int
    BY <1>3, <1>4 DEF RefundType
  <2>2. S \in SUBSET Issued(new) /\ \A j \in S : f[j] \in Int
    BY <2>1 DEF Issued
  <2>3. Total(new, "pending") = SumFunctionOnSet(f, S)
    BY DEF Total
  <2> HIDE DEF S, f
  <2>4. IsFiniteSet(S)
    BY <1>7, <2>2, FS_Subset
  <2> QED
    BY <2>2, <2>3, <2>4, SumInt
<1>9. row'.pending = Total(new, "pending") /\ row'.refunded = Total(new, "succeeded")
  <2>1. row.pending = Total(refunds, "pending") /\ row.refunded = Total(refunds, "succeeded")
    BY DEF RefundsOK
  <2> QED
    BY <1>2, <1>3, <1>7, <1>8, <2>1
<1>10. \A j \in RefundKeys : j # k => new[j] = refunds[j]
  BY <1>3, <1>4
<1>11. req'[r].pc = "done" /\ \A s \in Refunders : s # r => req'[s] = req[s]
  BY RefundKeyTyped, Constructors DEF IInv, End
<1>12. \A s \in Refunders : s # r /\ req[s].pc \in Refunding => RefundKey[s] # k
  BY <1>1 DEF RefundsOK
<1>13. \A s \in Refunders : req'[s].pc \in Refunding =>
        new[RefundKey[s]] = [status |-> "pending", amount |-> req'[s].amt]
  BY <1>10, <1>11, <1>12, RefundKeyTyped DEF RefundsOK, Refunding
<1>14. \A q, s \in Refunders :
        req'[q].pc \in Refunding /\ req'[s].pc \in Refunding /\ RefundKey[q] = RefundKey[s]
          => q = s
  BY <1>11 DEF RefundsOK, Refunding
<1> QED
  BY <1>5, <1>7, <1>9, <1>13, <1>14 DEF RefundsOK, Total, Issued

\* Every step keeps the refunds in step with the row.
LEMMA RefundsStep ==
  ASSUME IInv, AttemptsOK, RefundsOK, [Next]_vars
  PROVE  RefundsOK'
<1>1. ASSUME NEW r \in Refunders, RefundTx1(r), ~End(r)
      PROVE  RefundsOK'
  BY <1>1, RefundTx1Writes, RefundsReserve
<1>2. ASSUME NEW r \in Refunders, RefundTx2(r), ~UNCHANGED db
      PROVE  RefundsOK'
  <2>1. End(r) /\ req[r].pc \in Refunding /\ req[r].amt \in 1 .. Amount
    BY <1>2, RefundTx2Writes DEF RefundTx2, Refunding
  <2>2. CASE TxGiveBack(RefundKey[r], req[r].amt)
    BY <2>1, <2>2, RefundsSettle DEF TxGiveBack, Logs, Taken, RefundedStatus
  <2>3. CASE TxRelease(RefundKey[r], req[r].amt)
    BY <2>1, <2>3, RefundsSettle DEF TxRelease, Logs, Taken, RefundsOK
  <2> QED
    BY <1>2, <2>2, <2>3, RefundTx2Writes
<1>3. CASE /\ \A r \in Refunders : RefundTx1(r) => End(r)
           /\ \A r \in Refunders : RefundTx2(r) => UNCHANGED db
  <2>1. RefundersKeep
    BY <1>3, NextKeepsRefunders
  <2>2. ASSUME NEW r \in Refunders, RefundTx1(r) PROVE UNCHANGED db
    <3>1. End(r) /\ req[r] \in ReqType /\ req[r].pc = "reserving" /\ r \in Callers
      BY <1>3, <2>2, Roles DEF IInv, RefundTx1
    <3>2. ASSUME NEW amt, req' = [req EXCEPT ![r].pc = "refunding", ![r].amt = amt]
          PROVE  FALSE
      <4>1. req'[r].pc = "refunding" /\ req'[r].pc = "done"
        BY <3>1, <3>2, Constructors DEF IInv, ReqType, End
      <4> QED
        BY <4>1
    <3> QED
      BY <2>2, <3>2, RefundTx1Writes
  <2>3. RowTx
    BY <1>3, <2>2, NextWrites DEF RowTx
  <2> QED
    BY <2>1, <2>3, RefundsQuiet
<1> QED
  BY <1>1, <1>2, <1>3

\* The refunds agree with the row throughout every execution.
LEMMA RefundsAlways == Spec => [](Recorded /\ RefundsOK)
<1>1. Init => RefundsOK
  <2> SUFFICES ASSUME Init PROVE RefundsOK
    OBVIOUS
  <2>1. /\ row.status = "none" /\ row.pending = 0 /\ row.refunded = 0
        /\ \A k \in RefundKeys : refunds[k].status = "none"
        /\ \A r \in Refunders : req[r].pc = "idle"
    BY Constructors, Roles DEF Init, NoRow, NoRefund
  <2>2. Issued(refunds) = {}
    BY <2>1 DEF Issued
  <2>3. ASSUME NEW st \in {"pending", "succeeded"} PROVE Total(refunds, st) = 0
    <3>1. {k \in RefundKeys : refunds[k].status = st} = {}
      BY <2>1
    <3> QED
      BY <3>1, SumEmpty DEF Total
  <2> QED
    BY <2>1, <2>2, <2>3, FS_EmptySet DEF RefundsOK, Refunding
<1>2. Recorded /\ RefundsOK /\ [Next]_vars => RefundsOK'
  BY RefundsStep DEF Recorded
<1> QED
  BY RecordedAlways, <1>1, <1>2, PTL DEF Spec

\* The payment's refund counters are the sums of its refunds rows, whatever
\* refunds overlap, repeat a key, crash or are left pending.
THEOREM CountersMatch == Spec => []RefundCountersMatch
<1>1. RefundsOK => RefundCountersMatch
  BY DEF RefundsOK, RefundCountersMatch, RefundTotal, Total
<1> QED
  BY RefundsAlways, <1>1, PTL

\* CreateRefund's second transaction is never refused: the reservation of the
\* first keeps room for it, whatever other refunds do in between.
THEOREM RefundGoesThrough == Spec => []RefundTx2NeverRejected
<1>1. Recorded /\ RefundsOK => RefundTx2NeverRejected
  <2> SUFFICES ASSUME IInv, RefundsOK, NEW r \in Refunders, req[r].pc = "refund_tx2"
               PROVE  /\ MarkRefundedOK(row, req[r].amt)
                      /\ DbChecks(MarkRefunded(row, req[r].amt))
                      /\ ReleaseRefundOK(row, req[r].amt)
                      /\ DbChecks(ReleaseRefund(row, req[r].amt))
    BY DEF RefundTx2NeverRejected, Recorded
  <2>1. PICK amt : amt = req[r].amt
    OBVIOUS
  <2>2. /\ amt \in 1 .. Amount /\ RowOK(row) /\ row \in RowType /\ DbChecks(row)
        /\ refunds \in [RefundKeys -> RefundType] /\ RefundKey[r] \in RefundKeys
    BY <2>1, RefundKeyTyped DEF IInv, CallOK, StoreOK, RowOK
  <2>3. refunds[RefundKey[r]] = [status |-> "pending", amount |-> amt]
    BY <2>1 DEF RefundsOK, Refunding
  <2>4. amt <= row.pending
    <3>1. refunds[RefundKey[r]].status = "pending" /\ refunds[RefundKey[r]].amount = amt
      BY <2>3
    <3> QED
      BY <2>2, <3>1, TotalCovers DEF RefundsOK
  <2>5. row.refunded + row.pending <= row.captured /\ row.status \in Taken
    BY <2>2, <2>3 DEF DbChecks, RefundsOK
  <2>6. /\ row.refunded \in Nat /\ row.pending \in Nat /\ row.captured \in Nat /\ amt \in Nat
        /\ amt > 0
    BY <2>2, Constants DEF RowType
  <2>7. row.status \in {"captured", "partially_refunded"} /\ row.refunded + amt <= row.captured
    BY <2>4, <2>5, <2>6 DEF RefundsOK, Taken
  <2>8. MarkRefundedOK(row, amt)
    BY <2>4, <2>7 DEF MarkRefundedOK, RefundedStatus, CanTransition, Transitions
  <2>9. DbChecks(MarkRefunded(row, amt))
    BY <2>2, <2>8, MarkRefundedRow DEF RowOK
  <2>10. ReleaseRefundOK(row, amt) /\ DbChecks(ReleaseRefund(row, amt))
    BY <2>2, <2>4, ReleaseRow DEF RowOK, ReleaseRefundOK
  <2> QED
    BY <2>1, <2>8, <2>9, <2>10
<1> QED
  BY RefundsAlways, <1>1, PTL

-----------------------------------------------------------------------------
(* The PSP                                                                 *)

\* A payment that no PSP has approved yet: until then every capture is for the
\* whole amount.
Early == {"none", "created", "requires_action"}

\* Transaction n of the PSP: it exists only for an attempt that was recorded, gives
\* back no more than it took, and took the whole amount if it was taken early.
TxnOK(n) ==
  LET t == txn[n]
  IN  /\ t.status # "none" => n <= Len(attempts)
      /\ t.status \in Taken => t.captured \in 1 .. Amount /\ t.refunded <= t.captured
      /\ t.status \notin Taken => t.refunded = 0
      /\ row.status \in Early /\ t.status \in Taken => t.captured = Amount

\* The control states of a call that has sent a capture, or a void.
CaptureSent == {"capturing", "approving", "capture_tx2", "cancelled", "done"}
VoidSent == {"voiding", "void_tx2", "cancelled", "done"}

\* A call on the wire: an authorization finds no transaction under its reference; a
\* capture or a void is for the reference its sender waits for; a refund is for the
\* reference of the charged payment.
WireOK(m) ==
  /\ m.op = "authorize" =>
       /\ m.by \in Creators /\ m.ref <= Len(attempts)
       /\ txn[m.ref].status = "none" /\ m.amt = Amount
  /\ m.op = "capture" =>
       /\ m.amt \in 1 .. Amount /\ (row.status \in Early => m.amt = Amount)
       /\ req[m.by].pc \in CaptureSent
       /\ req[m.by].pc = "capturing" => m.ref = Reference(req[m.by])
  /\ m.op = "void" =>
       /\ req[m.by].pc \in VoidSent
       /\ req[m.by].pc = "voiding" => m.ref = req[m.by].p.ref
  /\ m.op = "refund" => m.ref = row.ref /\ row.status \in Taken

\* No two authorizations on the wire would create the same transaction.
OneEach ==
  \A m, o \in net : m.op = "authorize" /\ o.op = "authorize" /\ m.ref = o.ref => m = o

\* What an answer the call c of r has, or acts upon, says about the PSP.
Knows(r, c) ==
  /\ c.pc \in {"idle", "inserting", "confirming", "reserving"} => c.out = NoOut
  /\ c.pc \in {"authorizing", "resolving", "applying", "approving"} /\ c.out.captured =>
       /\ Reference(c) \in Refs /\ txn[Reference(c)].status \in Taken
       /\ c.out.amt \in {0, txn[Reference(c)].captured}
  /\ c.pc = "capturing" /\ c.out.kind = "approved" =>
       /\ Reference(c) \in Refs /\ txn[Reference(c)].status \in Taken
       /\ c.out.amt = txn[Reference(c)].captured
  /\ c.pc = "capture_tx2" \/ (r \in Capturers /\ c.pc = "capturing") =>
       c.p.status = "authorized" /\ c.p.ref \in Refs
  /\ c.pc = "capture_tx2" => txn[c.p.ref].status \in Taken /\ c.amt = txn[c.p.ref].captured
  /\ c.pc \in {"voiding", "void_tx2"} => c.p.status # "none" /\ c.p.ref \in Refs
  /\ c.pc = "voiding" /\ c.out.kind = "approved" => txn[c.p.ref].status = "voided"
  /\ c.pc = "void_tx2" => txn[c.p.ref].status = "voided"
  /\ r \in Refunders /\ c.pc \in Refunding /\ c.out.kind = "approved" =>
       RefundKey[r] \in txn[row.ref].done

\* What the row says about the PSP.
Backed ==
  /\ row.status \in Taken =>
       /\ txn[row.ref].status \in Taken /\ txn[row.ref].captured = row.captured
       /\ \A k \in RefundKeys : refunds[k].status = "succeeded" => k \in txn[row.ref].done
  /\ row.status = "voided" => txn[row.ref].status = "voided"

PspOK ==
  /\ \A n \in Refs : TxnOK(n)
  /\ \A m \in net : WireOK(m)
  /\ OneEach
  /\ \A r \in Callers : Knows(r, req[r])
  /\ Backed

\* What the PSP never takes back: a charge and its amount, a refund, a void.
PspMoves ==
  \A n \in Refs :
    /\ txn[n].status \in Taken =>
         /\ txn'[n].status \in Taken /\ txn'[n].captured = txn[n].captured
         /\ txn[n].done \subseteq txn'[n].done
    /\ txn[n].status = "voided" => txn'[n].status = "voided"

\* What a transaction never does to the row: bring back an unapproved payment, or
\* change the reference of a charged one.
RowMoves ==
  /\ row'.status \in Early => row.status \in Early
  /\ row.status \in Taken => row'.status \in Taken /\ row'.ref = row.ref
  /\ Len(attempts) <= Len(attempts')

\* A call that has sent a capture, or a void, does not wait for one again.
Onward(from, to) ==
  /\ from \in CaptureSent => to \in CaptureSent \ {"capturing"}
  /\ from \in VoidSent => to \in VoidSent \ {"voiding"}

\* What a call knows about the PSP stays true while the call stands still.
LEMMA KnowsStays ==
  ASSUME IInv, RefundsOK, Backed, PspMoves, row.status \in Taken => row'.ref = row.ref,
         NEW r \in Callers, NEW c, c = req[r], Knows(r, c)
  PROVE  Knows(r, c)'
<1>1. c \in ReqType
  BY DEF IInv
<1>2. ASSUME r \in Refunders, c.pc \in Refunding
      PROVE  row.status \in Taken /\ row.ref \in Refs /\ row'.ref = row.ref
  <2>1. refunds[RefundKey[r]] = [status |-> "pending", amount |-> req[r].amt]
    BY <1>2 DEF RefundsOK
  <2>2. refunds[RefundKey[r]].status # "none"
    BY <2>1
  <2>3. row.status \in Taken
    BY <1>2, <2>2, RefundKeyTyped DEF RefundsOK
  <2> QED
    BY <2>3 DEF IInv, RowOK, Taken, Status
<1>3. ASSUME NEW n \in Refs, txn[n].status \in Taken
      PROVE  txn'[n].status \in Taken /\ txn'[n].captured = txn[n].captured
  BY <1>3 DEF PspMoves
<1>4. ASSUME NEW n \in Refs, txn[n].status = "voided" PROVE txn'[n].status = "voided"
  BY <1>4 DEF PspMoves
<1>5. (c.pc \in {"authorizing", "resolving", "applying", "approving"} /\ c.out.captured =>
        /\ Reference(c) \in Refs /\ txn[Reference(c)].status \in Taken
        /\ c.out.amt \in {0, txn[Reference(c)].captured})'
  BY <1>3 DEF Knows
<1>6. (c.pc = "capturing" /\ c.out.kind = "approved" =>
        /\ Reference(c) \in Refs /\ txn[Reference(c)].status \in Taken
        /\ c.out.amt = txn[Reference(c)].captured)'
  BY <1>3 DEF Knows
<1>7. (c.pc = "capture_tx2" =>
        txn[c.p.ref].status \in Taken /\ c.amt = txn[c.p.ref].captured)'
  BY <1>3 DEF Knows
<1>8. (/\ c.pc = "voiding" /\ c.out.kind = "approved" => txn[c.p.ref].status = "voided"
       /\ c.pc = "void_tx2" => txn[c.p.ref].status = "voided")'
  BY <1>4 DEF Knows
<1>9. (r \in Refunders /\ c.pc \in Refunding /\ c.out.kind = "approved" =>
        RefundKey[r] \in txn[row.ref].done)'
  <2> SUFFICES ASSUME r \in Refunders, c.pc \in Refunding, c.out.kind = "approved"
               PROVE  RefundKey[r] \in txn'[row'.ref].done
    OBVIOUS
  <2>1. RefundKey[r] \in txn[row.ref].done
    BY DEF Knows
  <2>2. PICK n \in Refs : n = row.ref /\ n = row'.ref /\ row.status \in Taken
    BY <1>2
  <2> QED
    BY <2>1, <2>2 DEF PspMoves, Backed
<1> QED
  BY <1>5, <1>6, <1>7, <1>8, <1>9 DEF Knows

\* A step of one call: it may send one message, and the rest of the PSP's side
\* follows from what it does to the row and from what it knows.
LEMMA CallMoves ==
  ASSUME IInv, IInv', RefundsOK, PspOK, NEW r \in Callers, NEW c,
         req' = [req EXCEPT ![r] = c], txn' = txn, RowMoves, Backed', Knows(r, c)',
         Onward(req[r].pc, c.pc),
         NEW sent, net' = net \cup sent, \A m, o \in sent : m = o,
         \A m \in sent : (WireOK(m))' /\ (m.op = "authorize" => m.ref > Len(attempts))
  PROVE  PspOK'
<1>1. \A s \in Callers : req'[s] = IF s = r THEN c ELSE req[s]
  BY DEF IInv
<1>2. /\ Len(attempts) \in Nat /\ Len(attempts') \in Nat /\ Len(attempts) <= Len(attempts')
      /\ Refs \subseteq Nat
  BY Constants DEF IInv, StoreOK, RowMoves
<1>3. ASSUME NEW n \in Refs PROVE TxnOK(n)'
  <2>1. TxnOK(n)
    BY DEF PspOK
  <2> QED
    BY <1>2, <2>1 DEF TxnOK, RowMoves
<1>4. ASSUME NEW m \in net PROVE WireOK(m)'
  <2>1. WireOK(m) /\ m.ref \in Refs /\ m.by \in Callers
    BY MessageFacts DEF PspOK, MessageType
  <2>2. (m.op = "authorize" =>
           /\ m.by \in Creators /\ m.ref <= Len(attempts)
           /\ txn[m.ref].status = "none" /\ m.amt = Amount)'
    <3> SUFFICES ASSUME m.op = "authorize"
                 PROVE  /\ m.by \in Creators /\ m.ref <= Len(attempts')
                        /\ txn'[m.ref].status = "none" /\ m.amt = Amount
      OBVIOUS
    <3>1. /\ m.by \in Creators /\ m.ref <= Len(attempts)
          /\ txn[m.ref].status = "none" /\ m.amt = Amount
      BY <2>1 DEF WireOK
    <3>2. m.ref <= Len(attempts')
      BY <1>2, <2>1, <3>1
    <3> QED
      BY <3>1, <3>2
  <2>3. (m.op = "capture" =>
           /\ m.amt \in 1 .. Amount /\ (row.status \in Early => m.amt = Amount)
           /\ req[m.by].pc \in CaptureSent
           /\ req[m.by].pc = "capturing" => m.ref = Reference(req[m.by]))'
    <3>1. CASE m.by = r
      BY <1>1, <2>1, <3>1 DEF WireOK, RowMoves, Onward
    <3>2. CASE m.by # r
      BY <1>1, <2>1, <3>2 DEF WireOK, RowMoves
    <3> QED
      BY <3>1, <3>2
  <2>4. (m.op = "void" =>
           /\ req[m.by].pc \in VoidSent
           /\ req[m.by].pc = "voiding" => m.ref = req[m.by].p.ref)'
    <3>1. CASE m.by = r
      BY <1>1, <2>1, <3>1 DEF WireOK, Onward
    <3>2. CASE m.by # r
      BY <1>1, <2>1, <3>2 DEF WireOK
    <3> QED
      BY <3>1, <3>2
  <2>5. (m.op = "refund" => m.ref = row.ref /\ row.status \in Taken)'
    BY <2>1 DEF WireOK, RowMoves
  <2> QED
    BY <2>2, <2>3, <2>4, <2>5 DEF WireOK
<1>5. OneEach'
  <2> SUFFICES ASSUME NEW m \in net \cup sent, NEW o \in net \cup sent,
                      m.op = "authorize", o.op = "authorize", m.ref = o.ref
               PROVE  m = o
    BY DEF OneEach
  <2>1. \A x \in net : x.op = "authorize" => x.ref <= Len(attempts) /\ x.ref \in Nat
    BY <1>2, MessageFacts DEF PspOK, WireOK
  <2>2. \A x \in sent : x.op = "authorize" => x.ref > Len(attempts)
    OBVIOUS
  <2>3. CASE m \in net /\ o \in net
    BY <2>3 DEF PspOK, OneEach
  <2>4. CASE m \in sent /\ o \in sent
    BY <2>4
  <2> QED
    BY <1>2, <2>1, <2>2, <2>3, <2>4
<1>6. ASSUME NEW s \in Callers PROVE Knows(s, req[s])'
  <2>1. CASE s = r
    BY <1>1, <2>1 DEF Knows
  <2>2. CASE s # r
    <3>1. PICK d : d = req[s]
      OBVIOUS
    <3>2. Knows(s, d) /\ Backed
      BY <3>1 DEF PspOK
    <3>3. PspMoves
      BY DEF PspMoves
    <3>4. Knows(s, d)'
      BY <3>1, <3>2, <3>3, KnowsStays DEF RowMoves
    <3>5. d = req'[s]
      BY <1>1, <2>2, <3>1
    <3> QED
      BY <3>4, <3>5 DEF Knows
  <2> QED
    BY <2>1, <2>2
<1> QED
  BY <1>3, <1>4, <1>5, <1>6 DEF PspOK

\* A call of the PSP that was executed and answered.
LEMMA AnswerMoves ==
  ASSUME IInv, AttemptsOK, RefundsOK, PspOK, NEW m \in net, m.op # "status",
         NEW out, Answer(m, out),
         UNCHANGED db, PspMoves, \A n \in Refs : (TxnOK(n))',
         \A n \in Refs : txn[n].status = "none" /\ txn'[n].status # "none" =>
           m.op = "authorize" /\ n = m.ref,
         m.op = "authorize" /\ out.captured =>
           txn'[m.ref].status \in Taken /\ out.amt \in {0, txn'[m.ref].captured},
         m.op = "capture" /\ out.kind = "approved" =>
           txn'[m.ref].status \in Taken /\ out.amt = txn'[m.ref].captured,
         m.op = "void" /\ out.kind = "approved" => txn'[m.ref].status = "voided",
         m.op = "refund" /\ out.kind = "approved" => RefundKey[m.by] \in txn'[m.ref].done
  PROVE  PspOK'
<1> DEFINE r == m.by
           c == req[r]
           waiting == /\ c.pc = WaitingFor(m.op) /\ c.out.kind = "none"
                      /\ m.op = "authorize" => c.att = m.ref
<1>1. /\ r \in Callers /\ c \in ReqType /\ m.ref \in Refs /\ WireOK(m) /\ m \in MessageType
      /\ m.op \in {"authorize", "capture", "void", "refund"}
  BY MessageFacts DEF IInv, PspOK, MessageType
<1>2. PICK d : d = [c EXCEPT !.out = out]
  OBVIOUS
<1>3. /\ d.pc = c.pc /\ d.p = c.p /\ d.att = c.att /\ d.amt = c.amt /\ d.out = out
      /\ Reference(d) = Reference(c)
  BY <1>1, <1>2 DEF ReqType, Reference
<1>4. /\ net' = net \ {m} /\ row' = row /\ attempts' = attempts /\ refunds' = refunds
      /\ \A s \in Callers : req'[s] = IF s = r /\ waiting THEN d ELSE req[s]
  <2>1. net' = net \ {m} /\ req' = IF waiting THEN [req EXCEPT ![r] = d] ELSE req
    BY <1>2 DEF Answer
  <2> QED
    BY <1>1, <2>1 DEF db, IInv
<1>5. waiting => Knows(r, d)'
  <2> SUFFICES ASSUME waiting PROVE Knows(r, d)'
    OBVIOUS
  <2>2. d.pc = WaitingFor(m.op)
    BY <1>3
  <2>3. CASE m.op = "authorize"
    <3>1. d.pc = "authorizing"
      BY <1>3, <2>2, <2>3 DEF WaitingFor
    <3>2. r \in Creators /\ c.p.ref = 0
      BY <1>1, <1>3, <2>2, <2>3, <3>1 DEF WireOK, IInv, CallOK, Saga, AttemptsOK
    <3>3. Reference(d) = m.ref
      BY <1>3, <2>2, <2>3, <3>2 DEF Reference
    <3> QED
      BY <1>1, <1>3, <2>2, <2>3, <3>1, <3>3 DEF Knows, Refunding
  <2>4. CASE m.op = "capture"
    <3>1. d.pc = "capturing"
      BY <1>3, <2>2, <2>4 DEF WaitingFor
    <3>2. Reference(d) = m.ref
      BY <1>1, <1>3, <2>2, <2>4, <3>1 DEF WireOK
    <3>3. r \in Capturers => d.p.status = "authorized" /\ d.p.ref \in Refs
      BY <1>1, <1>3, <2>2, <3>1 DEF PspOK, Knows
    <3> QED
      BY <1>1, <1>3, <2>2, <2>4, <3>1, <3>2, <3>3 DEF Knows, Refunding
  <2>5. CASE m.op = "void"
    <3>1. d.pc = "voiding"
      BY <1>3, <2>2, <2>5 DEF WaitingFor
    <3>2. d.p.ref = m.ref
      BY <1>1, <1>3, <2>2, <2>5, <3>1 DEF WireOK
    <3>3. d.p.status # "none" /\ d.p.ref \in Refs
      BY <1>1, <1>3, <2>2, <3>1 DEF PspOK, Knows
    <3> QED
      BY <1>1, <1>3, <2>2, <2>5, <3>1, <3>2, <3>3 DEF Knows, Refunding
  <2>6. CASE m.op = "refund"
    <3>1. d.pc = "refunding"
      BY <1>3, <2>2, <2>6 DEF WaitingFor
    <3>2. m.ref = row'.ref
      BY <1>1, <1>4, <2>6 DEF WireOK
    <3> QED
      BY <1>1, <1>3, <2>2, <2>6, <3>1, <3>2 DEF Knows, Refunding
  <2> QED
    BY <1>1, <2>3, <2>4, <2>5, <2>6
<1>6. ASSUME NEW s \in Callers PROVE Knows(s, req[s])'
  <2>1. CASE s = r /\ waiting
    BY <1>4, <1>5, <2>1 DEF Knows
  <2>2. CASE ~(s = r /\ waiting)
    <3>1. PICK e : e = req[s]
      OBVIOUS
    <3>2. Knows(s, e) /\ Backed
      BY <3>1 DEF PspOK
    <3>3. Knows(s, e)'
      BY <1>4, <3>1, <3>2, KnowsStays
    <3>4. e = req'[s]
      BY <1>4, <2>2, <3>1
    <3> QED
      BY <3>3, <3>4 DEF Knows
  <2> QED
    BY <2>1, <2>2
<1>7. \A s \in Callers : /\ req'[s].pc = req[s].pc /\ req'[s].p = req[s].p
                         /\ Reference(req'[s]) = Reference(req[s])
  BY <1>3, <1>4
<1>8. ASSUME NEW o \in net, o # m PROVE WireOK(o)'
  <2>1. WireOK(o) /\ o.ref \in Refs /\ o.by \in Callers
    BY MessageFacts DEF PspOK, MessageType
  <2>2. o.op = "authorize" => txn'[o.ref].status = "none"
    <3>1. o.op = "authorize" => txn[o.ref].status = "none"
      BY <2>1 DEF WireOK
    <3>2. m.op = "authorize" /\ o.op = "authorize" => o.ref # m.ref
      BY <1>8 DEF PspOK, OneEach
    <3> QED
      BY <2>1, <3>1, <3>2
  <2> QED
    BY <1>4, <1>7, <2>1, <2>2 DEF WireOK
<1>9. OneEach'
  BY <1>4 DEF PspOK, OneEach
<1>10. Backed'
  <2>1. row.status \in Taken \cup {"voided"} => row.ref \in Refs
    BY DEF IInv, RowOK, Taken, Status
  <2>2. Backed
    BY DEF PspOK
  <2> QED
    BY <1>4, <2>1, <2>2 DEF Backed, PspMoves
<1> QED
  BY <1>4, <1>6, <1>8, <1>9, <1>10 DEF PspOK

\* A change of one transaction of the PSP that takes nothing back.
LEMMA TxnChange ==
  ASSUME IInv, PspOK, UNCHANGED db, NEW n \in Refs, NEW t, txn' = [txn EXCEPT ![n] = t],
         txn[n].status \in Taken =>
           t.status \in Taken /\ t.captured = txn[n].captured /\ txn[n].done \subseteq t.done,
         txn[n].status = "voided" => t.status = "voided",
         n <= Len(attempts),
         t.status \in Taken => t.captured \in 1 .. Amount /\ t.refunded <= t.captured,
         t.status \notin Taken => t.refunded = 0,
         row.status \in Early /\ t.status \in Taken => t.captured = Amount
  PROVE  /\ PspMoves
         /\ \A j \in Refs : TxnOK(j)'
         /\ txn'[n] = t /\ \A j \in Refs : j # n => txn'[j] = txn[j]
<1>1. txn'[n] = t /\ \A j \in Refs : j # n => txn'[j] = txn[j]
  BY DEF IInv, StoreOK
<1>2. PspMoves
  BY <1>1 DEF PspMoves
<1>3. row' = row /\ attempts' = attempts
  BY DEF db
<1>4. ASSUME NEW j \in Refs PROVE TxnOK(j)'
  <2>1. CASE j = n
    BY <1>1, <1>3, <2>1 DEF TxnOK
  <2>2. CASE j # n
    BY <1>1, <1>3, <2>2 DEF TxnOK, PspOK
  <2> QED
    BY <2>1, <2>2
<1> QED
  BY <1>1, <1>2, <1>4

\* No change at all is one too.
LEMMA TxnSame ==
  ASSUME PspOK, UNCHANGED db, txn' = txn
  PROVE  PspMoves /\ \A j \in Refs : TxnOK(j)'
BY DEF PspMoves, PspOK, TxnOK, db

\* The fields of the answers.
LEMMA Answers ==
  /\ \A cat : Failed(cat).kind = "failed" /\ ~Failed(cat).captured
  /\ ActionRequired.kind = "requires_action" /\ ~ActionRequired.captured
  /\ Accepted.kind = "pending" /\ NoOut.kind = "none" /\ ~NoOut.captured
  /\ \A b, n : /\ Approved(b, n).kind = "approved" /\ Approved(b, n).captured = b
               /\ Approved(b, n).amt = n
BY DEF Failed, ActionRequired, Accepted, NoOut, Approved

\* The PSP authorizes: it makes the transaction of a reference that had none.
LEMMA PspAuthorizeMoves ==
  ASSUME IInv, AttemptsOK, RefundsOK, PspOK, NEW m \in net, PspAuthorize(m)
  PROVE  PspOK'
<1> DEFINE t == [NoTxn EXCEPT !.status = "authorized", !.provider = m.provider,
                              !.auto = m.immediately]
<1>1. /\ m.op = "authorize" /\ m.ref \in Refs /\ m.ref <= Len(attempts)
      /\ txn[m.ref].status = "none" /\ m.amt = Amount /\ UNCHANGED db
      /\ txn \in [Refs -> TxnType]
  BY MessageFacts DEF PspAuthorize, PspOK, WireOK
<1>2. t.status = "authorized" /\ t.refunded = 0
  BY DEF NoTxn
<1>3. Captured(t, Amount).status = "captured" /\ Captured(t, Amount).captured = Amount
      /\ Captured(t, Amount).refunded = 0
  BY DEF Captured, NoTxn
<1>4. LET u == [t EXCEPT !.status = "requires_action"]
      IN  u.status = "requires_action" /\ u.refunded = 0
  BY DEF NoTxn
<1>5. PICK u, out :
        /\ Answer(m, out)
        /\ txn' = [txn EXCEPT ![m.ref] = u] \/ (txn' = txn /\ ~out.captured)
        /\ \/ u.status \in {"authorized", "requires_action"} /\ u.refunded = 0 /\ ~out.captured
           \/ /\ u.status = "captured" /\ u.captured = Amount /\ u.refunded = 0
              /\ out.amt = Amount
  <2> HIDE DEF t
  <2>1. CASE txn' = [txn EXCEPT ![m.ref] = t] /\ Answer(m, Approved(FALSE, 0))
    BY <1>2, <2>1, Answers
  <2>2. CASE txn' = [txn EXCEPT ![m.ref] = Captured(t, m.amt)] /\ Answer(m, Approved(TRUE, m.amt))
    <3>1. PICK w, o : w = Captured(t, Amount) /\ o = Approved(TRUE, Amount)
      OBVIOUS
    <3>2. w.status = "captured" /\ w.captured = Amount /\ w.refunded = 0 /\ o.amt = Amount
      BY <1>3, <3>1 DEF Approved
    <3>3. txn' = [txn EXCEPT ![m.ref] = w] /\ Answer(m, o)
      BY <1>1, <2>2, <3>1
    <3> QED
      BY <3>2, <3>3
  <2>3. CASE /\ txn' = [txn EXCEPT ![m.ref] = [t EXCEPT !.status = "requires_action"]]
             /\ Answer(m, ActionRequired)
    <3>1. PICK w : w = [t EXCEPT !.status = "requires_action"]
      OBVIOUS
    <3>2. w.status = "requires_action" /\ w.refunded = 0
      BY <1>4, <3>1
    <3>3. txn' = [txn EXCEPT ![m.ref] = w] /\ Answer(m, ActionRequired)
      BY <2>3, <3>1
    <3> QED
      BY <3>2, <3>3, Answers
  <2>4. CASE txn' = txn /\ \E cat \in Category \ {"provider_timeout"} : Answer(m, Failed(cat))
    BY <1>2, <2>4, Answers
  <2> QED
    BY <2>1, <2>2, <2>3, <2>4 DEF PspAuthorize, t
<1> HIDE DEF t
<1>6. PICK n : n = m.ref
  OBVIOUS
<1>7. CASE txn' = [txn EXCEPT ![m.ref] = u]
  <2>1. PspMoves /\ (\A j \in Refs : TxnOK(j)') /\ txn'[n] = u
        /\ \A j \in Refs : j # n => txn'[j] = txn[j]
    <3>1. n \in Refs /\ n <= Len(attempts) /\ txn[n].status = "none"
          /\ txn' = [txn EXCEPT ![n] = u]
      BY <1>1, <1>6, <1>7
    <3>2. /\ u.status \in Taken => u.captured \in 1 .. Amount /\ u.refunded <= u.captured
          /\ u.status \notin Taken => u.refunded = 0
          /\ u.status \in Taken => u.captured = Amount
      BY <1>5, Constants DEF Taken
    <3> QED
      BY <1>1, <3>1, <3>2, TxnChange DEF Taken
  <2> QED
    BY <1>1, <1>5, <1>6, <2>1, AnswerMoves DEF Taken
<1>8. CASE txn' = txn /\ ~out.captured
  BY <1>1, <1>5, <1>8, TxnSame, AnswerMoves
<1> QED
  BY <1>5, <1>7, <1>8

\* The PSP captures: once, and for the amount it answers.
LEMMA PspCaptureMoves ==
  ASSUME IInv, AttemptsOK, RefundsOK, PspOK, NEW m \in net, m.copy = NoTxn, PspCapture(m)
  PROVE  PspOK'
<1>1. PICK n : n = m.ref
  OBVIOUS
<1>0. View(m) = txn[n]
  BY <1>1 DEF View
<1>2. /\ m.op = "capture" /\ n \in Refs /\ m.amt \in 1 .. Amount /\ UNCHANGED db
      /\ row.status \in Early => m.amt = Amount
      /\ txn \in [Refs -> TxnType] /\ txn[n] \in TxnType /\ TxnOK(n)
  BY <1>1, MessageFacts DEF PspCapture, PspOK, WireOK
<1>3. CASE txn[n].status = "captured"
  <2>1. txn' = txn /\ Answer(m, Approved(TRUE, txn[n].captured))
    BY <1>0, <1>1, <1>3 DEF PspCapture
  <2>2. PICK amt : amt = txn[n].captured
    OBVIOUS
  <2>3. PICK out : out = Approved(TRUE, amt)
    OBVIOUS
  <2>4. Answer(m, out) /\ out.amt = txn'[n].captured /\ txn'[n].status \in Taken
    <3>1. out.amt = amt
      BY <2>3 DEF Approved
    <3> QED
      BY <1>3, <2>1, <2>2, <2>3, <3>1 DEF Taken
  <2>5. PspMoves /\ \A j \in Refs : TxnOK(j)'
    BY <1>2, <2>1, TxnSame
  <2> QED
    BY <1>1, <1>2, <2>1, <2>4, <2>5, AnswerMoves
<1>4. CASE txn[n].status \in {"authorized", "requires_action"}
  <2>1. PICK t, out : t = Captured(txn[n], m.amt) /\ out = Approved(TRUE, m.amt)
    OBVIOUS
  <2>2. txn' = [txn EXCEPT ![n] = t] /\ Answer(m, out)
    BY <1>0, <1>1, <1>4, <2>1 DEF PspCapture
  <2>3. /\ t.status = "captured" /\ t.captured = m.amt /\ t.refunded = 0
        /\ out.amt = m.amt
    <3>1. out.amt = m.amt
      BY <2>1 DEF Approved
    <3>2. txn[n].refunded = 0
      BY <1>2, <1>4 DEF TxnOK, Taken
    <3>3. t.status = "captured" /\ t.captured = m.amt /\ t.refunded = txn[n].refunded
      BY <1>2, <2>1 DEF Captured, TxnType
    <3> QED
      BY <3>1, <3>2, <3>3
  <2>4. n <= Len(attempts) /\ txn[n].status \notin Taken \cup {"voided", "none"}
    BY <1>2, <1>4 DEF TxnOK, Taken
  <2>5. /\ PspMoves /\ \A j \in Refs : TxnOK(j)'
        /\ txn'[n] = t /\ \A j \in Refs : j # n => txn'[j] = txn[j]
    <3>1. m.amt \in Nat /\ Amount \in Nat /\ 0 <= m.amt
      BY <1>2, Constants
    <3>2. t.captured \in 1 .. Amount /\ t.refunded <= t.captured /\ t.status \in Taken
      BY <1>2, <2>3, <3>1 DEF Taken
    <3> QED
      BY <1>2, <2>2, <2>3, <2>4, <3>2, TxnChange
  <2> QED
    BY <1>1, <1>2, <2>2, <2>3, <2>4, <2>5, AnswerMoves DEF Taken
<1>5. CASE txn[n].status \notin {"captured", "authorized", "requires_action"}
  <2>1. txn' = txn /\ Answer(m, Failed("declined_hard"))
    BY <1>0, <1>1, <1>5 DEF PspCapture
  <2>2. PspMoves /\ \A j \in Refs : TxnOK(j)'
    BY <1>2, <2>1, TxnSame
  <2>3. PICK out : out = Failed("declined_hard")
    OBVIOUS
  <2>4. Answer(m, out) /\ out.kind = "failed" /\ ~out.captured
    BY <2>1, <2>3, Answers
  <2> QED
    BY <1>2, <2>1, <2>2, <2>4, AnswerMoves
<1> QED
  BY <1>3, <1>4, <1>5

\* The PSP voids: never a transaction it has charged.
LEMMA PspVoidMoves ==
  ASSUME IInv, AttemptsOK, RefundsOK, PspOK, NEW m \in net, m.copy = NoTxn, PspVoid(m)
  PROVE  PspOK'
<1>1. PICK n : n = m.ref
  OBVIOUS
<1>0. View(m) = txn[n]
  BY <1>1 DEF View
<1>2. /\ m.op = "void" /\ n \in Refs /\ UNCHANGED db
      /\ txn \in [Refs -> TxnType] /\ txn[n] \in TxnType /\ TxnOK(n)
  BY <1>1, MessageFacts DEF PspVoid, PspOK
<1>3. CASE txn[n].status \in {"authorized", "requires_action", "voided"}
  <2>1. PICK t, out : t = [txn[n] EXCEPT !.status = "voided"] /\ out = Approved(FALSE, 0)
    OBVIOUS
  <2>2. txn' = [txn EXCEPT ![n] = t] /\ Answer(m, out)
    <3>1. CASE txn[n].status = "voided"
      <4>1. t = txn[n]
        BY <1>2, <2>1, <3>1 DEF TxnType
      <4>2. txn' = txn /\ Answer(m, out)
        BY <1>0, <1>1, <2>1, <3>1 DEF PspVoid
      <4> QED
        BY <1>2, <4>1, <4>2
    <3>2. CASE txn[n].status \in {"authorized", "requires_action"}
      BY <1>0, <1>1, <2>1, <3>2 DEF PspVoid
    <3> QED
      BY <1>3, <3>1, <3>2
  <2>3. t.status = "voided" /\ t.refunded = 0
    BY <1>2, <1>3, <2>1 DEF TxnType, TxnOK, Taken
  <2>4. n <= Len(attempts) /\ txn[n].status \notin Taken \cup {"none"}
    BY <1>2, <1>3 DEF TxnOK, Taken
  <2>5. /\ PspMoves /\ \A j \in Refs : TxnOK(j)'
        /\ txn'[n] = t /\ \A j \in Refs : j # n => txn'[j] = txn[j]
    BY <1>2, <2>2, <2>3, <2>4, TxnChange DEF Taken
  <2> QED
    BY <1>1, <1>2, <2>2, <2>3, <2>4, <2>5, AnswerMoves
<1>4. CASE txn[n].status \notin {"authorized", "requires_action", "voided"}
  <2>1. txn' = txn /\ Answer(m, Failed("declined_hard"))
    BY <1>0, <1>1, <1>4 DEF PspVoid
  <2>2. PspMoves /\ \A j \in Refs : TxnOK(j)'
    BY <1>2, <2>1, TxnSame
  <2>3. PICK out : out = Failed("declined_hard")
    OBVIOUS
  <2>4. Answer(m, out) /\ out.kind = "failed" /\ ~out.captured
    BY <2>1, <2>3, Answers
  <2> QED
    BY <1>2, <2>1, <2>2, <2>4, AnswerMoves
<1> QED
  BY <1>3, <1>4

\* The PSP refunds: once per key, and no more than it took.
LEMMA PspRefundMoves ==
  ASSUME IInv, AttemptsOK, RefundsOK, PspOK, NEW m \in net, m.copy = NoTxn, PspRefund(m)
  PROVE  PspOK'
<1>1. PICK n, k : n = m.ref /\ k = RefundKey[m.by]
  OBVIOUS
<1>0. View(m) = txn[n]
  BY <1>1 DEF View
<1>2. /\ m.op = "refund" /\ n \in Refs /\ UNCHANGED db /\ m.amt \in Nat
      /\ txn \in [Refs -> TxnType] /\ txn[n] \in TxnType /\ TxnOK(n)
  BY <1>1, MessageFacts DEF PspRefund, PspOK
<1>3. CASE k \in txn[n].done
  <2>1. txn' = txn /\ Answer(m, Approved(FALSE, 0))
    BY <1>1, <1>3 DEF PspRefund
  <2>2. PspMoves /\ \A j \in Refs : TxnOK(j)'
    BY <1>2, <2>1, TxnSame
  <2> QED
    BY <1>1, <1>2, <1>3, <2>1, <2>2, AnswerMoves
<1>4. CASE txn' = txn /\ Answer(m, Failed("declined_hard"))
  <2>1. PspMoves /\ \A j \in Refs : TxnOK(j)'
    BY <1>2, <1>4, TxnSame
  <2>2. PICK out : out = Failed("declined_hard")
    OBVIOUS
  <2>3. Answer(m, out) /\ out.kind = "failed" /\ ~out.captured
    BY <1>4, <2>2, Answers
  <2> QED
    BY <1>2, <1>4, <2>1, <2>3, AnswerMoves
<1>5. CASE /\ k \notin txn[n].done /\ ~(txn' = txn /\ Answer(m, Failed("declined_hard")))
  <2>1. PICK due : due = txn[n].refunded + m.amt
    OBVIOUS
  <2>2. PICK st : st = IF due = txn[n].captured THEN "refunded" ELSE "partially_refunded"
    OBVIOUS
  <2>3. PICK t : t = [txn[n] EXCEPT !.refunded = due, !.done = @ \cup {k}, !.status = st]
    OBVIOUS
  <2>4. PICK out :
          /\ Answer(m, out) /\ txn' = [txn EXCEPT ![n] = t]
          /\ txn[n].status \in {"captured", "partially_refunded"} /\ ~(due > txn[n].captured)
    BY <1>0, <1>1, <1>5, <2>1, <2>2, <2>3 DEF PspRefund
  <2>5. /\ t.refunded = due /\ t.done = txn[n].done \cup {k} /\ t.status = st
        /\ t.captured = txn[n].captured /\ st \in Taken
    <3>1. t = [[[txn[n] EXCEPT !.refunded = due] EXCEPT !.done = txn[n].done \cup {k}]
                 EXCEPT !.status = st]
      BY <1>2, <2>3 DEF TxnType
    <3> QED
      BY <1>2, <2>2, <3>1 DEF TxnType, Taken
  <2>6. /\ due \in Nat /\ txn[n].captured \in 1 .. Amount /\ due <= txn[n].captured
        /\ n <= Len(attempts) /\ txn[n].status \in Taken
        /\ txn[n].status \notin {"none", "voided"}
        /\ row.status \in Early => txn[n].captured = Amount
    BY <1>2, <2>1, <2>4, Constants DEF TxnType, TxnOK, Taken
  <2>7. /\ PspMoves /\ \A j \in Refs : TxnOK(j)'
        /\ txn'[n] = t /\ \A j \in Refs : j # n => txn'[j] = txn[j]
    BY <1>2, <2>4, <2>5, <2>6, TxnChange
  <2> QED
    BY <1>1, <1>2, <2>4, <2>5, <2>6, <2>7, AnswerMoves
<1> QED
  BY <1>3, <1>4, <1>5

\* A step of the payer or of the clock: no call and no row is involved.
LEMMA OutsideMoves ==
  ASSUME IInv, RefundsOK, PspOK, UNCHANGED <<db, net, req>>, PspMoves,
         \A n \in Refs : (TxnOK(n))',
         \A n \in Refs : txn[n].status = "none" => txn'[n].status = "none"
  PROVE  PspOK'
<1>1. row' = row /\ attempts' = attempts /\ refunds' = refunds /\ net' = net /\ req' = req
  BY DEF db
<1>2. ASSUME NEW m \in net PROVE WireOK(m)'
  BY <1>1, MessageFacts DEF PspOK, WireOK
<1>3. ASSUME NEW s \in Callers PROVE Knows(s, req[s])'
  <2>1. PICK e : e = req[s]
    OBVIOUS
  <2>2. Knows(s, e) /\ Backed
    BY <2>1 DEF PspOK
  <2>3. Knows(s, e)'
    BY <1>1, <2>1, <2>2, KnowsStays
  <2> QED
    BY <1>1, <2>1, <2>3 DEF Knows
<1>4. Backed'
  <2>1. row.status \in Taken \cup {"voided"} => row.ref \in Refs
    BY DEF IInv, RowOK, Taken, Status
  <2>2. Backed
    BY DEF PspOK
  <2> QED
    BY <1>1, <2>1, <2>2 DEF Backed, PspMoves
<1> QED
  BY <1>1, <1>2, <1>3, <1>4 DEF PspOK, OneEach

\* The payer finishes the authentication, or fails it.
LEMMA PspActionMoves ==
  ASSUME IInv, RefundsOK, PspOK, NEW n \in Refs, PspAction(n)
  PROVE  PspOK'
<1>1. /\ txn[n] \in TxnType /\ TxnOK(n) /\ txn[n].status = "requires_action"
      /\ UNCHANGED <<db, net, req>> /\ Amount \in 1 .. Amount
  BY Constants DEF IInv, StoreOK, PspOK, PspAction
<1>2. \E t : /\ txn' = [txn EXCEPT ![n] = t]
             /\ t.refunded = 0
             /\ \/ t.status \in {"authorized", "failed"}
                \/ t.status = "captured" /\ t.captured = Amount
  <2>1. txn[n].refunded = 0
    BY <1>1 DEF TxnOK, Taken
  <2>2. CASE txn' = [txn EXCEPT ![n].status = "authorized"]
    <3>1. PICK t : t = [txn[n] EXCEPT !.status = "authorized"]
      OBVIOUS
    <3>2. t.status = "authorized" /\ t.refunded = 0 /\ txn' = [txn EXCEPT ![n] = t]
      BY <1>1, <2>1, <2>2, <3>1 DEF TxnType
    <3> QED
      BY <3>2
  <2>3. CASE txn' = [txn EXCEPT ![n] = Captured(@, Amount)]
    <3>1. PICK t : t = Captured(txn[n], Amount)
      OBVIOUS
    <3>2. /\ t.status = "captured" /\ t.captured = Amount /\ t.refunded = 0
          /\ txn' = [txn EXCEPT ![n] = t]
      BY <1>1, <2>1, <2>3, <3>1 DEF TxnType, Captured
    <3> QED
      BY <3>2
  <2>4. CASE txn' = [txn EXCEPT ![n].status = "failed"]
    <3>1. PICK t : t = [txn[n] EXCEPT !.status = "failed"]
      OBVIOUS
    <3>2. t.status = "failed" /\ t.refunded = 0 /\ txn' = [txn EXCEPT ![n] = t]
      BY <1>1, <2>1, <2>4, <3>1 DEF TxnType
    <3> QED
      BY <3>2
  <2> QED
    BY <2>2, <2>3, <2>4 DEF PspAction
<1>3. PICK t : /\ txn' = [txn EXCEPT ![n] = t]
               /\ t.refunded = 0
               /\ \/ t.status \in {"authorized", "failed"}
                  \/ t.status = "captured" /\ t.captured = Amount
  BY <1>2
<1>4. /\ n <= Len(attempts) /\ txn[n].status \notin Taken \cup {"voided", "none"}
      /\ t.status \in Taken => t.captured = Amount /\ t.captured \in 1 .. Amount
      /\ t.status \in Taken => t.refunded <= t.captured
  BY <1>1, <1>3, Constants DEF TxnOK, Taken
<1>5. /\ PspMoves /\ \A j \in Refs : TxnOK(j)'
      /\ txn'[n] = t /\ \A j \in Refs : j # n => txn'[j] = txn[j]
  BY <1>1, <1>3, <1>4, TxnChange
<1> QED
  BY <1>1, <1>4, <1>5, OutsideMoves

\* The transactions that neither charge, void nor refund.
PlainTx ==
  \/ UNCHANGED db
  \/ \E prov \in Providers : TxInsert(prov)
  \/ TxChallenge \/ TxUnknown
  \/ \E prov \in Providers, st \in {"declined", "unavailable"} : TxFailover(st, prov)
  \/ \E st \in {"declined", "unavailable", "unknown"}, ref \in Refs \cup {0} : TxReject(st, ref)
  \/ \E ref \in Refs : TxApprove(ref)

\* A mark keeps the number of attempts.
LEMMA MarkKeepsLength ==
  ASSUME IInv, NEW st \in {"requires_action", "unknown", "declined", "unavailable", "approved"},
         NEW ref \in Refs \cup {0}
  PROVE  /\ Len(Marked(Len(attempts), st, ref)) = Len(attempts)
         /\ \A a \in AttemptType :
              Len(Append(Marked(Len(attempts), st, ref), a)) = Len(attempts) + 1
<1>1. st \in AttemptStatuses /\ attempts \in Seq(AttemptType)
  BY DEF IInv, StoreOK, AttemptStatuses
<1>2. PICK ats : ats = Marked(Len(attempts), st, ref)
  OBVIOUS
<1>3. ats \in Seq(AttemptType) /\ Len(ats) = Len(attempts)
  BY <1>1, <1>2, MarkedTyped
<1>4. \A a \in AttemptType : Len(Append(ats, a)) = Len(ats) + 1
  BY <1>3
<1> QED
  BY <1>2, <1>3, <1>4

\* They leave the PSP's side of the payment alone.
LEMMA PlainTxMoves ==
  ASSUME IInv, IInv', AttemptsOK, Backed, txn' = txn, PlainTx
  PROVE  RowMoves /\ Backed'
<1>1. CASE UNCHANGED db
  BY <1>1 DEF RowMoves, Backed, db, IInv, StoreOK
<1>2. CASE ~UNCHANGED db
  <2>1. /\ row.status \in {"none", "created", "requires_action"}
        /\ row'.status \notin Taken \cup {"voided"}
    BY <1>2 DEF PlainTx, TxInsert, TxChallenge, TxUnknown, TxFailover, TxReject, TxApprove,
                Logs, NoRow, Taken
  <2>2. Len(attempts) <= Len(attempts')
    <3>1. Len(attempts) \in Nat /\ Len(attempts') \in Nat /\ Len(attempts) \in Refs \cup {0}
      BY DEF IInv, StoreOK, Refs
    <3>2. ASSUME NEW prov \in Providers, TxInsert(prov) PROVE Len(attempts') >= Len(attempts)
      <4>1. row.status = "none"
        BY <3>2 DEF TxInsert, NoRow
      <4>2. attempts = <<>>
        BY <4>1 DEF AttemptsOK
      <4>3. Len(attempts) = 0
        BY <4>2
      <4> QED
        BY <3>1, <4>3
    <3>3. CASE TxChallenge \/ TxUnknown
      BY <3>1, <3>3, MarkKeepsLength DEF TxChallenge, TxUnknown, MarksLast
    <3>4. ASSUME NEW prov \in Providers, NEW st \in {"declined", "unavailable"},
                 TxFailover(st, prov)
          PROVE  Len(attempts') >= Len(attempts)
      <4>1. NewAttempt(prov) \in AttemptType
        BY Constants DEF NewAttempt, AttemptType, AttemptStatuses
      <4> QED
        BY <3>1, <3>4, <4>1, MarkKeepsLength DEF TxFailover
    <3>5. ASSUME NEW st \in {"declined", "unavailable", "unknown"}, NEW ref \in Refs \cup {0},
                 TxReject(st, ref)
          PROVE  Len(attempts') >= Len(attempts)
      BY <3>1, <3>5, MarkKeepsLength DEF TxReject, MarksLast
    <3>6. ASSUME NEW ref \in Refs, TxApprove(ref) PROVE Len(attempts') >= Len(attempts)
      BY <3>1, <3>6, MarkKeepsLength DEF TxApprove, MarksLast
    <3> QED
      BY <1>2, <3>1, <3>2, <3>3, <3>4, <3>5, <3>6 DEF PlainTx
  <2> QED
    BY <2>1, <2>2 DEF RowMoves, Backed, Early, Taken
<1> QED
  BY <1>1, <1>2

\* Before a payment is charged it has no refund.
LEMMA NoRefundYet ==
  ASSUME RefundsOK, row.status \notin Taken, refunds' = refunds
  PROVE  \A k \in RefundKeys : refunds'[k].status # "succeeded"
BY DEF RefundsOK

\* A charge is recorded after the PSP made it, and for its amount.
LEMMA ChargeMoves ==
  ASSUME IInv, RefundsOK, txn' = txn, NEW ref \in Refs, NEW amt, txn[ref].status \in Taken,
         txn[ref].captured = amt,
         TxApproveAndTake(ref, amt) \/ (TxTake(amt) /\ ref = row.ref)
  PROVE  RowMoves /\ Backed'
<1>1. /\ row.status \notin Taken /\ row'.status = "captured" /\ row'.captured = amt
      /\ row'.ref = ref /\ refunds' = refunds
  BY DEF TxApproveAndTake, TxTake, Logs, SameRoute, Taken
<1>2. Len(attempts') = Len(attempts) /\ Len(attempts) \in Nat
  BY MarkKeepsLength DEF TxApproveAndTake, TxTake, MarksLast, IInv, StoreOK
<1>3. RowMoves
  BY <1>1, <1>2 DEF RowMoves, Early
<1>4. Backed'
  BY <1>1, NoRefundYet DEF Backed
<1> QED
  BY <1>3, <1>4

\* A void is recorded after the PSP made it.
LEMMA VoidMoves ==
  ASSUME IInv, txn' = txn, TxVoid, txn[row.ref].status = "voided"
  PROVE  RowMoves /\ Backed'
<1>1. /\ row.status \notin Taken /\ row'.status = "voided" /\ row'.ref = row.ref
      /\ attempts' = attempts
  BY DEF TxVoid, Logs, SameRoute, Taken
<1>2. RowMoves
  BY <1>1 DEF RowMoves, Early, IInv, StoreOK
<1>3. Backed'
  BY <1>1 DEF Backed, Taken
<1> QED
  BY <1>2, <1>3

\* A refund succeeds only after the PSP gave the money back.
LEMMA RefundMoves ==
  ASSUME IInv, Backed, txn' = txn, NEW k \in RefundKeys, NEW amt,
         \/ TxReserve(k, amt) \/ TxRelease(k, amt)
         \/ TxGiveBack(k, amt) /\ k \in txn[row.ref].done
  PROVE  RowMoves /\ Backed'
<1>1. /\ row.status \in Taken /\ row'.status \in Taken /\ row'.ref = row.ref
      /\ row'.captured = row.captured /\ attempts' = attempts
  BY DEF TxReserve, TxRelease, TxGiveBack, Logs, SameRoute, Taken, RefundedStatus
<1>2. \A j \in RefundKeys : refunds'[j].status = "succeeded" =>
        refunds[j].status = "succeeded" \/ (j = k /\ k \in txn[row.ref].done)
  <2>1. refunds \in [RefundKeys -> RefundType]
    BY DEF IInv, StoreOK
  <2>2. \A j \in RefundKeys : j # k => refunds'[j] = refunds[j]
    BY <2>1 DEF TxReserve, TxRelease, TxGiveBack
  <2>3. CASE TxReserve(k, amt)
    <3>1. refunds'[k] = [status |-> "pending", amount |-> amt]
      BY <2>1, <2>3 DEF TxReserve
    <3>2. refunds'[k].status = "pending"
      BY <3>1
    <3> QED
      BY <2>2, <3>2
  <2>4. CASE TxRelease(k, amt)
    <3>1. refunds'[k].status = "failed"
      BY <2>1, <2>4 DEF TxRelease, RefundType
    <3> QED
      BY <2>2, <3>1
  <2>5. CASE TxGiveBack(k, amt) /\ k \in txn[row.ref].done
    BY <2>2, <2>5
  <2> QED
    BY <2>3, <2>4, <2>5
<1>3. RowMoves
  BY <1>1 DEF RowMoves, Early, Taken, IInv, StoreOK
<1>4. Backed'
  BY <1>1, <1>2 DEF Backed, Taken
<1> QED
  BY <1>3, <1>4

\* What holds before every step.
Linked == IInv /\ AttemptsOK /\ RefundsOK /\ PspOK

\* A call that returns to its client.
LEMMA EndMoves ==
  ASSUME Linked, IInv', NEW r \in Callers, End(r), txn' = txn, net' = net, RowMoves, Backed'
  PROVE  PspOK'
<1>1. PICK c : c = Done
  OBVIOUS
<1>2. c.pc = "done" /\ req' = [req EXCEPT ![r] = c]
  BY <1>1, Constructors DEF End
<1>3. Knows(r, c)'
  BY <1>2 DEF Knows, Refunding
<1>4. Onward(req[r].pc, c.pc)
  BY <1>2 DEF Onward, CaptureSent, VoidSent
<1>5. PICK sent : sent = {}
  OBVIOUS
<1>6. net' = net \cup sent /\ \A m \in sent : FALSE
  BY <1>5
<1> QED
  BY <1>2, <1>3, <1>4, <1>6, CallMoves DEF Linked

\* A call that returns after a transaction that neither charges, voids nor refunds.
LEMMA PlainEnd ==
  ASSUME Linked, IInv', NEW r \in Callers, End(r), txn' = txn, net' = net, PlainTx
  PROVE  PspOK'
<1>1. RowMoves /\ Backed'
  BY PlainTxMoves DEF Linked, PspOK
<1> QED
  BY <1>1, EndMoves

\* A call that only moves on.
LEMMA QuietMoves ==
  ASSUME Linked, IInv', NEW r \in Callers, NEW c, req' = [req EXCEPT ![r] = c],
         UNCHANGED <<db, txn, net>>, Knows(r, c), Onward(req[r].pc, c.pc)
  PROVE  PspOK'
<1>1. RowMoves /\ Backed'
  BY PlainTxMoves DEF Linked, PspOK, PlainTx
<1>2. Knows(r, c)'
  BY DEF Knows, db
<1>3. PICK sent : sent = {}
  OBVIOUS
<1>4. net' = net \cup sent /\ \A m \in sent : FALSE
  BY <1>3
<1> QED
  BY <1>1, <1>2, <1>4, CallMoves DEF Linked

\* A call that moves on and sends a message.
LEMMA SendMoves ==
  ASSUME Linked, IInv', NEW r \in Callers, NEW c, req' = [req EXCEPT ![r] = c],
         UNCHANGED <<db, txn>>, Knows(r, c), Onward(req[r].pc, c.pc),
         NEW m, net' = net \cup {m}, m.op # "authorize", WireOK(m)'
  PROVE  PspOK'
<1>1. RowMoves /\ Backed'
  BY PlainTxMoves DEF Linked, PspOK, PlainTx
<1>2. Knows(r, c)'
  BY DEF Knows, db
<1>3. PICK sent : sent = {m}
  OBVIOUS
<1>4. /\ net' = net \cup sent /\ \A o, q \in sent : o = q
      /\ \A o \in sent : o = m
  BY <1>3
<1>5. \A o \in sent : (WireOK(o))' /\ (o.op = "authorize" => o.ref > Len(attempts))
  BY <1>4
<1> QED
  BY <1>1, <1>2, <1>4, <1>5, CallMoves DEF Linked

\* A call in its saga that moves on towards applying its answer, with no more than it knew.
LEMMA SagaMoves ==
  ASSUME Linked, IInv', NEW r \in Callers, NEW c, req' = [req EXCEPT ![r] = c],
         UNCHANGED <<db, txn, net>>,
         req[r].pc \in {"authorizing", "resolving", "applying"},
         c.pc \in {"resolving", "applying", "approving"},
         c.p = req[r].p, c.att = req[r].att,
         c.out.captured => c.out = req[r].out
  PROVE  PspOK'
<1>1. Knows(r, req[r])
  BY DEF Linked, PspOK
<1>2. Reference(c) = Reference(req[r])
  BY DEF Reference
<1>3. Knows(r, c)
  BY <1>1, <1>2 DEF Knows, Refunding
<1>4. Onward(req[r].pc, c.pc)
  <2>1. c.pc = "approving" => req[r].pc # "approving"
    OBVIOUS
  <2> QED
    BY DEF Onward, CaptureSent, VoidSent
<1> QED
  BY <1>3, <1>4, QuietMoves

\* A call that a crash ends, or whose client hangs up.
LEMMA LeaveMoves ==
  ASSUME Linked, IInv', NEW r \in Callers, Crash(r) \/ ClientCancel(r)
  PROVE  PspOK'
<1>1. CASE Crash(r)
  BY <1>1, PlainEnd DEF Crash, PlainTx
<1>2. CASE ClientCancel(r)
  <2>1. PICK c : c = [Done EXCEPT !.pc = "cancelled", !.att = req[r].att,
                        !.out = IF req[r].pc \in {"applying", "approving"}
                                  THEN req[r].out ELSE NoOut]
    OBVIOUS
  <2>2. req' = [req EXCEPT ![r] = c] /\ UNCHANGED <<db, txn, net>>
    BY <1>2, <2>1 DEF ClientCancel
  <2>3. c.pc = "cancelled"
    BY <2>1 DEF Done, Idle
  <2>4. Knows(r, c) /\ Onward(req[r].pc, c.pc)
    BY <2>3 DEF Knows, Onward, CaptureSent, VoidSent, Refunding
  <2> QED
    BY <2>2, <2>4, QuietMoves
<1> QED
  BY <1>1, <1>2

\* The idempotency lookups of CreatePayment and CreateRefund.
LEMMA LookupMoves ==
  ASSUME Linked, IInv', NEW r \in Callers, req[r].pc = "idle", UNCHANGED <<db, txn, net>>,
         NEW pc \in {"inserting", "reserving"}, Goto(r, pc)
  PROVE  PspOK'
<1>1. req[r] \in ReqType /\ Knows(r, req[r])
  BY DEF Linked, PspOK, IInv
<1>2. PICK c : c = [req[r] EXCEPT !.pc = pc]
  OBVIOUS
<1>3. c.pc = pc /\ c.out = req[r].out /\ req' = [req EXCEPT ![r] = c]
  BY <1>1, <1>2 DEF Goto, ReqType
<1>4. Knows(r, c) /\ Onward(req[r].pc, c.pc)
  BY <1>1, <1>3 DEF Knows, Onward, CaptureSent, VoidSent, Refunding
<1> QED
  BY <1>3, <1>4, QuietMoves

\* authorizeOnce returns what the PSP said, or a transport error.
LEMMA AuthorizeReturnsMoves ==
  ASSUME Linked, IInv', NEW r \in Creators, AuthorizeReturns(r)
  PROVE  PspOK'
<1>1. r \in Callers /\ req[r] \in ReqType /\ req[r].pc = "authorizing"
  BY Roles DEF Linked, IInv, AuthorizeReturns
<1>2. PICK out \in {req[r].out} \cup TransportErrors, pc \in {"resolving", "applying"} :
        req' = [req EXCEPT ![r].out = out, ![r].tries = MaxResolve, ![r].pc = pc]
  BY DEF AuthorizeReturns
<1>3. PICK c : c = [req[r] EXCEPT !.out = out, !.tries = MaxResolve, !.pc = pc]
  OBVIOUS
<1>4. c.p = req[r].p /\ c.att = req[r].att /\ c.pc = pc /\ c.out = out
  BY <1>1, <1>3 DEF ReqType
<1>5. req' = [req EXCEPT ![r] = c]
  BY <1>2, <1>3
<1>6. c.out.captured => c.out = req[r].out
  BY <1>4 DEF TransportErrors, Failed, NoOut
<1>7. UNCHANGED <<db, txn, net>>
  BY DEF AuthorizeReturns
<1> QED
  BY <1>1, <1>4, <1>5, <1>6, <1>7, SagaMoves

\* resolveUnknown asks for a reference that the attempt does not have, and so learns
\* nothing of a charge.
LEMMA ResolveUnknownMoves ==
  ASSUME Linked, IInv', NEW r \in Creators, ResolveUnknown(r)
  PROVE  PspOK'
<1>1. r \in Callers /\ req[r] \in ReqType /\ req[r].pc = "resolving"
  BY Roles DEF Linked, IInv, ResolveUnknown
<1>2. UNCHANGED <<db, txn, net>>
  BY DEF ResolveUnknown
<1>3. attempts[req[r].att].ref = 0
  BY <1>1 DEF Linked, IInv, CallOK, Saga, AttemptsOK
<1>4. StatusOf(attempts[req[r].att].provider, attempts[req[r].att].ref) = "not_found"
  BY <1>3, Constants DEF StatusOf
<1>5. \/ req' = [req EXCEPT ![r].out = Failed("provider_unavailable"), ![r].pc = "applying"]
      \/ req' = [req EXCEPT ![r].tries = @ - 1]
      \/ req' = [req EXCEPT ![r].pc = "applying"]
  BY <1>4 DEF ResolveUnknown, Goto, DeadAtPsp
<1>6. CASE req' = [req EXCEPT ![r].out = Failed("provider_unavailable"), ![r].pc = "applying"]
  <2>1. PICK out : out = Failed("provider_unavailable")
    OBVIOUS
  <2>2. PICK c : c = [req[r] EXCEPT !.out = out, !.pc = "applying"]
    OBVIOUS
  <2>3. c.p = req[r].p /\ c.att = req[r].att /\ c.pc = "applying" /\ c.out = out
    BY <1>1, <2>2 DEF ReqType
  <2>4. req' = [req EXCEPT ![r] = c]
    BY <1>6, <2>1, <2>2
  <2>5. ~c.out.captured
    BY <2>1, <2>3 DEF Failed, NoOut
  <2> QED
    BY <1>1, <1>2, <2>3, <2>4, <2>5, SagaMoves
<1>7. CASE req' = [req EXCEPT ![r].tries = @ - 1]
  <2>1. PICK c : c = [req[r] EXCEPT !.tries = @ - 1]
    OBVIOUS
  <2>2. c.p = req[r].p /\ c.att = req[r].att /\ c.pc = "resolving" /\ c.out = req[r].out
    BY <1>1, <2>1 DEF ReqType
  <2>3. req' = [req EXCEPT ![r] = c]
    BY <1>7, <2>1
  <2> QED
    BY <1>1, <1>2, <2>2, <2>3, SagaMoves
<1>8. CASE req' = [req EXCEPT ![r].pc = "applying"]
  <2>1. PICK c : c = [req[r] EXCEPT !.pc = "applying"]
    OBVIOUS
  <2>2. c.p = req[r].p /\ c.att = req[r].att /\ c.pc = "applying" /\ c.out = req[r].out
    BY <1>1, <2>1 DEF ReqType
  <2>3. req' = [req EXCEPT ![r] = c]
    BY <1>8, <2>1
  <2> QED
    BY <1>1, <1>2, <2>2, <2>3, SagaMoves
<1> QED
  BY <1>5, <1>6, <1>7, <1>8

\* captureNow is asked for the whole amount, under the reference of the approval.
LEMMA ApprovedNeedsCaptureMoves ==
  ASSUME Linked, IInv', NEW r \in Creators \cup Confirmers, ApprovedNeedsCapture(r)
  PROVE  PspOK'
<1>1. /\ r \in Callers /\ req[r] \in ReqType /\ Reference(req[r]) \in Refs
      /\ req[r].pc = "applying" /\ r \notin Capturers
  BY ApproverHolds, Roles DEF ApprovedNeedsCapture, Linked
<1>2. UNCHANGED <<db, txn>>
  BY DEF ApprovedNeedsCapture
<1>3. CASE End(r) /\ UNCHANGED net
  BY <1>1, <1>2, <1>3, PlainEnd DEF PlainTx
<1>4. CASE ~(End(r) /\ UNCHANGED net)
  <2>1. PICK c : c = [req[r] EXCEPT !.pc = "capturing", !.amt = Amount, !.out = NoOut]
    OBVIOUS
  <2>2. c.p = req[r].p /\ c.att = req[r].att /\ c.pc = "capturing" /\ c.out = NoOut
    BY <1>1, <2>1 DEF ReqType
  <2>3. PICK m : m = Message("capture", r, attempts[req[r].att].provider,
                             Reference(req[r]), Amount, FALSE)
    OBVIOUS
  <2>4. req' = [req EXCEPT ![r] = c] /\ net' = net \cup {m}
    BY <1>4, <2>1, <2>3 DEF ApprovedNeedsCapture
  <2>5. m.op = "capture" /\ m.by = r /\ m.ref = Reference(req[r]) /\ m.amt = Amount
    BY <2>3 DEF Message
  <2>6. Reference(c) = Reference(req[r])
    BY <2>2 DEF Reference
  <2>7. req'[r] = c
    BY <1>1, <2>4 DEF Linked, IInv
  <2>8. WireOK(m)'
    BY <2>2, <2>5, <2>6, <2>7, Constants DEF WireOK, CaptureSent
  <2>9. Knows(r, c) /\ Onward(req[r].pc, c.pc)
    BY <1>1, <2>2 DEF Knows, Onward, CaptureSent, VoidSent, Refunding, NoOut
  <2> QED
    BY <1>1, <1>2, <2>4, <2>5, <2>8, <2>9, SendMoves
<1> QED
  BY <1>3, <1>4

\* captureNow returns: only a capture the PSP confirmed counts as one.
LEMMA CaptureNowReturnsMoves ==
  ASSUME Linked, IInv', NEW r \in Creators \cup Confirmers, CaptureNowReturns(r)
  PROVE  PspOK'
<1>1. /\ r \in Callers /\ req[r] \in ReqType /\ req[r].pc = "capturing"
      /\ r \notin Capturers /\ Knows(r, req[r])
  BY ApproverHolds, Roles DEF CaptureNowReturns, Linked, PspOK
<1>2. PICK out \in {req[r].out} \cup TransportErrors :
        req' = [req EXCEPT ![r].pc = "approving", ![r].out = Approved(Succeeded(out), 0)]
  BY DEF CaptureNowReturns
<1>3. PICK o : o = Approved(Succeeded(out), 0)
  OBVIOUS
<1>4. o.amt = 0 /\ (o.captured => out = req[r].out /\ out.kind = "approved")
  <2>1. o.amt = 0 /\ o.captured = (out.kind = "approved")
    BY <1>3 DEF Approved, Succeeded
  <2>2. \A x \in TransportErrors : x.kind = "failed"
    BY DEF TransportErrors, Failed, NoOut
  <2> QED
    BY <2>1, <2>2
<1>5. PICK c : c = [req[r] EXCEPT !.pc = "approving", !.out = o]
  OBVIOUS
<1>6. c.p = req[r].p /\ c.att = req[r].att /\ c.pc = "approving" /\ c.out = o
  BY <1>1, <1>5 DEF ReqType
<1>7. req' = [req EXCEPT ![r] = c]
  BY <1>2, <1>3, <1>5
<1>8. Reference(c) = Reference(req[r])
  BY <1>6 DEF Reference
<1>9. Knows(r, c) /\ Onward(req[r].pc, c.pc)
  BY <1>1, <1>4, <1>6, <1>8 DEF Knows, Onward, CaptureSent, VoidSent, Refunding
<1>10. UNCHANGED <<db, txn, net>>
  BY DEF CaptureNowReturns
<1> QED
  BY <1>1, <1>7, <1>9, <1>10, QuietMoves

\* An approval that needs no capture.
LEMMA ApprovedAsIsMoves ==
  ASSUME Linked, IInv', NEW r \in Creators \cup Confirmers, ApprovedAsIs(r)
  PROVE  PspOK'
<1>1. r \in Callers /\ req[r] \in ReqType /\ req[r].pc = "applying"
  BY ApproverHolds DEF ApprovedAsIs, Linked
<1>2. UNCHANGED <<db, txn, net>>
  BY DEF ApprovedAsIs
<1>3. CASE End(r)
  BY <1>1, <1>2, <1>3, PlainEnd DEF PlainTx
<1>4. CASE Goto(r, "approving")
  <2>1. PICK c : c = [req[r] EXCEPT !.pc = "approving"]
    OBVIOUS
  <2>2. c.p = req[r].p /\ c.att = req[r].att /\ c.pc = "approving" /\ c.out = req[r].out
    BY <1>1, <2>1 DEF ReqType
  <2>3. req' = [req EXCEPT ![r] = c]
    BY <1>4, <2>1 DEF Goto
  <2> QED
    BY <1>1, <1>2, <2>2, <2>3, SagaMoves
<1> QED
  BY <1>3, <1>4 DEF ApprovedAsIs

\* The approval is recorded as a capture only for what the PSP has taken: before
\* that every capture is for the whole amount.
LEMMA ApplyApprovedMoves ==
  ASSUME Linked, IInv', NEW r \in Creators \cup Confirmers, ApplyApproved(r)
  PROVE  PspOK'
<1>1. /\ r \in Callers /\ req[r] \in ReqType /\ req[r].pc = "approving" /\ Knows(r, req[r])
      /\ req[r].p.status \in {"created", "requires_action"}
  BY ApproverHolds DEF ApplyApproved, Linked, PspOK
<1>2. End(r) /\ txn' = txn /\ net' = net
  BY DEF ApplyApproved
<1>3. PICK ref : ref = Reference(req[r])
  OBVIOUS
<1>4. PICK amt : amt = CapturedAmount(req[r].out)
  OBVIOUS
<1>5. \/ UNCHANGED db \/ (ref \in Refs /\ TxApprove(ref))
      \/ /\ req[r].p = row /\ ref \in Refs /\ req[r].out.captured /\ TxApproveAndTake(ref, amt)
  BY <1>3, <1>4, ApplyApprovedWrites DEF Linked
<1>6. CASE UNCHANGED db \/ (ref \in Refs /\ TxApprove(ref))
  BY <1>1, <1>2, <1>6, PlainEnd DEF PlainTx
<1>7. CASE /\ req[r].p = row /\ ref \in Refs /\ req[r].out.captured
           /\ TxApproveAndTake(ref, amt)
  <2>1. txn[ref].status \in Taken /\ req[r].out.amt \in {0, txn[ref].captured}
    BY <1>1, <1>3, <1>7 DEF Knows
  <2>2. row.status \in Early
    BY <1>1, <1>7 DEF Early
  <2>3. txn[ref].captured = Amount
    BY <1>7, <2>1, <2>2 DEF Linked, PspOK, TxnOK
  <2>4. txn[ref].captured = amt
    BY <1>4, <2>1, <2>3, Constants DEF CapturedAmount
  <2>5. RowMoves /\ Backed'
    BY <1>2, <1>7, <2>1, <2>4, ChargeMoves DEF Linked
  <2> QED
    BY <1>1, <1>2, <2>5, EndMoves
<1> QED
  BY <1>5, <1>6, <1>7

\* ConfirmPayment loads the payment.
LEMMA ConfirmLoadMoves ==
  ASSUME Linked, IInv', NEW r \in Confirmers, ConfirmLoad(r)
  PROVE  PspOK'
<1>1. /\ r \in Callers /\ req[r] \in ReqType /\ req[r].pc = "idle" /\ Knows(r, req[r])
      /\ UNCHANGED <<db, txn, net>>
  BY Roles DEF ConfirmLoad, Linked, PspOK, IInv
<1>2. CASE End(r)
  BY <1>1, <1>2, PlainEnd DEF PlainTx
<1>3. CASE ~End(r)
  <2>1. PICK i, late :
          req' = [req EXCEPT ![r].pc = "confirming", ![r].p = row, ![r].att = i,
                             ![r].late = late]
    BY <1>3 DEF ConfirmLoad
  <2>2. PICK c : c = [req[r] EXCEPT !.pc = "confirming", !.p = row, !.att = i, !.late = late]
    OBVIOUS
  <2>3. c.pc = "confirming" /\ c.out = req[r].out
    BY <1>1, <2>2 DEF ReqType
  <2>4. req' = [req EXCEPT ![r] = c]
    BY <2>1, <2>2
  <2>5. Knows(r, c) /\ Onward(req[r].pc, c.pc)
    BY <1>1, <2>3 DEF Knows, Onward, CaptureSent, VoidSent, Refunding
  <2> QED
    BY <1>1, <2>4, <2>5, QuietMoves
<1> QED
  BY <1>2, <1>3

\* ConfirmPayment reads at the PSP that the payment was captured, and for how much.
LEMMA ConfirmQueryMoves ==
  ASSUME Linked, IInv', NEW r \in Confirmers, ConfirmQuery(r)
  PROVE  PspOK'
<1>1. /\ r \in Callers /\ req[r] \in ReqType /\ req[r].pc = "confirming"
      /\ UNCHANGED <<db, txn, net>>
  BY Roles DEF ConfirmQuery, Linked, IInv
<1>2. CASE End(r)
  BY <1>1, <1>2, PlainEnd DEF PlainTx
<1>3. CASE ~End(r)
  <2>1. PICK n : n = req[r].p.ref
    OBVIOUS
  <2>2. PICK out : /\ req' = [req EXCEPT ![r].out = out, ![r].pc = "applying"]
                   /\ \/ out = Approved(FALSE, 0) \/ out = Failed("declined_hard")
                      \/ /\ StatusOf(req[r].p.provider, n) = "captured"
                         /\ out = Approved(TRUE, txn[n].captured)
    BY <1>3, <2>1 DEF ConfirmQuery
  <2>3. out.captured => n \in Refs /\ txn[n].status = "captured" /\ out.amt = txn[n].captured
    <3>1. ~(Approved(FALSE, 0)).captured /\ ~(Failed("declined_hard")).captured
      BY DEF Approved, Failed, NoOut
    <3>2. CASE StatusOf(req[r].p.provider, n) = "captured"
               /\ out = Approved(TRUE, txn[n].captured)
      BY <3>2 DEF StatusOf, Approved
    <3> QED
      BY <2>2, <3>1, <3>2
  <2>4. PICK c : c = [req[r] EXCEPT !.out = out, !.pc = "applying"]
    OBVIOUS
  <2>5. c.p = req[r].p /\ c.pc = "applying" /\ c.out = out
    BY <1>1, <2>4 DEF ReqType
  <2>6. req' = [req EXCEPT ![r] = c]
    BY <2>2, <2>4
  <2>7. n \in Refs => Reference(c) = n
    BY <2>1, <2>5, Constants DEF Reference
  <2>8. Knows(r, c) /\ Onward(req[r].pc, c.pc)
    BY <1>1, <2>3, <2>5, <2>7 DEF Knows, Onward, CaptureSent, VoidSent, Refunding, Taken
  <2> QED
    BY <1>1, <2>6, <2>8, QuietMoves
<1> QED
  BY <1>2, <1>3

\* CapturePayment asks the PSP for part of the amount, of an authorized payment.
LEMMA CaptureLoadMoves ==
  ASSUME Linked, IInv', NEW r \in Capturers, CaptureLoad(r)
  PROVE  PspOK'
<1>1. /\ r \in Callers /\ req[r] \in ReqType /\ req[r].pc = "idle" /\ Knows(r, req[r])
      /\ UNCHANGED <<db, txn>>
  BY Roles DEF CaptureLoad, Linked, PspOK, IInv
<1>2. CASE End(r) /\ UNCHANGED net
  BY <1>1, <1>2, PlainEnd DEF PlainTx
<1>3. CASE ~(End(r) /\ UNCHANGED net)
  <2>1. PICK amt \in 0 .. Amount + 1 :
          /\ CaptureOK(row, amt, "auth" \in lapsed)
          /\ req' = [req EXCEPT ![r].pc = "capturing", ![r].p = row, ![r].amt = amt]
          /\ net' = net \cup {Message("capture", r, row.provider, row.ref, amt, FALSE)}
    BY <1>3 DEF CaptureLoad
  <2>2. row.status = "authorized" /\ row.ref \in Refs /\ amt \in 1 .. Amount
    <3>1. RowOK(row) /\ row \in RowType
      BY DEF Linked, IInv, RowOK
    <3>2. row.status = "authorized" /\ amt > 0 /\ amt <= row.authorized
      BY <2>1 DEF CaptureOK
    <3> QED
      BY <3>1, <3>2, Constants DEF RowOK, DbChecks, Status, RowType
  <2>3. PICK c : c = [req[r] EXCEPT !.pc = "capturing", !.p = row, !.amt = amt]
    OBVIOUS
  <2>4. c.p = row /\ c.pc = "capturing" /\ c.out = req[r].out
    BY <1>1, <2>3 DEF ReqType
  <2>5. PICK m : m = Message("capture", r, row.provider, row.ref, amt, FALSE)
    OBVIOUS
  <2>6. req' = [req EXCEPT ![r] = c] /\ net' = net \cup {m}
    BY <2>1, <2>3, <2>5
  <2>7. m.op = "capture" /\ m.by = r /\ m.ref = row.ref /\ m.amt = amt
    BY <2>5 DEF Message
  <2>8. Reference(c) = row.ref
    BY <2>2, <2>4, Constants DEF Reference
  <2>9. req'[r] = c /\ row' = row
    BY <1>1, <2>6 DEF Linked, IInv, db
  <2>10. WireOK(m)'
    BY <2>2, <2>4, <2>7, <2>8, <2>9 DEF WireOK, CaptureSent, Early
  <2>11. c.out.kind = "none"
    BY <1>1, <2>4 DEF Knows, NoOut
  <2>12. Knows(r, c) /\ Onward(req[r].pc, c.pc)
    BY <1>1, <2>2, <2>4, <2>11 DEF Knows, Onward, CaptureSent, VoidSent, Refunding
  <2> QED
    BY <1>1, <2>6, <2>7, <2>10, <2>12, SendMoves
<1> QED
  BY <1>2, <1>3

\* The amount CapturePayment goes on with is the one the PSP took.
LEMMA CaptureReturnsMoves ==
  ASSUME Linked, IInv', NEW r \in Capturers, CaptureReturns(r)
  PROVE  PspOK'
<1>1. /\ r \in Callers /\ req[r] \in ReqType /\ req[r].pc = "capturing" /\ Knows(r, req[r])
      /\ UNCHANGED <<db, txn, net>>
  BY Roles DEF CaptureReturns, Linked, PspOK, IInv
<1>2. CASE End(r)
  BY <1>1, <1>2, PlainEnd DEF PlainTx
<1>3. CASE ~End(r)
  <2>1. /\ Succeeded(req[r].out)
        /\ req' = [req EXCEPT ![r].pc = "capture_tx2", ![r].amt = AmountTaken(req[r])]
    BY <1>3 DEF CaptureReturns
  <2>2. PICK n : n = req[r].p.ref
    OBVIOUS
  <2>3. n \in Refs /\ Reference(req[r]) = n
    BY <1>1, <2>2, Constants DEF Knows, Reference
  <2>4. txn[n].status \in Taken /\ req[r].out.amt = txn[n].captured
    BY <1>1, <2>1, <2>3 DEF Knows, Succeeded
  <2>5. txn[n].captured \in 1 .. Amount
    BY <2>3, <2>4 DEF Linked, PspOK, TxnOK
  <2>6. PICK amt : amt = AmountTaken(req[r])
    OBVIOUS
  <2>7. amt = txn[n].captured
    BY <2>4, <2>5, <2>6, Constants DEF AmountTaken
  <2>8. PICK c : c = [req[r] EXCEPT !.pc = "capture_tx2", !.amt = amt]
    OBVIOUS
  <2>9. c.p = req[r].p /\ c.pc = "capture_tx2" /\ c.amt = amt
    BY <1>1, <2>8 DEF ReqType
  <2>10. req' = [req EXCEPT ![r] = c]
    BY <2>1, <2>6, <2>8
  <2>11. req[r].p.status = "authorized"
    BY <1>1 DEF Knows
  <2>12. Knows(r, c) /\ Onward(req[r].pc, c.pc)
    BY <1>1, <2>2, <2>3, <2>4, <2>7, <2>9, <2>11
       DEF Knows, Onward, CaptureSent, VoidSent, Refunding
  <2> QED
    BY <1>1, <2>10, <2>12, QuietMoves
<1> QED
  BY <1>2, <1>3

\* CapturePayment's second transaction records what the PSP took.
LEMMA CaptureTx2Moves ==
  ASSUME Linked, IInv', NEW r \in Capturers, CaptureTx2(r)
  PROVE  PspOK'
<1>1. /\ r \in Callers /\ req[r].pc = "capture_tx2" /\ Knows(r, req[r])
      /\ End(r) /\ txn' = txn /\ net' = net
  BY Roles DEF CaptureTx2, Linked, PspOK
<1>2. CASE UNCHANGED db
  BY <1>1, <1>2, PlainEnd DEF PlainTx
<1>3. CASE ~UNCHANGED db
  <2>1. PICK amt : amt = req[r].amt
    OBVIOUS
  <2>2. req[r].p.version = row.version /\ TxTake(amt)
    BY <1>3, <2>1, CaptureTx2Writes DEF Linked
  <2>3. req[r].p.status = "authorized"
    BY <1>1 DEF Knows
  <2>4. req[r].p = row
    BY <1>1, <2>2, <2>3 DEF Linked, IInv, CallOK
  <2>5. PICK n \in Refs : n = row.ref
    BY <1>1, <2>4 DEF Knows
  <2>6. txn[n].status \in Taken /\ txn[n].captured = amt
    BY <1>1, <2>1, <2>4, <2>5 DEF Knows
  <2>7. RowMoves /\ Backed'
    BY <1>1, <2>2, <2>5, <2>6, ChargeMoves DEF Linked
  <2> QED
    BY <1>1, <2>7, EndMoves
<1> QED
  BY <1>2, <1>3

\* An authorization is sent under the number of the attempt recorded with it, under
\* which the PSP has no transaction yet.
LEMMA AuthorizeSent ==
  ASSUME Linked, IInv', NEW r \in Creators, PlainTx, txn' = txn,
         NEW c, req' = [req EXCEPT ![r] = c], req[r].pc \in {"inserting", "applying"},
         c.pc = "authorizing", c.out = NoOut, c.att = Len(attempts) + 1,
         NEW m, net' = net \cup {m}, m.op = "authorize", m.by = r, m.ref = c.att,
         m.amt = Amount
  PROVE  PspOK'
<1>1. RowMoves /\ Backed'
  BY PlainTxMoves DEF Linked, PspOK
<1>2. r \in Callers /\ req'[r] = c
  BY Roles DEF Linked, IInv
<1>3. c.att = Len(attempts') /\ c.att \in Refs
  BY <1>2 DEF IInv, CallOK, Saga
<1>4. Len(attempts) \in Nat
  BY DEF Linked, IInv, StoreOK
<1>5. c.att > Len(attempts) /\ ~(c.att <= Len(attempts))
  BY <1>4
<1>6. txn[c.att].status = "none"
  BY <1>3, <1>5 DEF Linked, PspOK, TxnOK
<1>7. m.ref <= Len(attempts')
  BY <1>3, <1>4
<1>8. WireOK(m)'
  BY <1>6, <1>7 DEF WireOK
<1>9. Knows(r, c)' /\ Onward(req[r].pc, c.pc)
  BY DEF Knows, Onward, CaptureSent, VoidSent, Refunding, NoOut
<1>10. PICK sent : sent = {m}
  OBVIOUS
<1>11. /\ net' = net \cup sent /\ \A o, q \in sent : o = q
       /\ \A o \in sent : o = m
  BY <1>10
<1>12. \A o \in sent : (WireOK(o))' /\ (o.op = "authorize" => o.ref > Len(attempts))
  BY <1>5, <1>8, <1>11
<1> QED
  BY <1>1, <1>2, <1>9, <1>11, <1>12, CallMoves DEF Linked

\* CreatePayment's first transaction.
LEMMA CreateTx1Moves ==
  ASSUME Linked, IInv', NEW r \in Creators, CreateTx1(r)
  PROVE  PspOK'
<1>1. /\ r \in Callers /\ req[r] \in ReqType /\ req[r].pc = "inserting" /\ Knows(r, req[r])
      /\ txn' = txn
  BY Roles DEF CreateTx1, Linked, PspOK, IInv
<1>2. PlainTx
  BY CreateTx1Writes, Constants DEF Linked, PlainTx
<1>3. CASE DuplicateKey
  BY <1>1, <1>2, <1>3, PlainEnd DEF CreateTx1
<1>4. CASE ~DuplicateKey
  <2>1. PICK p, now :
          /\ net' = net \cup {Message("authorize", r, Candidates[1], 1, Amount, now)}
          /\ req' = [req EXCEPT ![r].pc = "authorizing", ![r].p = p, ![r].att = 1]
    BY <1>4 DEF CreateTx1
  <2>2. attempts = <<>>
    BY <1>4 DEF DuplicateKey, Linked, AttemptsOK
  <2>3. 1 = Len(attempts) + 1
    BY <2>2
  <2>4. PICK c : c = [req[r] EXCEPT !.pc = "authorizing", !.p = p, !.att = 1]
    OBVIOUS
  <2>5. c.pc = "authorizing" /\ c.att = 1 /\ c.out = req[r].out
    BY <1>1, <2>4 DEF ReqType
  <2>6. PICK m : m = Message("authorize", r, Candidates[1], 1, Amount, now)
    OBVIOUS
  <2>7. req' = [req EXCEPT ![r] = c] /\ net' = net \cup {m}
    BY <2>1, <2>4, <2>6
  <2>8. m.op = "authorize" /\ m.by = r /\ m.ref = 1 /\ m.amt = Amount
    BY <2>6 DEF Message
  <2>9. c.out = NoOut
    BY <1>1, <2>5 DEF Knows
  <2> QED
    BY <1>1, <1>2, <2>3, <2>5, <2>7, <2>8, <2>9, AuthorizeSent
<1> QED
  BY <1>3, <1>4

\* A failed authorization: given up, or sent to the next provider.
LEMMA ApplyFailedMoves ==
  ASSUME Linked, IInv', NEW r \in Creators, ApplyFailed(r)
  PROVE  PspOK'
<1>1. r \in Callers /\ req[r] \in ReqType /\ req[r].pc = "applying" /\ txn' = txn
  BY Roles DEF ApplyFailed, Linked, IInv
<1>2. PlainTx
  <2>1. 0 \in Refs \cup {0}
    OBVIOUS
  <2> QED
    BY <2>1, ApplyFailedWrites DEF Linked, PlainTx
<1>3. req[r].att = Len(attempts)
  BY <1>1 DEF Linked, IInv, CallOK, Saga
<1>4. CASE End(r) /\ net' = net
  BY <1>1, <1>2, <1>4, PlainEnd
<1>5. CASE ~(End(r) /\ net' = net)
  <2>1. PICK budget \in BOOLEAN :
          LET next == NextCandidate(attempts[req[r].att], req[r].idx, req[r].out.cat, budget)
              p    == [req[r].p EXCEPT !.provider = next[2]]
          IN  /\ net' = net \cup {Message("authorize", r, next[2], req[r].att + 1, Amount,
                                          req[r].p.method = "automatic")}
              /\ req' = [req EXCEPT ![r].pc = "authorizing", ![r].p = p,
                           ![r].att = req[r].att + 1, ![r].idx = next[1], ![r].out = NoOut]
    BY <1>5 DEF ApplyFailed
  <2>2. PICK next, n, p, now :
          /\ next = NextCandidate(attempts[req[r].att], req[r].idx, req[r].out.cat, budget)
          /\ p = [req[r].p EXCEPT !.provider = next[2]] /\ n = req[r].att + 1
          /\ now = (req[r].p.method = "automatic")
    OBVIOUS
  <2>3. /\ net' = net \cup {Message("authorize", r, next[2], n, Amount, now)}
        /\ req' = [req EXCEPT ![r].pc = "authorizing", ![r].p = p,
                     ![r].att = n, ![r].idx = next[1], ![r].out = NoOut]
    BY <2>1, <2>2
  <2>4. PICK c : c = [req[r] EXCEPT !.pc = "authorizing", !.p = p, !.att = n,
                                    !.idx = next[1], !.out = NoOut]
    OBVIOUS
  <2>5. c.pc = "authorizing" /\ c.att = n /\ c.out = NoOut
    BY <1>1, <2>4 DEF ReqType
  <2>6. PICK m : m = Message("authorize", r, next[2], n, Amount, now)
    OBVIOUS
  <2>7. req' = [req EXCEPT ![r] = c] /\ net' = net \cup {m}
    BY <2>3, <2>4, <2>6
  <2>8. m.op = "authorize" /\ m.by = r /\ m.ref = n /\ m.amt = Amount
    BY <2>6 DEF Message
  <2>9. n = Len(attempts) + 1
    BY <1>3, <2>2
  <2> QED
    BY <1>1, <1>2, <2>5, <2>7, <2>8, <2>9, AuthorizeSent
<1> QED
  BY <1>4, <1>5

\* The other ways an authorization ends without an approval.
LEMMA RejectMoves ==
  ASSUME Linked, IInv', NEW r \in Callers,
         (r \in Creators /\ ApplyRequiresAction(r)) \/ (r \in Confirmers /\ ConfirmFailed(r))
  PROVE  PspOK'
<1>1. End(r) /\ txn' = txn /\ net' = net
  BY DEF ApplyRequiresAction, ConfirmFailed
<1>2. PlainTx
  BY ApplyRequiresActionWrites, ConfirmFailedWrites DEF Linked, PlainTx
<1> QED
  BY <1>1, <1>2, PlainEnd

\* VoidPayment asks the PSP for a void: a payment that can be voided has a reference.
LEMMA VoidLoadMoves ==
  ASSUME Linked, IInv', NEW r \in Voiders, VoidLoad(r)
  PROVE  PspOK'
<1>1. /\ r \in Callers /\ req[r] \in ReqType /\ req[r].pc = "idle" /\ Knows(r, req[r])
      /\ UNCHANGED <<db, txn>>
  BY Roles DEF VoidLoad, Linked, PspOK, IInv
<1>2. CASE ~VoidOK(row)
  BY <1>1, <1>2, PlainEnd DEF PlainTx, VoidLoad
<1>3. CASE VoidOK(row)
  <2>1. row.status \in {"requires_action", "authorized"}
    BY <1>3 DEF VoidOK, CanTransition, Transitions
  <2>2. row.ref \in Refs /\ row.ref # 0
    BY <2>1, Constants DEF Linked, IInv, RowOK, Status
  <2>3. PICK c : c = [req[r] EXCEPT !.p = row, !.pc = "voiding"]
    OBVIOUS
  <2>4. c.p = row /\ c.pc = "voiding" /\ c.out = req[r].out
    BY <1>1, <2>3 DEF ReqType
  <2>5. PICK m : m = Message("void", r, row.provider, row.ref, 0, FALSE)
    OBVIOUS
  <2>6. req' = [req EXCEPT ![r] = c] /\ net' = net \cup {m}
    BY <1>3, <2>2, <2>3, <2>5 DEF VoidLoad
  <2>7. m.op = "void" /\ m.by = r /\ m.ref = row.ref
    BY <2>5 DEF Message
  <2>8. req'[r] = c /\ row' = row
    BY <1>1, <2>6 DEF Linked, IInv, db
  <2>9. WireOK(m)'
    BY <2>4, <2>7, <2>8 DEF WireOK, VoidSent
  <2>10. c.out.kind = "none"
    BY <1>1, <2>4 DEF Knows, NoOut
  <2>11. Knows(r, c) /\ Onward(req[r].pc, c.pc)
    BY <1>1, <2>1, <2>2, <2>4, <2>10 DEF Knows, Onward, CaptureSent, VoidSent, Refunding
  <2> QED
    BY <1>1, <2>6, <2>7, <2>9, <2>11, SendMoves
<1> QED
  BY <1>2, <1>3

\* The void the PSP confirmed goes on to its transaction.
LEMMA VoidReturnsMoves ==
  ASSUME Linked, IInv', NEW r \in Voiders, VoidReturns(r)
  PROVE  PspOK'
<1>1. /\ r \in Callers /\ req[r] \in ReqType /\ req[r].pc = "voiding" /\ Knows(r, req[r])
      /\ UNCHANGED <<db, txn, net>>
  BY Roles DEF VoidReturns, Linked, PspOK, IInv
<1>2. CASE End(r)
  BY <1>1, <1>2, PlainEnd DEF PlainTx
<1>3. CASE Succeeded(req[r].out) /\ Goto(r, "void_tx2")
  <2>1. PICK c : c = [req[r] EXCEPT !.pc = "void_tx2"]
    OBVIOUS
  <2>2. c.p = req[r].p /\ c.pc = "void_tx2"
    BY <1>1, <2>1 DEF ReqType
  <2>3. req' = [req EXCEPT ![r] = c]
    BY <1>3, <2>1 DEF Goto
  <2>4. /\ req[r].p.status # "none" /\ req[r].p.ref \in Refs
        /\ txn[req[r].p.ref].status = "voided"
    BY <1>1, <1>3 DEF Knows, Succeeded
  <2>5. Knows(r, c) /\ Onward(req[r].pc, c.pc)
    BY <1>1, <2>2, <2>4 DEF Knows, Onward, CaptureSent, VoidSent, Refunding
  <2> QED
    BY <1>1, <2>3, <2>5, QuietMoves
<1> QED
  BY <1>2, <1>3 DEF VoidReturns

\* VoidPayment's second transaction records the void of the PSP.
LEMMA VoidTx2Moves ==
  ASSUME Linked, IInv', NEW r \in Voiders, VoidTx2(r)
  PROVE  PspOK'
<1>1. /\ r \in Callers /\ req[r].pc = "void_tx2" /\ Knows(r, req[r])
      /\ End(r) /\ txn' = txn /\ net' = net
  BY Roles DEF VoidTx2, Linked, PspOK
<1>2. CASE UNCHANGED db
  BY <1>1, <1>2, PlainEnd DEF PlainTx
<1>3. CASE ~UNCHANGED db
  <2>1. req[r].p.version = row.version /\ TxVoid
    BY <1>3, VoidTx2Writes DEF Linked
  <2>2. req[r].p.status # "none" /\ txn[req[r].p.ref].status = "voided"
    BY <1>1 DEF Knows
  <2>3. req[r].p = row
    BY <1>1, <2>1, <2>2 DEF Linked, IInv, CallOK
  <2>4. RowMoves /\ Backed'
    BY <1>1, <2>1, <2>2, <2>3, VoidMoves DEF Linked
  <2> QED
    BY <1>1, <2>4, EndMoves
<1> QED
  BY <1>2, <1>3

\* CreateRefund reserves the refund of a charged payment and sends it under the
\* payment's reference.
LEMMA RefundTx1Moves ==
  ASSUME Linked, IInv', NEW r \in Refunders, RefundTx1(r)
  PROVE  PspOK'
<1>1. /\ r \in Callers /\ req[r] \in ReqType /\ req[r].pc = "reserving" /\ Knows(r, req[r])
      /\ txn' = txn /\ RefundKey[r] \in RefundKeys
  BY Roles, RefundKeyTyped DEF RefundTx1, Linked, PspOK, IInv
<1>2. CASE UNCHANGED <<db, net>> /\ End(r)
  BY <1>1, <1>2, PlainEnd DEF PlainTx
<1>3. CASE ~(UNCHANGED <<db, net>> /\ End(r))
  <2>1. PICK amt \in 1 .. Amount :
          /\ TxReserve(RefundKey[r], amt)
          /\ net' = net \cup {Message("refund", r, row.provider, row.ref, amt, FALSE)}
          /\ req' = [req EXCEPT ![r].pc = "refunding", ![r].amt = amt]
    BY <1>3, RefundTx1Writes DEF Linked
  <2>2. RowMoves /\ Backed'
    BY <1>1, <2>1, RefundMoves DEF Linked, PspOK
  <2>3. PICK c : c = [req[r] EXCEPT !.pc = "refunding", !.amt = amt]
    OBVIOUS
  <2>4. c.pc = "refunding" /\ c.out = req[r].out
    BY <1>1, <2>3 DEF ReqType
  <2>5. PICK m : m = Message("refund", r, row.provider, row.ref, amt, FALSE)
    OBVIOUS
  <2>6. req' = [req EXCEPT ![r] = c] /\ net' = net \cup {m}
    BY <2>1, <2>3, <2>5
  <2>7. m.op = "refund" /\ m.ref = row.ref
    BY <2>5 DEF Message
  <2>8. row'.ref = row.ref /\ row'.status \in Taken
    BY <2>1 DEF TxReserve, Logs, SameRoute, Taken
  <2>9. WireOK(m)'
    BY <2>7, <2>8 DEF WireOK
  <2>10. c.out.kind = "none"
    BY <1>1, <2>4 DEF Knows, NoOut
  <2>11. Knows(r, c)' /\ Onward(req[r].pc, c.pc)
    BY <1>1, <2>4, <2>10 DEF Knows, Onward, CaptureSent, VoidSent
  <2>12. PICK sent : sent = {m}
    OBVIOUS
  <2>13. /\ net' = net \cup sent /\ \A o, q \in sent : o = q
         /\ \A o \in sent : o = m
    BY <2>6, <2>12
  <2>14. \A o \in sent : (WireOK(o))' /\ (o.op = "authorize" => o.ref > Len(attempts))
    BY <2>7, <2>9, <2>13
  <2> QED
    BY <1>1, <2>2, <2>6, <2>11, <2>13, <2>14, CallMoves DEF Linked
<1> QED
  BY <1>2, <1>3

\* CreateRefund's answer: what the PSP said, or a transport error.
LEMMA RefundReturnsMoves ==
  ASSUME Linked, IInv', NEW r \in Refunders, RefundReturns(r)
  PROVE  PspOK'
<1>1. /\ r \in Callers /\ req[r] \in ReqType /\ req[r].pc = "refunding" /\ Knows(r, req[r])
      /\ UNCHANGED <<db, txn, net>>
  BY Roles DEF RefundReturns, Linked, PspOK, IInv
<1>2. CASE End(r)
  BY <1>1, <1>2, PlainEnd DEF PlainTx
<1>3. CASE ~End(r)
  <2>1. PICK out \in {req[r].out} \cup TransportErrors :
          req' = [req EXCEPT ![r].out = out, ![r].pc = "refund_tx2"]
    BY <1>3 DEF RefundReturns
  <2>2. out.kind = "approved" => out = req[r].out
    <3>1. \A x \in TransportErrors : x.kind = "failed"
      BY DEF TransportErrors, Failed, NoOut
    <3> QED
      BY <2>1, <3>1
  <2>3. PICK c : c = [req[r] EXCEPT !.out = out, !.pc = "refund_tx2"]
    OBVIOUS
  <2>4. c.pc = "refund_tx2" /\ c.out = out
    BY <1>1, <2>3 DEF ReqType
  <2>5. req' = [req EXCEPT ![r] = c]
    BY <2>1, <2>3
  <2>6. Knows(r, c) /\ Onward(req[r].pc, c.pc)
    BY <1>1, <2>2, <2>4 DEF Knows, Onward, CaptureSent, VoidSent, Refunding
  <2> QED
    BY <1>1, <2>5, <2>6, QuietMoves
<1> QED
  BY <1>2, <1>3

\* CreateRefund's second transaction: success only after the PSP gave the money back.
LEMMA RefundTx2Moves ==
  ASSUME Linked, IInv', NEW r \in Refunders, RefundTx2(r)
  PROVE  PspOK'
<1>1. /\ r \in Callers /\ req[r].pc = "refund_tx2" /\ Knows(r, req[r])
      /\ RefundKey[r] \in RefundKeys /\ End(r) /\ txn' = txn /\ net' = net
  BY Roles, RefundKeyTyped DEF RefundTx2, Linked, PspOK
<1>2. CASE UNCHANGED db
  BY <1>1, <1>2, PlainEnd DEF PlainTx
<1>3. CASE ~UNCHANGED db
  <2>1. PICK k, amt : k = RefundKey[r] /\ k \in RefundKeys /\ amt = req[r].amt
    BY <1>1
  <2>2. TxRelease(k, amt) \/ (Succeeded(req[r].out) /\ TxGiveBack(k, amt))
    BY <1>3, <2>1, RefundTx2Writes DEF Linked
  <2>3. Succeeded(req[r].out) => k \in txn[row.ref].done
    BY <1>1, <2>1 DEF Knows, Refunding, Succeeded
  <2>4. RowMoves /\ Backed'
    BY <1>1, <2>1, <2>2, <2>3, RefundMoves DEF Linked, PspOK
  <2> QED
    BY <1>1, <2>4, EndMoves
<1> QED
  BY <1>2, <1>3

\* Every step of a call.
LEMMA CallStepMoves ==
  ASSUME Linked, IInv', NEW r \in Callers, Step(r)
  PROVE  PspOK'
<1>1. CASE r \in Creators /\ CreateStep(r)
  <2>1. CASE CreateLookup(r)
    <3>1. req[r].pc = "idle" /\ UNCHANGED <<db, txn, net>> /\ (End(r) \/ Goto(r, "inserting"))
      BY <2>1 DEF CreateLookup
    <3> QED
      BY <3>1, PlainEnd, LookupMoves DEF PlainTx
  <2> QED
    BY <1>1, <2>1, CreateTx1Moves, AuthorizeReturnsMoves, ResolveUnknownMoves, RejectMoves,
       ApplyFailedMoves DEF CreateStep
<1>2. CASE r \in Confirmers /\ ConfirmStep(r)
  BY <1>2, ConfirmLoadMoves, ConfirmQueryMoves, RejectMoves DEF ConfirmStep
<1>3. CASE r \in Creators \cup Confirmers /\ ApproveStep(r)
  BY <1>3, ApprovedNeedsCaptureMoves, CaptureNowReturnsMoves, ApprovedAsIsMoves,
     ApplyApprovedMoves DEF ApproveStep
<1>4. CASE r \in Capturers /\ CaptureStep(r)
  BY <1>4, CaptureLoadMoves, CaptureReturnsMoves, CaptureTx2Moves DEF CaptureStep
<1>5. CASE r \in Voiders /\ VoidStep(r)
  BY <1>5, VoidLoadMoves, VoidReturnsMoves, VoidTx2Moves DEF VoidStep
<1>6. CASE r \in Refunders /\ RefundStep(r)
  <2>1. CASE RefundLookup(r)
    <3>1. req[r].pc = "idle" /\ UNCHANGED <<db, txn, net>> /\ (End(r) \/ Goto(r, "reserving"))
      BY <2>1 DEF RefundLookup
    <3> QED
      BY <3>1, PlainEnd, LookupMoves DEF PlainTx
  <2> QED
    BY <1>6, <2>1, RefundTx1Moves, RefundReturnsMoves, RefundTx2Moves DEF RefundStep
<1> QED
  BY <1>1, <1>2, <1>3, <1>4, <1>5, <1>6 DEF Step

\* A PSP that executes its calls atomically never keeps a copy.
Unread == \A m \in net : m.copy = NoTxn /\ m.op # "status"

\* A call that is sent has not been read yet.
LEMMA MessageUnread ==
  ASSUME NEW op \in {"authorize", "capture", "void", "refund"}, NEW r, NEW prov,
         NEW ref, NEW amt, NEW now
  PROVE  /\ Message(op, r, prov, ref, amt, now).copy = NoTxn
         /\ Message(op, r, prov, ref, amt, now).op # "status"
BY DEF Message

\* Only PspRead and QueryRead take a copy.
LEMMA UnreadStep ==
  ASSUME Linearizable, Unread, [Next]_vars
  PROVE  Unread'
<1>1. CASE net' \subseteq net
  BY <1>1 DEF Unread
<1> DEFINE Sends(op) ==
      \E r, prov, ref, amt, now : net' = net \cup {Message(op, r, prov, ref, amt, now)}
<1>0. ASSUME NEW op \in {"authorize", "capture", "void", "refund"}, Sends(op) PROVE Unread'
  <2>1. PICK r, prov, ref, amt, now : net' = net \cup {Message(op, r, prov, ref, amt, now)}
    BY <1>0
  <2>2. PICK m : m = Message(op, r, prov, ref, amt, now)
    OBVIOUS
  <2>3. m.copy = NoTxn /\ m.op # "status"
    BY <2>2, MessageUnread
  <2> QED
    BY <2>1, <2>2, <2>3 DEF Unread
<1>2. ASSUME NEW r \in Callers, Step(r) PROVE Unread'
  <2>1. CASE CreateStep(r)
    <3>1. CASE CreateTx1(r)
      <4>1. net' = net \/
              \E method : net' = net \cup {Message("authorize", r, Candidates[1], 1,
                                                   Amount, method = "automatic")}
        BY <3>1 DEF CreateTx1
      <4>2. net' = net \/ Sends("authorize")
        BY <4>1
      <4> QED
        BY <1>0, <1>1, <4>2
    <3>2. CASE ApplyFailed(r)
      <4>1. net' = net \/
              \E next : net' = net \cup {Message("authorize", r, next[2], req[r].att + 1,
                                                 Amount, req[r].p.method = "automatic")}
        BY <3>2 DEF ApplyFailed
      <4>2. net' = net \/ Sends("authorize")
        BY <4>1
      <4> QED
        BY <1>0, <1>1, <4>2
    <3> QED
      BY <1>1, <2>1, <3>1, <3>2 DEF CreateStep, CreateLookup, AuthorizeReturns, ResolveUnknown,
         ApplyRequiresAction
  <2>2. CASE ConfirmStep(r)
    BY <1>1, <2>2 DEF ConfirmStep, ConfirmLoad, ConfirmQuery, ConfirmFailed
  <2>3. CASE ApproveStep(r)
    <3>1. CASE ApprovedNeedsCapture(r)
      <4>1. net' = net \/
              net' = net \cup {Message("capture", r, attempts[req[r].att].provider,
                                       Reference(req[r]), Amount, FALSE)}
        BY <3>1 DEF ApprovedNeedsCapture
      <4>2. net' = net \/ Sends("capture")
        BY <4>1
      <4> QED
        BY <1>0, <1>1, <4>2
    <3> QED
      BY <1>1, <2>3, <3>1 DEF ApproveStep, CaptureNowReturns, ApprovedAsIs, ApplyApproved
  <2>4. CASE CaptureStep(r)
    <3>1. CASE CaptureLoad(r)
      <4>1. net' = net \/ Sends("capture")
        BY <3>1 DEF CaptureLoad
      <4> QED
        BY <1>0, <1>1, <4>1
    <3> QED
      BY <1>1, <2>4, <3>1 DEF CaptureStep, CaptureReturns, CaptureTx2
  <2>5. CASE VoidStep(r)
    <3>1. CASE VoidLoad(r)
      <4>1. net' = net \/ Sends("void")
        BY <3>1 DEF VoidLoad
      <4> QED
        BY <1>0, <1>1, <4>1
    <3> QED
      BY <1>1, <2>5, <3>1 DEF VoidStep, VoidReturns, VoidTx2
  <2>6. CASE RefundStep(r)
    <3>1. CASE RefundTx1(r)
      <4>1. net' = net \/
              \E amt : net' = net \cup {Message("refund", r, row.provider, row.ref, amt, FALSE)}
        BY <3>1 DEF RefundTx1
      <4>2. net' = net \/ Sends("refund")
        BY <4>1
      <4> QED
        BY <1>0, <1>1, <4>2
    <3> QED
      BY <1>1, <2>6, <3>1 DEF RefundStep, RefundLookup, RefundReturns, RefundTx2
  <2> QED
    BY <1>2, <2>1, <2>2, <2>3, <2>4, <2>5, <2>6 DEF Step
<1>3. CASE \E r \in Callers : Crash(r) \/ ClientCancel(r)
  BY <1>1, <1>3 DEF Crash, ClientCancel
<1>4. CASE Psp
  <2>1. ASSUME NEW m, NEW out, Answer(m, out) PROVE net' \subseteq net
    BY <2>1 DEF Answer
  <2>2. CASE \E m \in net : PspAuthorize(m) \/ PspCapture(m) \/ PspVoid(m) \/ PspRefund(m)
    BY <1>1, <2>1, <2>2 DEF PspAuthorize, PspCapture, PspVoid, PspRefund
  <2>3. CASE (\E m \in net : PspStatus(m)) \/ \E n \in Refs : PspAction(n)
    BY <1>1, <2>3 DEF PspStatus, PspAction
  <2> QED
    BY <1>4, <2>2, <2>3 DEF Psp, PspRead, QueryRead
<1>5. CASE Lapse \/ UNCHANGED vars
  BY <1>1, <1>5 DEF Lapse, vars
<1> QED
  BY <1>2, <1>3, <1>4, <1>5 DEF Next

\* Every step keeps the payment and the PSP together.
LEMMA PspStep ==
  ASSUME Linearizable, Linked, Unread, [Next]_vars
  PROVE  PspOK'
<1>1. IInv'
  BY NextInv DEF Linked
<1>2. CASE \E r \in Callers : Step(r)
  BY <1>1, <1>2, CallStepMoves
<1>3. CASE \E r \in Callers : Crash(r) \/ ClientCancel(r)
  BY <1>1, <1>3, LeaveMoves
<1>4. CASE \E m \in net : PspAuthorize(m) \/ PspCapture(m) \/ PspVoid(m) \/ PspRefund(m)
  BY <1>4, PspAuthorizeMoves, PspCaptureMoves, PspVoidMoves, PspRefundMoves DEF Linked, Unread
<1>5. CASE \E n \in Refs : PspAction(n)
  BY <1>5, PspActionMoves DEF Linked
<1>6. CASE Lapse \/ UNCHANGED vars
  <2>1. UNCHANGED <<db, net, req>> /\ UNCHANGED db /\ txn' = txn
    BY <1>6 DEF Lapse, vars, db
  <2>2. PspMoves /\ \A n \in Refs : (TxnOK(n))'
    BY <2>1, TxnSame DEF Linked
  <2> QED
    BY <2>1, <2>2, OutsideMoves DEF Linked
<1>7. ~(\E m \in net : PspRead(m) \/ PspStatus(m)) /\ ~(\E r \in Confirmers : QueryRead(r))
  BY DEF PspRead, PspStatus, QueryRead, Unread
<1> QED
  BY <1>2, <1>3, <1>4, <1>5, <1>6, <1>7 DEF Next, Psp

\* The payment and the PSP agree throughout every execution.
LEMMA PspAlways ==
  ASSUME Linearizable
  PROVE  Spec => []Linked
<1>1. Init => PspOK
  <2> SUFFICES ASSUME Init PROVE PspOK
    OBVIOUS
  <2>1. \A n \in Refs : txn[n] = NoTxn
    BY DEF Init
  <2>2. row.status = "none" /\ net = {}
    BY DEF Init, NoRow
  <2>3. \A n \in Refs : TxnOK(n)
    BY <2>1 DEF TxnOK, NoTxn, Taken
  <2>4. \A r \in Callers : req[r].pc = "idle" /\ req[r].out = NoOut
    BY DEF Init, Idle
  <2>5. \A r \in Callers : Knows(r, req[r])
    BY <2>4 DEF Knows, Refunding
  <2> QED
    BY <2>2, <2>3, <2>5 DEF PspOK, OneEach, Backed, Taken
<1>2. Recorded /\ RefundsOK /\ Unread /\ PspOK /\ [Next]_vars => PspOK'
  BY PspStep DEF Recorded, Linked
<1>3. Recorded /\ RefundsOK /\ PspOK => Linked
  BY DEF Recorded, Linked
<1>4. Init => Unread
  BY DEF Init, Unread
<1>5. Unread /\ [Next]_vars => Unread'
  BY UnreadStep
<1> QED
  BY RefundsAlways, <1>1, <1>2, <1>3, <1>4, <1>5, PTL DEF Spec

\* At a PSP that executes its calls atomically, the row's captured amount is the
\* PSP's, whichever of the calls captured the payment first, for whatever amount,
\* and whoever recorded it.
THEOREM CapturesAgree ==
  ASSUME Linearizable
  PROVE  Spec => []CapturedMatchesPsp
<1>1. Linked => CapturedMatchesPsp
  <2> SUFFICES ASSUME Linked, row.captured > 0
               PROVE  row.ref \in Refs /\ txn[row.ref].captured = row.captured
    BY DEF CapturedMatchesPsp
  <2>1. row.status \in Taken
    BY DEF Linked, IInv, RowOK, Uncharged, Taken
  <2> QED
    BY <2>1 DEF Linked, IInv, RowOK, Status, Taken, PspOK, Backed
<1> QED
  BY PspAlways, <1>1, PTL

\* At a PSP that executes its calls atomically, a payment recorded as voided is
\* void, and stays so: a capture still on the wire cannot charge it.
THEOREM VoidsAgree ==
  ASSUME Linearizable
  PROVE  Spec => []VoidedIsVoidAtPsp
<1>1. Linked => VoidedIsVoidAtPsp
  BY DEF Linked, IInv, RowOK, Status, PspOK, Backed, VoidedIsVoidAtPsp
<1> QED
  BY PspAlways, <1>1, PTL

\* At a PSP that executes its calls atomically, a refund recorded as succeeded was
\* carried out under the payment's reference, and the PSP never gives back more
\* than it took.
THEOREM RefundsBacked ==
  ASSUME Linearizable
  PROVE  Spec => []RefundsBackedByPsp
<1>1. Linked => RefundsBackedByPsp
  <2> SUFFICES ASSUME Linked PROVE RefundsBackedByPsp
    OBVIOUS
  <2>1. ASSUME NEW k \in RefundKeys, refunds[k].status = "succeeded"
        PROVE  row.ref \in Refs /\ k \in txn[row.ref].done
    <3>1. row.status \in Taken
      BY <2>1 DEF Linked, RefundsOK
    <3> QED
      BY <2>1, <3>1 DEF Linked, IInv, RowOK, Status, Taken, PspOK, Backed
  <2>2. ASSUME NEW n \in Refs PROVE txn[n].refunded <= txn[n].captured
    <3>1. TxnOK(n) /\ txn[n] \in TxnType
      BY DEF Linked, PspOK, IInv, StoreOK
    <3> QED
      BY <3>1 DEF TxnOK, TxnType
  <2> QED
    BY <2>1, <2>2 DEF RefundsBackedByPsp
<1> QED
  BY PspAlways, <1>1, PTL

=============================================================================
