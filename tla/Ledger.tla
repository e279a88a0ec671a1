-------------------------------- MODULE Ledger --------------------------------
(***************************************************************************)
(* The ledger service: the handler of payment events, the operator calls   *)
(* ReverseJournal and PostManualJournal, and the posting transaction they  *)
(* share (postJournalTx), run by several workers on one PostgreSQL         *)
(* database at READ COMMITTED.  Each statement of a transaction is a step: *)
(* it reads what is committed, it waits for a row another open transaction *)
(* holds, and nothing it writes is visible before the commit.              *)
(*                                                                         *)
(* The handler books refund and dispute events too, so they are delivered  *)
(* here; that the deployed consumer subscribes to payment.events only is   *)
(* the subject of EventPipeline.                                           *)
(***************************************************************************)
EXTENDS LedgerDomain

CONSTANTS
  Consumers,      \* threads of the payment.events consumers
  Operators,      \* concurrent gRPC calls of operators
  Events,         \* event ids
  EventData,      \* their content: [type, ref, amount, fee]
  Keys,           \* idempotency keys of operator calls, each one an event_id too
  Drafts,         \* manual journals asked for: [entries, reversalOf]
  Opened,         \* accounts operators create by hand
  MaxRetries,     \* retries of handleWithRetry (3 in the code)
  None

Workers == Consumers \cup Operators
JournalIds == Events \cup Keys          \* journals.event_id is unique: it names the journal

\* domain.Journal and domain.Entry.
Entry == [account : Accounts, direction : Directions, amount : Nat]
Draft == [template : {TemplateName[t] : t \in PostingTypes} \cup {"J-REV", ""},
          ref : {EventData[e].ref : e \in Events} \cup {""},
          entries : Seq(Entry), reversalOf : JournalIds \cup {None}]

ASSUME WorkerAssumption == Consumers \cap Operators = {}
ASSUME IdAssumption == Events \cap Keys = {} /\ None \notin JournalIds \cup Workers
ASSUME EventAssumption ==
  EventData \in [Events -> [type : PostingTypes \cup SilentTypes, ref : STRING,
                            amount : Int, fee : Int]]
ASSUME DraftAssumption ==
  /\ Drafts \subseteq [entries : Seq(Entry), reversalOf : JournalIds \cup {None}]
  /\ None \notin Draft
\* What payment-service publishes about a refund: that it was created, then how it ended.
ASSUME RefundAssumption ==
  \A e, f \in Events :
    EventData[e].ref = EventData[f].ref /\ EventData[e].type \in RefundTypes =>
      /\ EventData[f].type \in RefundTypes
      /\ EventData[f].amount = EventData[e].amount
      /\ e # f => (EventData[e].type = "refund.created") # (EventData[f].type = "refund.created")
ASSUME RetryAssumption == MaxRetries \in Nat
ASSUME OpenedAssumption == Opened \subseteq Accounts

VARIABLES
  journals,       \* journals and their entries, committed
  inbox,          \* processed_events
  accounts,       \* accounts created so far
  balances,       \* the balances table, one row per account
  outbox,         \* journals announced on ledger.events
  dlq,            \* events sent to payment.events.dlq
  tx              \* per worker: the call it is in

vars == <<journals, inbox, accounts, balances, outbox, dlq, tx>>

-----------------------------------------------------------------------------
(* State of a call. *)

Phases == {"idle", "original", "mark", "link", "check", "ensure", "insert", "entries", "commit"}

NoDraft == [template |-> "", ref |-> "", entries |-> << >>, reversalOf |-> None]

\* rows: the balance rows the transaction has locked, with their new values.
Idle == [phase |-> "idle", id |-> None, draft |-> NoDraft, next |-> 1, tries |-> 0,
         created |-> {}, rows |-> << >>]

Call(phase, id, draft, tries) ==
  [Idle EXCEPT !.phase = phase, !.id = id, !.draft = draft, !.tries = tries]

Posted == {j \in JournalIds : journals[j] # None}
Reversals(o) == {j \in Posted : journals[j].reversalOf = o}

\* The rows an open transaction has written and the others must wait for.
Marked(w) == w \in Consumers /\ tx[w].phase \notin {"idle", "mark"}
Inserted(w) == tx[w].phase \in {"entries", "commit"}

Missing(w) ==
  {i \in DOMAIN tx[w].draft.entries :
     tx[w].draft.entries[i].account \notin accounts \cup tx[w].created}

NextAccount(w) ==
  CASE tx[w].phase = "ensure"  -> tx[w].draft.entries[Min(Missing(w))].account
    [] tx[w].phase = "entries" -> tx[w].draft.entries[tx[w].next].account

\* The open transactions worker w has to wait for.
Blockers(w) ==
  {v \in Workers \ {w} :
     \/ tx[w].phase = "mark"    /\ Marked(v) /\ tx[v].id = tx[w].id
     \/ tx[w].phase = "ensure"  /\ Missing(w) # {} /\ NextAccount(w) \in tx[v].created
     \/ tx[w].phase = "insert"  /\ Inserted(v) /\ tx[v].id = tx[w].id
     \/ tx[w].phase = "entries" /\ NextAccount(w) \in DOMAIN tx[v].rows}

Step(w, t) == tx' = [tx EXCEPT ![w] = t]

\* Mutant of FailConsumer: the processed_events row was committed on its own.
FailConsumerKeepsMark(w) ==
  /\ UNCHANGED <<journals, accounts, balances, outbox, dlq>>
  /\ inbox' = inbox \cup {tx[w].id}
  /\ Step(w, Idle)

\* Mutant of FailConsumer: the try is counted after the bound is tested.
FailConsumerOneMore(w) ==
  /\ UNCHANGED <<journals, inbox, accounts, balances, outbox>>
  /\ IF tx[w].tries <= MaxRetries
       THEN Step(w, Call("mark", tx[w].id, NoDraft, tx[w].tries + 1)) /\ UNCHANGED dlq
       ELSE Step(w, Idle) /\ dlq' = dlq \cup {tx[w].id}

\* handleWithRetry after a failed try: try again, or hand the event to the DLQ.
FailConsumer(w) ==
  /\ UNCHANGED <<journals, inbox, accounts, balances, outbox>>
  /\ IF tx[w].tries < MaxRetries
       THEN Step(w, Call("mark", tx[w].id, NoDraft, tx[w].tries + 1)) /\ UNCHANGED dlq
       ELSE Step(w, Idle) /\ dlq' = dlq \cup {tx[w].id}

\* The transaction rolls back; an operator gets the error, a consumer retries.
Fail(w) ==
  IF w \in Consumers
    THEN FailConsumer(w)
    ELSE Step(w, Idle) /\ UNCHANGED <<journals, inbox, accounts, balances, outbox, dlq>>

-----------------------------------------------------------------------------
(* HandlePaymentEvent. *)

\* The consumer polls a record: a first delivery or a repeated one, in any order.
Deliver(w, e) ==
  /\ tx[w].phase = "idle"
  /\ Step(w, Call("mark", e, NoDraft, 0))
  /\ UNCHANGED <<journals, inbox, accounts, balances, outbox, dlq>>

\* Nothing to post, or posted before: only the processed_events row of an event is kept.
Acknowledge(w) ==
  /\ inbox' = inbox \cup ({tx[w].id} \cap Events)
  /\ Step(w, Idle)
  /\ UNCHANGED <<journals, accounts, balances, outbox, dlq>>

\* The journal TemplateFor makes of event e.
DraftFor(e) ==
  [template |-> TemplateName[EventData[e].type], ref |-> EventData[e].ref,
   entries |-> EntriesFor(EventData[e]), reversalOf |-> None]

\* MarkProcessed, then TemplateFor.
MarkProcessed(w) ==
  LET e == tx[w].id
      ev == EventData[e]
  IN /\ tx[w].phase = "mark" /\ Blockers(w) = {}
     /\ IF e \in inbox \/ ev.type \in SilentTypes
          THEN Acknowledge(w)
          ELSE IF ~WellFormed(ev)
            THEN FailConsumer(w)
            ELSE /\ Step(w, [tx[w] EXCEPT
                         !.phase = IF ev.type = "refund.failed" THEN "link" ELSE "check",
                         !.draft = DraftFor(e)])
                 /\ UNCHANGED <<journals, inbox, accounts, balances, outbox, dlq>>

\* Mutant of CanReverse: the lines of the two journals are not compared.
CanReverseUnchecked(w, o) == o \in Posted /\ Reversals(o) = {} /\ w \in Workers

\* A journal that stands and that the draft of w undoes exactly.
CanReverse(w, o) ==
  /\ o \in Posted
  /\ Reversals(o) = {}
  /\ Mirrors(journals[o].entries, tx[w].draft.entries)

\* linkReversal: a J-REF-FAIL points to the J-REF-PEND it undoes, if it finds one.
LinkReversal(w) ==
  LET pend == {j \in Posted : /\ journals[j].template = "J-REF-PEND"
                              /\ journals[j].ref = tx[w].draft.ref}
      found == IF pend = {} THEN None ELSE CHOOSE j \in pend : TRUE
  IN /\ tx[w].phase = "link"
     /\ Step(w, [tx[w] EXCEPT !.phase = "check",
                   !.draft.reversalOf = IF CanReverse(w, found) THEN found ELSE None])
     /\ UNCHANGED <<journals, inbox, accounts, balances, outbox, dlq>>

-----------------------------------------------------------------------------
(* Operator calls. *)

\* ReverseJournal: the key has not been used (else the earlier journal is returned).
ReverseJournal(w, k, o) ==
  /\ tx[w].phase = "idle"
  /\ journals[k] = None
  /\ Step(w, Call("original", k, [NoDraft EXCEPT !.template = "J-REV", !.reversalOf = o], 0))
  /\ UNCHANGED <<journals, inbox, accounts, balances, outbox, dlq>>

\* It reads the original and builds the mirrored journal, unless already reversed.
ReadOriginal(w) ==
  LET o == tx[w].draft.reversalOf
  IN /\ tx[w].phase = "original"
     /\ IF o \in Posted /\ Reversals(o) = {}
          THEN Step(w, [tx[w] EXCEPT !.phase = "check",
                          !.draft.entries = Mirror(journals[o].entries),
                          !.draft.ref = journals[o].ref])
          ELSE Step(w, Idle)
     /\ UNCHANGED <<journals, inbox, accounts, balances, outbox, dlq>>

\* PostManualJournal: the accounts exist and the entries balance.
PostManualJournal(w, k, d) ==
  /\ tx[w].phase = "idle"
  /\ \A i \in DOMAIN d.entries : d.entries[i].account \in accounts
  /\ Valid(d.entries)
  /\ Step(w, Call("check", k, [template |-> IF d.reversalOf = None THEN "" ELSE "J-REV",
                               ref |-> "", entries |-> d.entries,
                               reversalOf |-> d.reversalOf], 0))
  /\ UNCHANGED <<journals, inbox, accounts, balances, outbox, dlq>>

-----------------------------------------------------------------------------
(* postJournalTx. *)

\* GetByEventID, then the check of a reversal against its original.
CheckExisting(w) ==
  LET o == tx[w].draft.reversalOf
  IN /\ tx[w].phase = "check"
     /\ IF journals[tx[w].id] # None
          THEN Acknowledge(w)
          ELSE IF o # None /\ ~CanReverse(w, o)
          THEN Fail(w)
          ELSE /\ Step(w, [tx[w] EXCEPT !.phase = "ensure"])
               /\ UNCHANGED <<journals, inbox, accounts, balances, outbox, dlq>>

\* EnsureAccount: INSERT ... ON CONFLICT DO NOTHING of the next account that is missing.
EnsureAccount(w) ==
  /\ tx[w].phase = "ensure" /\ Blockers(w) = {}
  /\ Step(w, IF Missing(w) = {}
               THEN [tx[w] EXCEPT !.phase = "insert"]
               ELSE [tx[w] EXCEPT !.created = @ \cup {NextAccount(w)}])
  /\ UNCHANGED <<journals, inbox, accounts, balances, outbox, dlq>>

\* INSERT INTO journals; the unique event_id refuses a second one.
InsertJournal(w) ==
  /\ tx[w].phase = "insert" /\ Blockers(w) = {}
  /\ IF journals[tx[w].id] # None
       THEN Fail(w)
       ELSE /\ Step(w, [tx[w] EXCEPT !.phase = "entries"])
            /\ UNCHANGED <<journals, inbox, accounts, balances, outbox, dlq>>

\* The balance of account a as the transaction that wrote these rows sees it.
Written(rows, a) == IF a \in DOMAIN rows THEN rows[a] ELSE balances[a]

With(rows, a, n) == [b \in DOMAIN rows \cup {a} |-> IF b = a THEN n ELSE rows[b]]

\* Mutant of InsertEntry: the balance is read without the row lock.
InsertEntryUnlocked(w) ==
  LET e == tx[w].draft.entries[tx[w].next]
      a == e.account
      before == Written(tx[w].rows, a)
  IN /\ tx[w].phase = "entries"
     /\ Step(w, [tx[w] EXCEPT !.phase = IF tx[w].next = Len(tx[w].draft.entries) THEN "commit" ELSE @,
                              !.next = @ + 1,
                              !.rows = With(@, a, before + SignedDelta(e))])
     /\ UNCHANGED <<journals, inbox, accounts, balances, outbox, dlq>>

\* INSERT INTO entries; the trigger updates the balance row, which stays locked.
InsertEntry(w) ==
  LET e == tx[w].draft.entries[tx[w].next]
      a == e.account
      before == Written(tx[w].rows, a)
  IN /\ tx[w].phase = "entries" /\ Blockers(w) = {}
     /\ Step(w, [tx[w] EXCEPT !.phase = IF tx[w].next = Len(tx[w].draft.entries) THEN "commit" ELSE @,
                              !.next = @ + 1,
                              !.rows = With(@, a, before + SignedDelta(e))])
     /\ UNCHANGED <<journals, inbox, accounts, balances, outbox, dlq>>

\* The deferred trigger checks the balance of the journal, and everything becomes visible.
Commit(w) ==
  LET t == tx[w]
  IN /\ t.phase = "commit"
     /\ Valid(t.draft.entries)
     /\ journals' = [journals EXCEPT ![t.id] = t.draft]
     /\ inbox' = inbox \cup ({t.id} \cap Events)
     /\ accounts' = accounts \cup t.created
     /\ balances' = [a \in Accounts |-> Written(t.rows, a)]
     /\ outbox' = outbox \cup {t.id}
     /\ Step(w, Idle)
     /\ UNCHANGED dlq

-----------------------------------------------------------------------------
(* The database and the process around a call. *)

\* CreateAccount, a transaction of one statement.
CreateAccount(a) ==
  /\ a \notin accounts
  /\ \A w \in Workers : a \notin tx[w].created
  /\ accounts' = accounts \cup {a}
  /\ UNCHANGED <<journals, inbox, balances, outbox, dlq, tx>>

\* A statement or the commit of a consumer fails: timeout, lost connection.
DatabaseError(w) ==
  /\ tx[w].phase # "idle"
  /\ FailConsumer(w)

\* The process dies or the caller gives up: the open transaction is rolled back.
Crash(w) ==
  /\ tx[w].phase # "idle"
  /\ Step(w, Idle)
  /\ UNCHANGED <<journals, inbox, accounts, balances, outbox, dlq>>

\* PostgreSQL finds transactions that wait for one another and aborts one of them.
Deadlocked(w) ==
  \E S \in SUBSET Workers : w \in S /\ \A v \in S : Blockers(v) \cap S # {}

AbortDeadlock(w) == Deadlocked(w) /\ Fail(w)

-----------------------------------------------------------------------------

Init ==
  /\ journals = [j \in JournalIds |-> None]
  /\ inbox = {}
  /\ accounts = {}
  /\ balances = [a \in Accounts |-> 0]
  /\ outbox = {}
  /\ dlq = {}
  /\ tx = [w \in Workers |-> Idle]

Advance(w) ==
  \/ MarkProcessed(w) \/ LinkReversal(w) \/ ReadOriginal(w) \/ CheckExisting(w)
  \/ EnsureAccount(w) \/ InsertJournal(w) \/ InsertEntry(w) \/ Commit(w)
  \/ AbortDeadlock(w)

Next ==
  \/ \E w \in Consumers : \/ \E e \in Events : Deliver(w, e)
                          \/ DatabaseError(w)
  \/ \E w \in Operators, k \in Keys : \/ \E o \in JournalIds : ReverseJournal(w, k, o)
                                      \/ \E d \in Drafts : PostManualJournal(w, k, d)
  \/ \E a \in Opened : CreateAccount(a)
  \/ \E w \in Workers : Advance(w) \/ Crash(w)

Spec == Init /\ [][Next]_vars

-----------------------------------------------------------------------------
(* Properties. *)

\* The tables and the open transactions keep the shape the schema and the Go types give them.
TypeOK ==
  /\ journals \in [JournalIds -> Draft \cup {None}]
  /\ inbox \subseteq Events
  /\ accounts \subseteq Accounts
  /\ balances \in [Accounts -> Int]
  /\ outbox \subseteq JournalIds
  /\ dlq \subseteq Events
  /\ DOMAIN tx = Workers
  /\ \A w \in Workers :
       /\ tx[w].phase \in Phases
       /\ tx[w].id \in JournalIds \cup {None}
       /\ tx[w].draft \in Draft
       /\ tx[w].next \in 1..Len(tx[w].draft.entries) + 1
       /\ tx[w].tries \in 0..MaxRetries
       /\ tx[w].created \subseteq Accounts
       /\ DOMAIN tx[w].rows \subseteq Accounts
       /\ \A a \in DOMAIN tx[w].rows : tx[w].rows[a] \in Int

\* What an event does to the merchant's account, from docs/02-domain-and-ledger.md 7.3.
MerchantEffect(ev) ==
  CASE ev.type = "payment.captured" -> ev.amount - ev.fee
    [] ev.type = "refund.created"   -> -ev.amount
    [] ev.type = "refund.succeeded" -> -ev.fee
    [] ev.type = "refund.failed"    -> ev.amount
    [] ev.type = "dispute.opened"   -> -(ev.amount + ev.fee)
    [] ev.type = "dispute.lost"     -> 0
    [] ev.type = "dispute.won"      ->
         ev.amount + (IF RefundChargebackFeeOnWin THEN ev.fee ELSE 0)

Correct(entries, ev) ==
  Valid(entries) /\ Effect(entries, "merchant_payable") = MerchantEffect(ev)

SomeEvents == [type : PostingTypes, ref : {""}, amount : 1..3, fee : 0..3]
AllTemplatesCorrect == \A ev \in SomeEvents : WellFormed(ev) => Correct(EntriesFor(ev), ev)

\* Every template makes a journal that Journal.Validate and the deferred trigger accept, also
\* where a fee is zero or takes the whole amount, and moves what the merchant is owed by
\* exactly what its event says; so does every journal a payment event has posted.
TemplatesBalance ==
  /\ AllTemplatesCorrect
  /\ \A e \in Posted \cap Events : Correct(journals[e].entries, EventData[e])

\* v_balance_drift stays empty: the balance the triggers of 0002_entries.up.sql maintain is
\* the sum of the entries of the committed journals, whatever transactions interleave,
\* roll back or crash.
NoBalanceDrift ==
  \A a \in Accounts :
    balances[a] = SumFunction([j \in Posted |-> Effect(journals[j].entries, a)])

\* The processed_events row, the journal and its ledger.events row of HandlePaymentEvent
\* stand or fall together: an event marked processed has been posted if it posts at all, so
\* no redelivery that is ignored was the last chance to book it.
ProcessedMeansPosted ==
  /\ \A e \in inbox : EventData[e].type \in PostingTypes => e \in Posted
  /\ Posted \cap Events \subseteq inbox
  /\ outbox = Posted

\* The journals of a refund, in whatever order its events came.
JournalsOf(r) == {e \in Posted \cap Events : EventData[e].ref = r}

RefundClosed(r) ==
  /\ \E e \in JournalsOf(r) : EventData[e].type = "refund.created"
  /\ \E e \in JournalsOf(r) : EventData[e].type \in {"refund.succeeded", "refund.failed"}

\* Once a refund is booked as created and as succeeded or failed, nothing of it is left in
\* refund_clearing, also when the outcome was booked first and the J-REF-FAIL found no
\* J-REF-PEND to link to.
ClearingIsEmptied ==
  \A r \in {EventData[e].ref : e \in Events} :
    RefundClosed(r) =>
      SumFunction([e \in JournalsOf(r) |->
                     Effect(journals[e].entries, "refund_clearing")]) = 0

\* A journal that says it reverses another undoes every line of it: together the two leave
\* every account where it was (ValidateReversal, also for entries an operator typed in).
ReversalsCancelOut ==
  \A j \in Posted : journals[j].reversalOf # None =>
    /\ journals[j].reversalOf \in Posted
    /\ \A a \in Accounts :
         Effect(journals[j].entries, a) + Effect(journals[journals[j].reversalOf].entries, a) = 0

\* docs/02-domain-and-ledger.md:527: the application guarantees that a journal is reversed
\* only once.
ReversedOnce ==
  \A o \in JournalIds : Cardinality(Reversals(o)) <= 1

=============================================================================
