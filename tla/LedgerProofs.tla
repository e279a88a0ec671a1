----------------------------- MODULE LedgerProofs -----------------------------
(***************************************************************************)
(* Theorems about Ledger, for any sets of workers, events and operator     *)
(* calls, any content of the events and any number of retries.             *)
(***************************************************************************)
EXTENDS Ledger, SumTheorems, SequenceTheorems

-----------------------------------------------------------------------------
(* The inductive invariant. *)

Rows == UNION {[A -> Int] : A \in SUBSET Accounts}
CallType == [phase : Phases, id : JournalIds \cup {None}, draft : Draft, next : Nat,
             tries : 0 .. MaxRetries, created : SUBSET Accounts, rows : Rows]

TablesOK ==
  /\ journals \in [JournalIds -> Draft \cup {None}]
  /\ inbox \subseteq Events
  /\ accounts \subseteq Accounts
  /\ balances \in [Accounts -> Int]
  /\ outbox \subseteq JournalIds
  /\ dlq \subseteq Events
  /\ IsFiniteSet(Posted)

\* What a line x adds to account a and to the total of direction d.
Term(x, a) == IF x.account = a THEN SignedDelta(x) ELSE 0
Share(x, d) == IF x.direction = d THEN x.amount ELSE 0

\* The terms of Effect(entries, a), and what the first n of them add up to.
Terms(entries, a) == [i \in DOMAIN entries |-> Term(entries[i], a)]
Partial(entries, a, n) == SumFunctionOnSet(Terms(entries, a), 1 .. n)

\* The entries are the ones the template makes of event e.
FromEvent(e, entries) ==
  /\ EventData[e].type \in PostingTypes
  /\ WellFormed(EventData[e])
  /\ entries = EntriesFor(EventData[e])

\* A journal that names an original is its mirror image, and the original stands.
Undoes(d) ==
  d.reversalOf # None =>
    /\ d.reversalOf \in Posted
    /\ Mirrors(journals[d.reversalOf].entries, d.entries)

JournalOK(j) ==
  /\ Len(journals[j].entries) >= 2
  /\ j \in Events => FromEvent(j, journals[j].entries)
  /\ Undoes(journals[j])

Inserting == {"entries", "commit"}

\* The transaction t of worker w.
IdentityOK(w, t) ==
  /\ t.phase # "idle" => t.id \in (IF w \in Consumers THEN Events ELSE Keys)
  /\ t.phase \in {"mark", "link"} => w \in Consumers
  /\ t.phase = "original" => w \in Operators
DraftOK(w, t) ==
  /\ w \in Consumers /\ t.phase \notin {"idle", "mark"} =>
       t.id \notin inbox /\ FromEvent(t.id, t.draft.entries)
  /\ t.phase \notin {"idle", "mark", "original"} => Len(t.draft.entries) >= 2
  /\ t.phase \in {"ensure", "insert", "entries", "commit"} => Undoes(t.draft)
RowsOK(t) ==
  /\ t.phase \in Inserting =>
       /\ journals[t.id] = None
       /\ \A a \in Accounts :
            Written(t.rows, a) = balances[a] + Partial(t.draft.entries, a, t.next - 1)
  /\ t.phase \notin Inserting => DOMAIN t.rows = {} /\ t.next = 1
  /\ t.phase = "entries" => t.next \in 1 .. Len(t.draft.entries)
  /\ t.phase = "commit" => t.next = Len(t.draft.entries) + 1
CallOK(w, t) == IdentityOK(w, t) /\ DraftOK(w, t) /\ RowsOK(t)

\* What the row locks keep apart: an event marked, a journal inserted, a balance written.
Apart(v, s, w, t) ==
  /\ v \in Consumers /\ w \in Consumers /\ s.id = t.id =>
       s.phase \in {"idle", "mark"} \/ t.phase \in {"idle", "mark"}
  /\ s.phase \in Inserting /\ t.phase \in Inserting => s.id # t.id
  /\ DOMAIN s.rows \cap DOMAIN t.rows = {}

Calls ==
  /\ \A w \in Workers : CallOK(w, tx[w])
  /\ \A v, w \in Workers : v # w => Apart(v, tx[v], w, tx[w])

Journals == \A j \in Posted : JournalOK(j)

IInv ==
  /\ TablesOK
  /\ tx \in [Workers -> CallType]
  /\ Calls
  /\ Journals
  /\ ProcessedMeansPosted
  /\ NoBalanceDrift

-----------------------------------------------------------------------------
(* Entries, effects and templates. *)

\* A line changes its account by its amount, up or down.
LEMMA TermInt ==
  ASSUME NEW x \in Entry
  PROVE  /\ \A a : Term(x, a) \in Int
         /\ \A d : Share(x, d) \in Int
BY DEF Entry, Term, Share, SignedDelta

\* Effect and Total as sums over 1 .. Len(entries).
LEMMA EffectIs ==
  ASSUME NEW entries \in Seq(Entry), NEW a
  PROVE  /\ Effect(entries, a) = Partial(entries, a, Len(entries))
         /\ DOMAIN Terms(entries, a) = 1 .. Len(entries)
         /\ \A i \in 1 .. Len(entries) :
              Terms(entries, a)[i] = Term(entries[i], a) /\ Terms(entries, a)[i] \in Int
         /\ Effect(entries, a) \in Int
<1>1. DOMAIN entries = 1 .. Len(entries) /\ \A i \in 1 .. Len(entries) : entries[i] \in Entry
  OBVIOUS
<1>2. DOMAIN Terms(entries, a) = 1 .. Len(entries)
  BY <1>1 DEF Terms
<1>3. \A i \in 1 .. Len(entries) :
        Terms(entries, a)[i] = Term(entries[i], a) /\ Terms(entries, a)[i] \in Int
  BY <1>1, TermInt DEF Terms
<1>4. Effect(entries, a) = SumFunction(Terms(entries, a))
  BY DEF Effect, Terms, Term
<1>5. Effect(entries, a) = Partial(entries, a, Len(entries))
  BY <1>2, <1>4 DEF SumFunction, Partial
<1>6. IsFiniteSet(1 .. Len(entries))
  BY FS_Interval
<1>7. Effect(entries, a) \in Int
  BY <1>3, <1>5, <1>6, SumInt DEF Partial
<1> QED
  BY <1>2, <1>3, <1>5, <1>7

\* A journal of two lines.
LEMMA TwoLines ==
  ASSUME NEW x \in Entry, NEW y \in Entry, NEW s, s = <<x, y>>
  PROVE  /\ s \in Seq(Entry) /\ Len(s) = 2
         /\ \A i \in DOMAIN s : s[i] \in {x, y}
         /\ \A a : Effect(s, a) = Term(x, a) + Term(y, a)
         /\ \A d : Total(s, d) = Share(x, d) + Share(y, d)
<1>1. s \in Seq(Entry) /\ Len(s) = 2 /\ DOMAIN s = 1 .. 2 /\ s[1] = x /\ s[2] = y
  OBVIOUS
<1>2. ASSUME NEW a PROVE Effect(s, a) = Term(x, a) + Term(y, a)
  <2>1. Effect(s, a) = SumFunctionOnSet(Terms(s, a), 1 .. 2)
    BY <1>1, EffectIs DEF Partial
  <2>2. \A i \in 1 .. 2 : Terms(s, a)[i] = Term(s[i], a) /\ Terms(s, a)[i] \in Int
    BY <1>1, EffectIs
  <2>3. /\ \A i \in 1 .. 2 : Terms(s, a)[i] \in Int
        /\ Terms(s, a)[1] = Term(x, a) /\ Terms(s, a)[2] = Term(y, a)
    BY <1>1, <2>2
  <2> QED
    BY <2>1, <2>3, SumShort
<1>3. ASSUME NEW d PROVE Total(s, d) = Share(x, d) + Share(y, d)
  <2> DEFINE f == [i \in DOMAIN s |-> IF s[i].direction = d THEN s[i].amount ELSE 0]
  <2>1. Total(s, d) = SumFunctionOnSet(f, 1 .. 2)
    BY <1>1 DEF Total, SumFunction
  <2>2. (\A i \in 1 .. 2 : f[i] \in Int) /\ f[1] = Share(x, d) /\ f[2] = Share(y, d)
    BY <1>1, TermInt DEF Share
  <2> HIDE DEF f
  <2> QED
    BY <2>1, <2>2, SumShort
<1> QED
  BY <1>1, <1>2, <1>3

\* A journal of three lines.
LEMMA ThreeLines ==
  ASSUME NEW x \in Entry, NEW y \in Entry, NEW z \in Entry, NEW s, s = <<x, y, z>>
  PROVE  /\ s \in Seq(Entry) /\ Len(s) = 3
         /\ \A i \in DOMAIN s : s[i] \in {x, y, z}
         /\ \A a : Effect(s, a) = Term(x, a) + Term(y, a) + Term(z, a)
         /\ \A d : Total(s, d) = Share(x, d) + Share(y, d) + Share(z, d)
<1>1. s \in Seq(Entry) /\ Len(s) = 3 /\ DOMAIN s = 1 .. 3 /\ s[1] = x /\ s[2] = y /\ s[3] = z
  OBVIOUS
<1>2. ASSUME NEW a PROVE Effect(s, a) = Term(x, a) + Term(y, a) + Term(z, a)
  <2>1. Effect(s, a) = SumFunctionOnSet(Terms(s, a), 1 .. 3)
    BY <1>1, EffectIs DEF Partial
  <2>2. \A i \in 1 .. 3 : Terms(s, a)[i] = Term(s[i], a) /\ Terms(s, a)[i] \in Int
    BY <1>1, EffectIs
  <2>3. /\ \A i \in 1 .. 3 : Terms(s, a)[i] \in Int
        /\ Terms(s, a)[1] = Term(x, a) /\ Terms(s, a)[2] = Term(y, a)
        /\ Terms(s, a)[3] = Term(z, a)
    BY <1>1, <2>2
  <2> QED
    BY <2>1, <2>3, SumShort
<1>3. ASSUME NEW d PROVE Total(s, d) = Share(x, d) + Share(y, d) + Share(z, d)
  <2> DEFINE f == [i \in DOMAIN s |-> IF s[i].direction = d THEN s[i].amount ELSE 0]
  <2>1. Total(s, d) = SumFunctionOnSet(f, 1 .. 3)
    BY <1>1 DEF Total, SumFunction
  <2>2. /\ \A i \in 1 .. 3 : f[i] \in Int
        /\ f[1] = Share(x, d) /\ f[2] = Share(y, d) /\ f[3] = Share(z, d)
    BY <1>1, TermInt DEF Share
  <2> HIDE DEF f
  <2> QED
    BY <2>1, <2>2, SumShort
<1> QED
  BY <1>1, <1>2, <1>3

\* A journal of four lines.
LEMMA FourLines ==
  ASSUME NEW x \in Entry, NEW y \in Entry, NEW z \in Entry, NEW u \in Entry,
         NEW s, s = <<x, y, z, u>>
  PROVE  /\ s \in Seq(Entry) /\ Len(s) = 4
         /\ \A i \in DOMAIN s : s[i] \in {x, y, z, u}
         /\ \A a : Effect(s, a) = Term(x, a) + Term(y, a) + Term(z, a) + Term(u, a)
         /\ \A d : Total(s, d) = Share(x, d) + Share(y, d) + Share(z, d) + Share(u, d)
<1>1. /\ s \in Seq(Entry) /\ Len(s) = 4 /\ DOMAIN s = 1 .. 4
      /\ s[1] = x /\ s[2] = y /\ s[3] = z /\ s[4] = u
  OBVIOUS
<1>2. ASSUME NEW a PROVE Effect(s, a) = Term(x, a) + Term(y, a) + Term(z, a) + Term(u, a)
  <2>1. Effect(s, a) = SumFunctionOnSet(Terms(s, a), 1 .. 4)
    BY <1>1, EffectIs DEF Partial
  <2>2. \A i \in 1 .. 4 : Terms(s, a)[i] = Term(s[i], a) /\ Terms(s, a)[i] \in Int
    BY <1>1, EffectIs
  <2>3. /\ \A i \in 1 .. 4 : Terms(s, a)[i] \in Int
        /\ Terms(s, a)[1] = Term(x, a) /\ Terms(s, a)[2] = Term(y, a)
        /\ Terms(s, a)[3] = Term(z, a) /\ Terms(s, a)[4] = Term(u, a)
    BY <1>1, <2>2
  <2> QED
    BY <2>1, <2>3, SumShort
<1>3. ASSUME NEW d PROVE Total(s, d) = Share(x, d) + Share(y, d) + Share(z, d) + Share(u, d)
  <2> DEFINE f == [i \in DOMAIN s |-> IF s[i].direction = d THEN s[i].amount ELSE 0]
  <2>1. Total(s, d) = SumFunctionOnSet(f, 1 .. 4)
    BY <1>1 DEF Total, SumFunction
  <2>2. /\ \A i \in 1 .. 4 : f[i] \in Int
        /\ f[1] = Share(x, d) /\ f[2] = Share(y, d) /\ f[3] = Share(z, d) /\ f[4] = Share(u, d)
    BY <1>1, TermInt DEF Share
  <2> HIDE DEF f
  <2> QED
    BY <2>1, <2>2, SumShort
<1> QED
  BY <1>1, <1>2, <1>3

\* A line of either side with a positive amount.
LEMMA LineIs ==
  ASSUME NEW k \in Accounts, NEW n \in Nat
  PROVE  /\ Debit(k, n) \in Entry /\ Credit(k, n) \in Entry
         /\ Debit(k, n).amount = n /\ Credit(k, n).amount = n
         /\ \A a : Term(Debit(k, n), a) = IF k = a THEN (IF k \in DebitKinds THEN n ELSE -n) ELSE 0
         /\ \A a : Term(Credit(k, n), a) = IF k = a THEN (IF k \in DebitKinds THEN -n ELSE n) ELSE 0
         /\ Share(Debit(k, n), "debit") = n /\ Share(Debit(k, n), "credit") = 0
         /\ Share(Credit(k, n), "credit") = n /\ Share(Credit(k, n), "debit") = 0
BY DEF Debit, Credit, Entry, Directions, Term, Share, SignedDelta, NormalBalance

\* An event that can fill a template makes the journal of docs/02-domain-and-ledger.md 7.3:
\* balanced lines, and what the merchant and the clearing account of refunds get from them.
Made(entries, ev) ==
  /\ entries \in Seq(Entry)
  /\ Correct(entries, ev)
  /\ Effect(entries, "refund_clearing") =
       CASE ev.type = "refund.created" -> ev.amount
         [] ev.type \in {"refund.succeeded", "refund.failed"} -> -ev.amount
         [] OTHER -> 0

\* Short sequences put together.
LEMMA Joined ==
  ASSUME NEW x, NEW y, NEW z
  PROVE  /\ <<x>> \o << >> = <<x>> /\ <<x, y>> \o << >> = <<x, y>>
         /\ <<x>> \o <<y>> = <<x, y>>
         /\ <<x, y>> \o <<z>> = <<x, y, z>>
<1> DEFINE S == {x, y, z}
<1>1. <<x>> \o << >> = <<x>> /\ <<x, y>> \o << >> = <<x, y>>
  OBVIOUS
<1>2. <<x>> \o <<y>> = <<x, y>>
  <2>1. PICK s, p, q : s = <<x>> /\ p = <<y>> /\ q = <<x, y>>
    OBVIOUS
  <2>2. /\ s \in Seq(S) /\ p \in Seq(S) /\ q \in Seq(S)
        /\ Len(s) = 1 /\ Len(p) = 1 /\ Len(q) = 2 /\ s[1] = x /\ p[1] = y /\ q[1] = x /\ q[2] = y
    BY <2>1
  <2>3. s \o p \in Seq(S) /\ Len(s \o p) = 2 /\ (s \o p)[1] = x /\ (s \o p)[2] = y
    BY <2>2, ConcatProperties
  <2>4. s \o p = q
    BY <2>2, <2>3, SeqEqual
  <2> QED
    BY <2>1, <2>4
<1>3. <<x, y>> \o <<z>> = <<x, y, z>>
  <2>1. PICK s, p, q : s = <<x, y>> /\ p = <<z>> /\ q = <<x, y, z>>
    OBVIOUS
  <2>2. /\ s \in Seq(S) /\ p \in Seq(S) /\ q \in Seq(S)
        /\ Len(s) = 2 /\ Len(p) = 1 /\ Len(q) = 3
        /\ s[1] = x /\ s[2] = y /\ p[1] = z /\ q[1] = x /\ q[2] = y /\ q[3] = z
    BY <2>1
  <2> HIDE DEF S
  <2>3. /\ s \o p \in Seq(S) /\ Len(s \o p) = Len(s) + Len(p)
        /\ \A i \in 1 .. Len(s) + Len(p) :
             (s \o p)[i] = IF i <= Len(s) THEN s[i] ELSE p[i - Len(s)]
    BY <2>2, ConcatProperties
  <2>4. PICK c : c = s \o p
    OBVIOUS
  <2>5. c \in Seq(S) /\ Len(c) = 3 /\ c[1] = x /\ c[2] = y /\ c[3] = z
    BY <2>2, <2>3, <2>4
  <2>6. \A i \in 1 .. 3 : c[i] = q[i]
    BY <2>2, <2>5
  <2>7. c = q
    BY <2>2, <2>5, <2>6, SeqEqual
  <2> QED
    BY <2>1, <2>4, <2>7
<1> QED
  BY <1>1, <1>2, <1>3

\* Two pairs put together.
LEMMA JoinedFour ==
  ASSUME NEW x, NEW y, NEW z, NEW u
  PROVE  <<x, y>> \o <<z, u>> = <<x, y, z, u>>
<1> DEFINE S == {x, y, z, u}
<1>1. PICK s, p, q : s = <<x, y>> /\ p = <<z, u>> /\ q = <<x, y, z, u>>
  OBVIOUS
<1>2. /\ s \in Seq(S) /\ p \in Seq(S) /\ q \in Seq(S)
      /\ Len(s) = 2 /\ Len(p) = 2 /\ Len(q) = 4
      /\ s[1] = x /\ s[2] = y /\ p[1] = z /\ p[2] = u
      /\ q[1] = x /\ q[2] = y /\ q[3] = z /\ q[4] = u
  BY <1>1
<1> HIDE DEF S
<1>3. /\ s \o p \in Seq(S) /\ Len(s \o p) = Len(s) + Len(p)
      /\ \A i \in 1 .. Len(s) + Len(p) :
           (s \o p)[i] = IF i <= Len(s) THEN s[i] ELSE p[i - Len(s)]
  BY <1>2, ConcatProperties
<1>4. PICK c : c = s \o p
  OBVIOUS
<1>5. /\ c \in Seq(S) /\ Len(c) = 4
      /\ \A i \in 1 .. 4 : c[i] = IF i <= 2 THEN s[i] ELSE p[i - 2]
  BY <1>2, <1>3, <1>4
<1>6. c[1] = x /\ c[2] = y /\ c[3] = z /\ c[4] = u
  BY <1>2, <1>5
<1>7. \A i \in 1 .. 4 : c[i] = q[i]
  BY <1>2, <1>6
<1>8. c = q
  BY <1>2, <1>5, <1>7, SeqEqual
<1> QED
  BY <1>1, <1>4, <1>8

\* TemplateCapture, without a fee, with one, and with a fee that takes it all.
LEMMA CaptureMade ==
  ASSUME NEW ev, ev.amount \in Int, ev.fee \in Int, WellFormed(ev), ev.type = "payment.captured"
  PROVE  Made(EntriesFor(ev), ev)
<1>0. ev.amount \in Nat /\ ev.fee \in Nat /\ ev.amount > 0 /\ ev.fee <= ev.amount
      /\ ev.amount - ev.fee \in Nat
  BY DEF WellFormed
<1>1. EntriesFor(ev) = TemplateCapture(ev)
  BY DEF EntriesFor
<1>2. PICK x, y, z :
        /\ x = Debit("psp_receivable", ev.amount)
        /\ y = Credit("merchant_payable", ev.amount - ev.fee)
        /\ z = Credit("fee_revenue", ev.fee)
  OBVIOUS
<1>3. {"psp_receivable", "merchant_payable", "fee_revenue"} \subseteq Accounts
  BY DEF Accounts, DebitKinds, CreditKinds
<1>4. /\ x \in Entry /\ x.amount = ev.amount
      /\ Term(x, "merchant_payable") = 0 /\ Term(x, "refund_clearing") = 0
      /\ Share(x, "debit") = ev.amount /\ Share(x, "credit") = 0
  BY <1>0, <1>2, <1>3, LineIs DEF DebitKinds
<1>5. /\ y \in Entry /\ y.amount = ev.amount - ev.fee
      /\ Term(y, "merchant_payable") = ev.amount - ev.fee /\ Term(y, "refund_clearing") = 0
      /\ Share(y, "debit") = 0 /\ Share(y, "credit") = ev.amount - ev.fee
  BY <1>0, <1>2, <1>3, LineIs DEF DebitKinds
<1>6. /\ z \in Entry /\ z.amount = ev.fee
      /\ Term(z, "merchant_payable") = 0 /\ Term(z, "refund_clearing") = 0
      /\ Share(z, "debit") = 0 /\ Share(z, "credit") = ev.fee
  BY <1>0, <1>2, <1>3, LineIs DEF DebitKinds
<1>7. CASE ev.fee = 0
  <2>1. EntriesFor(ev) = <<x, y>>
    <3>1. TemplateCapture(ev) = (<<x>> \o <<y>>) \o << >>
      BY <1>0, <1>2, <1>7 DEF TemplateCapture, Lines
    <3> QED
      BY <1>1, <3>1, Joined, Zenon
  <2>2. PICK s : s = EntriesFor(ev)
    OBVIOUS
  <2>3. /\ s \in Seq(Entry) /\ Len(s) = 2 /\ \A i \in DOMAIN s : s[i] \in {x, y}
        /\ Effect(s, "merchant_payable") = Term(x, "merchant_payable") + Term(y, "merchant_payable")
        /\ Effect(s, "refund_clearing") = Term(x, "refund_clearing") + Term(y, "refund_clearing")
        /\ Total(s, "debit") = Share(x, "debit") + Share(y, "debit")
        /\ Total(s, "credit") = Share(x, "credit") + Share(y, "credit")
    BY <1>4, <1>5, <1>6, <2>1, <2>2, TwoLines
  <2>4. \A i \in DOMAIN s : s[i].amount > 0
    BY <1>0, <1>4, <1>5, <1>6, <1>7, <2>3
  <2>5. Valid(s)
    BY <1>0, <1>4, <1>5, <1>6, <1>7, <2>3, <2>4 DEF Valid
  <2>6. Effect(s, "merchant_payable") = MerchantEffect(ev)
    BY <1>0, <1>4, <1>5, <1>6, <1>7, <2>3 DEF MerchantEffect
  <2> QED
    BY <1>0, <1>4, <1>5, <1>6, <1>7, <2>2, <2>3, <2>5, <2>6 DEF Made, Correct
<1>8. CASE ev.fee = ev.amount
  <2>1. EntriesFor(ev) = <<x, z>>
    <3>1. TemplateCapture(ev) = (<<x>> \o << >>) \o <<z>>
      BY <1>0, <1>2, <1>8 DEF TemplateCapture, Lines
    <3> QED
      BY <1>1, <3>1, Joined, Zenon
  <2>2. PICK s : s = EntriesFor(ev)
    OBVIOUS
  <2>3. /\ s \in Seq(Entry) /\ Len(s) = 2 /\ \A i \in DOMAIN s : s[i] \in {x, z}
        /\ Effect(s, "merchant_payable") = Term(x, "merchant_payable") + Term(z, "merchant_payable")
        /\ Effect(s, "refund_clearing") = Term(x, "refund_clearing") + Term(z, "refund_clearing")
        /\ Total(s, "debit") = Share(x, "debit") + Share(z, "debit")
        /\ Total(s, "credit") = Share(x, "credit") + Share(z, "credit")
    BY <1>4, <1>5, <1>6, <2>1, <2>2, TwoLines
  <2>4. \A i \in DOMAIN s : s[i].amount > 0
    BY <1>0, <1>4, <1>5, <1>6, <1>8, <2>3
  <2>5. Valid(s)
    BY <1>0, <1>4, <1>5, <1>6, <1>8, <2>3, <2>4 DEF Valid
  <2>6. Effect(s, "merchant_payable") = MerchantEffect(ev)
    BY <1>0, <1>4, <1>5, <1>6, <1>8, <2>3 DEF MerchantEffect
  <2> QED
    BY <1>0, <1>4, <1>5, <1>6, <1>8, <2>2, <2>3, <2>5, <2>6 DEF Made, Correct
<1>9. CASE ev.fee # 0 /\ ev.fee # ev.amount
  <2>1. EntriesFor(ev) = <<x, y, z>>
    <3>1. TemplateCapture(ev) = (<<x>> \o <<y>>) \o <<z>>
      BY <1>0, <1>2, <1>9 DEF TemplateCapture, Lines
    <3> QED
      BY <1>1, <3>1, Joined, Zenon
  <2>2. PICK s : s = EntriesFor(ev)
    OBVIOUS
  <2>3. /\ s \in Seq(Entry) /\ Len(s) = 3 /\ \A i \in DOMAIN s : s[i] \in {x, y, z}
        /\ Effect(s, "merchant_payable") = Term(x, "merchant_payable") + Term(y, "merchant_payable")
                                           + Term(z, "merchant_payable")
        /\ Effect(s, "refund_clearing") = Term(x, "refund_clearing") + Term(y, "refund_clearing")
                                          + Term(z, "refund_clearing")
        /\ Total(s, "debit") = Share(x, "debit") + Share(y, "debit") + Share(z, "debit")
        /\ Total(s, "credit") = Share(x, "credit") + Share(y, "credit") + Share(z, "credit")
    BY <1>4, <1>5, <1>6, <2>1, <2>2, ThreeLines
  <2>4. \A i \in DOMAIN s : s[i].amount > 0
    BY <1>0, <1>4, <1>5, <1>6, <1>9, <2>3
  <2>5. Valid(s)
    BY <1>0, <1>4, <1>5, <1>6, <1>9, <2>3, <2>4 DEF Valid
  <2>6. Effect(s, "merchant_payable") = MerchantEffect(ev)
    BY <1>0, <1>4, <1>5, <1>6, <1>9, <2>3 DEF MerchantEffect
  <2> QED
    BY <1>0, <1>4, <1>5, <1>6, <1>9, <2>2, <2>3, <2>5, <2>6 DEF Made, Correct
<1> QED
  BY <1>0, <1>7, <1>8, <1>9

\* TemplateRefundPending.
LEMMA RefundPendingMade ==
  ASSUME NEW ev, ev.amount \in Int, ev.fee \in Int, WellFormed(ev), ev.type = "refund.created"
  PROVE  Made(EntriesFor(ev), ev)
<1>0. ev.amount \in Nat /\ ev.fee \in Nat /\ ev.amount > 0
  BY DEF WellFormed
<1>1. EntriesFor(ev) = TemplateRefundPending(ev)
  BY DEF EntriesFor
<1>2. PICK x, y :
        /\ x = Debit("merchant_payable", ev.amount)
        /\ y = Credit("refund_clearing", ev.amount)
  OBVIOUS
<1>3. {"merchant_payable", "refund_clearing"} \subseteq Accounts
  BY DEF Accounts, DebitKinds, CreditKinds
<1>4. /\ x \in Entry /\ x.amount = ev.amount
      /\ Term(x, "merchant_payable") = -(ev.amount) /\ Term(x, "refund_clearing") = 0
      /\ Share(x, "debit") = ev.amount /\ Share(x, "credit") = 0
  BY <1>0, <1>2, <1>3, LineIs DEF DebitKinds
<1>5. /\ y \in Entry /\ y.amount = ev.amount
      /\ Term(y, "merchant_payable") = 0 /\ Term(y, "refund_clearing") = ev.amount
      /\ Share(y, "debit") = 0 /\ Share(y, "credit") = ev.amount
  BY <1>0, <1>2, <1>3, LineIs DEF DebitKinds
<1>6. EntriesFor(ev) = <<x, y>>
  BY <1>0, <1>1, <1>2, Joined DEF TemplateRefundPending, Lines
<1>7. PICK s : s = EntriesFor(ev)
  OBVIOUS
<1>8. /\ s \in Seq(Entry) /\ Len(s) = 2 /\ \A i \in DOMAIN s : s[i] \in {x, y}
      /\ Effect(s, "merchant_payable") = Term(x, "merchant_payable") + Term(y, "merchant_payable")
      /\ Effect(s, "refund_clearing") = Term(x, "refund_clearing") + Term(y, "refund_clearing")
      /\ Total(s, "debit") = Share(x, "debit") + Share(y, "debit")
      /\ Total(s, "credit") = Share(x, "credit") + Share(y, "credit")
  BY <1>4, <1>5, <1>6, <1>7, TwoLines
<1>9. \A i \in DOMAIN s : s[i].amount > 0
  BY <1>0, <1>4, <1>5, <1>8
<1>10. Valid(s)
  BY <1>0, <1>4, <1>5, <1>8, <1>9 DEF Valid
<1>11. Effect(s, "merchant_payable") = MerchantEffect(ev)
  BY <1>0, <1>4, <1>5, <1>8 DEF MerchantEffect
<1> QED
  BY <1>0, <1>4, <1>5, <1>7, <1>8, <1>10, <1>11 DEF Made, Correct

\* TemplateRefundSucceeded, without and with a fee.
LEMMA RefundSucceededMade ==
  ASSUME NEW ev, ev.amount \in Int, ev.fee \in Int, WellFormed(ev), ev.type = "refund.succeeded"
  PROVE  Made(EntriesFor(ev), ev)
<1>0. ev.amount \in Nat /\ ev.fee \in Nat /\ ev.amount > 0
  BY DEF WellFormed
<1>1. EntriesFor(ev) = TemplateRefundSucceeded(ev)
  BY DEF EntriesFor
<1>2. PICK x, y, z, u :
        /\ x = Debit("refund_clearing", ev.amount)
        /\ y = Credit("psp_receivable", ev.amount)
        /\ z = Debit("merchant_payable", ev.fee)
        /\ u = Credit("fee_revenue", ev.fee)
  OBVIOUS
<1>3. {"refund_clearing", "psp_receivable", "merchant_payable", "fee_revenue"} \subseteq Accounts
  BY DEF Accounts, DebitKinds, CreditKinds
<1>4. /\ x \in Entry /\ x.amount = ev.amount
      /\ Term(x, "merchant_payable") = 0 /\ Term(x, "refund_clearing") = -(ev.amount)
      /\ Share(x, "debit") = ev.amount /\ Share(x, "credit") = 0
  BY <1>0, <1>2, <1>3, LineIs DEF DebitKinds
<1>5. /\ y \in Entry /\ y.amount = ev.amount
      /\ Term(y, "merchant_payable") = 0 /\ Term(y, "refund_clearing") = 0
      /\ Share(y, "debit") = 0 /\ Share(y, "credit") = ev.amount
  BY <1>0, <1>2, <1>3, LineIs DEF DebitKinds
<1>6. /\ z \in Entry /\ z.amount = ev.fee
      /\ Term(z, "merchant_payable") = -(ev.fee) /\ Term(z, "refund_clearing") = 0
      /\ Share(z, "debit") = ev.fee /\ Share(z, "credit") = 0
  BY <1>0, <1>2, <1>3, LineIs DEF DebitKinds
<1>7. /\ u \in Entry /\ u.amount = ev.fee
      /\ Term(u, "merchant_payable") = 0 /\ Term(u, "refund_clearing") = 0
      /\ Share(u, "debit") = 0 /\ Share(u, "credit") = ev.fee
  BY <1>0, <1>2, <1>3, LineIs DEF DebitKinds
<1>8. CASE ev.fee = 0
  <2>1. EntriesFor(ev) = <<x, y>>
    <3>1. TemplateRefundSucceeded(ev) = <<x, y>> \o << >>
      BY <1>0, <1>2, <1>8 DEF TemplateRefundSucceeded, Lines
    <3> QED
      BY <1>1, <3>1, Joined, Zenon
  <2>2. PICK s : s = EntriesFor(ev)
    OBVIOUS
  <2>3. /\ s \in Seq(Entry) /\ Len(s) = 2 /\ \A i \in DOMAIN s : s[i] \in {x, y}
        /\ Effect(s, "merchant_payable") = Term(x, "merchant_payable") + Term(y, "merchant_payable")
        /\ Effect(s, "refund_clearing") = Term(x, "refund_clearing") + Term(y, "refund_clearing")
        /\ Total(s, "debit") = Share(x, "debit") + Share(y, "debit")
        /\ Total(s, "credit") = Share(x, "credit") + Share(y, "credit")
    BY <1>4, <1>5, <1>6, <1>7, <2>1, <2>2, TwoLines
  <2>4. \A i \in DOMAIN s : s[i].amount > 0
    BY <1>0, <1>4, <1>5, <1>6, <1>7, <1>8, <2>3
  <2>5. Valid(s)
    BY <1>0, <1>4, <1>5, <1>6, <1>7, <1>8, <2>3, <2>4 DEF Valid
  <2>6. Effect(s, "merchant_payable") = MerchantEffect(ev)
    BY <1>0, <1>4, <1>5, <1>6, <1>7, <1>8, <2>3 DEF MerchantEffect
  <2> QED
    BY <1>0, <1>4, <1>5, <1>6, <1>7, <1>8, <2>2, <2>3, <2>5, <2>6 DEF Made, Correct
<1>9. CASE ev.fee # 0
  <2>1. EntriesFor(ev) = <<x, y, z, u>>
    <3>1. TemplateRefundSucceeded(ev) = <<x, y>> \o <<z, u>>
      BY <1>0, <1>2, <1>9 DEF TemplateRefundSucceeded, Lines
    <3>2. <<x, y>> \o <<z, u>> = <<x, y, z, u>>
      BY JoinedFour
    <3> QED
      BY <1>1, <3>1, <3>2
  <2>2. PICK s : s = EntriesFor(ev)
    OBVIOUS
  <2>3. /\ s \in Seq(Entry) /\ Len(s) = 4 /\ \A i \in DOMAIN s : s[i] \in {x, y, z, u}
        /\ Effect(s, "merchant_payable") = Term(x, "merchant_payable") + Term(y, "merchant_payable")
                                           + Term(z, "merchant_payable") + Term(u, "merchant_payable")
        /\ Effect(s, "refund_clearing") = Term(x, "refund_clearing") + Term(y, "refund_clearing")
                                          + Term(z, "refund_clearing") + Term(u, "refund_clearing")
        /\ Total(s, "debit") = Share(x, "debit") + Share(y, "debit")
                               + Share(z, "debit") + Share(u, "debit")
        /\ Total(s, "credit") = Share(x, "credit") + Share(y, "credit")
                                + Share(z, "credit") + Share(u, "credit")
    BY <1>4, <1>5, <1>6, <1>7, <2>1, <2>2, FourLines
  <2>4. \A i \in DOMAIN s : s[i].amount > 0
    BY <1>0, <1>4, <1>5, <1>6, <1>7, <1>9, <2>3
  <2>5. Valid(s)
    BY <1>0, <1>4, <1>5, <1>6, <1>7, <1>9, <2>3, <2>4 DEF Valid
  <2>6. Effect(s, "merchant_payable") = MerchantEffect(ev)
    BY <1>0, <1>4, <1>5, <1>6, <1>7, <1>9, <2>3 DEF MerchantEffect
  <2> QED
    BY <1>0, <1>4, <1>5, <1>6, <1>7, <1>9, <2>2, <2>3, <2>5, <2>6 DEF Made, Correct
<1> QED
  BY <1>0, <1>8, <1>9

\* TemplateRefundFailed.
LEMMA RefundFailedMade ==
  ASSUME NEW ev, ev.amount \in Int, ev.fee \in Int, WellFormed(ev), ev.type = "refund.failed"
  PROVE  Made(EntriesFor(ev), ev)
<1>0. ev.amount \in Nat /\ ev.fee \in Nat /\ ev.amount > 0
  BY DEF WellFormed
<1>1. EntriesFor(ev) = TemplateRefundFailed(ev)
  BY DEF EntriesFor
<1>2. PICK x, y :
        /\ x = Debit("refund_clearing", ev.amount)
        /\ y = Credit("merchant_payable", ev.amount)
  OBVIOUS
<1>3. {"refund_clearing", "merchant_payable"} \subseteq Accounts
  BY DEF Accounts, DebitKinds, CreditKinds
<1>4. /\ x \in Entry /\ x.amount = ev.amount
      /\ Term(x, "merchant_payable") = 0 /\ Term(x, "refund_clearing") = -(ev.amount)
      /\ Share(x, "debit") = ev.amount /\ Share(x, "credit") = 0
  BY <1>0, <1>2, <1>3, LineIs DEF DebitKinds
<1>5. /\ y \in Entry /\ y.amount = ev.amount
      /\ Term(y, "merchant_payable") = ev.amount /\ Term(y, "refund_clearing") = 0
      /\ Share(y, "debit") = 0 /\ Share(y, "credit") = ev.amount
  BY <1>0, <1>2, <1>3, LineIs DEF DebitKinds
<1>6. EntriesFor(ev) = <<x, y>>
  BY <1>0, <1>1, <1>2, Joined DEF TemplateRefundFailed, Lines
<1>7. PICK s : s = EntriesFor(ev)
  OBVIOUS
<1>8. /\ s \in Seq(Entry) /\ Len(s) = 2 /\ \A i \in DOMAIN s : s[i] \in {x, y}
      /\ Effect(s, "merchant_payable") = Term(x, "merchant_payable") + Term(y, "merchant_payable")
      /\ Effect(s, "refund_clearing") = Term(x, "refund_clearing") + Term(y, "refund_clearing")
      /\ Total(s, "debit") = Share(x, "debit") + Share(y, "debit")
      /\ Total(s, "credit") = Share(x, "credit") + Share(y, "credit")
  BY <1>4, <1>5, <1>6, <1>7, TwoLines
<1>9. \A i \in DOMAIN s : s[i].amount > 0
  BY <1>0, <1>4, <1>5, <1>8
<1>10. Valid(s)
  BY <1>0, <1>4, <1>5, <1>8, <1>9 DEF Valid
<1>11. Effect(s, "merchant_payable") = MerchantEffect(ev)
  BY <1>0, <1>4, <1>5, <1>8 DEF MerchantEffect
<1> QED
  BY <1>0, <1>4, <1>5, <1>7, <1>8, <1>10, <1>11 DEF Made, Correct

\* TemplateDisputeOpened, without and with a fee.
LEMMA DisputeOpenedMade ==
  ASSUME NEW ev, ev.amount \in Int, ev.fee \in Int, WellFormed(ev), ev.type = "dispute.opened"
  PROVE  Made(EntriesFor(ev), ev)
<1>0. ev.amount \in Nat /\ ev.fee \in Nat /\ ev.amount > 0
  BY DEF WellFormed
<1>1. EntriesFor(ev) = TemplateDisputeOpened(ev)
  BY DEF EntriesFor
<1>2. PICK x, y, z, u :
        /\ x = Debit("merchant_payable", ev.amount)
        /\ y = Credit("chargeback_reserve", ev.amount)
        /\ z = Debit("merchant_payable", ev.fee)
        /\ u = Credit("chargeback_fee_revenue", ev.fee)
  OBVIOUS
<1>3. {"merchant_payable", "chargeback_reserve", "chargeback_fee_revenue"} \subseteq Accounts
  BY DEF Accounts, DebitKinds, CreditKinds
<1>4. /\ x \in Entry /\ x.amount = ev.amount
      /\ Term(x, "merchant_payable") = -(ev.amount) /\ Term(x, "refund_clearing") = 0
      /\ Share(x, "debit") = ev.amount /\ Share(x, "credit") = 0
  BY <1>0, <1>2, <1>3, LineIs DEF DebitKinds
<1>5. /\ y \in Entry /\ y.amount = ev.amount
      /\ Term(y, "merchant_payable") = 0 /\ Term(y, "refund_clearing") = 0
      /\ Share(y, "debit") = 0 /\ Share(y, "credit") = ev.amount
  BY <1>0, <1>2, <1>3, LineIs DEF DebitKinds
<1>6. /\ z \in Entry /\ z.amount = ev.fee
      /\ Term(z, "merchant_payable") = -(ev.fee) /\ Term(z, "refund_clearing") = 0
      /\ Share(z, "debit") = ev.fee /\ Share(z, "credit") = 0
  BY <1>0, <1>2, <1>3, LineIs DEF DebitKinds
<1>7. /\ u \in Entry /\ u.amount = ev.fee
      /\ Term(u, "merchant_payable") = 0 /\ Term(u, "refund_clearing") = 0
      /\ Share(u, "debit") = 0 /\ Share(u, "credit") = ev.fee
  BY <1>0, <1>2, <1>3, LineIs DEF DebitKinds
<1>8. CASE ev.fee = 0
  <2>1. EntriesFor(ev) = <<x, y>>
    <3>1. TemplateDisputeOpened(ev) = <<x, y>> \o << >>
      BY <1>0, <1>2, <1>8 DEF TemplateDisputeOpened, Lines
    <3> QED
      BY <1>1, <3>1, Joined, Zenon
  <2>2. PICK s : s = EntriesFor(ev)
    OBVIOUS
  <2>3. /\ s \in Seq(Entry) /\ Len(s) = 2 /\ \A i \in DOMAIN s : s[i] \in {x, y}
        /\ Effect(s, "merchant_payable") = Term(x, "merchant_payable") + Term(y, "merchant_payable")
        /\ Effect(s, "refund_clearing") = Term(x, "refund_clearing") + Term(y, "refund_clearing")
        /\ Total(s, "debit") = Share(x, "debit") + Share(y, "debit")
        /\ Total(s, "credit") = Share(x, "credit") + Share(y, "credit")
    BY <1>4, <1>5, <1>6, <1>7, <2>1, <2>2, TwoLines
  <2>4. \A i \in DOMAIN s : s[i].amount > 0
    BY <1>0, <1>4, <1>5, <1>6, <1>7, <1>8, <2>3
  <2>5. Valid(s)
    BY <1>0, <1>4, <1>5, <1>6, <1>7, <1>8, <2>3, <2>4 DEF Valid
  <2>6. Effect(s, "merchant_payable") = MerchantEffect(ev)
    BY <1>0, <1>4, <1>5, <1>6, <1>7, <1>8, <2>3 DEF MerchantEffect
  <2> QED
    BY <1>0, <1>4, <1>5, <1>6, <1>7, <1>8, <2>2, <2>3, <2>5, <2>6 DEF Made, Correct
<1>9. CASE ev.fee # 0
  <2>1. EntriesFor(ev) = <<x, y, z, u>>
    <3>1. TemplateDisputeOpened(ev) = <<x, y>> \o <<z, u>>
      BY <1>0, <1>2, <1>9 DEF TemplateDisputeOpened, Lines
    <3>2. <<x, y>> \o <<z, u>> = <<x, y, z, u>>
      BY JoinedFour
    <3> QED
      BY <1>1, <3>1, <3>2
  <2>2. PICK s : s = EntriesFor(ev)
    OBVIOUS
  <2>3. /\ s \in Seq(Entry) /\ Len(s) = 4 /\ \A i \in DOMAIN s : s[i] \in {x, y, z, u}
        /\ Effect(s, "merchant_payable") = Term(x, "merchant_payable") + Term(y, "merchant_payable")
                                           + Term(z, "merchant_payable") + Term(u, "merchant_payable")
        /\ Effect(s, "refund_clearing") = Term(x, "refund_clearing") + Term(y, "refund_clearing")
                                          + Term(z, "refund_clearing") + Term(u, "refund_clearing")
        /\ Total(s, "debit") = Share(x, "debit") + Share(y, "debit")
                               + Share(z, "debit") + Share(u, "debit")
        /\ Total(s, "credit") = Share(x, "credit") + Share(y, "credit")
                                + Share(z, "credit") + Share(u, "credit")
    BY <1>4, <1>5, <1>6, <1>7, <2>1, <2>2, FourLines
  <2>4. \A i \in DOMAIN s : s[i].amount > 0
    BY <1>0, <1>4, <1>5, <1>6, <1>7, <1>9, <2>3
  <2>5. Valid(s)
    BY <1>0, <1>4, <1>5, <1>6, <1>7, <1>9, <2>3, <2>4 DEF Valid
  <2>6. Effect(s, "merchant_payable") = MerchantEffect(ev)
    BY <1>0, <1>4, <1>5, <1>6, <1>7, <1>9, <2>3 DEF MerchantEffect
  <2> QED
    BY <1>0, <1>4, <1>5, <1>6, <1>7, <1>9, <2>2, <2>3, <2>5, <2>6 DEF Made, Correct
<1> QED
  BY <1>0, <1>8, <1>9

\* TemplateDisputeLost.
LEMMA DisputeLostMade ==
  ASSUME NEW ev, ev.amount \in Int, ev.fee \in Int, WellFormed(ev), ev.type = "dispute.lost"
  PROVE  Made(EntriesFor(ev), ev)
<1>0. ev.amount \in Nat /\ ev.fee \in Nat /\ ev.amount > 0
  BY DEF WellFormed
<1>1. EntriesFor(ev) = TemplateDisputeLost(ev)
  BY DEF EntriesFor
<1>2. PICK x, y :
        /\ x = Debit("chargeback_reserve", ev.amount)
        /\ y = Credit("psp_receivable", ev.amount)
  OBVIOUS
<1>3. {"chargeback_reserve", "psp_receivable"} \subseteq Accounts
  BY DEF Accounts, DebitKinds, CreditKinds
<1>4. /\ x \in Entry /\ x.amount = ev.amount
      /\ Term(x, "merchant_payable") = 0 /\ Term(x, "refund_clearing") = 0
      /\ Share(x, "debit") = ev.amount /\ Share(x, "credit") = 0
  BY <1>0, <1>2, <1>3, LineIs DEF DebitKinds
<1>5. /\ y \in Entry /\ y.amount = ev.amount
      /\ Term(y, "merchant_payable") = 0 /\ Term(y, "refund_clearing") = 0
      /\ Share(y, "debit") = 0 /\ Share(y, "credit") = ev.amount
  BY <1>0, <1>2, <1>3, LineIs DEF DebitKinds
<1>6. EntriesFor(ev) = <<x, y>>
  BY <1>0, <1>1, <1>2, Joined DEF TemplateDisputeLost, Lines
<1>7. PICK s : s = EntriesFor(ev)
  OBVIOUS
<1>8. /\ s \in Seq(Entry) /\ Len(s) = 2 /\ \A i \in DOMAIN s : s[i] \in {x, y}
      /\ Effect(s, "merchant_payable") = Term(x, "merchant_payable") + Term(y, "merchant_payable")
      /\ Effect(s, "refund_clearing") = Term(x, "refund_clearing") + Term(y, "refund_clearing")
      /\ Total(s, "debit") = Share(x, "debit") + Share(y, "debit")
      /\ Total(s, "credit") = Share(x, "credit") + Share(y, "credit")
  BY <1>4, <1>5, <1>6, <1>7, TwoLines
<1>9. \A i \in DOMAIN s : s[i].amount > 0
  BY <1>0, <1>4, <1>5, <1>8
<1>10. Valid(s)
  BY <1>0, <1>4, <1>5, <1>8, <1>9 DEF Valid
<1>11. Effect(s, "merchant_payable") = MerchantEffect(ev)
  BY <1>0, <1>4, <1>5, <1>8 DEF MerchantEffect
<1> QED
  BY <1>0, <1>4, <1>5, <1>7, <1>8, <1>10, <1>11 DEF Made, Correct

\* TemplateDisputeWon, whether the fee is given back or not.
LEMMA DisputeWonMade ==
  ASSUME NEW ev, ev.amount \in Int, ev.fee \in Int, WellFormed(ev), ev.type = "dispute.won"
  PROVE  Made(EntriesFor(ev), ev)
<1>0. ev.amount \in Nat /\ ev.fee \in Nat /\ ev.amount > 0
  BY DEF WellFormed
<1>1. EntriesFor(ev) = TemplateDisputeWon(ev)
  BY DEF EntriesFor
<1>2. PICK x, y, z, u :
        /\ x = Debit("chargeback_reserve", ev.amount)
        /\ y = Credit("merchant_payable", ev.amount)
        /\ z = Debit("chargeback_fee_revenue", ev.fee)
        /\ u = Credit("merchant_payable", ev.fee)
  OBVIOUS
<1>3. {"chargeback_reserve", "merchant_payable", "chargeback_fee_revenue"} \subseteq Accounts
  BY DEF Accounts, DebitKinds, CreditKinds
<1>4. /\ x \in Entry /\ x.amount = ev.amount
      /\ Term(x, "merchant_payable") = 0 /\ Term(x, "refund_clearing") = 0
      /\ Share(x, "debit") = ev.amount /\ Share(x, "credit") = 0
  BY <1>0, <1>2, <1>3, LineIs DEF DebitKinds
<1>5. /\ y \in Entry /\ y.amount = ev.amount
      /\ Term(y, "merchant_payable") = ev.amount /\ Term(y, "refund_clearing") = 0
      /\ Share(y, "debit") = 0 /\ Share(y, "credit") = ev.amount
  BY <1>0, <1>2, <1>3, LineIs DEF DebitKinds
<1>6. /\ z \in Entry /\ z.amount = ev.fee
      /\ Term(z, "merchant_payable") = 0 /\ Term(z, "refund_clearing") = 0
      /\ Share(z, "debit") = ev.fee /\ Share(z, "credit") = 0
  BY <1>0, <1>2, <1>3, LineIs DEF DebitKinds
<1>7. /\ u \in Entry /\ u.amount = ev.fee
      /\ Term(u, "merchant_payable") = ev.fee /\ Term(u, "refund_clearing") = 0
      /\ Share(u, "debit") = 0 /\ Share(u, "credit") = ev.fee
  BY <1>0, <1>2, <1>3, LineIs DEF DebitKinds
<1>8. CASE ev.fee = 0 \/ ~RefundChargebackFeeOnWin
  <2>1. EntriesFor(ev) = <<x, y>>
    <3>0. ~(RefundChargebackFeeOnWin /\ ev.fee > 0)
      BY <1>0, <1>2, <1>8
    <3>1. TemplateDisputeWon(ev) = <<x, y>> \o << >>
      BY <1>2, <3>0 DEF TemplateDisputeWon, Lines
    <3> QED
      BY <1>1, <3>1, Joined, Zenon
  <2>2. PICK s : s = EntriesFor(ev)
    OBVIOUS
  <2>3. /\ s \in Seq(Entry) /\ Len(s) = 2 /\ \A i \in DOMAIN s : s[i] \in {x, y}
        /\ Effect(s, "merchant_payable") = Term(x, "merchant_payable") + Term(y, "merchant_payable")
        /\ Effect(s, "refund_clearing") = Term(x, "refund_clearing") + Term(y, "refund_clearing")
        /\ Total(s, "debit") = Share(x, "debit") + Share(y, "debit")
        /\ Total(s, "credit") = Share(x, "credit") + Share(y, "credit")
    BY <1>4, <1>5, <1>6, <1>7, <2>1, <2>2, TwoLines
  <2>4. \A i \in DOMAIN s : s[i].amount > 0
    BY <1>0, <1>4, <1>5, <1>6, <1>7, <1>8, <2>3
  <2>5. Valid(s)
    BY <1>0, <1>4, <1>5, <1>6, <1>7, <1>8, <2>3, <2>4 DEF Valid
  <2>6. Effect(s, "merchant_payable") = MerchantEffect(ev)
    BY <1>0, <1>4, <1>5, <1>6, <1>7, <1>8, <2>3, PolicyAssumption DEF MerchantEffect
  <2> QED
    BY <1>0, <1>4, <1>5, <1>6, <1>7, <1>8, <2>2, <2>3, <2>5, <2>6 DEF Made, Correct
<1>9. CASE ev.fee # 0 /\ RefundChargebackFeeOnWin
  <2>1. EntriesFor(ev) = <<x, y, z, u>>
    <3>1. TemplateDisputeWon(ev) = <<x, y>> \o <<z, u>>
      BY <1>0, <1>2, <1>9 DEF TemplateDisputeWon, Lines
    <3>2. <<x, y>> \o <<z, u>> = <<x, y, z, u>>
      BY JoinedFour
    <3> QED
      BY <1>1, <3>1, <3>2
  <2>2. PICK s : s = EntriesFor(ev)
    OBVIOUS
  <2>3. /\ s \in Seq(Entry) /\ Len(s) = 4 /\ \A i \in DOMAIN s : s[i] \in {x, y, z, u}
        /\ Effect(s, "merchant_payable") = Term(x, "merchant_payable") + Term(y, "merchant_payable")
                                           + Term(z, "merchant_payable") + Term(u, "merchant_payable")
        /\ Effect(s, "refund_clearing") = Term(x, "refund_clearing") + Term(y, "refund_clearing")
                                          + Term(z, "refund_clearing") + Term(u, "refund_clearing")
        /\ Total(s, "debit") = Share(x, "debit") + Share(y, "debit")
                               + Share(z, "debit") + Share(u, "debit")
        /\ Total(s, "credit") = Share(x, "credit") + Share(y, "credit")
                                + Share(z, "credit") + Share(u, "credit")
    BY <1>4, <1>5, <1>6, <1>7, <2>1, <2>2, FourLines
  <2>4. \A i \in DOMAIN s : s[i].amount > 0
    BY <1>0, <1>4, <1>5, <1>6, <1>7, <1>9, <2>3
  <2>5. Valid(s)
    BY <1>0, <1>4, <1>5, <1>6, <1>7, <1>9, <2>3, <2>4 DEF Valid
  <2>6. Effect(s, "merchant_payable") = MerchantEffect(ev)
    BY <1>0, <1>4, <1>5, <1>6, <1>7, <1>9, <2>3, PolicyAssumption DEF MerchantEffect
  <2> QED
    BY <1>0, <1>4, <1>5, <1>6, <1>7, <1>9, <2>2, <2>3, <2>5, <2>6 DEF Made, Correct
<1> QED
  BY <1>0, <1>8, <1>9

\* Every template, for every event that can fill it.
LEMMA TemplateMade ==
  ASSUME NEW ev, ev.amount \in Int, ev.fee \in Int, ev.type \in PostingTypes, WellFormed(ev)
  PROVE  Made(EntriesFor(ev), ev)
BY CaptureMade, RefundPendingMade, RefundSucceededMade, RefundFailedMade, DisputeOpenedMade,
   DisputeLostMade, DisputeWonMade DEF PostingTypes

\* Reverse swaps the side of every line, so it negates every effect.
LEMMA MirrorIs ==
  ASSUME NEW s \in Seq(Entry)
  PROVE  /\ Mirror(s) \in Seq(Entry) /\ Len(Mirror(s)) = Len(s)
         /\ \A a : Effect(Mirror(s), a) = -Effect(s, a)
<1>1. PICK m : m = Mirror(s)
  OBVIOUS
<1>2. ASSUME NEW x \in Entry, NEW y, y = [x EXCEPT !.direction = Opposite(@)]
      PROVE  y \in Entry /\ \A a : Term(y, a) = -Term(x, a)
  <2>1. /\ y \in Entry /\ y.account = x.account /\ y.amount = x.amount
        /\ y.direction = Opposite(x.direction)
    BY <1>2 DEF Entry, Directions, Opposite
  <2>2. x.direction \in Directions /\ NormalBalance(x.account) \in Directions /\ x.amount \in Nat
    BY DEF Entry, Directions, NormalBalance
  <2>3. SignedDelta(y) = -SignedDelta(x)
    BY <2>1, <2>2 DEF SignedDelta, Opposite, Directions
  <2> QED
    BY <2>1, <2>3 DEF Term
<1>3. DOMAIN s = 1 .. Len(s) /\ \A i \in 1 .. Len(s) : s[i] \in Entry
  OBVIOUS
<1>4. m = [i \in 1 .. Len(s) |-> [s[i] EXCEPT !.direction = Opposite(@)]]
  BY <1>1, <1>3 DEF Mirror
<1>5. \A i \in 1 .. Len(s) : m[i] \in Entry /\ \A a : Term(m[i], a) = -Term(s[i], a)
  BY <1>2, <1>3, <1>4
<1>6. m \in Seq(Entry) /\ Len(m) = Len(s)
  BY <1>4, <1>5
<1>7. ASSUME NEW a PROVE Effect(m, a) = -Effect(s, a)
  <2>1. \A i \in 1 .. Len(s) : Terms(m, a)[i] = Term(m[i], a)
    BY <1>6, EffectIs
  <2>2. \A i \in 1 .. Len(s) : Terms(s, a)[i] = Term(s[i], a) /\ Terms(s, a)[i] \in Int
    BY EffectIs
  <2>3. \A i \in 1 .. Len(s) : Terms(s, a)[i] \in Int /\ Terms(m, a)[i] = -Terms(s, a)[i]
    BY <1>5, <2>1, <2>2
  <2>4. IsFiniteSet(1 .. Len(s))
    BY FS_Interval
  <2>5. SumFunctionOnSet(Terms(m, a), 1 .. Len(s)) = -SumFunctionOnSet(Terms(s, a), 1 .. Len(s))
    BY <2>3, <2>4, SumNegated
  <2>6. Effect(s, a) = SumFunctionOnSet(Terms(s, a), 1 .. Len(s))
    BY EffectIs DEF Partial
  <2>7. Effect(m, a) = SumFunctionOnSet(Terms(m, a), 1 .. Len(s))
    BY <1>6, EffectIs DEF Partial
  <2> QED
    BY <2>5, <2>6, <2>7
<1> QED
  BY <1>1, <1>6, <1>7

\* What ValidateReversal compares is enough: two journals whose lines are mirror images, in
\* whatever order, leave every account where it was.
LEMMA MirrorsCancel ==
  ASSUME NEW orig \in Seq(Entry), NEW rev \in Seq(Entry), Mirrors(orig, rev), NEW a
  PROVE  Effect(rev, a) + Effect(orig, a) = 0
<1>1. PICK m : m = Mirror(orig)
  OBVIOUS
<1>2. m \in Seq(Entry) /\ Len(m) = Len(orig) /\ Effect(m, a) = -Effect(orig, a)
  BY <1>1, MirrorIs
<1>3. PICK n : n = Len(rev) /\ n = Len(m) /\ n \in Nat
  BY <1>2 DEF Mirrors
<1>4. DOMAIN rev = 1 .. n /\ DOMAIN m = 1 .. n
  <2>1. DOMAIN rev = 1 .. Len(rev)
    OBVIOUS
  <2>2. DOMAIN m = 1 .. Len(m)
    BY <1>2
  <2> QED
    BY <1>3, <2>1, <2>2
<1>5. Paired(rev, 1 .. n, m, 1 .. n)
  <2> SUFFICES ASSUME NEW i \in 1 .. n
               PROVE  Cardinality({k \in 1 .. n : rev[k] = rev[i]})
                        = Cardinality({k \in 1 .. n : m[k] = rev[i]})
    BY DEF Paired
  <2>1. Occurrences(rev[i], rev) = Occurrences(rev[i], m)
    BY <1>1, <1>4 DEF Mirrors
  <2> QED
    BY <1>4, <2>1 DEF Occurrences
<1>6. \A i \in 1 .. n : Terms(rev, a)[i] = Term(rev[i], a) /\ Terms(rev, a)[i] \in Int
  BY <1>3, EffectIs
<1>7. \A i \in 1 .. n : Terms(m, a)[i] = Term(m[i], a) /\ Terms(m, a)[i] \in Int
  BY <1>2, <1>3, EffectIs
<1>8. \A i, k \in 1 .. n : rev[i] = m[k] => Terms(rev, a)[i] = Terms(m, a)[k]
  BY <1>6, <1>7
<1>9. IsFiniteSet(1 .. n)
  BY <1>3, FS_Interval
<1>10. SumFunctionOnSet(Terms(rev, a), 1 .. n) = SumFunctionOnSet(Terms(m, a), 1 .. n)
  <2>1. PICK D, f, g : D = 1 .. n /\ f = Terms(rev, a) /\ g = Terms(m, a)
    OBVIOUS
  <2>2. /\ IsFiniteSet(D) /\ Paired(rev, D, m, D)
        /\ \A i \in D : f[i] \in Int
        /\ \A i \in D : g[i] \in Int
        /\ \A i, k \in D : rev[i] = m[k] => f[i] = g[k]
    BY <1>5, <1>6, <1>7, <1>8, <1>9, <2>1
  <2>3. SumFunctionOnSet(f, D) = SumFunctionOnSet(g, D)
    BY <2>2, SumPaired
  <2> QED
    BY <2>1, <2>3
<1>11. Effect(rev, a) = SumFunctionOnSet(Terms(rev, a), 1 .. n)
  BY <1>3, EffectIs DEF Partial
<1>12. Effect(m, a) = SumFunctionOnSet(Terms(m, a), 1 .. n)
  BY <1>2, <1>3, EffectIs DEF Partial
<1>13. Effect(orig, a) \in Int
  BY EffectIs
<1> QED
  BY <1>2, <1>10, <1>11, <1>12, <1>13

-----------------------------------------------------------------------------
(* Steps that change one call. *)

\* The tables decide what is expected of a call; while they stay, so does that.
LEMMA SameTables ==
  ASSUME UNCHANGED <<journals, inbox, balances>>, NEW w, NEW t, CallOK(w, t)
  PROVE  CallOK(w, t)'
<1>1. Posted' = Posted
  BY DEF Posted
<1>2. DraftOK(w, t)'
  BY <1>1 DEF CallOK, DraftOK, Undoes, FromEvent
<1>3. RowsOK(t)'
  BY DEF CallOK, RowsOK, Written
<1>4. IdentityOK(w, t)'
  BY DEF CallOK, IdentityOK
<1> QED
  BY <1>2, <1>3, <1>4 DEF CallOK

\* Keeping two calls apart is symmetric.
LEMMA ApartSymmetric ==
  ASSUME NEW v, NEW s, NEW w, NEW t, Apart(v, s, w, t)
  PROVE  Apart(w, t, v, s)
BY DEF Apart

\* A step of one call that leaves the tables alone.
LEMMA LocalStep ==
  ASSUME IInv, NEW w \in Workers, NEW t \in CallType, Step(w, t),
         UNCHANGED <<journals, inbox, accounts, balances, outbox>>,
         dlq' \subseteq Events,
         CallOK(w, t),
         \A v \in Workers \ {w} : Apart(v, tx[v], w, t)
  PROVE  IInv'
<1>1. Posted' = Posted
  BY DEF Posted
<1>2. TablesOK'
  BY <1>1 DEF IInv, TablesOK
<1>3. tx' \in [Workers -> CallType] /\ tx'[w] = t /\ \A v \in Workers \ {w} : tx'[v] = tx[v]
  BY DEF IInv, Step
<1>4. ASSUME NEW v \in Workers PROVE CallOK(v, tx[v])'
  <2>1. PICK s : s = tx'[v]
    OBVIOUS
  <2>2. CallOK(v, s)
    BY <1>3, <2>1 DEF IInv, Calls
  <2>3. CallOK(v, s)'
    BY <2>2, SameTables
  <2> QED
    BY <2>1, <2>3
<1>5. ASSUME NEW v \in Workers, NEW u \in Workers, v # u PROVE Apart(v, tx'[v], u, tx'[u])
  <2>1. CASE u = w
    BY <1>3, <1>5, <2>1
  <2>2. CASE v = w
    BY <1>3, <1>5, <2>2, ApartSymmetric
  <2>3. CASE u # w /\ v # w
    BY <1>3, <1>5, <2>3 DEF IInv, Calls
  <2> QED
    BY <2>1, <2>2, <2>3
<1>6. Calls'
  BY <1>4, <1>5 DEF Calls, Apart
<1>7. Journals'
  BY <1>1 DEF IInv, Journals, JournalOK, FromEvent, Undoes
<1>8. ProcessedMeansPosted'
  BY <1>1 DEF IInv, ProcessedMeansPosted
<1>9. NoBalanceDrift'
  BY <1>1 DEF IInv, NoBalanceDrift
<1> QED
  BY <1>2, <1>3, <1>6, <1>7, <1>8, <1>9 DEF IInv

\* No row is locked yet.
LEMMA NoRows == << >> \in Rows /\ DOMAIN << >> = {}
<1>1. << >> \in [{} -> Int] /\ DOMAIN << >> = {}
  OBVIOUS
<1> QED
  BY <1>1 DEF Rows

\* What a fresh call looks like.
LEMMA CallIs ==
  ASSUME NEW p \in Phases, NEW i \in JournalIds \cup {None}, NEW d \in Draft,
         NEW n \in 0 .. MaxRetries, NEW t, t = Call(p, i, d, n)
  PROVE  /\ t \in CallType
         /\ t.phase = p /\ t.id = i /\ t.draft = d /\ t.tries = n /\ t.next = 1
         /\ DOMAIN t.rows = {} /\ t.created = {}
<1>1. t = [phase |-> p, id |-> i, draft |-> d, next |-> 1, tries |-> n, created |-> {},
           rows |-> << >>]
  BY DEF Call, Idle
<1> QED
  BY <1>1, NoRows DEF CallType

\* The empty draft is a draft.
LEMMA NoDraftIs == NoDraft \in Draft /\ NoDraft.reversalOf = None
<1>1. << >> \in Seq(Entry)
  OBVIOUS
<1> QED
  BY <1>1 DEF NoDraft, Draft

\* Between two calls, or at the start of one, nothing is held.
LEMMA FreshApart ==
  ASSUME NEW v, NEW s, NEW w, NEW t, DOMAIN t.rows = {}, t.phase \notin Inserting,
         t.phase \in {"idle", "mark"} \/ w \notin Consumers
  PROVE  Apart(v, s, w, t)
BY DEF Apart

\* A worker between two calls.
LEMMA IdleIs ==
  ASSUME NEW w \in Workers
  PROVE  /\ Idle \in CallType /\ CallOK(w, Idle)
         /\ \A v, s : Apart(v, s, w, Idle)
<1>1. Idle \in CallType
  BY NoRows, NoDraftIs, RetryAssumption DEF CallType, Idle, Phases
<1>2. Idle.phase = "idle" /\ Idle.next = 1 /\ DOMAIN Idle.rows = {}
  BY NoRows DEF Idle
<1>3. CallOK(w, Idle)
  BY <1>2 DEF CallOK, IdentityOK, DraftOK, RowsOK, Inserting
<1>4. \A v, s : Apart(v, s, w, Idle)
  BY <1>2, FreshApart DEF Inserting
<1> QED
  BY <1>1, <1>3, <1>4

\* A call ends and leaves the tables alone.
LEMMA EndStep ==
  ASSUME IInv, NEW w \in Workers, Step(w, Idle),
         UNCHANGED <<journals, inbox, accounts, balances, outbox>>, dlq' \subseteq Events
  PROVE  IInv'
<1>1. PICK t : t = Idle
  OBVIOUS
<1>2. t \in CallType /\ CallOK(w, t) /\ Step(w, t) /\ \A v \in Workers \ {w} : Apart(v, tx[v], w, t)
  BY <1>1, IdleIs
<1> QED
  BY <1>2, LocalStep

\* A consumer starts a try of an event.
LEMMA TryStep ==
  ASSUME IInv, NEW w \in Consumers, NEW e \in Events, NEW n \in 0 .. MaxRetries,
         Step(w, Call("mark", e, NoDraft, n)),
         UNCHANGED <<journals, inbox, accounts, balances, outbox, dlq>>
  PROVE  IInv'
<1>1. PICK t : t = Call("mark", e, NoDraft, n)
  OBVIOUS
<1>2. /\ t \in CallType /\ t.phase = "mark" /\ t.id = e /\ t.next = 1 /\ DOMAIN t.rows = {}
  BY <1>1, CallIs, NoDraftIs DEF JournalIds, Phases
<1>3. CallOK(w, t)
  BY <1>2 DEF CallOK, IdentityOK, DraftOK, RowsOK, Inserting
<1>4. \A v \in Workers \ {w} : Apart(v, tx[v], w, t)
  BY <1>2, FreshApart DEF Inserting
<1>5. dlq' \subseteq Events /\ w \in Workers /\ Step(w, t)
  BY <1>1 DEF IInv, TablesOK, Workers
<1> QED
  BY <1>2, <1>3, <1>4, <1>5, LocalStep

\* What the invariant says of a worker in a call.
LEMMA CallFacts ==
  ASSUME IInv, NEW w \in Workers
  PROVE  tx[w] \in CallType /\ CallOK(w, tx[w]) /\ DOMAIN tx = Workers
BY DEF IInv, Calls

\* handleWithRetry.
LEMMA FailConsumerStep ==
  ASSUME IInv, NEW w \in Consumers, tx[w].phase # "idle", FailConsumer(w)
  PROVE  IInv'
<1>1. /\ w \in Workers /\ tx[w].id \in Events /\ tx[w].tries \in 0 .. MaxRetries
      /\ dlq \subseteq Events
  BY CallFacts DEF Workers, CallOK, IdentityOK, CallType, IInv, TablesOK
<1>2. CASE tx[w].tries < MaxRetries
  <2>1. tx[w].tries + 1 \in 0 .. MaxRetries
    BY <1>1, <1>2, RetryAssumption
  <2> QED
    BY <1>1, <1>2, <2>1, TryStep DEF FailConsumer
<1>3. CASE ~(tx[w].tries < MaxRetries)
  <2>1. Step(w, Idle) /\ dlq' \subseteq Events
        /\ UNCHANGED <<journals, inbox, accounts, balances, outbox>>
    BY <1>1, <1>3 DEF FailConsumer
  <2> QED
    BY <1>1, <2>1, EndStep
<1> QED
  BY <1>2, <1>3

\* A call that fails.
LEMMA FailStep ==
  ASSUME IInv, NEW w \in Workers, tx[w].phase # "idle", Fail(w)
  PROVE  IInv'
<1>1. CASE w \in Consumers
  BY <1>1, FailConsumerStep DEF Fail
<1>2. CASE w \notin Consumers
  <2>1. dlq' \subseteq Events
    BY <1>2 DEF Fail, IInv, TablesOK
  <2> QED
    BY <1>2, <2>1, EndStep DEF Fail
<1> QED
  BY <1>1, <1>2

\* Only the processed_events row is kept: of an event that is not to post, or was marked before.
LEMMA AcknowledgeStep ==
  ASSUME IInv, NEW w \in Workers, Acknowledge(w),
         tx[w].id \notin Events \/ tx[w].id \in inbox
           \/ (tx[w].id \in Events /\ EventData[tx[w].id].type \in SilentTypes)
  PROVE  IInv'
<1> DEFINE e == tx[w].id
<1>0. dlq' \subseteq Events /\ UNCHANGED <<journals, accounts, balances, outbox>> /\ Step(w, Idle)
  BY DEF Acknowledge, IInv, TablesOK
<1>1. CASE e \notin Events \/ e \in inbox
  <2>1. inbox' = inbox
    BY <1>1 DEF Acknowledge
  <2> QED
    BY <1>0, <2>1, EndStep
<1>2. CASE e \in Events /\ EventData[e].type \in SilentTypes
  <2>1. inbox' = inbox \cup {e} /\ EventData[e].type \notin PostingTypes
    BY <1>2 DEF Acknowledge, SilentTypes, PostingTypes
  <2>2. Posted' = Posted
    BY <1>0 DEF Posted
  <2>3. TablesOK'
    BY <1>0, <1>2, <2>1, <2>2 DEF IInv, TablesOK
  <2>4. tx' \in [Workers -> CallType] /\ tx'[w] = Idle /\ \A v \in Workers \ {w} : tx'[v] = tx[v]
    BY <1>0, IdleIs DEF IInv, Step
  <2>5. ASSUME NEW v \in Workers PROVE CallOK(v, tx[v])'
    <3>1. PICK s : s = tx'[v]
      OBVIOUS
    <3>2. CallOK(v, s)
      BY <2>4, <3>1, IdleIs DEF IInv, Calls
    <3>3. IdentityOK(v, s)'
      BY <3>2 DEF CallOK, IdentityOK
    <3>4. RowsOK(s)'
      BY <1>0, <3>2 DEF CallOK, RowsOK, Written
    <3>5. DraftOK(v, s)'
      <4>1. v \in Consumers /\ s.phase \notin {"idle", "mark"} => s.id \notin inbox'
        BY <2>1, <3>2 DEF CallOK, DraftOK, FromEvent
      <4> QED
        BY <1>0, <2>2, <3>2, <4>1 DEF CallOK, DraftOK, FromEvent, Undoes
    <3> QED
      BY <3>1, <3>3, <3>4, <3>5 DEF CallOK
  <2>6. ASSUME NEW v \in Workers, NEW u \in Workers, v # u PROVE Apart(v, tx'[v], u, tx'[u])
    <3>1. CASE u = w
      BY <2>4, <3>1, IdleIs
    <3>2. CASE v = w
      BY <2>4, <3>2, IdleIs, ApartSymmetric
    <3>3. CASE u # w /\ v # w
      BY <2>4, <2>6, <3>3 DEF IInv, Calls
    <3> QED
      BY <3>1, <3>2, <3>3
  <2>7. Calls'
    BY <2>5, <2>6 DEF Calls, Apart
  <2>8. Journals'
    BY <1>0, <2>2 DEF IInv, Journals, JournalOK, FromEvent, Undoes
  <2>9. ProcessedMeansPosted'
    BY <1>0, <2>1, <2>2 DEF IInv, ProcessedMeansPosted
  <2>10. NoBalanceDrift'
    BY <1>0, <2>2 DEF IInv, NoBalanceDrift
  <2> QED
    BY <2>3, <2>4, <2>7, <2>8, <2>9, <2>10 DEF IInv
<1> QED
  BY <1>1, <1>2

\* A call moves on before it has inserted its journal.
LEMMA MoveStep ==
  ASSUME IInv, NEW w \in Workers, NEW t \in CallType, Step(w, t),
         UNCHANGED <<journals, inbox, accounts, balances, outbox, dlq>>,
         tx[w].phase \notin {"idle", "entries", "commit"},
         t.phase \notin {"idle", "entries", "commit"},
         t.id = tx[w].id, t.rows = tx[w].rows, t.next = tx[w].next,
         IdentityOK(w, t), DraftOK(w, t),
         w \in Consumers /\ tx[w].phase = "mark" =>
           \A v \in Consumers \ {w} : tx[v].id = t.id => tx[v].phase \in {"idle", "mark"}
  PROVE  IInv'
<1>1. DOMAIN t.rows = {} /\ t.next = 1
  BY CallFacts DEF CallOK, RowsOK, Inserting
<1>2. CallOK(w, t)
  BY <1>1 DEF CallOK, RowsOK, Inserting
<1>3. ASSUME NEW v \in Workers \ {w} PROVE Apart(v, tx[v], w, t)
  <2>1. Apart(v, tx[v], w, tx[w])
    BY <1>3 DEF IInv, Calls
  <2>2. v \in Consumers /\ w \in Consumers /\ tx[v].id = t.id => tx[v].phase \in {"idle", "mark"}
    <3>1. CASE tx[w].phase = "mark"
      BY <3>1
    <3>2. CASE tx[w].phase # "mark"
      BY <2>1, <3>2 DEF Apart
    <3> QED
      BY <3>1, <3>2
  <2> QED
    BY <1>1, <2>2 DEF Apart, Inserting
<1>4. dlq' \subseteq Events
  BY DEF IInv, TablesOK
<1> QED
  BY <1>2, <1>3, <1>4, LocalStep

\* A record of a poll.
LEMMA DeliverStep ==
  ASSUME IInv, NEW w \in Consumers, NEW e \in Events, Deliver(w, e)
  PROVE  IInv'
<1>1. 0 \in 0 .. MaxRetries
  BY RetryAssumption
<1> QED
  BY <1>1, TryStep DEF Deliver

\* What TemplateFor makes of a well-formed event.
LEMMA DraftForIs ==
  ASSUME NEW e \in Events, WellFormed(EventData[e]), EventData[e].type \notin SilentTypes
  PROVE  /\ DraftFor(e) \in Draft /\ FromEvent(e, DraftFor(e).entries)
         /\ Len(DraftFor(e).entries) >= 2
<1>1. /\ EventData[e].amount \in Int /\ EventData[e].fee \in Int
      /\ EventData[e].type \in PostingTypes
  BY EventAssumption
<1>2. PICK s : s = EntriesFor(EventData[e])
  OBVIOUS
<1>3. s \in Seq(Entry) /\ Len(s) >= 2
  BY <1>1, <1>2, TemplateMade DEF Made, Correct, Valid
<1>4. PICK d : d = DraftFor(e)
  OBVIOUS
<1>5. PICK n, r : n = TemplateName[EventData[e].type] /\ r = EventData[e].ref
  OBVIOUS
<1>6. d = [template |-> n, ref |-> r, entries |-> s, reversalOf |-> None]
  BY <1>2, <1>4, <1>5 DEF DraftFor
<1>7. n \in {TemplateName[t] : t \in PostingTypes} /\ r \in {EventData[f].ref : f \in Events}
  BY <1>1, <1>5
<1>8. d \in Draft /\ d.entries = s
  BY <1>3, <1>6, <1>7 DEF Draft
<1> QED
  BY <1>1, <1>2, <1>3, <1>4, <1>8 DEF FromEvent

\* MarkProcessed and TemplateFor.
LEMMA MarkProcessedStep ==
  ASSUME IInv, NEW w \in Workers, MarkProcessed(w)
  PROVE  IInv'
<1> DEFINE e == tx[w].id
<1>1. tx[w].phase = "mark" /\ w \in Consumers /\ e \in Events
  BY CallFacts DEF MarkProcessed, CallOK, IdentityOK
<1>2. CASE e \in inbox \/ EventData[e].type \in SilentTypes
  BY <1>1, <1>2, AcknowledgeStep DEF MarkProcessed
<1>3. CASE ~(e \in inbox \/ EventData[e].type \in SilentTypes) /\ ~WellFormed(EventData[e])
  BY <1>1, <1>3, FailConsumerStep DEF MarkProcessed
<1>4. CASE ~(e \in inbox \/ EventData[e].type \in SilentTypes) /\ WellFormed(EventData[e])
  <2>1. PICK p : p = IF EventData[e].type = "refund.failed" THEN "link" ELSE "check"
    OBVIOUS
  <2>2. PICK t : t = [tx[w] EXCEPT !.phase = p, !.draft = DraftFor(e)]
    OBVIOUS
  <2>3. Step(w, t) /\ UNCHANGED <<journals, inbox, accounts, balances, outbox, dlq>>
        /\ Blockers(w) = {}
    BY <1>4, <2>1, <2>2 DEF MarkProcessed
  <2>4. tx[w] \in CallType /\ p \in {"link", "check"} /\ p \in Phases
    BY <2>1, CallFacts DEF Phases
  <2>5. /\ t.phase = p /\ t.draft = DraftFor(e) /\ t.id = tx[w].id /\ t.next = tx[w].next
        /\ t.rows = tx[w].rows
    BY <2>2, <2>4 DEF CallType
  <2>6. DraftFor(e) \in Draft /\ FromEvent(e, DraftFor(e).entries) /\ Len(DraftFor(e).entries) >= 2
    BY <1>1, <1>4, DraftForIs
  <2>7. t \in CallType
    BY <2>2, <2>4, <2>6 DEF CallType
  <2>8. IdentityOK(w, t) /\ DraftOK(w, t)
    BY <1>1, <1>4, <2>4, <2>5, <2>6 DEF IdentityOK, DraftOK
  <2>9. \A v \in Consumers \ {w} : tx[v].id = t.id => tx[v].phase \in {"idle", "mark"}
    BY <1>1, <2>3, <2>5 DEF Blockers, Marked, Workers
  <2> QED
    BY <1>1, <2>3, <2>4, <2>5, <2>7, <2>8, <2>9, MoveStep
<1> QED
  BY <1>2, <1>3, <1>4

\* linkReversal.
LEMMA LinkReversalStep ==
  ASSUME IInv, NEW w \in Workers, LinkReversal(w)
  PROVE  IInv'
<1>1. tx[w].phase = "link" /\ w \in Consumers /\ tx[w] \in CallType /\ DraftOK(w, tx[w])
      /\ IdentityOK(w, tx[w])
  BY CallFacts DEF LinkReversal, CallOK, IdentityOK
<1>2. PICK o : /\ o \in JournalIds \cup {None}
               /\ Step(w, [tx[w] EXCEPT !.phase = "check", !.draft.reversalOf = o])
  BY DEF LinkReversal, CanReverse, Posted
<1>3. PICK d : d = [tx[w].draft EXCEPT !.reversalOf = o]
  OBVIOUS
<1>4. d \in Draft /\ d.entries = tx[w].draft.entries
  BY <1>1, <1>2, <1>3 DEF CallType, Draft
<1>5. PICK t : t = [tx[w] EXCEPT !.phase = "check", !.draft = d]
  OBVIOUS
<1>6. t = [tx[w] EXCEPT !.phase = "check", !.draft.reversalOf = o]
  BY <1>1, <1>3, <1>5 DEF CallType
<1>7. /\ t.phase = "check" /\ t.draft = d /\ t.id = tx[w].id /\ t.next = tx[w].next
      /\ t.rows = tx[w].rows /\ t \in CallType
  BY <1>1, <1>4, <1>5 DEF CallType, Phases
<1>8. IdentityOK(w, t) /\ DraftOK(w, t)
  BY <1>1, <1>4, <1>7 DEF IdentityOK, DraftOK
<1>9. UNCHANGED <<journals, inbox, accounts, balances, outbox, dlq>> /\ Step(w, t)
  BY <1>2, <1>6 DEF LinkReversal
<1> QED
  BY <1>1, <1>7, <1>8, <1>9, MoveStep

\* An operator starts a call that is not about an event.
LEMMA OperatorStep ==
  ASSUME IInv, NEW w \in Operators, NEW k \in Keys, NEW p \in {"original", "check"},
         NEW d \in Draft, p = "check" => Len(d.entries) >= 2,
         Step(w, Call(p, k, d, 0)),
         UNCHANGED <<journals, inbox, accounts, balances, outbox, dlq>>
  PROVE  IInv'
<1>0. w \in Workers /\ w \notin Consumers /\ 0 \in 0 .. MaxRetries /\ dlq' \subseteq Events
  BY WorkerAssumption, RetryAssumption DEF Workers, IInv, TablesOK
<1>1. PICK t : t = Call(p, k, d, 0)
  OBVIOUS
<1>2. t \in CallType /\ t.phase = p /\ t.id = k /\ t.draft = d /\ t.next = 1 /\ DOMAIN t.rows = {}
  BY <1>0, <1>1, CallIs DEF JournalIds, Phases
<1>3. CallOK(w, t)
  BY <1>0, <1>2 DEF CallOK, IdentityOK, DraftOK, RowsOK, Inserting
<1>4. \A v \in Workers \ {w} : Apart(v, tx[v], w, t)
  BY <1>0, <1>2, FreshApart DEF Inserting
<1> QED
  BY <1>0, <1>1, <1>2, <1>3, <1>4, LocalStep

\* ReverseJournal.
LEMMA ReverseJournalStep ==
  ASSUME IInv, NEW w \in Operators, NEW k \in Keys, NEW o \in JournalIds, ReverseJournal(w, k, o)
  PROVE  IInv'
<1>1. [NoDraft EXCEPT !.template = "J-REV", !.reversalOf = o] \in Draft
  BY NoDraftIs DEF Draft
<1> QED
  BY <1>1, OperatorStep DEF ReverseJournal

\* PostManualJournal.
LEMMA PostManualJournalStep ==
  ASSUME IInv, NEW w \in Operators, NEW k \in Keys, NEW d \in Drafts, PostManualJournal(w, k, d)
  PROVE  IInv'
<1>1. d.entries \in Seq(Entry) /\ d.reversalOf \in JournalIds \cup {None} /\ Len(d.entries) >= 2
  BY DraftAssumption DEF PostManualJournal, Valid
<1>2. PICK c : c = [template |-> IF d.reversalOf = None THEN "" ELSE "J-REV",
                    ref |-> "", entries |-> d.entries, reversalOf |-> d.reversalOf]
  OBVIOUS
<1>3. c \in Draft /\ c.entries = d.entries
  BY <1>1, <1>2 DEF Draft
<1> QED
  BY <1>1, <1>2, <1>3, OperatorStep DEF PostManualJournal

\* ReverseJournal reads the original.
LEMMA ReadOriginalStep ==
  ASSUME IInv, NEW w \in Workers, ReadOriginal(w)
  PROVE  IInv'
<1> DEFINE o == tx[w].draft.reversalOf
<1>1. tx[w].phase = "original" /\ w \in Operators /\ tx[w] \in CallType /\ IdentityOK(w, tx[w])
      /\ w \notin Consumers
  BY CallFacts, WorkerAssumption DEF ReadOriginal, CallOK, IdentityOK
<1>2. CASE o \in Posted /\ Reversals(o) = {}
  <2>1. journals[o] \in Draft /\ Len(journals[o].entries) >= 2
    BY <1>2 DEF IInv, TablesOK, Posted, Journals, JournalOK
  <2>2. PICK m : m = Mirror(journals[o].entries)
    OBVIOUS
  <2>3. m \in Seq(Entry) /\ Len(m) >= 2
    BY <2>1, <2>2, MirrorIs DEF Draft
  <2>4. PICK r : r = journals[o].ref
    OBVIOUS
  <2>5. PICK d : d = [tx[w].draft EXCEPT !.entries = m, !.ref = r]
    OBVIOUS
  <2>6. d \in Draft /\ d.entries = m
    BY <1>1, <2>1, <2>3, <2>4, <2>5 DEF CallType, Draft
  <2>7. PICK t : t = [tx[w] EXCEPT !.phase = "check", !.draft = d]
    OBVIOUS
  <2>8. t = [tx[w] EXCEPT !.phase = "check", !.draft.entries = m, !.draft.ref = r]
    BY <1>1, <2>5, <2>7 DEF CallType, Draft
  <2>9. /\ t.phase = "check" /\ t.draft = d /\ t.id = tx[w].id /\ t.next = tx[w].next
        /\ t.rows = tx[w].rows /\ t \in CallType
    BY <1>1, <2>6, <2>7 DEF CallType, Phases
  <2>10. IdentityOK(w, t) /\ DraftOK(w, t)
    BY <1>1, <2>3, <2>6, <2>9 DEF IdentityOK, DraftOK
  <2>11. UNCHANGED <<journals, inbox, accounts, balances, outbox, dlq>> /\ Step(w, t)
    BY <1>2, <2>2, <2>4, <2>8 DEF ReadOriginal
  <2> QED
    BY <1>1, <2>9, <2>10, <2>11, MoveStep
<1>3. CASE ~(o \in Posted /\ Reversals(o) = {})
  <2>1. dlq' \subseteq Events
    BY DEF ReadOriginal, IInv, TablesOK
  <2> QED
    BY <1>3, <2>1, EndStep DEF ReadOriginal
<1> QED
  BY <1>2, <1>3

\* A step that only changes the phase.
LEMMA PhaseIs ==
  ASSUME NEW c \in CallType, NEW p \in Phases, NEW t, t = [c EXCEPT !.phase = p]
  PROVE  /\ t \in CallType /\ t.phase = p /\ t.id = c.id /\ t.draft = c.draft
         /\ t.next = c.next /\ t.rows = c.rows
BY DEF CallType

\* GetByEventID, and the check of a reversal.
LEMMA CheckExistingStep ==
  ASSUME IInv, NEW w \in Workers, CheckExisting(w)
  PROVE  IInv'
<1> DEFINE o == tx[w].draft.reversalOf
<1>1. tx[w].phase = "check" /\ tx[w] \in CallType /\ IdentityOK(w, tx[w]) /\ DraftOK(w, tx[w])
  BY CallFacts DEF CheckExisting, CallOK
<1>2. CASE journals[tx[w].id] # None
  <2>1. tx[w].id \notin Events \/ tx[w].id \in inbox
    BY <1>1, <1>2 DEF IInv, ProcessedMeansPosted, Posted, JournalIds
  <2> QED
    BY <1>2, <2>1, AcknowledgeStep DEF CheckExisting
<1>3. CASE journals[tx[w].id] = None /\ o # None /\ ~CanReverse(w, o)
  BY <1>1, <1>3, FailStep DEF CheckExisting
<1>4. CASE journals[tx[w].id] = None /\ ~(o # None /\ ~CanReverse(w, o))
  <2>1. PICK t : t = [tx[w] EXCEPT !.phase = "ensure"]
    OBVIOUS
  <2>2. /\ t \in CallType /\ t.phase = "ensure" /\ t.id = tx[w].id /\ t.draft = tx[w].draft
        /\ t.next = tx[w].next /\ t.rows = tx[w].rows
    BY <1>1, <2>1, PhaseIs DEF Phases
  <2>3. Undoes(tx[w].draft)
    BY <1>4 DEF Undoes, CanReverse
  <2>4. IdentityOK(w, t) /\ DraftOK(w, t)
    BY <1>1, <2>2, <2>3 DEF IdentityOK, DraftOK
  <2>5. UNCHANGED <<journals, inbox, accounts, balances, outbox, dlq>> /\ Step(w, t)
    BY <1>4, <2>1 DEF CheckExisting
  <2> QED
    BY <1>1, <2>2, <2>4, <2>5, MoveStep
<1> QED
  BY <1>2, <1>3, <1>4

\* Min(S) is in S.
LEMMA MinIn ==
  ASSUME NEW S, S \subseteq Nat, S # {}
  PROVE  Min(S) \in S
<1>0. PICK R : R = OpToRel(<, Nat) /\ IsWellFoundedOn(R, Nat)
  BY NatLessThanWellFounded
<1>1. PICK n \in S : \A m \in S : ~(<<m, n>> \in R)
  BY <1>0, WFMin
<1>2. ASSUME NEW m \in S PROVE n <= m
  <2>1. m \in Nat /\ n \in Nat
    BY <1>1
  <2>2. m < n => <<m, n>> \in R
    BY <1>0, <2>1 DEF OpToRel
  <2> QED
    BY <1>1, <2>1, <2>2
<1> QED
  BY <1>1, <1>2 DEF Min

\* EnsureAccount.
LEMMA EnsureAccountStep ==
  ASSUME IInv, NEW w \in Workers, EnsureAccount(w)
  PROVE  IInv'
<1>1. tx[w].phase = "ensure" /\ tx[w] \in CallType /\ IdentityOK(w, tx[w]) /\ DraftOK(w, tx[w])
  BY CallFacts DEF EnsureAccount, CallOK
<1>2. UNCHANGED <<journals, inbox, accounts, balances, outbox, dlq>>
  BY DEF EnsureAccount
<1>3. CASE Missing(w) = {}
  <2>1. PICK t : t = [tx[w] EXCEPT !.phase = "insert"]
    OBVIOUS
  <2>2. /\ t \in CallType /\ t.phase = "insert" /\ t.id = tx[w].id /\ t.draft = tx[w].draft
        /\ t.next = tx[w].next /\ t.rows = tx[w].rows
    BY <1>1, <2>1, PhaseIs DEF Phases
  <2>3. IdentityOK(w, t) /\ DraftOK(w, t)
    BY <1>1, <2>2 DEF IdentityOK, DraftOK
  <2>4. Step(w, t)
    BY <1>3, <2>1 DEF EnsureAccount
  <2> QED
    BY <1>1, <1>2, <2>2, <2>3, <2>4, MoveStep
<1>4. CASE Missing(w) # {}
  <2>1. PICK s : s = tx[w].draft.entries /\ s \in Seq(Entry)
    BY <1>1 DEF CallType, Draft
  <2>2. DOMAIN s = 1 .. Len(s) /\ Len(s) \in Nat /\ \A i \in 1 .. Len(s) : s[i] \in Entry
    BY <2>1
  <2>3. Missing(w) \subseteq 1 .. Len(s)
    BY <2>1, <2>2 DEF Missing
  <2>4. Min(Missing(w)) \in 1 .. Len(s)
    <3>1. Missing(w) \subseteq Nat
      BY <2>2, <2>3
    <3> QED
      BY <1>4, <2>3, <3>1, MinIn
  <2>5. NextAccount(w) \in Accounts
    <3>1. NextAccount(w) = s[Min(Missing(w))].account
      BY <1>1, <2>1 DEF NextAccount
    <3> QED
      BY <2>2, <2>4, <3>1 DEF Entry
  <2>0. tx[w].created \subseteq Accounts
    BY <1>1 DEF CallType
  <2>6. PICK A : A = tx[w].created \cup {NextAccount(w)} /\ A \subseteq Accounts
    BY <2>0, <2>5
  <2>7. PICK t : t = [tx[w] EXCEPT !.created = A]
    OBVIOUS
  <2>8. /\ t \in CallType /\ t.phase = "ensure" /\ t.id = tx[w].id /\ t.draft = tx[w].draft
        /\ t.next = tx[w].next /\ t.rows = tx[w].rows
    BY <1>1, <2>6, <2>7 DEF CallType
  <2>9. IdentityOK(w, t) /\ DraftOK(w, t)
    BY <1>1, <2>8 DEF IdentityOK, DraftOK
  <2>10. Step(w, t)
    BY <1>4, <2>6, <2>7 DEF EnsureAccount
  <2> QED
    BY <1>1, <1>2, <2>8, <2>9, <2>10, MoveStep
<1> QED
  BY <1>3, <1>4

\* INSERT INTO journals.
LEMMA InsertJournalStep ==
  ASSUME IInv, NEW w \in Workers, InsertJournal(w)
  PROVE  IInv'
<1>1. tx[w].phase = "insert" /\ tx[w] \in CallType /\ CallOK(w, tx[w])
  BY CallFacts DEF InsertJournal
<1>2. CASE journals[tx[w].id] # None
  BY <1>1, <1>2, FailStep DEF InsertJournal
<1>3. CASE journals[tx[w].id] = None
  <2>1. PICK t : t = [tx[w] EXCEPT !.phase = "entries"]
    OBVIOUS
  <2>2. /\ t \in CallType /\ t.phase = "entries" /\ t.id = tx[w].id /\ t.draft = tx[w].draft
        /\ t.next = tx[w].next /\ t.rows = tx[w].rows
    BY <1>1, <2>1, PhaseIs DEF Phases
  <2>3. Step(w, t) /\ UNCHANGED <<journals, inbox, accounts, balances, outbox, dlq>>
        /\ Blockers(w) = {}
    BY <1>3, <2>1 DEF InsertJournal
  <2>4. IdentityOK(w, t) /\ DraftOK(w, t)
    BY <1>1, <2>2 DEF CallOK, IdentityOK, DraftOK
  <2>5. DOMAIN t.rows = {} /\ t.next = 1 /\ t.next \in 1 .. Len(t.draft.entries)
    <3>1. DOMAIN t.rows = {} /\ t.next = 1 /\ Len(t.draft.entries) >= 2
      BY <1>1, <2>2 DEF CallOK, RowsOK, DraftOK, Inserting
    <3>2. t.draft.entries \in Seq(Entry)
      BY <2>2 DEF CallType, Draft
    <3> QED
      BY <3>1, <3>2
  <2>6. ASSUME NEW a \in Accounts
        PROVE  Written(t.rows, a) = balances[a] + Partial(t.draft.entries, a, t.next - 1)
    <3>1. Partial(t.draft.entries, a, 0) = 0
      BY SumShort DEF Partial
    <3>2. balances[a] \in Int /\ Written(t.rows, a) = balances[a]
      BY <2>5 DEF IInv, TablesOK, Written
    <3>3. t.next - 1 = 0
      BY <2>5
    <3> QED
      BY <3>1, <3>2, <3>3
  <2>7. CallOK(w, t)
    BY <1>3, <2>2, <2>4, <2>5, <2>6 DEF CallOK, RowsOK, Inserting
  <2>8. ASSUME NEW v \in Workers \ {w} PROVE Apart(v, tx[v], w, t)
    <3>1. Apart(v, tx[v], w, tx[w])
      BY <2>8 DEF IInv, Calls
    <3>2. tx[v].phase \in Inserting => tx[v].id # t.id
      BY <1>1, <2>2, <2>3 DEF Blockers, Inserted, Inserting
    <3> QED
      BY <1>1, <2>2, <3>1, <3>2 DEF Apart
  <2>9. dlq' \subseteq Events
    BY <2>3 DEF IInv, TablesOK
  <2> QED
    BY <2>2, <2>3, <2>7, <2>8, <2>9, LocalStep
<1> QED
  BY <1>2, <1>3

\* INSERT INTO entries: the balance follows, in the rows the transaction holds.
LEMMA InsertEntryStep ==
  ASSUME IInv, NEW w \in Workers, InsertEntry(w)
  PROVE  IInv'
<1>1. tx[w].phase = "entries" /\ tx[w] \in CallType /\ CallOK(w, tx[w])
  BY CallFacts DEF InsertEntry
<1>2. PICK s, n : s = tx[w].draft.entries /\ n = tx[w].next
  OBVIOUS
<1>3. s \in Seq(Entry) /\ Len(s) \in Nat /\ n \in 1 .. Len(s) /\ n \in Nat /\ s[n] \in Entry
  <2>1. s \in Seq(Entry)
    BY <1>1, <1>2 DEF CallType, Draft
  <2>2. n \in 1 .. Len(s)
    BY <1>1, <1>2 DEF CallOK, RowsOK
  <2> QED
    BY <2>1, <2>2
<1>4. PICK a : a = s[n].account /\ a \in Accounts
  BY <1>3 DEF Entry
<1>5. PICK m : m = Written(tx[w].rows, a) + SignedDelta(s[n])
  OBVIOUS
<1>6. PICK r : r = With(tx[w].rows, a, m)
  OBVIOUS
<1>7. PICK p : p = IF n = Len(s) THEN "commit" ELSE "entries"
  OBVIOUS
<1>8. PICK t : t = [tx[w] EXCEPT !.phase = p, !.next = n + 1, !.rows = r]
  OBVIOUS
<1>9. Step(w, t) /\ UNCHANGED <<journals, inbox, accounts, balances, outbox, dlq>> /\ Blockers(w) = {}
  <2>1. t = [tx[w] EXCEPT
               !.phase = IF tx[w].next = Len(tx[w].draft.entries) THEN "commit" ELSE @,
               !.next = @ + 1, !.rows = With(@, a, m)]
    BY <1>1, <1>2, <1>6, <1>7, <1>8 DEF CallType
  <2> QED
    BY <1>2, <1>4, <1>5, <2>1 DEF InsertEntry
<1>10. Term(s[n], a) = SignedDelta(s[n]) /\ SignedDelta(s[n]) \in Int
  BY <1>3, <1>4, TermInt DEF Term
<1>11. \A b \in Accounts : balances[b] \in Int /\ Written(tx[w].rows, b) \in Int
  <2>1. tx[w].rows \in Rows
    BY <1>1 DEF CallType
  <2>2. \A b \in DOMAIN tx[w].rows : tx[w].rows[b] \in Int
    BY <2>1 DEF Rows
  <2> QED
    BY <2>2 DEF IInv, TablesOK, Written
<1>12. r \in Rows /\ DOMAIN r = DOMAIN tx[w].rows \cup {a}
  <2>1. PICK A : A \in SUBSET Accounts /\ tx[w].rows \in [A -> Int]
    BY <1>1 DEF CallType, Rows
  <2>2. m \in Int
    BY <1>4, <1>5, <1>10, <1>11
  <2>3. r \in [A \cup {a} -> Int]
    BY <1>6, <2>1, <2>2 DEF With
  <2>4. A \cup {a} \in SUBSET Accounts
    BY <1>4, <2>1
  <2> QED
    BY <2>1, <2>3, <2>4 DEF Rows
<1>13. /\ t \in CallType /\ t.phase = p /\ t.id = tx[w].id /\ t.draft = tx[w].draft
       /\ t.next = n + 1 /\ t.rows = r
  <2>1. p \in Phases /\ n + 1 \in Nat
    BY <1>3, <1>7 DEF Phases
  <2> QED
    BY <1>1, <1>8, <1>12, <2>1 DEF CallType
<1>14. ASSUME NEW b \in Accounts
       PROVE  Written(t.rows, b) = balances[b] + Partial(t.draft.entries, b, t.next - 1)
  <2>1. t.next - 1 = n /\ t.draft.entries = s
    BY <1>2, <1>3, <1>13
  <2>2. Written(tx[w].rows, b) = balances[b] + Partial(s, b, n - 1)
    BY <1>1, <1>2 DEF CallOK, RowsOK, Inserting
  <2>3. Partial(s, b, n) = Partial(s, b, n - 1) + Term(s[n], b) /\ Partial(s, b, n - 1) \in Int
    <3>1. PICK k : k = n - 1 /\ k \in Nat /\ k + 1 = n /\ k + 1 <= Len(s)
      BY <1>3
    <3>2. PICK f : f = Terms(s, b)
      OBVIOUS
    <3>3. \A i \in 1 .. Len(s) : f[i] = Term(s[i], b) /\ f[i] \in Int
      BY <1>3, <3>2, EffectIs
    <3>4. (\A i \in 1 .. k + 1 : f[i] \in Int) /\ (\A i \in 1 .. k : f[i] \in Int)
      BY <1>3, <3>1, <3>3
    <3>5. SumFunctionOnSet(f, 1 .. k + 1) = SumFunctionOnSet(f, 1 .. k) + f[k + 1]
      BY <3>1, <3>4, SumUpTo
    <3>6. IsFiniteSet(1 .. k)
      BY <3>1, FS_Interval
    <3>7. SumFunctionOnSet(f, 1 .. k) \in Int
      BY <3>4, <3>6, SumInt
    <3>8. f[k + 1] = Term(s[n], b)
      BY <1>3, <3>1, <3>3
    <3> QED
      BY <3>1, <3>2, <3>5, <3>7, <3>8 DEF Partial
  <2>4. CASE b = a
    <3>1. Written(r, b) = m
      BY <1>6, <1>12, <2>4 DEF Written, With
    <3>2. m = Written(tx[w].rows, b) + Term(s[n], b)
      BY <1>5, <1>10, <2>4
    <3>3. Term(s[n], b) \in Int /\ balances[b] \in Int
      BY <1>10, <1>11, <2>4
    <3>4. m = balances[b] + Partial(s, b, n)
      BY <2>2, <2>3, <3>2, <3>3
    <3> QED
      BY <1>13, <2>1, <3>1, <3>4
  <2>5. CASE b # a
    <3>1. Written(r, b) = Written(tx[w].rows, b)
      BY <1>6, <1>12, <2>5 DEF Written, With
    <3>2. Term(s[n], b) = 0
      BY <1>4, <2>5 DEF Term
    <3>3. Partial(s, b, n) = Partial(s, b, n - 1)
      BY <2>3, <3>2
    <3> QED
      BY <1>13, <2>1, <2>2, <3>1, <3>3
  <2> QED
    BY <2>4, <2>5
<1>15. RowsOK(t)
  <2>1. p \in Inserting /\ journals[t.id] = None
    BY <1>1, <1>7, <1>13 DEF CallOK, RowsOK, Inserting
  <2>2. t.draft.entries = s
    BY <1>2, <1>13
  <2>3. p = "entries" => n + 1 \in 1 .. Len(s)
    BY <1>3, <1>7
  <2>4. p = "commit" => n + 1 = Len(s) + 1
    BY <1>7
  <2> QED
    BY <1>13, <1>14, <2>1, <2>2, <2>3, <2>4 DEF RowsOK
<1>16. CallOK(w, t)
  <2>1. p \in {"entries", "commit"}
    BY <1>7
  <2>2. IdentityOK(w, t)
    BY <1>1, <1>13, <2>1 DEF CallOK, IdentityOK
  <2>3. DraftOK(w, t)
    BY <1>1, <1>13, <2>1 DEF CallOK, DraftOK
  <2> QED
    BY <1>15, <2>2, <2>3 DEF CallOK
<1>17. ASSUME NEW v \in Workers \ {w} PROVE Apart(v, tx[v], w, t)
  <2>1. Apart(v, tx[v], w, tx[w])
    BY <1>17 DEF IInv, Calls
  <2>2. a \notin DOMAIN tx[v].rows
    <3>1. NextAccount(w) = a
      BY <1>1, <1>2, <1>4 DEF NextAccount
    <3> QED
      BY <1>1, <1>9, <3>1 DEF Blockers
  <2> QED
    BY <1>1, <1>12, <1>13, <2>1, <2>2 DEF Apart, Inserting
<1>18. dlq' \subseteq Events
  BY <1>9 DEF IInv, TablesOK
<1> QED
  BY <1>9, <1>13, <1>16, <1>17, <1>18, LocalStep

\* The commit: the journal, its balances, its events and the processed mark become visible.
LEMMA CommitStep ==
  ASSUME IInv, NEW w \in Workers, Commit(w)
  PROVE  IInv'
<1>1. tx[w].phase = "commit" /\ tx[w] \in CallType /\ CallOK(w, tx[w])
  BY CallFacts DEF Commit
<1>2. PICK id, d, r, new : id = tx[w].id /\ d = tx[w].draft /\ r = tx[w].rows /\ new = tx[w].created
  OBVIOUS
<1>3. /\ Valid(d.entries) /\ journals' = [journals EXCEPT ![id] = d]
      /\ inbox' = inbox \cup ({id} \cap Events) /\ accounts' = accounts \cup new
      /\ balances' = [a \in Accounts |-> Written(r, a)] /\ outbox' = outbox \cup {id}
      /\ Step(w, Idle) /\ dlq' = dlq
  BY <1>2 DEF Commit
<1>4. d \in Draft /\ d # None /\ d.entries \in Seq(Entry) /\ r \in Rows /\ new \subseteq Accounts
  BY <1>1, <1>2, DraftAssumption DEF CallType, Draft
<1>5. id \in JournalIds /\ journals[id] = None /\ (id \in Events <=> w \in Consumers)
  BY <1>1, <1>2, IdAssumption DEF CallOK, IdentityOK, RowsOK, Inserting, JournalIds
<1>6. /\ journals' \in [JournalIds -> Draft \cup {None}] /\ journals'[id] = d
      /\ \A j \in JournalIds \ {id} : journals'[j] = journals[j]
  BY <1>3, <1>4, <1>5 DEF IInv, TablesOK
<1>7. Posted' = Posted \cup {id} /\ id \notin Posted
  BY <1>4, <1>5, <1>6 DEF Posted
<1>8. TablesOK'
  <2>1. IsFiniteSet(Posted')
    BY <1>7, FS_AddElement DEF IInv, TablesOK
  <2>2. balances' \in [Accounts -> Int]
    <3>1. \A b \in DOMAIN r : r[b] \in Int
      BY <1>4 DEF Rows
    <3>2. \A b \in Accounts : Written(r, b) \in Int
      BY <3>1 DEF Written, IInv, TablesOK
    <3> QED
      BY <1>3, <3>2
  <2> QED
    BY <1>3, <1>4, <1>5, <1>6, <2>1, <2>2 DEF IInv, TablesOK
<1>9. tx' \in [Workers -> CallType] /\ tx'[w] = Idle /\ \A v \in Workers \ {w} : tx'[v] = tx[v]
  BY <1>3, IdleIs DEF IInv, Step
<1>10. ASSUME NEW c, Undoes(c) PROVE Undoes(c)'
  <2> SUFFICES ASSUME c.reversalOf # None
               PROVE  /\ c.reversalOf \in Posted'
                      /\ Mirrors(journals'[c.reversalOf].entries, c.entries)
    BY DEF Undoes
  <2>1. c.reversalOf \in Posted /\ Mirrors(journals[c.reversalOf].entries, c.entries)
    BY <1>10 DEF Undoes
  <2>2. c.reversalOf \in JournalIds \ {id}
    BY <1>7, <2>1 DEF Posted
  <2> QED
    BY <1>6, <1>7, <2>1, <2>2
<1>11. ASSUME NEW v \in Workers PROVE CallOK(v, tx[v])'
  <2>1. CASE v = w
    <3>1. Idle.phase = "idle" /\ Idle.next = 1 /\ DOMAIN Idle.rows = {}
      BY NoRows DEF Idle
    <3>2. PICK s : s = tx'[v] /\ s = Idle
      BY <1>9, <2>1
    <3>3. CallOK(v, s)'
      BY <3>1, <3>2 DEF CallOK, IdentityOK, DraftOK, RowsOK, Inserting
    <3> QED
      BY <3>2, <3>3
  <2>2. CASE v # w
    <3>1. PICK s : s = tx'[v] /\ s = tx[v]
      BY <1>9, <2>2
    <3>2. CallOK(v, s) /\ Apart(v, s, w, tx[w]) /\ s \in CallType
      BY <2>2, <3>1, CallFacts DEF IInv, Calls
    <3>3. IdentityOK(v, s)'
      BY <3>2 DEF CallOK, IdentityOK
    <3>4. DraftOK(v, s)'
      <4>1. v \in Consumers /\ s.phase \notin {"idle", "mark"} =>
              s.id \notin inbox' /\ FromEvent(s.id, s.draft.entries)
        <5>1. v \in Consumers /\ s.phase \notin {"idle", "mark"} =>
                s.id \notin inbox /\ FromEvent(s.id, s.draft.entries)
          BY <3>2 DEF CallOK, DraftOK
        <5>2. v \in Consumers /\ s.phase \notin {"idle", "mark"} /\ id \in Events => s.id # id
          BY <1>1, <1>2, <1>5, <3>2 DEF Apart
        <5> QED
          BY <1>3, <5>1, <5>2
      <4>2. s.phase \in {"ensure", "insert", "entries", "commit"} => Undoes(s.draft)'
        BY <1>10, <3>2 DEF CallOK, DraftOK
      <4> QED
        BY <3>2, <4>1, <4>2 DEF CallOK, DraftOK, FromEvent
    <3>5. RowsOK(s)'
      <4>1. ASSUME s.phase \in Inserting
            PROVE  /\ journals'[s.id] = None
                   /\ \A a \in Accounts : Written(s.rows, a)' =
                        balances'[a] + Partial(s.draft.entries, a, s.next - 1)
        <5>1. s.id # id /\ s.id \in JournalIds /\ journals[s.id] = None
          BY <1>1, <1>2, <3>2, <4>1 DEF Apart, Inserting, CallOK, IdentityOK, RowsOK, JournalIds
        <5>2. journals'[s.id] = None
          BY <1>6, <5>1
        <5>3. ASSUME NEW a \in Accounts
              PROVE  Written(s.rows, a)' = balances'[a] + Partial(s.draft.entries, a, s.next - 1)
          <6>1. Written(s.rows, a) = balances[a] + Partial(s.draft.entries, a, s.next - 1)
            BY <3>2, <4>1 DEF CallOK, RowsOK
          <6>2. CASE a \in DOMAIN s.rows
            <7>1. a \notin DOMAIN r
              BY <1>2, <3>2, <6>2 DEF Apart
            <7>2. balances'[a] = balances[a]
              BY <1>3, <7>1 DEF Written
            <7> QED
              BY <6>1, <6>2, <7>2 DEF Written
          <6>3. CASE a \notin DOMAIN s.rows
            <7>1. PICK k : k = Partial(s.draft.entries, a, s.next - 1)
              OBVIOUS
            <7>2. k \in Int
              <8>1. s.draft.entries \in Seq(Entry) /\ s.next \in Nat
                BY <3>2 DEF CallType, Draft
              <8>2. PICK e, n, f : /\ e = s.draft.entries /\ n = s.next - 1 /\ f = Terms(e, a)
                OBVIOUS
              <8>3. \A i \in 1 .. Len(e) : f[i] \in Int
                BY <8>1, <8>2, EffectIs
              <8>4. n \in Int /\ n <= Len(e) /\ Len(e) \in Nat
                <9>1. s.phase = "entries" \/ s.phase = "commit"
                  BY <4>1 DEF Inserting
                <9>2. s.next \in 1 .. Len(e) + 1
                  <10>1. Len(e) \in Nat
                    BY <8>1, <8>2
                  <10>2. s.next \in 1 .. Len(e) \/ s.next = Len(e) + 1
                    BY <3>2, <8>2, <9>1 DEF CallOK, RowsOK
                  <10> QED
                    BY <10>1, <10>2
                <9> QED
                  BY <8>1, <8>2, <9>2
              <8>5. \A i \in 1 .. n : f[i] \in Int
                BY <8>3, <8>4
              <8>6. IsFiniteSet(1 .. n)
                BY <8>4, FS_Interval
              <8> QED
                BY <7>1, <8>2, <8>5, <8>6, SumInt DEF Partial
            <7>3. balances[a] \in Int /\ balances'[a] \in Int
              BY <1>8 DEF IInv, TablesOK
            <7>4. balances[a] = balances[a] + k
              BY <6>1, <6>3, <7>1 DEF Written
            <7>5. k = 0
              BY <7>2, <7>3, <7>4
            <7> QED
              BY <6>3, <7>1, <7>3, <7>5 DEF Written
          <6> QED
            BY <6>2, <6>3
        <5> QED
          BY <5>2, <5>3
      <4>2. s.phase \notin Inserting => DOMAIN s.rows = {} /\ s.next = 1
        BY <3>2 DEF CallOK, RowsOK
      <4>3. /\ s.phase = "entries" => s.next \in 1 .. Len(s.draft.entries)
            /\ s.phase = "commit" => s.next = Len(s.draft.entries) + 1
        BY <3>2 DEF CallOK, RowsOK
      <4> QED
        BY <4>1, <4>2, <4>3 DEF RowsOK, Partial
    <3> QED
      BY <3>1, <3>3, <3>4, <3>5 DEF CallOK
  <2> QED
    BY <2>1, <2>2
<1>12. ASSUME NEW v \in Workers, NEW u \in Workers, v # u PROVE Apart(v, tx'[v], u, tx'[u])
  <2>1. CASE u = w
    BY <1>9, <2>1, IdleIs
  <2>2. CASE v = w
    BY <1>9, <2>2, IdleIs, ApartSymmetric
  <2>3. CASE u # w /\ v # w
    BY <1>9, <1>12, <2>3 DEF IInv, Calls
  <2> QED
    BY <2>1, <2>2, <2>3
<1>13. Calls'
  BY <1>11, <1>12 DEF Calls, Apart
<1>14. ASSUME NEW j \in Posted' PROVE JournalOK(j)'
  <2>1. CASE j = id
    <3>1. Undoes(d) /\ (id \in Events => FromEvent(id, d.entries))
      BY <1>1, <1>2, <1>5 DEF CallOK, DraftOK
    <3>2. Undoes(d)'
      BY <1>10, <3>1
    <3>3. Len(d.entries) >= 2
      BY <1>3 DEF Valid
    <3>4. journals'[j] = d
      BY <1>6, <2>1
    <3> QED
      BY <2>1, <3>1, <3>2, <3>3, <3>4 DEF JournalOK, FromEvent, Undoes
  <2>2. CASE j # id
    <3>1. j \in Posted /\ journals'[j] = journals[j] /\ JournalOK(j)
      BY <1>6, <1>7, <2>2 DEF Posted, IInv, Journals
    <3>2. PICK c : c = journals[j]
      OBVIOUS
    <3>3. Undoes(c)'
      BY <1>10, <3>1, <3>2 DEF JournalOK
    <3> QED
      BY <3>1, <3>2, <3>3 DEF JournalOK, FromEvent, Undoes
  <2> QED
    BY <2>1, <2>2
<1>15. Journals'
  BY <1>14 DEF Journals
<1>16. ProcessedMeansPosted'
  BY <1>3, <1>7 DEF IInv, ProcessedMeansPosted
<1>17. NoBalanceDrift'
  <2> SUFFICES ASSUME NEW a \in Accounts
               PROVE  balances'[a] = SumFunction([j \in Posted' |-> Effect(journals'[j].entries, a)])
    BY DEF NoBalanceDrift
  <2>1. PICK f, g : /\ f = [j \in Posted |-> Effect(journals[j].entries, a)]
                    /\ g = [j \in Posted' |-> Effect(journals'[j].entries, a)]
    OBVIOUS
  <2>2. \A j \in Posted : f[j] \in Int
    <3>1. \A j \in Posted : journals[j].entries \in Seq(Entry)
      BY DEF IInv, TablesOK, Posted, Draft
    <3> QED
      BY <2>1, <3>1, EffectIs
  <2>3. \A j \in Posted : g[j] = f[j]
    BY <1>6, <1>7, <2>1 DEF Posted
  <2>4. g[id] = Effect(d.entries, a) /\ g[id] \in Int
    BY <1>4, <1>6, <1>7, <2>1, EffectIs
  <2>5. IsFiniteSet(Posted)
    BY DEF IInv, TablesOK
  <2>6. SumFunctionOnSet(g, Posted \cup {id}) = SumFunctionOnSet(g, Posted) + g[id]
    BY <1>7, <2>2, <2>3, <2>4, <2>5, SumAdd
  <2>7. SumFunctionOnSet(f, Posted) = SumFunctionOnSet(g, Posted)
    BY <2>2, <2>3, <2>5, SumSame
  <2>8. balances[a] = SumFunctionOnSet(f, Posted)
    BY <2>1 DEF IInv, NoBalanceDrift, SumFunction
  <2>9. SumFunction(g) = balances[a] + Effect(d.entries, a)
    BY <1>7, <2>1, <2>4, <2>6, <2>7, <2>8 DEF SumFunction
  <2>10. Written(r, a) = balances[a] + Effect(d.entries, a)
    <3>1. Written(r, a) = balances[a] + Partial(d.entries, a, tx[w].next - 1)
      BY <1>1, <1>2 DEF CallOK, RowsOK, Inserting
    <3>2. tx[w].next - 1 = Len(d.entries)
      <4>1. tx[w].next = Len(d.entries) + 1
        BY <1>1, <1>2 DEF CallOK, RowsOK
      <4>2. Len(d.entries) \in Nat
        BY <1>4
      <4> QED
        BY <4>1, <4>2
    <3>3. Effect(d.entries, a) = Partial(d.entries, a, Len(d.entries))
      BY <1>4, EffectIs
    <3> QED
      BY <3>1, <3>2, <3>3
  <2> QED
    BY <1>3, <2>1, <2>9, <2>10
<1> QED
  BY <1>8, <1>9, <1>13, <1>15, <1>16, <1>17 DEF IInv

\* CreateAccount touches no balance and no call.
LEMMA CreateAccountStep ==
  ASSUME IInv, NEW a \in Opened, CreateAccount(a)
  PROVE  IInv'
<1>1. UNCHANGED <<journals, inbox, balances, outbox, dlq, tx>> /\ accounts' \subseteq Accounts
  BY OpenedAssumption DEF CreateAccount, IInv, TablesOK
<1>2. Posted' = Posted
  BY <1>1 DEF Posted
<1>3. TablesOK'
  BY <1>1, <1>2 DEF IInv, TablesOK
<1>4. ASSUME NEW v \in Workers PROVE CallOK(v, tx[v])'
  <2>1. PICK s : s = tx[v] /\ s = tx'[v]
    BY <1>1
  <2>2. CallOK(v, s)'
    BY <1>1, <2>1, SameTables DEF IInv, Calls
  <2> QED
    BY <2>1, <2>2
<1>5. Calls'
  BY <1>1, <1>4 DEF IInv, Calls, Apart
<1>6. Journals'
  BY <1>1, <1>2 DEF IInv, Journals, JournalOK, FromEvent, Undoes
<1>7. ProcessedMeansPosted' /\ NoBalanceDrift'
  BY <1>1, <1>2 DEF IInv, ProcessedMeansPosted, NoBalanceDrift
<1> QED
  BY <1>1, <1>3, <1>5, <1>6, <1>7 DEF IInv

\* Nothing happens.
LEMMA StutterStep ==
  ASSUME IInv, UNCHANGED vars
  PROVE  IInv'
<1>1. UNCHANGED <<journals, inbox, accounts, balances, outbox, dlq, tx>>
  BY DEF vars
<1>2. Posted' = Posted
  BY <1>1 DEF Posted
<1>3. TablesOK'
  BY <1>1, <1>2 DEF IInv, TablesOK
<1>4. ASSUME NEW v \in Workers PROVE CallOK(v, tx[v])'
  <2>1. PICK s : s = tx[v] /\ s = tx'[v]
    BY <1>1
  <2>2. CallOK(v, s)'
    BY <1>1, <2>1, SameTables DEF IInv, Calls
  <2> QED
    BY <2>1, <2>2
<1>5. Calls'
  BY <1>1, <1>4 DEF IInv, Calls, Apart
<1>6. Journals'
  BY <1>1, <1>2 DEF IInv, Journals, JournalOK, FromEvent, Undoes
<1>7. ProcessedMeansPosted' /\ NoBalanceDrift'
  BY <1>1, <1>2 DEF IInv, ProcessedMeansPosted, NoBalanceDrift
<1> QED
  BY <1>1, <1>3, <1>5, <1>6, <1>7 DEF IInv

\* A crash, and a victim of the deadlock detector.
LEMMA CrashStep ==
  ASSUME IInv, NEW w \in Workers, Crash(w) \/ AbortDeadlock(w)
  PROVE  IInv'
<1>1. CASE Crash(w)
  <2>1. dlq' \subseteq Events
    BY <1>1 DEF Crash, IInv, TablesOK
  <2> QED
    BY <1>1, <2>1, EndStep DEF Crash
<1>2. CASE AbortDeadlock(w)
  <2>1. Blockers(w) # {}
    BY <1>2 DEF AbortDeadlock, Deadlocked
  <2>2. tx[w].phase # "idle"
    BY <2>1 DEF Blockers
  <2> QED
    BY <1>2, <2>2, FailStep DEF AbortDeadlock
<1> QED
  BY <1>1, <1>2

\* Every step keeps the invariant.
LEMMA Preserved ==
  ASSUME IInv, [Next]_vars
  PROVE  IInv'
<1>1. ASSUME NEW w \in Consumers, NEW e \in Events, Deliver(w, e) PROVE IInv'
  BY <1>1, DeliverStep
<1>2. ASSUME NEW w \in Consumers, DatabaseError(w) PROVE IInv'
  BY <1>2, FailConsumerStep DEF DatabaseError
<1>3. ASSUME NEW w \in Operators, NEW k \in Keys, NEW o \in JournalIds, ReverseJournal(w, k, o)
      PROVE  IInv'
  BY <1>3, ReverseJournalStep
<1>4. ASSUME NEW w \in Operators, NEW k \in Keys, NEW d \in Drafts, PostManualJournal(w, k, d)
      PROVE  IInv'
  BY <1>4, PostManualJournalStep
<1>5. ASSUME NEW a \in Opened, CreateAccount(a) PROVE IInv'
  BY <1>5, CreateAccountStep
<1>6. ASSUME NEW w \in Workers, Advance(w) PROVE IInv'
  BY <1>6, MarkProcessedStep, LinkReversalStep, ReadOriginalStep, CheckExistingStep,
     EnsureAccountStep, InsertJournalStep, InsertEntryStep, CommitStep, CrashStep DEF Advance
<1>7. ASSUME NEW w \in Workers, Crash(w) PROVE IInv'
  BY <1>7, CrashStep
<1>8. CASE UNCHANGED vars
  BY <1>8, StutterStep
<1> QED
  BY <1>1, <1>2, <1>3, <1>4, <1>5, <1>6, <1>7, <1>8 DEF Next

\* The ledger starts empty.
LEMMA InitOK ==
  ASSUME Init
  PROVE  IInv
<1>1. Posted = {} /\ IsFiniteSet({})
  BY FS_EmptySet DEF Init, Posted
<1>2. TablesOK
  BY <1>1 DEF Init, TablesOK
<1>3. tx \in [Workers -> CallType] /\ \A w \in Workers : tx[w] = Idle
  BY IdleIs DEF Init
<1>4. Calls
  BY <1>3, IdleIs DEF Calls
<1>5. Journals /\ ProcessedMeansPosted
  BY <1>1 DEF Init, Journals, ProcessedMeansPosted
<1>6. NoBalanceDrift
  <2> SUFFICES ASSUME NEW a \in Accounts
               PROVE  balances[a] = SumFunction([j \in Posted |-> Effect(journals[j].entries, a)])
    BY DEF NoBalanceDrift
  <2>1. PICK f : f = [j \in Posted |-> Effect(journals[j].entries, a)]
    OBVIOUS
  <2>2. SumFunction(f) = 0
    BY <1>1, <2>1, SumEmpty DEF SumFunction
  <2> QED
    BY <2>1, <2>2 DEF Init
<1> QED
  BY <1>2, <1>3, <1>4, <1>5, <1>6 DEF IInv

\* The invariant behind the theorems holds of every behaviour of the ledger.
LEMMA Inductive == Spec => []IInv
<1>1. Init => IInv
  BY InitOK
<1>2. IInv /\ [Next]_vars => IInv'
  BY Preserved
<1> QED
  BY <1>1, <1>2, PTL DEF Spec

-----------------------------------------------------------------------------
(* The theorems. *)

\* The tables and the transactions stay well typed: no line is inserted beyond the end of a
\* journal, no balance is kept of an account that does not exist, no event is tried more often
\* than handleWithRetry allows.
THEOREM TypeCorrect == Spec => []TypeOK
<1>1. IInv => TypeOK
  <2> SUFFICES ASSUME IInv, NEW w \in Workers
               PROVE  /\ tx[w].phase \in Phases
                      /\ tx[w].id \in JournalIds \cup {None}
                      /\ tx[w].draft \in Draft
                      /\ tx[w].next \in 1 .. Len(tx[w].draft.entries) + 1
                      /\ tx[w].tries \in 0 .. MaxRetries
                      /\ tx[w].created \subseteq Accounts
                      /\ DOMAIN tx[w].rows \subseteq Accounts
                      /\ \A a \in DOMAIN tx[w].rows : tx[w].rows[a] \in Int
    BY DEF IInv, TablesOK, TypeOK
  <2>1. tx[w] \in CallType /\ RowsOK(tx[w])
    BY CallFacts DEF CallOK
  <2>2. PICK s, n : s = tx[w].draft.entries /\ n = tx[w].next
    OBVIOUS
  <2>3. s \in Seq(Entry) /\ n \in Nat
    BY <2>1, <2>2 DEF CallType, Draft
  <2>4. n = 1 \/ n \in 1 .. Len(s) \/ n = Len(s) + 1
    BY <2>1, <2>2 DEF RowsOK, Inserting
  <2>5. n \in 1 .. Len(s) + 1
    BY <2>3, <2>4
  <2>6. tx[w].rows \in Rows
    BY <2>1 DEF CallType
  <2>7. DOMAIN tx[w].rows \subseteq Accounts /\ \A a \in DOMAIN tx[w].rows : tx[w].rows[a] \in Int
    BY <2>6 DEF Rows
  <2> QED
    BY <2>1, <2>2, <2>5, <2>7 DEF CallType
<1> QED
  BY <1>1, Inductive, PTL

\* However transactions interleave, fail and are repeated, an event is marked processed together
\* with its journal and the announcement of it.
THEOREM InboxAtomic == Spec => []ProcessedMeansPosted
<1>1. IInv => ProcessedMeansPosted
  BY DEF IInv
<1> QED
  BY <1>1, Inductive, PTL

\* The balance of every account is the sum of the entries posted to it, for any number of
\* workers, any events and any journals operators type in.
THEOREM NoDrift == Spec => []NoBalanceDrift
<1>1. IInv => NoBalanceDrift
  BY DEF IInv
<1> QED
  BY <1>1, Inductive, PTL

\* Every template balances and gives the merchant what its event says, for every amount and fee
\* that passes the checks, and so does every journal an event has posted.
THEOREM TemplatesCorrect == Spec => []TemplatesBalance
<1>1. IInv => TemplatesBalance
  <2> SUFFICES ASSUME IInv PROVE TemplatesBalance
    OBVIOUS
  <2>1. AllTemplatesCorrect
    <3> SUFFICES ASSUME NEW ev \in SomeEvents, WellFormed(ev) PROVE Correct(EntriesFor(ev), ev)
      BY DEF AllTemplatesCorrect
    <3>1. ev.type \in PostingTypes /\ ev.amount \in Int /\ ev.fee \in Int
      <4>1. ev \in [type : PostingTypes, ref : {""}, amount : 1 .. 3, fee : 0 .. 3]
        BY DEF SomeEvents
      <4>2. ev.type \in PostingTypes /\ ev.amount \in 1 .. 3 /\ ev.fee \in 0 .. 3
        BY <4>1
      <4> QED
        BY <4>2
    <3> QED
      BY <3>1, TemplateMade DEF Made
  <2>2. ASSUME NEW e \in Posted \cap Events PROVE Correct(journals[e].entries, EventData[e])
    <3>1. FromEvent(e, journals[e].entries)
      BY <2>2 DEF IInv, Journals, JournalOK
    <3>2. EventData[e].amount \in Int /\ EventData[e].fee \in Int
      BY EventAssumption
    <3> QED
      BY <3>1, <3>2, TemplateMade DEF FromEvent, Made
  <2> QED
    BY <2>1, <2>2 DEF TemplatesBalance
<1> QED
  BY <1>1, Inductive, PTL

\* A journal that says it reverses another undoes it on every account, whoever wrote its lines
\* and in whatever order, although ValidateReversal compares lines only.
THEOREM ReversalsExact == Spec => []ReversalsCancelOut
<1>1. IInv => ReversalsCancelOut
  <2> SUFFICES ASSUME IInv, NEW j \in Posted, journals[j].reversalOf # None
               PROVE  /\ journals[j].reversalOf \in Posted
                      /\ \A a \in Accounts : Effect(journals[j].entries, a)
                           + Effect(journals[journals[j].reversalOf].entries, a) = 0
    BY DEF ReversalsCancelOut
  <2>1. PICK o : o = journals[j].reversalOf
    OBVIOUS
  <2>2. o \in Posted /\ Mirrors(journals[o].entries, journals[j].entries)
    BY <2>1 DEF IInv, Journals, JournalOK, Undoes
  <2>3. journals[o].entries \in Seq(Entry) /\ journals[j].entries \in Seq(Entry)
    BY <2>2 DEF IInv, TablesOK, Posted, Draft
  <2> QED
    BY <2>1, <2>2, <2>3, MirrorsCancel
<1> QED
  BY <1>1, Inductive, PTL

\* Once a refund is booked as created and with its outcome, in whatever order, refund_clearing
\* holds nothing of it.
THEOREM ClearingEmptied == Spec => []ClearingIsEmptied
<1>1. IInv => ClearingIsEmptied
  <2> SUFFICES ASSUME IInv, NEW r, RefundClosed(r)
               PROVE  SumFunction([e \in JournalsOf(r) |->
                        Effect(journals[e].entries, "refund_clearing")]) = 0
    BY DEF ClearingIsEmptied
  <2>1. PICK c \in JournalsOf(r) : EventData[c].type = "refund.created"
    BY DEF RefundClosed
  <2>2. PICK o \in JournalsOf(r) : EventData[o].type \in {"refund.succeeded", "refund.failed"}
    BY DEF RefundClosed
  <2>3. PICK f : f = [e \in JournalsOf(r) |-> Effect(journals[e].entries, "refund_clearing")]
    OBVIOUS
  <2>4. /\ c \in Events /\ o \in Events /\ c \in Posted /\ o \in Posted /\ c # o
        /\ EventData[c].ref = r /\ EventData[o].ref = r
    BY <2>1, <2>2 DEF JournalsOf
  <2>5. JournalsOf(r) = {c, o}
    <3> SUFFICES ASSUME NEW e \in JournalsOf(r), e # c, e # o PROVE FALSE
      BY <2>1, <2>2
    <3>1. e \in Events /\ EventData[e].ref = r
      BY DEF JournalsOf
    <3>2. (EventData[c].type = "refund.created") # (EventData[e].type = "refund.created")
      BY <2>1, <2>4, <3>1, RefundAssumption DEF RefundTypes
    <3>3. (EventData[o].type = "refund.created") # (EventData[e].type = "refund.created")
      BY <2>2, <2>4, <3>1, RefundAssumption DEF RefundTypes
    <3> QED
      BY <2>1, <2>2, <3>2, <3>3
  <2>6. EventData[o].amount = EventData[c].amount
    BY <2>1, <2>4, RefundAssumption DEF RefundTypes
  <2>7. ASSUME NEW e \in {c, o}
        PROVE  Made(journals[e].entries, EventData[e])
    <3>1. FromEvent(e, journals[e].entries)
      BY <2>4 DEF IInv, Journals, JournalOK
    <3>2. EventData[e].amount \in Int /\ EventData[e].fee \in Int
      BY <2>4, EventAssumption
    <3> QED
      BY <3>1, <3>2, TemplateMade DEF FromEvent
  <2>8. f[c] = EventData[c].amount /\ f[o] = -EventData[c].amount /\ EventData[c].amount \in Int
    <3>1. f[c] = EventData[c].amount
      BY <2>1, <2>3, <2>7 DEF Made
    <3>2. f[o] = -EventData[o].amount
      BY <2>2, <2>3, <2>7 DEF Made
    <3> QED
      BY <2>4, <2>6, <3>1, <3>2, EventAssumption
  <2>9. SumFunctionOnSet(f, {}) = 0 /\ IsFiniteSet({})
    BY SumEmpty, FS_EmptySet
  <2>10. SumFunctionOnSet(f, {c}) = f[c]
    <3>1. SumFunctionOnSet(f, {} \cup {c}) = SumFunctionOnSet(f, {}) + f[c]
      BY <2>8, <2>9, SumAdd
    <3>2. {} \cup {c} = {c}
      OBVIOUS
    <3> QED
      BY <2>8, <2>9, <3>1, <3>2
  <2>11. SumFunctionOnSet(f, {c, o}) = f[c] + f[o]
    <3>1. IsFiniteSet({c}) /\ o \notin {c} /\ {c} \cup {o} = {c, o}
      BY <2>4, FS_Singleton
    <3>2. SumFunctionOnSet(f, {c} \cup {o}) = SumFunctionOnSet(f, {c}) + f[o]
      <4>1. PICK S : S = {c}
        OBVIOUS
      <4>2. IsFiniteSet(S) /\ o \notin S /\ \A y \in S \cup {o} : f[y] \in Int
        BY <2>8, <3>1, <4>1
      <4>3. SumFunctionOnSet(f, S \cup {o}) = SumFunctionOnSet(f, S) + f[o]
        BY <4>2, SumAdd
      <4> QED
        BY <4>1, <4>3
    <3> QED
      BY <2>10, <3>1, <3>2
  <2>12. SumFunction(f) = SumFunctionOnSet(f, {c, o})
    BY <2>3, <2>5 DEF SumFunction
  <2> QED
    BY <2>3, <2>8, <2>11, <2>12
<1> QED
  BY <1>1, Inductive, PTL

=============================================================================
