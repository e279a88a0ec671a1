------------------------ MODULE IdempotencyKeyProofs -------------------------
(***************************************************************************)
(* Theorems about IdempotencyKey, for every set of clients and payloads    *)
(* and every number of faults.                                             *)
(***************************************************************************)
EXTENDS IdempotencyKey, FiniteSetTheorems, TLAPS

-----------------------------------------------------------------------------
(* The inductive invariant                                                 *)

\* A request between Begin and the end of Abort or Complete.
Forwarding == {"serve", "abort", "complete", "set"}

\* What Complete is about to cache is final.
ToCache == \A c \in Clients : pc[c] \in {"complete", "set"} => IsFinal(answer[c])

\* The live request between Begin and the end is the holder of the lock that is in Valkey, and
\* Complete has read its hash.
LockHeld ==
    /\ \A c \in Clients : live[c] /\ pc[c] \in Forwarding => holder = c
    /\ holder # None =>
         rec = Lock(holder) /\ live[holder] /\ pc[holder] \in Forwarding
    /\ \A c \in Clients : live[c] /\ pc[c] = "set" => seen[c] = PayloadOf[c]

\* What the client c may be told of a payment.
OwnPayment(c, a) ==
    a.code = "created" /\ TableOf[PayloadOf[c]] = "payments" => a.of = PayloadOf[c]

\* A cached response is of the payload whose hash it is cached under, and so is the answer of
\* every client.
Matching ==
    /\ rec.state = "completed" => \A c \in Clients : rec.hash = PayloadOf[c] => OwnPayment(c, rec.resp)
    /\ \A c \in Clients : OwnPayment(c, answer[c])

IInv == TypeOK /\ ToCache /\ (~lost => LockHeld /\ Matching)

-----------------------------------------------------------------------------
(* Facts about the answers                                                 *)

\* Every answer's constructor is an answer; the final ones are those the middleware caches, and
\* only a creation speaks of a payment.
LEMMA AnswerFacts ==
  /\ {Refused, Mismatch, InProgress, Unavailable, NoAnswer} \subseteq Answers
  /\ \A p \in Payloads : Created(p) \in Answers /\ IsFinal(Created(p)) /\ Created(p) # Unavailable
  /\ IsFinal(Refused) /\ IsFinal(Mismatch)
  /\ ~IsFinal(InProgress) /\ ~IsFinal(Unavailable) /\ ~IsFinal(NoAnswer)
  /\ \A c \in Clients : /\ OwnPayment(c, Refused) /\ OwnPayment(c, Mismatch)
                        /\ OwnPayment(c, InProgress) /\ OwnPayment(c, Unavailable)
                        /\ OwnPayment(c, NoAnswer) /\ OwnPayment(c, Created(PayloadOf[c]))
<1>1. {Refused, Mismatch, InProgress, Unavailable, NoAnswer} \subseteq Answers
  BY DEF Answers
<1>2. \A p \in Payloads : Created(p) \in Answers /\ IsFinal(Created(p)) /\ Created(p) # Unavailable
  BY DEF Answers, Created, IsFinal, Unavailable
<1>3. IsFinal(Refused) /\ IsFinal(Mismatch)
  BY DEF Refused, Mismatch, IsFinal
<1>4. ~IsFinal(InProgress) /\ ~IsFinal(Unavailable) /\ ~IsFinal(NoAnswer)
  BY DEF InProgress, Unavailable, NoAnswer, IsFinal, None
<1>5. ASSUME NEW c \in Clients
      PROVE  /\ OwnPayment(c, Refused) /\ OwnPayment(c, Mismatch)
             /\ OwnPayment(c, InProgress) /\ OwnPayment(c, Unavailable)
             /\ OwnPayment(c, NoAnswer) /\ OwnPayment(c, Created(PayloadOf[c]))
  BY DEF OwnPayment, Refused, Mismatch, InProgress, Unavailable, NoAnswer, Created, None
<1> QED
  BY <1>1, <1>2, <1>3, <1>4, <1>5

\* The type of the value under the key; the state tells whether it holds a response.
RecordOK(r) ==
    /\ r \in [state : {None, "in_progress", "completed"}, hash : Hashes, resp : Answers]
    /\ (r.state = "completed") = IsFinal(r.resp)

\* No record, a client's lock and a final answer under a hash are values of the key.
LEMMA RecordFacts ==
  /\ RecordOK(NoRecord) /\ NoRecord.state = None
  /\ \A c \in Clients : /\ PayloadOf[c] \in Payloads /\ RecordOK(Lock(c))
                        /\ Lock(c).state = "in_progress" /\ Lock(c).hash = PayloadOf[c]
  /\ \A h \in Hashes, a \in Answers :
       IsFinal(a) => RecordOK([state |-> "completed", hash |-> h, resp |-> a])
<1>1. RecordOK(NoRecord) /\ NoRecord.state = None
  <2>1. NoRecord.state = None /\ NoRecord.resp = NoAnswer /\ None # "completed"
    BY DEF NoRecord, None
  <2>2. NoRecord \in [state : {None, "in_progress", "completed"}, hash : Hashes, resp : Answers]
    BY AnswerFacts DEF NoRecord, Hashes
  <2>3. NoRecord.state # "completed" /\ ~IsFinal(NoRecord.resp)
    BY <2>1, AnswerFacts
  <2> QED
    BY <2>1, <2>2, <2>3 DEF RecordOK, IsFinal
<1>2. ASSUME NEW c \in Clients
      PROVE  /\ PayloadOf[c] \in Payloads /\ RecordOK(Lock(c))
             /\ Lock(c).state = "in_progress" /\ Lock(c).hash = PayloadOf[c]
  <2>1. PayloadOf[c] \in Payloads
    BY DEF Payloads
  <2>2. Lock(c).state = "in_progress" /\ Lock(c).hash = PayloadOf[c] /\ Lock(c).resp = NoAnswer
    BY DEF Lock
  <2>3. Lock(c) \in [state : {None, "in_progress", "completed"}, hash : Hashes, resp : Answers]
    BY <2>1, AnswerFacts DEF Lock, Hashes
  <2>4. Lock(c).state # "completed" /\ ~IsFinal(Lock(c).resp)
    BY <2>2, AnswerFacts
  <2> QED
    BY <2>1, <2>2, <2>3, <2>4 DEF RecordOK, IsFinal
<1>3. ASSUME NEW h \in Hashes, NEW a \in Answers, IsFinal(a)
      PROVE  RecordOK([state |-> "completed", hash |-> h, resp |-> a])
  BY <1>3 DEF RecordOK
<1> QED
  BY <1>1, <1>2, <1>3

-----------------------------------------------------------------------------
(* Frames                                                                  *)

\* A step of c leaves the other requests alone.
OthersKeep(c) ==
    \A d \in Clients \ {c} :
        pc'[d] = pc[d] /\ live'[d] = live[d] /\ answer'[d] = answer[d] /\ seen'[d] = seen[d]

\* c's request or its context ends, and with it c's hold on the lock.
Leaves(c) ==
    /\ live'[c] = FALSE
    /\ pc'[c] \in {"idle", "done"} \/ (pc'[c] = pc[c] /\ answer'[c] = answer[c])
    /\ holder' = IF holder = c THEN None ELSE holder

\* The variables keep their types but for rec.
RestOK ==
    /\ holder \in Clients \cup {None}
    /\ rows \in [Tables -> Payloads \cup {None}]
    /\ pc \in [Clients -> Where]
    /\ live \in [Clients -> BOOLEAN]
    /\ answer \in [Clients -> Answers]
    /\ seen \in [Clients -> Hashes]
    /\ faults \in 0 .. MaxFaults
    /\ lost \in BOOLEAN

\* TypeOK in the two parts that the steps establish.
LEMMA TypeParts ==
  TypeOK <=> RecordOK(rec) /\ RestOK
BY DEF TypeOK, RecordOK, RestOK

\* A fault counts one up, within the bound.
LEMMA FaultOK ==
  ASSUME RestOK, Fault
  PROVE  faults' \in 0 .. MaxFaults
BY ConstantsAssumption DEF RestOK, Fault

\* What Finish leaves: the request is over, and the client got a or a 503.
LEMMA FinishEffect ==
  ASSUME RestOK, NEW c \in Clients, NEW a \in Answers, Finish(c, a), seen' = seen
  PROVE  /\ holder' \in Clients \cup {None} /\ pc' \in [Clients -> Where]
         /\ live' \in [Clients -> BOOLEAN] /\ answer' \in [Clients -> Answers]
         /\ pc'[c] \in {"idle", "done"}
         /\ answer'[c] = a \/ answer'[c] = Unavailable
         /\ Leaves(c) /\ OthersKeep(c)
<1>1. PICK got : got = IF live[c] THEN a ELSE Unavailable
  OBVIOUS
<1>2. got \in Answers /\ (got = a \/ got = Unavailable)
  BY <1>1, AnswerFacts
<1>3. /\ answer' = [answer EXCEPT ![c] = got]
      /\ pc' = [pc EXCEPT ![c] = IF IsFinal(got) THEN "done" ELSE "idle"]
      /\ live' = [live EXCEPT ![c] = FALSE]
      /\ holder' = IF holder = c THEN None ELSE holder
  BY <1>1 DEF Finish
<1>4. answer' \in [Clients -> Answers] /\ answer'[c] = got
  BY <1>2, <1>3 DEF RestOK
<1>5. pc' \in [Clients -> Where] /\ pc'[c] \in {"idle", "done"}
  BY <1>3 DEF RestOK, Where
<1>6. live' \in [Clients -> BOOLEAN] /\ live'[c] = FALSE
  BY <1>3 DEF RestOK
<1>7. holder' \in Clients \cup {None}
  BY <1>3 DEF RestOK
<1>8. OthersKeep(c)
  BY <1>3 DEF RestOK, OthersKeep
<1> QED
  BY <1>2, <1>3, <1>4, <1>5, <1>6, <1>7, <1>8 DEF Leaves

\* A client that leaves has nothing to cache and hands the lock to nobody.  The record may change
\* only if it was its own lock or nobody's.
LEMMA LeavingKeeps ==
  ASSUME RestOK, ToCache, NEW c \in Clients, Leaves(c), OthersKeep(c),
         rec' = rec \/ holder \in {c, None}
  PROVE  ToCache' /\ (LockHeld => LockHeld')
<1>1. ToCache'
  BY DEF ToCache, Leaves, OthersKeep
<1>2. ASSUME LockHeld
      PROVE  LockHeld'
  <2>1. ASSUME NEW d \in Clients, live'[d], pc'[d] \in Forwarding
        PROVE  holder' = d
    BY <1>2, <2>1 DEF LockHeld, Leaves, OthersKeep
  <2>2. ASSUME holder' # None
        PROVE  rec' = Lock(holder') /\ live'[holder'] /\ pc'[holder'] \in Forwarding
    <3>1. holder' = holder /\ holder # c /\ holder \in Clients
      BY <2>2 DEF Leaves, RestOK
    <3>2. rec' = rec
      BY <2>2, <3>1
    <3>3. rec = Lock(holder) /\ live[holder] /\ pc[holder] \in Forwarding
      BY <1>2, <2>2, <3>1 DEF LockHeld
    <3> QED
      BY <3>1, <3>2, <3>3 DEF OthersKeep
  <2>3. ASSUME NEW d \in Clients, live'[d], pc'[d] = "set"
        PROVE  seen'[d] = PayloadOf[d]
    BY <1>2, <2>3 DEF LockHeld, Leaves, OthersKeep
  <2> QED
    BY <2>1, <2>2, <2>3 DEF LockHeld
<1> QED
  BY <1>1, <1>2

\* The answers still match when c alone gets a new one that does, and the record changes at
\* most to one without a response.
LEMMA MatchingKept ==
  ASSUME Matching, NEW c \in Clients, OthersKeep(c), OwnPayment(c, answer'[c]),
         rec' = rec \/ rec'.state # "completed"
  PROVE  Matching'
<1>1. ASSUME NEW d \in Clients
      PROVE  OwnPayment(d, answer'[d])
  BY DEF Matching, OthersKeep
<1>2. ASSUME rec'.state = "completed", NEW d \in Clients, rec'.hash = PayloadOf[d]
      PROVE  OwnPayment(d, rec'.resp)
  BY <1>2 DEF Matching
<1> QED
  BY <1>1, <1>2 DEF Matching, OwnPayment

\* A request that ends with an answer that may be given keeps the invariant.
LEMMA EndKeeps ==
  ASSUME IInv, NEW c \in Clients, NEW a \in Answers, Finish(c, a),
         ~lost => OwnPayment(c, a),
         UNCHANGED <<rows, seen, lost>>, faults' \in 0 .. MaxFaults,
         rec' = rec \/ (rec' = NoRecord /\ (~lost => holder = c))
  PROVE  IInv'
<1>1. RecordOK(rec) /\ RestOK
  BY TypeParts DEF IInv
<1>2. /\ holder' \in Clients \cup {None} /\ pc' \in [Clients -> Where]
      /\ live' \in [Clients -> BOOLEAN] /\ answer' \in [Clients -> Answers]
      /\ pc'[c] \in {"idle", "done"}
      /\ answer'[c] = a \/ answer'[c] = Unavailable
      /\ Leaves(c) /\ OthersKeep(c)
  BY <1>1, FinishEffect
<1>3. RecordOK(rec')
  BY <1>1, RecordFacts
<1>4. RestOK'
  BY <1>1, <1>2 DEF RestOK
<1>5. TypeOK'
  BY <1>3, <1>4, TypeParts DEF TypeOK, RecordOK, RestOK
<1>6. ToCache'
  BY <1>2 DEF IInv, ToCache, OthersKeep
<1>7. ASSUME ~lost'
      PROVE  LockHeld' /\ Matching'
  <2>1. ~lost /\ LockHeld /\ Matching /\ ToCache
    BY <1>7 DEF IInv
  <2>2. LockHeld'
    BY <1>1, <1>2, <2>1, LeavingKeeps
  <2>3. OwnPayment(c, answer'[c])
    BY <1>2, <2>1, AnswerFacts
  <2>4. rec' = rec \/ rec'.state # "completed"
    BY RecordFacts DEF None
  <2> QED
    BY <1>2, <2>1, <2>2, <2>3, <2>4, MatchingKept
<1> QED
  BY <1>5, <1>6, <1>7 DEF IInv

\* The reply of payment-service, a 5xx or one that Complete may cache, keeps the invariant.
LEMMA ServedKeeps ==
  ASSUME IInv, NEW c \in Clients, pc[c] = "serve", NEW a \in Answers, Served(c, a),
         a = Unavailable \/ IsFinal(a), OwnPayment(c, a),
         rows' \in [Tables -> Payloads \cup {None}], faults' \in 0 .. MaxFaults
  PROVE  IInv'
<1>1. RecordOK(rec) /\ RestOK
  BY TypeParts DEF IInv
<1>2. PICK to : to = IF a = Unavailable THEN "abort" ELSE "complete"
  OBVIOUS
<1>3. /\ pc' = [pc EXCEPT ![c] = to] /\ answer' = [answer EXCEPT ![c] = a]
      /\ UNCHANGED <<rec, holder, live, seen, lost>>
  BY <1>2 DEF Served
<1>4. pc' \in [Clients -> Where] /\ answer' \in [Clients -> Answers]
  BY <1>1, <1>2, <1>3 DEF RestOK, Where
<1>5. pc'[c] = to /\ answer'[c] = a /\ OthersKeep(c)
  BY <1>1, <1>3 DEF RestOK, OthersKeep
<1>6. TypeOK'
  BY <1>1, <1>3, <1>4 DEF TypeOK, RecordOK, RestOK
<1>7. ToCache'
  BY <1>2, <1>5 DEF IInv, ToCache, OthersKeep
<1>8. ASSUME ~lost'
      PROVE  LockHeld' /\ Matching'
  <2>1. LockHeld /\ Matching
    BY <1>3, <1>8 DEF IInv
  <2>2. to \in Forwarding /\ pc[c] \in Forwarding /\ to # "set"
    BY <1>2 DEF Forwarding
  <2>3. LockHeld'
    BY <1>1, <1>3, <1>5, <2>1, <2>2 DEF LockHeld, OthersKeep, RestOK, Lock
  <2>4. Matching'
    BY <1>3, <1>5, <2>1, MatchingKept
  <2> QED
    BY <2>3, <2>4
<1> QED
  BY <1>6, <1>7, <1>8 DEF IInv

-----------------------------------------------------------------------------
(* The steps                                                               *)

\* Begin's SET NX.
LEMMA BeginSetNXStep ==
  ASSUME IInv, NEW c \in Clients, BeginSetNX(c)
  PROVE  IInv'
<1>1. RecordOK(rec) /\ RestOK
  BY TypeParts DEF IInv
<1>2. /\ live' = [live EXCEPT ![c] = TRUE] /\ answer' = [answer EXCEPT ![c] = NoAnswer]
      /\ UNCHANGED <<rows, seen, faults, lost>> /\ pc[c] = "idle"
  BY DEF BeginSetNX
<1>3. live' \in [Clients -> BOOLEAN] /\ answer' \in [Clients -> Answers] /\ answer'[c] = NoAnswer
  BY <1>1, <1>2, AnswerFacts DEF RestOK
<1>4. \/ /\ rec = NoRecord /\ rec' = Lock(c) /\ holder' = c
         /\ pc' = [pc EXCEPT ![c] = "serve"]
      \/ UNCHANGED <<rec, holder>> /\ pc' = [pc EXCEPT ![c] = "get"]
  BY DEF BeginSetNX
<1>5. pc' \in [Clients -> Where] /\ pc'[c] \in {"serve", "get"} /\ OthersKeep(c)
  BY <1>1, <1>2, <1>4 DEF RestOK, OthersKeep, Where
<1>6. RecordOK(rec') /\ holder' \in Clients \cup {None}
  BY <1>1, <1>4, RecordFacts DEF RestOK
<1>7. TypeOK'
  BY <1>1, <1>2, <1>3, <1>5, <1>6 DEF TypeOK, RecordOK, RestOK
<1>8. ToCache'
  BY <1>5 DEF IInv, ToCache, OthersKeep
<1>9. ASSUME ~lost'
      PROVE  LockHeld' /\ Matching'
  <2>1. LockHeld /\ Matching
    BY <1>2, <1>9 DEF IInv
  <2>2. LockHeld'
    <3>1. CASE rec = NoRecord /\ rec' = Lock(c) /\ holder' = c /\ pc' = [pc EXCEPT ![c] = "serve"]
      <4>1. holder = None
        BY <1>1, <2>1, <3>1, RecordFacts DEF LockHeld, RestOK, None
      <4>2. \A d \in Clients \ {c} : ~(live[d] /\ pc[d] \in Forwarding)
        BY <2>1, <4>1, NoneAssumption DEF LockHeld
      <4>3. pc'[c] = "serve" /\ live'[c]
        BY <1>1, <1>2, <3>1 DEF RestOK
      <4> QED
        BY <1>5, <3>1, <4>2, <4>3 DEF LockHeld, OthersKeep, Forwarding, Lock
    <3>2. CASE UNCHANGED <<rec, holder>> /\ pc' = [pc EXCEPT ![c] = "get"]
      <4>1. pc'[c] = "get" /\ holder # c
        BY <1>1, <1>2, <2>1, <3>2, NoneAssumption DEF LockHeld, RestOK, Forwarding
      <4> QED
        BY <1>1, <1>5, <2>1, <3>2, <4>1 DEF LockHeld, OthersKeep, Forwarding, RestOK, Lock
    <3> QED
      BY <1>4, <3>1, <3>2
  <2>3. OwnPayment(c, answer'[c]) /\ (rec' = rec \/ rec'.state # "completed")
    BY <1>3, <1>4, AnswerFacts, RecordFacts
  <2> QED
    BY <1>5, <2>1, <2>2, <2>3, MatchingKept
<1> QED
  BY <1>7, <1>8, <1>9 DEF IInv

\* A SET NX that ends in an error may have left a lock that nobody holds.
LEMMA BeginSetNXFailsStep ==
  ASSUME IInv, NEW c \in Clients, BeginSetNXFails(c)
  PROVE  IInv'
<1>1. RecordOK(rec) /\ RestOK
  BY TypeParts DEF IInv
<1>2. /\ answer' = [answer EXCEPT ![c] = Unavailable] /\ pc[c] = "idle" /\ Fault
      /\ UNCHANGED <<holder, rows, pc, live, seen, lost>>
      /\ rec' = rec \/ (rec = NoRecord /\ rec' = Lock(c))
  BY DEF BeginSetNXFails
<1>3. answer' \in [Clients -> Answers] /\ answer'[c] = Unavailable /\ OthersKeep(c)
  BY <1>1, <1>2, AnswerFacts DEF RestOK, OthersKeep
<1>4. RecordOK(rec') /\ faults' \in 0 .. MaxFaults
  BY <1>1, <1>2, RecordFacts, FaultOK
<1>5. TypeOK'
  BY <1>1, <1>2, <1>3, <1>4 DEF TypeOK, RecordOK, RestOK
<1>6. ToCache'
  BY <1>2, <1>3 DEF IInv, ToCache, OthersKeep
<1>7. ASSUME ~lost'
      PROVE  LockHeld' /\ Matching'
  <2>1. LockHeld /\ Matching
    BY <1>2, <1>7 DEF IInv
  <2>2. rec' = rec \/ holder = None
    BY <1>1, <1>2, <2>1, RecordFacts DEF LockHeld, RestOK, None
  <2>3. LockHeld'
    BY <1>2, <2>1, <2>2 DEF LockHeld, Lock
  <2>4. OwnPayment(c, answer'[c]) /\ (rec' = rec \/ rec'.state # "completed")
    BY <1>2, <1>3, AnswerFacts, RecordFacts
  <2> QED
    BY <1>3, <2>1, <2>3, <2>4, MatchingKept
<1> QED
  BY <1>5, <1>6, <1>7 DEF IInv

\* Begin's GET: a cached response is given to the client whose hash it is cached under.
LEMMA BeginGetStep ==
  ASSUME IInv, NEW c \in Clients, BeginGet(c)
  PROVE  IInv'
<1>1. RecordOK(rec) /\ RestOK
  BY TypeParts DEF IInv
<1>2. \/ Existing(c) \in {InProgress, Mismatch}
      \/ Existing(c) = rec.resp /\ rec.hash = PayloadOf[c]
  BY DEF Existing
<1>3. Existing(c) \in Answers
  BY <1>1, <1>2, AnswerFacts DEF RecordOK
<1>4. ASSUME ~lost
      PROVE  OwnPayment(c, Existing(c))
  <2>1. CASE Existing(c) = rec.resp /\ rec.hash = PayloadOf[c] /\ rec.state = "completed"
    BY <1>4, <2>1 DEF IInv, Matching
  <2>2. CASE Existing(c) = rec.resp /\ rec.state # "completed"
    BY <1>1, <2>2 DEF RecordOK, OwnPayment, IsFinal
  <2> QED
    BY <1>2, <2>1, <2>2, AnswerFacts
<1> QED
  BY <1>1, <1>3, <1>4, EndKeeps DEF BeginGet, RestOK

\* Begin fails closed.
LEMMA BeginFailsStep ==
  ASSUME IInv, NEW c \in Clients, BeginFails(c)
  PROVE  IInv'
<1>1. RestOK
  BY TypeParts DEF IInv
<1>2. faults' \in 0 .. MaxFaults
  BY <1>1, FaultOK DEF BeginFails, RestOK
<1> QED
  BY <1>2, AnswerFacts, EndKeeps DEF BeginFails

\* A client's table has a row of a payload, or none, and inserting its own keeps that so.
LEMMA RowFacts ==
  ASSUME RestOK, NEW c \in Clients
  PROVE  /\ Row(c) \in Payloads \cup {None}
         /\ InsertRow(c) => rows' \in [Tables -> Payloads \cup {None}]
<1>1. PayloadOf[c] \in Payloads /\ TableOf[PayloadOf[c]] \in Tables
  BY RecordFacts, ConstantsAssumption
<1> QED
  BY <1>1 DEF RestOK, Row, InsertRow

\* The four ways in which payment-service replies.
LEMMA ServeSteps ==
  ASSUME IInv, NEW c \in Clients,
         ServeNew(c) \/ ServeExisting(c) \/ ServeFails(c) \/ ServeTimedOut(c)
  PROVE  IInv'
<1>1. RestOK
  BY TypeParts DEF IInv
<1>2. PayloadOf[c] \in Payloads
  BY RecordFacts
<1>3. rows \in [Tables -> Payloads \cup {None}] /\ faults \in 0 .. MaxFaults
  BY <1>1 DEF RestOK
<1>4. CASE ServeNew(c)
  <2>1. pc[c] = "serve" /\ faults' = faults
    BY <1>4 DEF ServeNew
  <2>2. rows' \in [Tables -> Payloads \cup {None}]
    BY <1>1, <1>3, <1>4, RowFacts DEF ServeNew
  <2>3. PICK a \in {Created(PayloadOf[c]), Unavailable, Refused} : Served(c, a)
    BY <1>4 DEF ServeNew
  <2>4. a \in Answers /\ OwnPayment(c, a) /\ (a = Unavailable \/ IsFinal(a))
    BY <1>2, <2>3, AnswerFacts
  <2> QED
    BY <1>3, <2>1, <2>2, <2>3, <2>4, ServedKeeps
<1>5. CASE ServeExisting(c)
  <2>1. Row(c) \in Payloads
    BY <1>1, <1>5, RowFacts DEF ServeExisting
  <2>2. PICK a : a = Replay(c, Row(c))
    OBVIOUS
  <2>3. a \in Answers /\ IsFinal(a)
    BY <2>1, <2>2, AnswerFacts DEF Replay
  <2>4. OwnPayment(c, a)
    <3>1. CASE TableOf[PayloadOf[c]] = "payments" /\ Row(c) # PayloadOf[c]
      BY <2>2, <3>1, AnswerFacts DEF Replay
    <3>2. CASE TableOf[PayloadOf[c]] = "payments" /\ Row(c) = PayloadOf[c]
      BY <2>2, <3>2, AnswerFacts DEF Replay
    <3>3. CASE TableOf[PayloadOf[c]] # "payments"
      BY <3>3 DEF OwnPayment
    <3> QED
      BY <3>1, <3>2, <3>3
  <2> QED
    BY <1>3, <1>5, <2>2, <2>3, <2>4, ServedKeeps DEF ServeExisting
<1>6. CASE ServeFails(c)
  BY <1>1, <1>3, <1>6, AnswerFacts, FaultOK, ServedKeeps DEF ServeFails
<1>7. CASE ServeTimedOut(c)
  <2>1. rows' \in [Tables -> Payloads \cup {None}]
    BY <1>1, <1>3, <1>7, RowFacts DEF ServeTimedOut
  <2> QED
    BY <1>3, <1>7, <2>1, AnswerFacts, ServedKeeps DEF ServeTimedOut
<1> QED
  BY <1>4, <1>5, <1>6, <1>7

\* Abort deletes the key only under a live context, and then the lock is its own.
LEMMA AbortStep ==
  ASSUME IInv, NEW c \in Clients, Abort(c)
  PROVE  IInv'
<1>1. RestOK
  BY TypeParts DEF IInv
<1>2. answer[c] \in Answers /\ faults' \in 0 .. MaxFaults
  BY <1>1, FaultOK DEF Abort, RestOK
<1>3. ~lost => OwnPayment(c, answer[c])
  BY DEF IInv, Matching
<1>4. rec' = rec \/ (rec' = NoRecord /\ live[c] /\ pc[c] \in Forwarding)
  BY DEF Abort, AbortReaches, Forwarding
<1>5. rec' = rec \/ (rec' = NoRecord /\ (~lost => holder = c))
  BY <1>4 DEF IInv, LockHeld
<1>6. Finish(c, answer[c]) /\ UNCHANGED <<rows, seen, lost>>
  BY DEF Abort
<1> QED
  BY <1>2, <1>3, <1>5, <1>6, EndKeeps

\* Complete's GET reads the hash of its own lock.
LEMMA CompleteGetStep ==
  ASSUME IInv, NEW c \in Clients, CompleteGet(c)
  PROVE  IInv'
<1>1. RecordOK(rec) /\ RestOK
  BY TypeParts DEF IInv
<1>2. /\ seen' = [seen EXCEPT ![c] = rec.hash] /\ pc' = [pc EXCEPT ![c] = "set"]
      /\ UNCHANGED <<rec, holder, rows, live, answer, faults, lost>>
      /\ pc[c] = "complete" /\ live[c]
  BY DEF CompleteGet
<1>3. rec.hash \in Hashes
  BY <1>1 DEF RecordOK
<1>4. /\ seen' \in [Clients -> Hashes] /\ seen'[c] = rec.hash
      /\ pc' \in [Clients -> Where] /\ pc'[c] = "set" /\ OthersKeep(c)
  BY <1>1, <1>2, <1>3 DEF RestOK, Where, OthersKeep
<1>5. TypeOK'
  BY <1>1, <1>2, <1>4 DEF TypeOK, RecordOK, RestOK
<1>6. ToCache'
  BY <1>2, <1>4 DEF IInv, ToCache, OthersKeep
<1>7. ASSUME ~lost'
      PROVE  LockHeld' /\ Matching'
  <2>1. LockHeld /\ Matching
    BY <1>2, <1>7 DEF IInv
  <2>2. holder = c /\ rec = Lock(c)
    BY <1>2, <2>1, NoneAssumption DEF LockHeld, Forwarding
  <2>3. rec.hash = PayloadOf[c]
    BY <2>2, RecordFacts
  <2>4. ASSUME NEW d \in Clients, live'[d], pc'[d] \in Forwarding
        PROVE  holder' = d /\ (pc'[d] = "set" => seen'[d] = PayloadOf[d])
    BY <1>2, <1>4, <2>1, <2>2, <2>3, <2>4 DEF LockHeld, OthersKeep
  <2>5. rec' = Lock(holder') /\ live'[holder'] /\ pc'[holder'] \in Forwarding
    BY <1>2, <1>4, <2>2 DEF Forwarding
  <2>6. LockHeld'
    BY <2>4, <2>5 DEF LockHeld, Forwarding
  <2>7. OwnPayment(c, answer'[c])
    BY <1>2, <2>1 DEF Matching
  <2> QED
    BY <1>2, <1>4, <2>1, <2>6, <2>7, MatchingKept
<1> QED
  BY <1>5, <1>6, <1>7 DEF IInv

\* Complete's SET caches the client's own answer under the client's own hash.
LEMMA CompleteSetStep ==
  ASSUME IInv, NEW c \in Clients, CompleteSet(c)
  PROVE  IInv'
<1>1. RecordOK(rec) /\ RestOK
  BY TypeParts DEF IInv
<1>2. /\ rec' = [state |-> "completed", hash |-> seen[c], resp |-> answer[c]]
      /\ Finish(c, answer[c]) /\ UNCHANGED <<rows, seen, faults, lost>>
      /\ pc[c] = "set" /\ live[c]
  BY DEF CompleteSet
<1>3. answer[c] \in Answers /\ seen[c] \in Hashes /\ IsFinal(answer[c])
  BY <1>1, <1>2 DEF RestOK, IInv, ToCache
<1>4. /\ holder' \in Clients \cup {None} /\ pc' \in [Clients -> Where]
      /\ live' \in [Clients -> BOOLEAN] /\ answer' \in [Clients -> Answers]
      /\ pc'[c] \in {"idle", "done"}
      /\ answer'[c] = answer[c] \/ answer'[c] = Unavailable
      /\ Leaves(c) /\ OthersKeep(c)
  BY <1>1, <1>2, <1>3, FinishEffect
<1>5. RecordOK(rec')
  BY <1>2, <1>3, RecordFacts
<1>6. TypeOK'
  BY <1>1, <1>2, <1>4, <1>5 DEF TypeOK, RecordOK, RestOK
<1>7. ToCache'
  BY <1>4 DEF IInv, ToCache, OthersKeep
<1>8. ASSUME ~lost'
      PROVE  LockHeld' /\ Matching'
  <2>1. LockHeld /\ Matching /\ ToCache
    BY <1>2, <1>8 DEF IInv
  <2>2. holder = c /\ seen[c] = PayloadOf[c]
    BY <1>2, <2>1 DEF LockHeld, Forwarding
  <2>3. LockHeld'
    BY <1>1, <1>4, <2>1, <2>2, LeavingKeeps
  <2>4. rec'.hash = PayloadOf[c] /\ rec'.resp = answer[c]
    BY <1>2, <2>2
  <2>5. ASSUME NEW d \in Clients
        PROVE  /\ OwnPayment(d, answer'[d])
               /\ rec'.hash = PayloadOf[d] => OwnPayment(d, rec'.resp)
    <3>1. OwnPayment(c, answer[c]) /\ OwnPayment(d, answer[d])
      BY <2>1 DEF Matching
    <3>2. rec'.hash = PayloadOf[d] => OwnPayment(d, rec'.resp)
      BY <2>4, <3>1 DEF OwnPayment
    <3>3. OwnPayment(d, answer'[d])
      BY <1>4, <3>1, AnswerFacts DEF OthersKeep
    <3> QED
      BY <3>2, <3>3
  <2>6. Matching'
    BY <2>5 DEF Matching, OwnPayment
  <2> QED
    BY <2>3, <2>6
<1> QED
  BY <1>6, <1>7, <1>8 DEF IInv

\* A Complete that fails leaves the lock, which nobody holds any more.
LEMMA CompleteFailsStep ==
  ASSUME IInv, NEW c \in Clients, CompleteFails(c)
  PROVE  IInv'
<1>1. RestOK
  BY TypeParts DEF IInv
<1>2. answer[c] \in Answers /\ faults' \in 0 .. MaxFaults
  BY <1>1, FaultOK DEF CompleteFails, RestOK
<1>3. ~lost => OwnPayment(c, answer[c])
  BY DEF IInv, Matching
<1>4. Finish(c, answer[c]) /\ UNCHANGED <<rec, rows, seen, lost>>
  BY DEF CompleteFails
<1> QED
  BY <1>2, <1>3, <1>4, EndKeeps

\* A timeout or a crash ends the client's hold on the lock, not the lock.
LEMMA TimeoutOrCrashStep ==
  ASSUME IInv, NEW c \in Clients, Timeout(c) \/ Crash(c)
  PROVE  IInv'
<1>1. RecordOK(rec) /\ RestOK /\ ToCache
  BY TypeParts DEF IInv
<1>2. /\ live' = [live EXCEPT ![c] = FALSE] /\ Fault
      /\ holder' = IF holder = c THEN None ELSE holder
      /\ UNCHANGED <<rec, rows, seen, lost>>
      /\ \/ UNCHANGED <<pc, answer>>
         \/ pc' = [pc EXCEPT ![c] = "idle"] /\ answer' = [answer EXCEPT ![c] = Unavailable]
  BY DEF Timeout, Crash
<1>3. /\ live' \in [Clients -> BOOLEAN] /\ live'[c] = FALSE
      /\ holder' \in Clients \cup {None} /\ faults' \in 0 .. MaxFaults
  BY <1>1, <1>2, FaultOK DEF RestOK
<1>4. /\ pc' \in [Clients -> Where] /\ answer' \in [Clients -> Answers] /\ OthersKeep(c)
      /\ \/ pc'[c] = pc[c] /\ answer'[c] = answer[c]
         \/ pc'[c] = "idle" /\ answer'[c] = Unavailable
  BY <1>1, <1>2, AnswerFacts DEF RestOK, Where, OthersKeep
<1>5. TypeOK'
  BY <1>1, <1>2, <1>3, <1>4 DEF TypeOK, RecordOK, RestOK
<1>6. Leaves(c)
  BY <1>2, <1>3, <1>4 DEF Leaves
<1>7. ASSUME ~lost'
      PROVE  LockHeld' /\ Matching'
  <2>1. LockHeld /\ Matching
    BY <1>2, <1>7 DEF IInv
  <2>2. OwnPayment(c, answer'[c])
    BY <1>4, <2>1, AnswerFacts DEF Matching
  <2> QED
    BY <1>1, <1>2, <1>4, <1>6, <2>1, <2>2, LeavingKeeps, MatchingKept
<1> QED
  BY <1>1, <1>2, <1>4, <1>5, <1>6, <1>7, LeavingKeeps DEF IInv

\* A TTL passes, or Valkey loses the key.
LEMMA RecordGoesStep ==
  ASSUME IInv, ExpireLock \/ ExpireResponse \/ LoseRecord
  PROVE  IInv'
<1>1. RecordOK(rec) /\ RestOK /\ ToCache
  BY TypeParts DEF IInv
<1>2. rec' = NoRecord /\ RecordOK(rec') /\ rec'.state # "completed"
  BY RecordFacts DEF ExpireLock, ExpireResponse, LoseRecord, None
<1>3. UNCHANGED <<rows, pc, live, answer, seen>>
  BY DEF ExpireLock, ExpireResponse, LoseRecord
<1>4. /\ faults' \in 0 .. MaxFaults /\ holder' \in Clients \cup {None}
      /\ lost' \in BOOLEAN
  BY <1>1, FaultOK DEF ExpireLock, ExpireResponse, LoseRecord, RestOK
<1>5. TypeOK'
  BY <1>1, <1>2, <1>3, <1>4 DEF TypeOK, RecordOK, RestOK
<1>6. ToCache'
  BY <1>1, <1>3 DEF ToCache
<1>7. ASSUME ~lost'
      PROVE  LockHeld' /\ Matching'
  <2>1. (ExpireLock \/ ExpireResponse) /\ UNCHANGED <<holder, lost>>
    BY <1>7 DEF ExpireLock, ExpireResponse, LoseRecord
  <2>2. LockHeld /\ Matching
    BY <1>7, <2>1 DEF IInv
  <2>3. holder = None
    <3>1. CASE ExpireLock
      BY <3>1 DEF ExpireLock, LockExpires
    <3>2. CASE ExpireResponse
      BY <1>1, <2>2, <3>2, RecordFacts DEF ExpireResponse, LockHeld, RestOK
    <3> QED
      BY <2>1, <3>1, <3>2
  <2>4. LockHeld'
    BY <1>3, <2>1, <2>2, <2>3 DEF LockHeld
  <2>5. Matching'
    BY <1>2, <1>3, <2>2 DEF Matching, OwnPayment
  <2> QED
    BY <2>4, <2>5
<1> QED
  BY <1>5, <1>6, <1>7 DEF IInv

-----------------------------------------------------------------------------
(* The theorems                                                            *)

\* The invariant holds at the start.
LEMMA InitInv == Init => IInv
<1> SUFFICES ASSUME Init
             PROVE  IInv
  OBVIOUS
<1>1. RecordOK(rec) /\ rec.state # "completed"
  BY RecordFacts DEF Init, None
<1>2. RestOK
  <2>1. NoAnswer \in Answers /\ NoHash \in Hashes /\ "idle" \in Where /\ 0 \in 0 .. MaxFaults
    BY AnswerFacts, ConstantsAssumption DEF Hashes, Where
  <2>2. /\ rows \in [Tables -> Payloads \cup {None}] /\ pc \in [Clients -> Where]
        /\ answer \in [Clients -> Answers] /\ seen \in [Clients -> Hashes]
    BY <2>1 DEF Init
  <2>3. live \in [Clients -> BOOLEAN] /\ holder \in Clients \cup {None} /\ lost \in BOOLEAN
    BY DEF Init
  <2> QED
    BY <2>1, <2>2, <2>3 DEF Init, RestOK
<1>3. TypeOK
  BY <1>1, <1>2, TypeParts
<1>4. \A c \in Clients : pc[c] = "idle" /\ live[c] = FALSE /\ answer[c] = NoAnswer
  BY DEF Init
<1>5. ToCache
  BY <1>4 DEF ToCache
<1>6. LockHeld
  BY <1>4 DEF Init, LockHeld
<1>7. Matching
  BY <1>1, <1>4, AnswerFacts DEF Matching
<1> QED
  BY <1>3, <1>5, <1>6, <1>7 DEF IInv

\* Every step, and every step of something else, keeps it.
LEMMA NextInv == IInv /\ [Next]_vars => IInv'
<1> SUFFICES ASSUME IInv, [Next]_vars
             PROVE  IInv'
  OBVIOUS
<1>1. CASE UNCHANGED vars
  BY <1>1 DEF IInv, TypeOK, ToCache, LockHeld, Matching, OwnPayment, vars, Lock
<1>2. ASSUME NEW c \in Clients, Step(c)
      PROVE  IInv'
  BY <1>2, BeginSetNXStep, BeginSetNXFailsStep, BeginGetStep, BeginFailsStep, ServeSteps,
     AbortStep, CompleteGetStep, CompleteSetStep, CompleteFailsStep DEF Step
<1>3. ASSUME NEW c \in Clients, Timeout(c) \/ Crash(c)
      PROVE  IInv'
  BY <1>3, TimeoutOrCrashStep
<1>4. CASE ExpireLock \/ ExpireResponse \/ LoseRecord
  BY <1>4, RecordGoesStep
<1> QED
  BY <1>1, <1>2, <1>3, <1>4 DEF Next

\* The invariant holds throughout.
LEMMA Inductive == Spec => []IInv
BY InitInv, NextInv, PTL DEF Spec

\* Every state is well typed; in particular the middleware never caches a 5xx or a 409 that asks
\* to wait, because only a final answer reaches Complete.
THEOREM TypeCorrect == Spec => []TypeOK
<1>1. IInv => TypeOK
  BY DEF IInv
<1> QED
  BY <1>1, Inductive, PTL

\* Begin's lock admits one live request at a time, for any number of clients, timeouts, crashes
\* and failed commands, as long as Valkey keeps its data.
THEOREM LockExcludes == Spec => []OneForwarder
<1>1. IInv => OneForwarder
  <2> SUFFICES ASSUME IInv, ~lost
               PROVE  Cardinality({c \in Clients :
                        live[c] /\ pc[c] \in {"serve", "abort", "complete", "set"}}) <= 1
    BY DEF OneForwarder
  <2>1. {c \in Clients : live[c] /\ pc[c] \in {"serve", "abort", "complete", "set"}}
          \subseteq {holder}
    BY DEF IInv, LockHeld, Forwarding
  <2>2. IsFiniteSet({holder}) /\ Cardinality({holder}) = 1
    BY FS_Singleton
  <2> QED
    BY <2>1, <2>2, FS_Subset
<1> QED
  BY <1>1, Inductive, PTL

\* A client of POST /payments that is told its payment was created is told so of its own payload,
\* whichever of the gateway's cache and payment-service's unique key answered it.
THEOREM OwnAnswers == Spec => []AnswersMatch
<1>1. IInv => AnswersMatch
  BY DEF IInv, Matching, OwnPayment, AnswersMatch
<1> QED
  BY <1>1, Inductive, PTL
=============================================================================
