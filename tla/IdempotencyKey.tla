--------------------------- MODULE IdempotencyKey ---------------------------
(***************************************************************************)
(* One idempotency key of one merchant, from the gateway's middleware      *)
(* (internal/gateway/idempotency.go) through the lock and the cached       *)
(* response in Valkey (pkg/idempotency/valkey.go) to payment-service's     *)
(* unique (merchant_id, idempotency_key).  Every Valkey command is a step  *)
(* of its own; a request also runs under http.TimeoutHandler's context,    *)
(* and a command under a context that is over fails.                       *)
(*                                                                         *)
(* A client is a merchant's process: it sends one payload under the key    *)
(* until the answer is final.  Two clients with one payload stand for a    *)
(* merchant that retries while the handler of its last try still runs.     *)
(*                                                                         *)
(* The TTLs are not counted but ordered.  The lock is set after the        *)
(* context's 30 s began and lives for 30 s, so it outlives the context:    *)
(* it expires only when nobody holds it under a live context (holder).     *)
(***************************************************************************)
EXTENDS Naturals, FiniteSets

CONSTANTS
    Clients,      \* the merchant's concurrent tries
    PayloadOf,    \* what each client sends; it determines method, path and body
    TableOf,      \* the table a payload's resource is created in
    MaxFaults     \* bound: how many failures (errors, timeouts, crashes, data losses) there are

Payloads == {PayloadOf[c] : c \in Clients}

\* requestHash is sha256 over method, path and canonical body: one hash per payload.
\* NoHash is the empty hash of a record that Complete found missing.
NoHash == "no hash"
Hashes == Payloads \cup {NoHash}

Tables == {"payments", "refunds"}

ASSUME ConstantsAssumption ==
    /\ IsFiniteSet(Clients) /\ Clients # {}
    /\ TableOf \in [Payloads -> Tables]
    /\ NoHash \notin Payloads
    /\ MaxFaults \in Nat

None == "none"

\* None stands for nobody and for no row; it is neither a client nor a payload.
ASSUME NoneAssumption == None \notin Clients /\ None \notin Payloads

\* The answers a client can get, and a record can hold.
Created(p)  == [code |-> "created", of |-> p]        \* 201, also when the service replays
Refused     == [code |-> "refused", of |-> None]     \* 4xx: invalid, or no route; no row
Mismatch    == [code |-> "mismatch", of |-> None]    \* 409 key reused with another payload
InProgress  == [code |-> "in_progress", of |-> None] \* 409 with Retry-After
Unavailable == [code |-> "unavailable", of |-> None] \* 5xx or a broken connection
NoAnswer    == [code |-> None, of |-> None]

Answers == {Created(p) : p \in Payloads}
             \cup {Refused, Mismatch, InProgress, Unavailable, NoAnswer}

IsFinal(a) == a.code \in {"created", "refused", "mismatch"}

NoRecord == [state |-> None, hash |-> NoHash, resp |-> NoAnswer]

VARIABLES
    rec,      \* the value under idem:<merchant>:<key> in Valkey
    holder,   \* history: the client whose live request set the lock that is in rec, or None
    rows,     \* payment-service: the payload behind the key's row in each table, or None
    pc,       \* where each client's request is
    live,     \* whether its context is still usable
    answer,   \* the response recorded so far; once the request ended, what the client got
    seen,     \* the hash Complete read
    faults, lost

vars == <<rec, holder, rows, pc, live, answer, seen, faults, lost>>

Where == {"idle", "get", "serve", "abort", "complete", "set", "done"}
InFlight(c) == pc[c] \in Where \ {"idle", "done"}

\* Types; and only a completed record holds a response, which is never a 5xx or a 409 that
\* asks to wait (the middleware caches what Complete is given for 24 hours).
TypeOK ==
    /\ rec \in [state : {None, "in_progress", "completed"}, hash : Hashes, resp : Answers]
    /\ (rec.state = "completed") = IsFinal(rec.resp)
    /\ holder \in Clients \cup {None}
    /\ rows \in [Tables -> Payloads \cup {None}]
    /\ pc \in [Clients -> Where]
    /\ live \in [Clients -> BOOLEAN]
    /\ answer \in [Clients -> Answers]
    /\ seen \in [Clients -> Hashes]
    /\ faults \in 0 .. MaxFaults
    /\ lost \in BOOLEAN

Init ==
    /\ rec = NoRecord
    /\ holder = None
    /\ rows = [t \in Tables |-> None]
    /\ pc = [c \in Clients |-> "idle"]
    /\ live = [c \in Clients |-> FALSE]
    /\ answer = [c \in Clients |-> NoAnswer]
    /\ seen = [c \in Clients |-> NoHash]
    /\ faults = 0
    /\ lost = FALSE

Fault == faults < MaxFaults /\ faults' = faults + 1

\* The request ends with answer a.  TimeoutHandler holds the response back until the handler
\* returns, so under a dead context the client gets the timeout's 503 instead.
Finish(c, a) ==
    LET got == IF live[c] THEN a ELSE Unavailable IN
    /\ answer' = [answer EXCEPT ![c] = got]
    /\ pc' = [pc EXCEPT ![c] = IF IsFinal(got) THEN "done" ELSE "idle"]
    /\ live' = [live EXCEPT ![c] = FALSE]
    /\ holder' = IF holder = c THEN None ELSE holder

-----------------------------------------------------------------------------
(* Begin: SET NX, and a GET when the key is taken.                         *)

Lock(c) == [state |-> "in_progress", hash |-> PayloadOf[c], resp |-> NoAnswer]

\* A new request of an idle client reaches Begin's SET NX.
BeginSetNX(c) ==
    /\ pc[c] = "idle"
    /\ live' = [live EXCEPT ![c] = TRUE]
    /\ answer' = [answer EXCEPT ![c] = NoAnswer]
    /\ IF rec = NoRecord
         THEN /\ rec' = Lock(c)
              /\ holder' = c
              /\ pc' = [pc EXCEPT ![c] = "serve"]
         ELSE /\ pc' = [pc EXCEPT ![c] = "get"]
              /\ UNCHANGED <<rec, holder>>
    /\ UNCHANGED <<rows, seen, faults, lost>>

\* The SET NX ends in an error and the gateway answers 503; Valkey may have executed it.
BeginSetNXFails(c) ==
    /\ pc[c] = "idle"
    /\ Fault
    /\ answer' = [answer EXCEPT ![c] = Unavailable]
    /\ \/ UNCHANGED rec
       \/ rec = NoRecord /\ rec' = Lock(c)
    /\ UNCHANGED <<holder, rows, pc, live, seen, lost>>

\* What Begin makes of the record it read: the key may be gone again.
Existing(c) ==
    CASE rec = NoRecord              -> InProgress
      [] rec.hash # PayloadOf[c]     -> Mismatch
      [] rec.state = "in_progress"   -> InProgress
      [] OTHER                       -> rec.resp

BeginGet(c) ==
    /\ pc[c] = "get"
    /\ live[c]
    /\ Finish(c, Existing(c))
    /\ UNCHANGED <<rec, rows, seen, faults, lost>>

\* Valkey cannot be reached, or the context ended: fail closed.
BeginFails(c) ==
    /\ pc[c] = "get"
    /\ \/ Fault
       \/ ~live[c] /\ UNCHANGED faults
    /\ Finish(c, Unavailable)
    /\ UNCHANGED <<rec, rows, seen, lost>>

-----------------------------------------------------------------------------
(* The handler: the call of payment-service and its unique key.            *)

\* Mutant of Replay: the service does not compare the hash of the row it found.
ReplayAnyHash(c, p) == Created(p)

\* payment-service found the key's row.  CreatePayment compares the request hash,
\* CreateRefund does not.
Replay(c, p) ==
    IF TableOf[PayloadOf[c]] = "payments" /\ p # PayloadOf[c] THEN Mismatch ELSE Created(p)

Row(c) == rows[TableOf[PayloadOf[c]]]
InsertRow(c) == rows' = [rows EXCEPT ![TableOf[PayloadOf[c]]] = PayloadOf[c]]

\* Mutant of Served: every reply is cached, a 5xx too.
ServedCached(c, a) ==
    /\ answer' = [answer EXCEPT ![c] = a]
    /\ pc' = [pc EXCEPT ![c] = "complete"]
    /\ UNCHANGED <<rec, holder, live, seen, lost>>

\* The service's reply decides between Abort (5xx) and Complete.
Served(c, a) ==
    /\ answer' = [answer EXCEPT ![c] = a]
    /\ pc' = [pc EXCEPT ![c] = IF a = Unavailable THEN "abort" ELSE "complete"]
    /\ UNCHANGED <<rec, holder, live, seen, lost>>

\* The call finds no row: it creates one, or is refused before, or creates it and then fails.
ServeNew(c) ==
    /\ pc[c] = "serve"
    /\ live[c]
    /\ Row(c) = None
    /\ \/ InsertRow(c) /\ \E a \in {Created(PayloadOf[c]), Unavailable} : Served(c, a)
       \/ UNCHANGED rows /\ Served(c, Refused)
    /\ UNCHANGED faults

\* The call finds the key's row.
ServeExisting(c) ==
    /\ pc[c] = "serve"
    /\ live[c]
    /\ Row(c) # None
    /\ Served(c, Replay(c, Row(c)))
    /\ UNCHANGED <<rows, faults>>

\* The call fails with a 5xx and changes nothing: the service is down.
ServeFails(c) ==
    /\ pc[c] = "serve"
    /\ live[c]
    /\ Fault
    /\ Served(c, Unavailable)
    /\ UNCHANGED rows

\* The context ended during the call; the service may have inserted the row all the same.
ServeTimedOut(c) ==
    /\ pc[c] = "serve"
    /\ ~live[c]
    /\ \/ UNCHANGED rows
       \/ Row(c) = None /\ InsertRow(c)
    /\ Served(c, Unavailable)
    /\ UNCHANGED faults

-----------------------------------------------------------------------------
(* Abort and Complete.                                                     *)

\* Mutant of AbortReaches: the DEL runs although the request's context is over.
AbortReachesAlways(c) == TRUE

\* Abort deletes the key, whoever's it is, if its context still lets the command through.
AbortReaches(c) == live[c]

Abort(c) ==
    /\ pc[c] = "abort"
    /\ \/ AbortReaches(c) /\ rec' = NoRecord /\ UNCHANGED faults
       \/ ~live[c] /\ UNCHANGED <<rec, faults>>
       \/ live[c] /\ Fault /\ UNCHANGED rec
    /\ Finish(c, answer[c])
    /\ UNCHANGED <<rows, seen, lost>>

\* Complete's GET; a missing key gives an empty hash.
CompleteGet(c) ==
    /\ pc[c] = "complete"
    /\ live[c]
    /\ seen' = [seen EXCEPT ![c] = rec.hash]
    /\ pc' = [pc EXCEPT ![c] = "set"]
    /\ UNCHANGED <<rec, holder, rows, live, answer, faults, lost>>

\* Complete's SET keeps the hash it read and replaces whatever is there by now.
CompleteSet(c) ==
    /\ pc[c] = "set"
    /\ live[c]
    /\ rec' = [state |-> "completed", hash |-> seen[c], resp |-> answer[c]]
    /\ Finish(c, answer[c])
    /\ UNCHANGED <<rows, seen, faults, lost>>

\* Either command fails; the response goes out all the same, the lock stays.
CompleteFails(c) ==
    /\ pc[c] \in {"complete", "set"}
    /\ \/ Fault
       \/ ~live[c] /\ UNCHANGED faults
    /\ Finish(c, answer[c])
    /\ UNCHANGED <<rec, rows, seen, lost>>

-----------------------------------------------------------------------------
(* Time and failures.                                                      *)

\* The request's 30 s are over: TimeoutHandler cancels its context.
Timeout(c) ==
    /\ InFlight(c) /\ live[c]
    /\ Fault
    /\ live' = [live EXCEPT ![c] = FALSE]
    /\ holder' = IF holder = c THEN None ELSE holder
    /\ UNCHANGED <<rec, rows, pc, answer, seen, lost>>

\* The gateway crashes under the request; the client sees a broken connection.
Crash(c) ==
    /\ InFlight(c)
    /\ Fault
    /\ answer' = [answer EXCEPT ![c] = Unavailable]
    /\ pc' = [pc EXCEPT ![c] = "idle"]
    /\ live' = [live EXCEPT ![c] = FALSE]
    /\ holder' = IF holder = c THEN None ELSE holder
    /\ UNCHANGED <<rec, rows, seen, lost>>

\* Mutant of LockExpires: the lock is set without a TTL.
LockExpiresNever == FALSE

\* The lock's TTL passes.  It is longer than any live request's rest.
LockExpires ==
    /\ rec.state = "in_progress"
    /\ holder = None

ExpireLock ==
    /\ LockExpires
    /\ rec' = NoRecord
    /\ UNCHANGED <<holder, rows, pc, live, answer, seen, faults, lost>>

\* The cached response's 24 h pass.
ExpireResponse ==
    /\ rec.state = "completed"
    /\ rec' = NoRecord
    /\ UNCHANGED <<holder, rows, pc, live, answer, seen, faults, lost>>

\* Valkey restarts without its data, or evicts the key.
LoseRecord ==
    /\ rec # NoRecord
    /\ Fault
    /\ rec' = NoRecord
    /\ holder' = None
    /\ lost' = TRUE
    /\ UNCHANGED <<rows, pc, live, answer, seen>>

Step(c) ==
    \/ BeginSetNX(c) \/ BeginSetNXFails(c) \/ BeginGet(c) \/ BeginFails(c)
    \/ ServeNew(c) \/ ServeExisting(c) \/ ServeFails(c) \/ ServeTimedOut(c)
    \/ Abort(c) \/ CompleteGet(c) \/ CompleteSet(c) \/ CompleteFails(c)

Next ==
    \/ \E c \in Clients : Step(c) \/ Timeout(c) \/ Crash(c)
    \/ ExpireLock \/ ExpireResponse \/ LoseRecord

\* A handler runs to its end, a client retries after Retry-After, and Valkey expires keys;
\* nothing has to fail or to be forgotten.
Fairness == WF_vars(ExpireLock) /\ \A c \in Clients : WF_vars(Step(c))

Spec == Init /\ [][Next]_vars /\ Fairness

-----------------------------------------------------------------------------
(* Properties.                                                             *)

\* Begin's lock: unless Valkey lost data, at most one request with a live context is between
\* Begin and the end of Complete or Abort, whatever timed out or crashed before it.
OneForwarder ==
    ~lost => Cardinality({c \in Clients :
                            live[c] /\ pc[c] \in {"serve", "abort", "complete", "set"}}) <= 1

\* Unless Valkey lost data, a client of POST /payments that is told its payment was created is
\* told so of its own payload, whether the answer is new, cached or replayed by the service.
AnswersMatch ==
    ~lost => \A c \in Clients :
                /\ pc[c] = "done"
                /\ answer[c].code = "created"
                /\ TableOf[PayloadOf[c]] = "payments"
                => answer[c].of = PayloadOf[c]

\* A merchant that keeps retrying gets a final answer: no lock left behind by a crash, a
\* timeout, a failed Abort or a lost record shuts it out for good.
RetriesEnd == \A c \in Clients : <>(pc[c] = "done")

=============================================================================
