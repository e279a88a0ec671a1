--------------------------- MODULE Reconciliation ---------------------------
(***************************************************************************)
(* reconciliation-service (internal/reconciliation): the projector that    *)
(* keeps payment_records from payment events, the import of settlement     *)
(* files with the matching of their lines, and the handling of             *)
(* discrepancies by operators.                                             *)
(*                                                                         *)
(* Transactions run at READ COMMITTED.  An import is one transaction; it   *)
(* is split where it waits for another one (the unique file_hash, the row  *)
(* of the file) and between its reads and its commit.  One provider is     *)
(* modelled, so a payment stands for its provider_reference too.  Records  *)
(* of refunds and disputes do not arise: their events are not on the topic *)
(* this service reads (see EventPipeline), so only payment lines find one. *)
(***************************************************************************)
EXTENDS Naturals, Sequences, FiniteSets

CONSTANTS
    Payments,     \* the payments whose events arrive
    EventsOf,     \* per payment, its events in order: [seq, status, amount]
    Files,        \* settlement files, one per content hash
    LinesOf,      \* per file, its lines in order: [ref, type, amount]
    Odd,          \* the files a parser release may not understand
    Importers,    \* concurrent ImportSettlementFile calls
    Operators,    \* concurrent ResolveDiscrepancy calls
    MaxVersion    \* bound: the version up to which a file fails to parse again

EventOf(p, e) == [of |-> p, seq |-> e.seq, status |-> e.status, amount |-> e.amount]
Events == UNION {{EventOf(p, EventsOf[p][n]) : n \in DOMAIN EventsOf[p]} : p \in Payments}

\* IsSettleable, for the statuses a payment's events carry.
IsSettleable(r) == r.status \in {"captured", "partially_refunded", "refunded",
                                 "disputed", "chargeback_won", "chargeback_lost"}
\* Only these lines are compared with records; fee and adjustment lines are only totalled.
Matchable(l) == l.type \in {"payment", "refund", "chargeback"}

MatchableLines(f) == {n \in DOMAIN LinesOf[f] : Matchable(LinesOf[f][n])}

ASSUME ReconciliationAssumption ==
    /\ IsFiniteSet(Payments)
    /\ \A p \in Payments :
         /\ EventsOf[p] \in Seq([seq : Nat, status : STRING, amount : Nat])
         /\ \A m, n \in DOMAIN EventsOf[p] : m < n => EventsOf[p][m].seq < EventsOf[p][n].seq
    /\ Odd \subseteq Files
    /\ MaxVersion \in Nat

None == "none"

\* None stands for nobody's lock.
ASSUME NoneAssumption == None \notin Importers

NoRecord == [seq |-> 0, status |-> None, amount |-> 0]
NoFile == [status |-> None, version |-> 0]

VARIABLES
    processed,   \* processed_events of recon.payment-projector
    records,     \* payment_records
    aged,        \* the records whose occurred_at is past the grace period
    files,       \* settlement_files, with their status and version
    lock,        \* who holds a file's row (or its uncommitted file_hash) in a transaction
    runs,        \* per file, the number of completed reconciliation_runs
    discs,       \* discrepancies; told counts the discrepancy.resolved events in the outbox
    posted,      \* settlement.posted events in the outbox: <<file, line number>>
    imp,         \* the importers
    ops,         \* the operators
    seen         \* history: per file, the discrepancies its import found open

vars == <<processed, records, aged, files, lock, runs, discs, posted, imp, ops, seen>>

NoResult == [opened |-> {}, matched |-> {}]
IdleImport == [pc |-> "idle", file |-> None, base |-> 0, result |-> NoResult]
IdleOp == [pc |-> "idle", copy |-> None]

-----------------------------------------------------------------------------
(* The projector.                                                          *)

\* Mutant of Newer: the last event to arrive wins.
NewerAlways(r, e) == TRUE

\* The upsert's WHERE payment_records.source_seq <= EXCLUDED.source_seq.
Newer(r, e) == r.seq <= e.seq

\* HandlePaymentEvent: the events come at least once and in any order; one that is in
\* processed_events already changes nothing.
Project(e) ==
    /\ e \notin processed
    /\ processed' = processed \cup {e}
    /\ IF e.status # "created" /\ Newer(records[e.of], e)
         THEN /\ records' = [records EXCEPT ![e.of] =
                               [seq |-> e.seq, status |-> e.status, amount |-> e.amount]]
              /\ aged' = aged \ {e.of}
         ELSE UNCHANGED <<records, aged>>
    /\ UNCHANGED <<files, lock, runs, discs, posted, imp, ops, seen>>

\* Time passes and a record leaves the grace period.
Age(p) ==
    /\ records[p] # NoRecord
    /\ p \notin aged
    /\ aged' = aged \cup {p}
    /\ UNCHANGED <<processed, records, files, lock, runs, discs, posted, imp, ops, seen>>

-----------------------------------------------------------------------------
(* The matcher: a pure function of the file's lines and the records.       *)

Known(p) == p \in Payments /\ records[p] # NoRecord

\* A line's key, (provider_reference, type), has a record.
HasRecord(l) == l.type = "payment" /\ Known(l.ref)

\* A line's result: its key is unknown, or was consumed by an earlier line, or the record
\* disagrees, or it matches.
LineResult(f, n) ==
    LET l == LinesOf[f][n]
        consumed == \E k \in 1 .. n - 1 : LinesOf[f][k].ref = l.ref /\ LinesOf[f][k].type = l.type
    IN CASE ~HasRecord(l) \/ consumed            -> "missing_in_ledger"
         [] ~IsSettleable(records[l.ref])         -> "status_mismatch"
         [] l.amount # records[l.ref].amount      -> "amount_mismatch"
         [] OTHER                                 -> "matched"

SettledIn(g, p) == \E n \in DOMAIN LinesOf[g] : LinesOf[g][n].ref = p /\ LinesOf[g][n].type = "payment"

\* ListUnsettled: no line of an imported file or of this one.
ListUnsettled(f) ==
    {p \in Payments : ~\E g \in {h \in Files : files[h].status = "imported"} \cup {f} : SettledIn(g, p)}

\* Match's second loop, over the records the lines refer to and the unsettled ones.
MissingInPsp(f) ==
    {p \in {LinesOf[f][n].ref : n \in MatchableLines(f)} \cup ListUnsettled(f) :
        Known(p) /\ IsSettleable(records[p]) /\ p \in aged /\ ~SettledIn(f, p)}

Discrepancy(f, n, kind, ref) ==
    [run |-> f, line |-> n, kind |-> kind, ref |-> ref, status |-> "open", version |-> 0, told |-> 0]

\* The discrepancy's id.
Id(d) == <<d.run, d.line, d.ref>>

\* Match: one discrepancy for each line that does not match, and one for each unsettled record.
Differences(f) ==
    {Discrepancy(f, n, LineResult(f, n), LinesOf[f][n].ref) :
        n \in {m \in MatchableLines(f) : LineResult(f, m) # "matched"}}
      \cup {Discrepancy(f, 0, "missing_in_psp", p) : p \in MissingInPsp(f)}

\* Mutant of ExistsOpen: the status is not part of the WHERE.
ExistsOpenAnyStatus(kind, ref) == \E d \in discs : d.kind = kind /\ d.ref = ref

\* An open discrepancy of this kind and reference suppresses a new one.
ExistsOpen(kind, ref) == \E d \in discs : d.status = "open" /\ d.kind = kind /\ d.ref = ref

\* reconcile up to its inserts: what the run will open, and the lines it will post.
MatchResult(f) ==
    [opened  |-> {d \in Differences(f) : ~ExistsOpen(d.kind, d.ref)},
     matched |-> {n \in MatchableLines(f) : LineResult(f, n) = "matched"
                                               /\ LinesOf[f][n].type = "payment"}]

-----------------------------------------------------------------------------
(* ImportSettlementFile.                                                   *)

Goto(i, pc) == imp' = [imp EXCEPT ![i].pc = pc]

\* findImported: a file that is imported and has a run is answered from it.  Another is parsed,
\* outside any transaction.
FindImported(i, f) ==
    /\ imp[i].pc = "idle"
    /\ ~(files[f].status = "imported" /\ runs[f] > 0)
    /\ \E pc \in {"load"} \cup IF f \in Odd THEN {"unparsed"} ELSE {} :
         imp' = [imp EXCEPT ![i] = [IdleImport EXCEPT !.pc = pc, !.file = f]]
    /\ UNCHANGED <<processed, records, aged, files, lock, runs, discs, posted, ops, seen>>

\* recordParseFailure, a transaction of its own: an imported file stays imported.  If another
\* transaction changed the file meanwhile, it fails and is only logged.
RecordParseFailure(i) ==
    /\ imp[i].pc = "unparsed"
    /\ LET f == imp[i].file IN
       /\ lock[f] = None
       /\ files[f].status = "failed" => files[f].version < MaxVersion
       /\ files' = [files EXCEPT ![f] =
            CASE @.status = None       -> [status |-> "failed", version |-> 0]
              [] @.status = "imported" -> @
              [] OTHER                 -> [status |-> "failed", version |-> @.version + 1]]
    /\ imp' = [imp EXCEPT ![i] = IdleImport]
    /\ UNCHANGED <<processed, records, aged, lock, runs, discs, posted, ops, seen>>

\* loadOrCreateFile's GetByHash.  Imported by now: the run is returned.
LoadFile(i) ==
    /\ imp[i].pc = "load"
    /\ LET file == files[imp[i].file] IN
         CASE file.status = None       -> Goto(i, "create")
           [] file.status = "imported" -> imp' = [imp EXCEPT ![i] = IdleImport]
           [] OTHER -> imp' = [imp EXCEPT ![i].pc = "reopen", ![i].base = file.version]
    /\ UNCHANGED <<processed, records, aged, files, lock, runs, discs, posted, ops, seen>>

\* Mutant of CreateFile: the file is inserted in a transaction of its own, before the import's.
CreateFileEarly(i) ==
    /\ imp[i].pc = "create"
    /\ LET f == imp[i].file IN
       /\ lock[f] = None
       /\ files[f].status = None
       /\ files' = [files EXCEPT ![f].status = "importing"]
       /\ lock' = [lock EXCEPT ![f] = i]
    /\ Goto(i, "match")
    /\ UNCHANGED <<processed, records, aged, runs, discs, posted, ops, seen>>

\* The INSERT waits for another transaction's uncommitted file_hash.  If the hash exists then,
\* the statement fails and with it the transaction, which cannot read the existing row.
CreateFile(i) ==
    /\ imp[i].pc = "create"
    /\ LET f == imp[i].file IN
       /\ lock[f] = None
       /\ IF files[f].status # None
            THEN imp' = [imp EXCEPT ![i] = IdleImport] /\ UNCHANGED lock
            ELSE Goto(i, "match") /\ lock' = [lock EXCEPT ![f] = i]
    /\ UNCHANGED <<processed, records, aged, files, runs, discs, posted, ops, seen>>

\* Mutant of CanUpdate: the UPDATE does not look at the version.
CanUpdateAny(i) == TRUE

\* FileRepo.Update's WHERE version = $10.
CanUpdate(i) == files[imp[i].file].version = imp[i].base

\* A failed file is marked importing again; a version that moved ends the import.
ReopenFile(i) ==
    /\ imp[i].pc = "reopen"
    /\ LET f == imp[i].file IN
       /\ lock[f] = None
       /\ IF CanUpdate(i)
            THEN Goto(i, "match") /\ lock' = [lock EXCEPT ![f] = i]
            ELSE imp' = [imp EXCEPT ![i] = IdleImport] /\ UNCHANGED lock
    /\ UNCHANGED <<processed, records, aged, files, runs, discs, posted, ops, seen>>

\* reconcile's reads: records, unsettled records and open discrepancies.
Match(i) ==
    /\ imp[i].pc = "match"
    /\ imp' = [imp EXCEPT ![i].pc = "commit", ![i].result = MatchResult(imp[i].file)]
    /\ seen' = [seen EXCEPT ![imp[i].file] = {Id(d) : d \in {e \in discs : e.status = "open"}}]
    /\ UNCHANGED <<processed, records, aged, files, lock, runs, discs, posted, ops>>

\* The commit: file, lines, run, discrepancies and outbox become visible together.
Commit(i) ==
    /\ imp[i].pc = "commit"
    /\ LET f == imp[i].file IN
       /\ files' = [files EXCEPT ![f] = [status |-> "imported", version |-> @.version + 2]]
       /\ lock' = [lock EXCEPT ![f] = None]
       /\ runs' = [runs EXCEPT ![f] = @ + 1]
       /\ discs' = discs \cup imp[i].result.opened
       /\ posted' = posted \cup {<<f, n>> : n \in imp[i].result.matched}
    /\ imp' = [imp EXCEPT ![i] = IdleImport]
    /\ UNCHANGED <<processed, records, aged, ops, seen>>

\* The process dies or the database fails: the transaction is rolled back.
Abort(i) ==
    /\ imp[i].pc # "idle"
    /\ imp' = [imp EXCEPT ![i] = IdleImport]
    /\ lock' = [f \in Files |-> IF lock[f] = i THEN None ELSE lock[f]]
    /\ UNCHANGED <<processed, records, aged, files, runs, discs, posted, ops, seen>>

-----------------------------------------------------------------------------
(* ResolveDiscrepancy.                                                     *)

\* GetByID; a closed discrepancy is an error or a replay of its own key, and changes nothing.
ResolveLoad(o, d) ==
    /\ ops[o].pc = "idle"
    /\ d.status = "open"
    /\ ops' = [ops EXCEPT ![o] = [pc |-> "save", copy |-> d]]
    /\ UNCHANGED <<processed, records, aged, files, lock, runs, discs, posted, imp, seen>>

\* Mutant of CanClose: the UPDATE does not look at the version.
CanCloseAny(d, copy) == Id(d) = Id(copy)

\* DiscrepancyRepo.Update's WHERE id = $1 AND version < $7, the copy's version plus one.
CanClose(d, copy) == Id(d) = Id(copy) /\ d.version < copy.version + 1

\* Resolve or Ignore (both "closed" here), saved together with the discrepancy.resolved event.
ResolveSave(o) ==
    /\ ops[o].pc = "save"
    /\ discs' = {IF CanClose(d, ops[o].copy)
                    THEN [d EXCEPT !.status = "closed", !.version = ops[o].copy.version + 1,
                                   !.told = @ + 1]
                    ELSE d : d \in discs}
    /\ ops' = [ops EXCEPT ![o] = IdleOp]
    /\ UNCHANGED <<processed, records, aged, files, lock, runs, posted, imp, seen>>

-----------------------------------------------------------------------------

\* The types of the state.  No transaction ever sees a file that is being imported.
TypeOK ==
    /\ processed \subseteq Events
    /\ \A p \in Payments : records[p] = NoRecord \/ records[p].seq \in {e.seq : e \in Events}
    /\ aged \subseteq {p \in Payments : records[p] # NoRecord}
    /\ \A f \in Files :
         /\ files[f].status \in {None, "failed", "imported"}
         /\ lock[f] \in Importers \cup {None}
         \* the row is locked by exactly the importer that is past loadOrCreateFile
         /\ \A i \in Importers :
              lock[f] = i <=> imp[i].file = f /\ imp[i].pc \in {"match", "commit"}
         /\ runs[f] \in Nat
    /\ \A d \in discs : d.kind \in {"missing_in_ledger", "missing_in_psp",
                                    "amount_mismatch", "status_mismatch"}
    /\ \A x \in posted : \E f \in Files : \E n \in MatchableLines(f) : x = <<f, n>>
    /\ \A o \in Operators : ops[o].pc \in {"idle", "save"}

Init ==
    /\ processed = {}
    /\ records = [p \in Payments |-> NoRecord]
    /\ aged = {}
    /\ files = [f \in Files |-> NoFile]
    /\ lock = [f \in Files |-> None]
    /\ runs = [f \in Files |-> 0]
    /\ discs = {}
    /\ posted = {}
    /\ imp = [i \in Importers |-> IdleImport]
    /\ ops = [o \in Operators |-> IdleOp]
    /\ seen = [f \in Files |-> {}]

Next ==
    \/ \E e \in Events : Project(e)
    \/ \E p \in Payments : Age(p)
    \/ \E i \in Importers :
         \/ \E f \in Files : FindImported(i, f)
         \/ RecordParseFailure(i) \/ LoadFile(i) \/ CreateFile(i) \/ ReopenFile(i)
         \/ Match(i) \/ Commit(i) \/ Abort(i)
    \/ \E o \in Operators : ResolveSave(o) \/ \E d \in discs : ResolveLoad(o, d)

Spec == Init /\ [][Next]_vars

-----------------------------------------------------------------------------
(* Properties.                                                             *)

\* Imports of one file that race, fail to parse, crash and are repeated leave it with one run,
\* exactly when it is imported, and its payments are posted by that run only.
ImportedOnce ==
    \A f \in Files :
        /\ runs[f] <= 1
        /\ files[f].status = "imported" <=> runs[f] = 1
        /\ (\E n \in DOMAIN LinesOf[f] : <<f, n>> \in posted) => runs[f] = 1

\* However late, doubled or out of order its events arrive, a payment's record is the newest
\* of those processed.
RecordIsNewest ==
    \A p \in Payments :
        LET got == {e \in processed : e.of = p /\ e.status # "created"} IN
        IF got = {} THEN records[p] = NoRecord
        ELSE \E e \in got : /\ \A d \in got : d.seq <= e.seq
                            /\ records[p] = [seq |-> e.seq, status |-> e.status,
                                             amount |-> e.amount]

\* Every line of an imported file that takes part in the matching is accounted for: it is
\* posted, or its run opened a discrepancy for this very line, or one about the line's side of
\* its reference was open when the run looked; one that operators had closed by then does not
\* hide that the line differs again.
LinesAccounted ==
    \A f \in Files : files[f].status = "imported" =>
        \A n \in MatchableLines(f) :
            \/ <<f, n>> \in posted
            \/ \E d \in discs :
                 /\ d.ref = LinesOf[f][n].ref /\ d.kind # "missing_in_psp"
                 /\ (d.run = f /\ d.line = n) \/ Id(d) \in seen[f]

\* Operators who handle one discrepancy at a time close it once and announce it once.
ResolvedOnce == \A d \in discs : d.told = (IF d.status = "open" THEN 0 ELSE 1)

=============================================================================
