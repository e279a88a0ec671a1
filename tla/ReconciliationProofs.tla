------------------------ MODULE ReconciliationProofs -------------------------
(***************************************************************************)
(* Theorems about Reconciliation, for every set of payments, events,       *)
(* files, importers and operators.                                         *)
(***************************************************************************)
EXTENDS Reconciliation, SequenceTheorems, TLAPS

-----------------------------------------------------------------------------
(* The inductive invariant                                                 *)

Kinds == {"missing_in_ledger", "missing_in_psp", "amount_mismatch", "status_mismatch"}
Lines == UNION {DOMAIN LinesOf[f] : f \in Files}
Refs == Payments \cup UNION {{LinesOf[f][n].ref : n \in DOMAIN LinesOf[f]} : f \in Files}

\* What the upsert writes of an event.
RecordOf(e) == [seq |-> e.seq, status |-> e.status, amount |-> e.amount]

Discrepancies ==
    [run : Files, line : Lines \cup {0}, kind : Kinds, ref : Refs, status : {"open", "closed"},
     version : Nat, told : Nat]

Ids == Files \X (Lines \cup {0}) \X Refs

Results == [opened : SUBSET Discrepancies, matched : SUBSET Lines]
Imports ==
    [pc : {"idle", "unparsed", "load", "create", "reopen", "match", "commit"},
     file : Files \cup {None}, base : Nat, result : Results]
Ops == [pc : {"idle", "save"}, copy : Discrepancies \cup {None}]

\* An open discrepancy has never been written again; a closed one has been once, with its event.
DiscOK(d) ==
    \/ d.status = "open" /\ d.version = 0 /\ d.told = 0
    \/ d.status = "closed" /\ d.version = 1 /\ d.told = 1

ProjectorOK ==
    /\ processed \subseteq Events
    /\ records \in [Payments -> {NoRecord} \cup {RecordOf(e) : e \in Events}]
    /\ aged \subseteq {p \in Payments : records[p] # NoRecord}

FilesOK ==
    /\ files \in [Files -> [status : {None, "failed", "imported"}, version : Nat]]
    /\ runs \in [Files -> Nat]
    /\ posted \subseteq Files \X Lines
    /\ lock \in [Files -> Importers \cup {None}]
    /\ imp \in [Importers -> Imports]
    /\ seen \in [Files -> SUBSET Ids]

DiscsOK ==
    /\ discs \subseteq Discrepancies
    /\ \A d \in discs : DiscOK(d)
    /\ ops \in [Operators -> Ops]
    /\ \A o \in Operators : ops[o].pc = "save" => ops[o].copy \in Discrepancies /\ DiscOK(ops[o].copy)
                                                    /\ ops[o].copy.status = "open"

Importing == {"match", "commit"}

\* The row of a file is locked by exactly the import that is past loadOrCreateFile.
LockOK ==
    \A f \in Files : \A i \in Importers :
        lock[f] = i <=> imp[i].file = f /\ imp[i].pc \in Importing

\* An import knows its file.  One that has found it failed still finds it failed if the version is
\* the same, and one that has the row has a file that is not imported.
ImportOK(s) ==
    /\ s.pc # "idle" => s.file \in Files
    /\ s.pc = "reopen" => /\ s.base <= files[s.file].version
                          /\ files[s.file].status # None
                          /\ s.base = files[s.file].version => files[s.file].status = "failed"
    /\ s.pc \in Importing => files[s.file].status # "imported"

\* A discrepancy that accounts for a line: the line's own, or one that its import found open.
Covers(d, f, n, open) ==
    /\ d.ref = LinesOf[f][n].ref /\ d.kind # "missing_in_psp"
    /\ (d.run = f /\ d.line = n) \/ Id(d) \in open

\* A line is accounted for among the posted lines and the discrepancies.
Accounted(f, n, lines, ds, open) == n \in lines \/ \E d \in ds : Covers(d, f, n, open)

\* What an import is about to commit accounts for all lines of its file, and opens discrepancies.
ResultOK(s) ==
    s.pc = "commit" =>
        /\ s.result.matched \subseteq MatchableLines(s.file)
        /\ \A d \in s.result.opened : DiscOK(d)
        /\ \A n \in MatchableLines(s.file) :
             Accounted(s.file, n, s.result.matched, s.result.opened \cup discs, seen[s.file])

PostedOK == \A x \in posted : x[2] \in MatchableLines(x[1]) /\ runs[x[1]] = 1

RunsOK == \A f \in Files : runs[f] <= 1 /\ (files[f].status = "imported" <=> runs[f] = 1)

IInv ==
    /\ ProjectorOK /\ FilesOK /\ DiscsOK /\ LockOK
    /\ \A i \in Importers : ImportOK(imp[i]) /\ ResultOK(imp[i])
    /\ RunsOK /\ PostedOK
    /\ RecordIsNewest /\ LinesAccounted

-----------------------------------------------------------------------------
(* Facts about the constants and the constructors                          *)

\* An event belongs to a payment and has a number.
LEMMA EventFacts ==
  ASSUME NEW e \in Events
  PROVE  e.of \in Payments /\ e.seq \in Nat
<1>1. PICK p \in Payments : e \in {EventOf(p, EventsOf[p][n]) : n \in DOMAIN EventsOf[p]}
  BY DEF Events
<1>2. PICK n \in DOMAIN EventsOf[p] : e = EventOf(p, EventsOf[p][n])
  BY <1>1
<1>3. EventsOf[p] \in Seq([seq : Nat, status : STRING, amount : Nat])
  BY ReconciliationAssumption
<1>4. n \in 1 .. Len(EventsOf[p])
  BY <1>2, <1>3, LenProperties
<1>5. EventsOf[p][n] \in [seq : Nat, status : STRING, amount : Nat]
  BY <1>3, <1>4, ElementOfSeq
<1>6. EventsOf[p][n].seq \in Nat
  BY <1>5
<1>7. e.of = p /\ e.seq = EventsOf[p][n].seq
  BY <1>2 DEF EventOf
<1> QED
  BY <1>1, <1>6, <1>7

\* The lines of a file.
LEMMA LineFacts ==
  ASSUME NEW f \in Files
  PROVE  /\ MatchableLines(f) \subseteq DOMAIN LinesOf[f]
         /\ DOMAIN LinesOf[f] \subseteq Lines
         /\ \A n \in DOMAIN LinesOf[f] : LinesOf[f][n].ref \in Refs
         /\ Payments \subseteq Refs
<1>1. MatchableLines(f) \subseteq DOMAIN LinesOf[f]
  BY DEF MatchableLines
<1>2. DOMAIN LinesOf[f] \subseteq Lines
  BY DEF Lines
<1>3. \A n \in DOMAIN LinesOf[f] : LinesOf[f][n].ref \in Refs
  BY DEF Refs
<1>4. Payments \subseteq Refs
  BY DEF Refs
<1> QED
  BY <1>1, <1>2, <1>3, <1>4

\* An import and an operator that do nothing.
LEMMA IdleFacts ==
  /\ IdleImport \in Imports /\ IdleImport.pc = "idle"
  /\ IdleOp \in Ops /\ IdleOp.pc = "idle"
<1>1. NoResult \in Results
  BY DEF NoResult, Results
<1>2. IdleImport \in Imports /\ IdleImport.pc = "idle"
  BY <1>1 DEF IdleImport, Imports
<1>3. IdleOp \in Ops /\ IdleOp.pc = "idle"
  BY DEF IdleOp, Ops
<1> QED
  BY <1>2, <1>3

\* An idle import is under no obligation.
LEMMA IdleOK ==
  ASSUME NEW s, s.pc = "idle"
  PROVE  ImportOK(s) /\ ResultOK(s)
BY DEF ImportOK, ResultOK, Importing

\* A discrepancy that Match makes.
LEMMA NewDiscrepancy ==
  ASSUME NEW f \in Files, NEW n \in Lines \cup {0}, NEW kind \in Kinds, NEW ref \in Refs
  PROVE  /\ Discrepancy(f, n, kind, ref) \in Discrepancies /\ DiscOK(Discrepancy(f, n, kind, ref))
         /\ Discrepancy(f, n, kind, ref).ref = ref /\ Discrepancy(f, n, kind, ref).kind = kind
         /\ Discrepancy(f, n, kind, ref).run = f /\ Discrepancy(f, n, kind, ref).line = n
<1>1. Discrepancy(f, n, kind, ref) \in Discrepancies
  BY DEF Discrepancy, Discrepancies
<1>2. /\ Discrepancy(f, n, kind, ref).ref = ref /\ Discrepancy(f, n, kind, ref).kind = kind
      /\ Discrepancy(f, n, kind, ref).run = f /\ Discrepancy(f, n, kind, ref).line = n
      /\ Discrepancy(f, n, kind, ref).status = "open"
      /\ Discrepancy(f, n, kind, ref).version = 0 /\ Discrepancy(f, n, kind, ref).told = 0
  BY DEF Discrepancy
<1> QED
  BY <1>1, <1>2 DEF DiscOK

\* The discrepancies that are open.
Open == {Id(d) : d \in {e \in discs : e.status = "open"}}

\* The matcher accounts for every line: it matches, or a discrepancy for it is opened, or one of
\* its kind and reference is open.
LEMMA MatchFacts ==
  ASSUME NEW f \in Files
  PROVE  /\ MatchResult(f) \in Results
         /\ MatchResult(f).matched \subseteq MatchableLines(f)
         /\ \A d \in MatchResult(f).opened : DiscOK(d)
         /\ \A n \in MatchableLines(f) :
              Accounted(f, n, MatchResult(f).matched, MatchResult(f).opened \cup discs, Open)
<1>1. /\ MatchResult(f).opened = {d \in Differences(f) : ~ExistsOpen(d.kind, d.ref)}
      /\ MatchResult(f).matched = {n \in MatchableLines(f) : LineResult(f, n) = "matched"
                                                              /\ LinesOf[f][n].type = "payment"}
  BY DEF MatchResult
<1>2. \A n : \/ LineResult(f, n) \in Kinds \ {"missing_in_psp"}
             \/ LineResult(f, n) = "matched" /\ LinesOf[f][n].type = "payment"
  BY DEF LineResult, HasRecord, Kinds
<1>3. ASSUME NEW n \in MatchableLines(f), LineResult(f, n) # "matched"
      PROVE  /\ Discrepancy(f, n, LineResult(f, n), LinesOf[f][n].ref) \in Discrepancies
             /\ DiscOK(Discrepancy(f, n, LineResult(f, n), LinesOf[f][n].ref))
             /\ Discrepancy(f, n, LineResult(f, n), LinesOf[f][n].ref).ref = LinesOf[f][n].ref
             /\ Discrepancy(f, n, LineResult(f, n), LinesOf[f][n].ref).kind = LineResult(f, n)
             /\ Discrepancy(f, n, LineResult(f, n), LinesOf[f][n].ref).run = f
             /\ Discrepancy(f, n, LineResult(f, n), LinesOf[f][n].ref).line = n
             /\ Discrepancy(f, n, LineResult(f, n), LinesOf[f][n].ref) \in Differences(f)
  <2>1. n \in Lines /\ LinesOf[f][n].ref \in Refs /\ LineResult(f, n) \in Kinds
    BY <1>2, <1>3, LineFacts
  <2>2. Discrepancy(f, n, LineResult(f, n), LinesOf[f][n].ref) \in Differences(f)
    BY <1>3 DEF Differences
  <2> QED
    BY <2>1, <2>2, NewDiscrepancy
<1>4. ASSUME NEW d \in Differences(f)
      PROVE  d \in Discrepancies /\ DiscOK(d)
  <2>1. CASE \E n \in MatchableLines(f) :
               LineResult(f, n) # "matched" /\ d = Discrepancy(f, n, LineResult(f, n), LinesOf[f][n].ref)
    BY <1>3, <2>1
  <2>2. CASE \E p \in MissingInPsp(f) : d = Discrepancy(f, 0, "missing_in_psp", p)
    <3>1. PICK p \in MissingInPsp(f) : d = Discrepancy(f, 0, "missing_in_psp", p)
      BY <2>2
    <3>2. p \in Refs
      BY <3>1, LineFacts DEF MissingInPsp, Known
    <3> QED
      BY <3>1, <3>2, NewDiscrepancy DEF Kinds
  <2> QED
    BY <2>1, <2>2 DEF Differences
<1>5. MatchResult(f) \in Results
  <2>1. PICK opened, matched : /\ opened = {d \in Differences(f) : ~ExistsOpen(d.kind, d.ref)}
                               /\ matched = {n \in MatchableLines(f) : LineResult(f, n) = "matched"
                                                              /\ LinesOf[f][n].type = "payment"}
    OBVIOUS
  <2>2. MatchResult(f) = [opened |-> opened, matched |-> matched]
    BY <2>1 DEF MatchResult
  <2>3. opened \subseteq Discrepancies /\ matched \subseteq Lines
    BY <1>4, <2>1, LineFacts
  <2> QED
    BY <2>2, <2>3 DEF Results
<1>6. ASSUME NEW n \in MatchableLines(f)
      PROVE  Accounted(f, n, MatchResult(f).matched, MatchResult(f).opened \cup discs, Open)
  <2>1. CASE LineResult(f, n) = "matched"
    BY <1>1, <1>2, <2>1 DEF Accounted, Kinds
  <2>2. CASE LineResult(f, n) # "matched"
    <3>1. PICK d : d = Discrepancy(f, n, LineResult(f, n), LinesOf[f][n].ref)
      OBVIOUS
    <3>2. /\ d.ref = LinesOf[f][n].ref /\ d.kind # "missing_in_psp" /\ d \in Differences(f)
          /\ d.run = f /\ d.line = n
      BY <1>2, <1>3, <2>2, <3>1
    <3>3. CASE ExistsOpen(d.kind, d.ref)
      <4>1. PICK e \in discs : e.status = "open" /\ e.kind = d.kind /\ e.ref = d.ref
        BY <3>3 DEF ExistsOpen
      <4>2. Id(e) \in Open
        BY <4>1 DEF Open
      <4>3. Covers(e, f, n, Open)
        BY <3>2, <4>1, <4>2 DEF Covers
      <4> QED
        BY <4>3 DEF Accounted
    <3>4. CASE ~ExistsOpen(d.kind, d.ref)
      <4>1. Covers(d, f, n, Open)
        BY <3>2 DEF Covers
      <4> QED
        BY <1>1, <3>2, <3>4, <4>1 DEF Accounted
    <3> QED
      BY <3>3, <3>4
  <2> QED
    BY <2>1, <2>2
<1> QED
  BY <1>1, <1>4, <1>5, <1>6

-----------------------------------------------------------------------------
(* Frames                                                                  *)

\* The part of the invariant that is about files, imports and discrepancies.
BooksOK ==
    /\ FilesOK /\ DiscsOK /\ LockOK
    /\ \A i \in Importers : ImportOK(imp[i]) /\ ResultOK(imp[i])
    /\ RunsOK /\ PostedOK /\ LinesAccounted

\* The invariant has two halves that share no variable.
LEMMA Halves == IInv <=> ProjectorOK /\ RecordIsNewest /\ BooksOK
BY DEF IInv, BooksOK

\* The projector does not touch the books.
LEMMA BooksKept ==
  ASSUME BooksOK, UNCHANGED <<files, lock, runs, discs, posted, imp, ops, seen>>
  PROVE  BooksOK'
<1>1. FilesOK' /\ DiscsOK' /\ LockOK'
  BY DEF BooksOK, FilesOK, DiscsOK, LockOK
<1>2. ASSUME NEW i \in Importers
      PROVE  ImportOK(imp[i])' /\ ResultOK(imp[i])'
  BY DEF BooksOK, ImportOK, ResultOK
<1>3. RunsOK' /\ PostedOK'
  BY DEF BooksOK, RunsOK, PostedOK
<1>4. LinesAccounted'
  BY DEF BooksOK, LinesAccounted
<1> QED
  BY <1>1, <1>2, <1>3, <1>4 DEF BooksOK

\* The rest of the service does not touch the records.
LEMMA RecordsKept ==
  ASSUME ProjectorOK, RecordIsNewest, UNCHANGED <<processed, records, aged>>
  PROVE  (ProjectorOK /\ RecordIsNewest)'
<1>1. ProjectorOK'
  BY DEF ProjectorOK
<1>2. RecordIsNewest'
  BY DEF RecordIsNewest
<1> QED
  BY <1>1, <1>2

\* One import moves, and the history of the file it has locked; nothing else in the books does,
\* and the locks are still right.
LEMMA ImportLooks ==
  ASSUME BooksOK, NEW i \in Importers, NEW s \in Imports, imp' = [imp EXCEPT ![i] = s],
         UNCHANGED <<files, runs, discs, posted, ops>>,
         lock' \in [Files -> Importers \cup {None}], LockOK',
         seen' \in [Files -> SUBSET Ids],
         \A g \in Files : seen'[g] = seen[g] \/ (s.pc \in Importing /\ s.file = g),
         ImportOK(s), ResultOK(s)'
  PROVE  BooksOK'
<1>1. imp' \in [Importers -> Imports] /\ imp'[i] = s /\ \A j \in Importers \ {i} : imp'[j] = imp[j]
  BY DEF BooksOK, FilesOK
<1>2. FilesOK' /\ DiscsOK'
  BY <1>1 DEF BooksOK, FilesOK, DiscsOK
<1>3. ASSUME NEW j \in Importers
      PROVE  ImportOK(imp[j])' /\ ResultOK(imp[j])'
  <2>1. PICK t : t = imp'[j]
    OBVIOUS
  <2>2. ImportOK(t)
    BY <1>1, <2>1 DEF BooksOK
  <2>3. ImportOK(t)'
    BY <2>2 DEF ImportOK
  <2>4. ResultOK(t)'
    <3>1. CASE j = i
      BY <1>1, <2>1, <3>1 DEF ResultOK
    <3>2. CASE j # i /\ t.pc = "commit"
      <4>1. t = imp[j] /\ ResultOK(t) /\ t.file \in Files
        BY <1>1, <2>1, <2>2, <3>2 DEF BooksOK, ImportOK
      <4>2. lock'[t.file] = j
        BY <2>1, <3>2, <4>1 DEF LockOK, Importing
      <4>3. ~(s.pc \in Importing /\ s.file = t.file)
        BY <1>1, <3>2, <4>1, <4>2 DEF LockOK
      <4>4. seen'[t.file] = seen[t.file]
        BY <4>1, <4>3
      <4> QED
        BY <4>1, <4>4 DEF ResultOK
    <3>3. CASE t.pc # "commit"
      BY <3>3 DEF ResultOK
    <3> QED
      BY <3>1, <3>2, <3>3
  <2> QED
    BY <2>1, <2>3, <2>4 DEF ImportOK, ResultOK
<1>4. RunsOK' /\ PostedOK'
  BY DEF BooksOK, RunsOK, PostedOK
<1>5. \A f \in Files : files[f].status = "imported" => seen'[f] = seen[f]
  BY DEF ImportOK
<1>6. LinesAccounted'
  BY <1>5 DEF BooksOK, LinesAccounted
<1> QED
  BY <1>2, <1>3, <1>4, <1>6 DEF BooksOK

\* One import moves and nothing else in the books does.
LEMMA ImportMoves ==
  ASSUME BooksOK, NEW i \in Importers, NEW s \in Imports, imp' = [imp EXCEPT ![i] = s],
         UNCHANGED <<files, runs, discs, posted, ops, seen>>,
         lock' \in [Files -> Importers \cup {None}], LockOK',
         ImportOK(s), ResultOK(s)
  PROVE  BooksOK'
<1>1. ResultOK(s)'
  BY DEF ResultOK
<1>2. seen' \in [Files -> SUBSET Ids] /\ \A g \in Files : seen'[g] = seen[g]
  BY DEF BooksOK, FilesOK
<1> QED
  BY <1>1, <1>2, ImportLooks

\* The locks are right when an import that has none gets none, and when one that has it keeps it.
LEMMA LockSame ==
  ASSUME BooksOK, NEW i \in Importers, NEW s \in Imports, imp' = [imp EXCEPT ![i] = s],
         lock' = lock,
         \/ imp[i].pc \notin Importing /\ s.pc \notin Importing
         \/ imp[i].pc \in Importing /\ s.pc \in Importing /\ s.file = imp[i].file
  PROVE  LockOK' /\ lock' \in [Files -> Importers \cup {None}]
<1>1. imp'[i] = s /\ \A j \in Importers \ {i} : imp'[j] = imp[j]
  BY DEF BooksOK, FilesOK
<1> QED
  BY <1>1 DEF BooksOK, FilesOK, LockOK

\* The locks are right when an import takes one that nobody has.
LEMMA LockTaken ==
  ASSUME BooksOK, NEW i \in Importers, NEW s \in Imports, imp' = [imp EXCEPT ![i] = s],
         NEW f \in Files, lock[f] = None, lock' = [lock EXCEPT ![f] = i],
         imp[i].pc \notin Importing, s.pc \in Importing, s.file = f
  PROVE  LockOK' /\ lock' \in [Files -> Importers \cup {None}]
<1>1. imp'[i] = s /\ \A j \in Importers \ {i} : imp'[j] = imp[j]
  BY DEF BooksOK, FilesOK
<1>2. /\ lock' \in [Files -> Importers \cup {None}] /\ lock'[f] = i
      /\ \A g \in Files \ {f} : lock'[g] = lock[g]
  BY DEF BooksOK, FilesOK
<1>3. ASSUME NEW g \in Files, NEW j \in Importers
      PROVE  lock'[g] = j <=> imp'[j].file = g /\ imp'[j].pc \in Importing
  <2>1. lock[g] = j <=> imp[j].file = g /\ imp[j].pc \in Importing
    BY DEF BooksOK, LockOK
  <2>2. CASE j = i
    BY <1>1, <1>2, <2>1, <2>2
  <2>3. CASE j # i
    BY <1>1, <1>2, <2>1, <2>3, NoneAssumption
  <2> QED
    BY <2>2, <2>3
<1> QED
  BY <1>2, <1>3 DEF LockOK

\* The locks are right when an import's transaction ends.
LEMMA LockReleased ==
  ASSUME BooksOK, NEW i \in Importers, NEW s \in Imports, imp' = [imp EXCEPT ![i] = s],
         lock' \in [Files -> Importers \cup {None}],
         \A f \in Files : lock'[f] = IF lock[f] = i THEN None ELSE lock[f],
         s.pc = "idle"
  PROVE  LockOK'
<1>1. imp'[i] = s /\ \A j \in Importers \ {i} : imp'[j] = imp[j]
  BY DEF BooksOK, FilesOK
<1>2. ASSUME NEW g \in Files, NEW j \in Importers
      PROVE  lock'[g] = j <=> imp'[j].file = g /\ imp'[j].pc \in Importing
  <2>1. lock[g] = j <=> imp[j].file = g /\ imp[j].pc \in Importing
    BY DEF BooksOK, LockOK
  <2>2. CASE j = i
    BY <1>1, <2>2, NoneAssumption DEF Importing
  <2>3. CASE j # i
    BY <1>1, <2>1, <2>3, NoneAssumption
  <2> QED
    BY <2>2, <2>3
<1> QED
  BY <1>2 DEF LockOK

-----------------------------------------------------------------------------
(* The projector's steps                                                   *)

\* Project: the record is replaced exactly if no newer event has been processed.
LEMMA ProjectStep ==
  ASSUME IInv, NEW e \in Events, Project(e)
  PROVE  IInv'
<1>1. ProjectorOK /\ RecordIsNewest /\ BooksOK
  BY Halves
<1>2. BooksOK'
  BY <1>1, BooksKept DEF Project
<1>3. e.of \in Payments /\ e.seq \in Nat
  BY EventFacts
<1>4. PICK q \in Payments : q = e.of
  BY <1>3
<1>5. processed' = processed \cup {e} /\ processed \subseteq Events
  BY <1>1 DEF Project, ProjectorOK
<1>6. records[q] = NoRecord \/ \E d \in Events : records[q] = RecordOf(d)
  BY <1>1 DEF ProjectorOK
<1>7. records[q].seq \in Nat
  <2>1. NoRecord.seq = 0
    BY DEF NoRecord
  <2>2. \A d \in Events : RecordOf(d).seq = d.seq /\ d.seq \in Nat
    BY EventFacts DEF RecordOf
  <2> QED
    BY <1>6, <2>1, <2>2
<1>8. CASE e.status # "created" /\ records[q].seq <= e.seq
  <2>1. records' = [records EXCEPT ![q] = RecordOf(e)] /\ aged' = aged \ {q}
    BY <1>4, <1>8 DEF Project, Newer, RecordOf
  <2>2. /\ records' \in [Payments -> {NoRecord} \cup {RecordOf(d) : d \in Events}]
        /\ records'[q] = RecordOf(e) /\ \A p \in Payments \ {q} : records'[p] = records[p]
    BY <1>1, <2>1 DEF ProjectorOK
  <2>3. ProjectorOK'
    BY <1>1, <1>5, <2>1, <2>2 DEF ProjectorOK
  <2>4. ASSUME NEW p \in Payments, NEW got, got = {d \in processed' : d.of = p /\ d.status # "created"}
        PROVE  IF got = {} THEN records'[p] = NoRecord
               ELSE \E d \in got : (\A c \in got : c.seq <= d.seq) /\ records'[p] = RecordOf(d)
    <3>1. CASE p # q
      <4>1. got = {d \in processed : d.of = p /\ d.status # "created"}
        BY <1>4, <1>5, <2>4, <3>1
      <4>2. IF got = {} THEN records[p] = NoRecord
            ELSE \E d \in got : (\A c \in got : c.seq <= d.seq) /\ records[p] = RecordOf(d)
        BY <1>1, <4>1 DEF RecordIsNewest, RecordOf
      <4>3. records'[p] = records[p]
        BY <2>2, <3>1
      <4> QED
        BY <4>2, <4>3
    <3>2. CASE p = q
      <4>1. e \in got
        BY <1>4, <1>5, <1>8, <2>4, <3>2
      <4>2. ASSUME NEW c \in got
            PROVE  c.seq <= e.seq
        <5>1. CASE c = e
          BY <1>3, <5>1
        <5>2. CASE c # e
          <6>1. PICK old : old = {d \in processed : d.of = q /\ d.status # "created"}
            OBVIOUS
          <6>2. c \in old /\ c.seq \in Nat
            BY <1>5, <2>4, <3>2, <4>2, <5>2, <6>1, EventFacts
          <6>3. PICK d \in old : (\A b \in old : b.seq <= d.seq) /\ records[q] = RecordOf(d)
            BY <1>1, <6>1, <6>2 DEF RecordIsNewest, RecordOf
          <6>4. records[q].seq = d.seq /\ d.seq \in Nat
            BY <1>5, <6>1, <6>3, EventFacts DEF RecordOf
          <6> QED
            BY <1>3, <1>8, <6>2, <6>3, <6>4
        <5> QED
          BY <5>1, <5>2
      <4> QED
        BY <2>2, <3>2, <4>1, <4>2
    <3> QED
      BY <3>1, <3>2
  <2>5. RecordIsNewest'
    BY <2>4 DEF RecordIsNewest, RecordOf
  <2> QED
    BY <1>2, <2>3, <2>5 DEF IInv, BooksOK
<1>9. CASE ~(e.status # "created" /\ records[q].seq <= e.seq)
  <2>1. records' = records /\ aged' = aged
    BY <1>4, <1>9 DEF Project, Newer
  <2>2. ProjectorOK'
    BY <1>1, <1>5, <2>1 DEF ProjectorOK
  <2>3. ASSUME NEW p \in Payments, NEW got, got = {d \in processed' : d.of = p /\ d.status # "created"}
        PROVE  IF got = {} THEN records'[p] = NoRecord
               ELSE \E d \in got : (\A c \in got : c.seq <= d.seq) /\ records'[p] = RecordOf(d)
    <3>1. PICK old : old = {d \in processed : d.of = p /\ d.status # "created"}
      OBVIOUS
    <3>2. CASE got = old
      BY <1>1, <2>1, <3>1, <3>2 DEF RecordIsNewest, RecordOf
    <3>3. CASE got # old
      <4>1. p = q /\ e.status # "created" /\ got = old \cup {e} /\ ~(records[q].seq <= e.seq)
        BY <1>4, <1>5, <1>9, <2>3, <3>1, <3>3
      <4>2. old # {}
        <5>1. ASSUME old = {}
              PROVE  FALSE
          <6>1. records[q] = NoRecord
            BY <1>1, <3>1, <4>1, <5>1 DEF RecordIsNewest
          <6> QED
            BY <1>3, <4>1, <6>1 DEF NoRecord
        <5> QED
          BY <5>1
      <4>3. PICK d \in old : (\A b \in old : b.seq <= d.seq) /\ records[q] = RecordOf(d)
        BY <1>1, <3>1, <4>1, <4>2 DEF RecordIsNewest, RecordOf
      <4>4. records[q].seq = d.seq /\ d.seq \in Nat
        BY <1>5, <3>1, <4>3, EventFacts DEF RecordOf
      <4>5. e.seq <= d.seq
        BY <1>3, <4>1, <4>4
      <4> QED
        BY <2>1, <4>1, <4>3, <4>5
    <3> QED
      BY <3>2, <3>3
  <2>4. RecordIsNewest'
    BY <2>3 DEF RecordIsNewest, RecordOf
  <2> QED
    BY <1>2, <2>2, <2>4 DEF IInv, BooksOK
<1> QED
  BY <1>8, <1>9

\* Age.
LEMMA AgeStep ==
  ASSUME IInv, NEW p \in Payments, Age(p)
  PROVE  IInv'
<1>1. ProjectorOK /\ RecordIsNewest /\ BooksOK
  BY Halves
<1>2. BooksOK'
  BY <1>1, BooksKept DEF Age
<1>3. ProjectorOK'
  BY <1>1 DEF ProjectorOK, Age
<1>4. RecordIsNewest'
  BY <1>1 DEF RecordIsNewest, Age
<1> QED
  BY <1>2, <1>3, <1>4 DEF IInv, BooksOK

-----------------------------------------------------------------------------
(* The steps of an import                                                  *)

\* An import that goes on keeps its file, its base version and its result.
LEMMA GotoFacts ==
  ASSUME FilesOK, NEW i \in Importers,
         NEW pc \in {"idle", "unparsed", "load", "create", "reopen", "match", "commit"}, Goto(i, pc)
  PROVE  \E s \in Imports : /\ imp' = [imp EXCEPT ![i] = s] /\ s.pc = pc
                            /\ s.file = imp[i].file /\ s.base = imp[i].base
<1>1. PICK s : s = [imp[i] EXCEPT !.pc = pc]
  OBVIOUS
<1>2. imp[i] \in Imports
  BY DEF FilesOK
<1>3. s \in Imports /\ s.pc = pc /\ s.file = imp[i].file /\ s.base = imp[i].base
  BY <1>1, <1>2 DEF Imports
<1>4. imp' = [imp EXCEPT ![i] = s]
  BY <1>1 DEF Goto, FilesOK
<1> QED
  BY <1>3, <1>4

\* An import that has no lock gives up.
LEMMA GivesUp ==
  ASSUME BooksOK, NEW i \in Importers, imp[i].pc \notin Importing, imp' = [imp EXCEPT ![i] = IdleImport],
         UNCHANGED <<files, lock, runs, discs, posted, ops, seen>>
  PROVE  BooksOK'
<1>1. IdleImport.pc \notin Importing /\ IdleImport \in Imports
  BY IdleFacts DEF Importing
<1>2. LockOK' /\ lock' \in [Files -> Importers \cup {None}]
  BY <1>1, LockSame
<1>3. ImportOK(IdleImport) /\ ResultOK(IdleImport)
  BY IdleFacts, IdleOK
<1> QED
  BY <1>1, <1>2, <1>3, ImportMoves

\* findImported, then the parser.
LEMMA FindImportedStep ==
  ASSUME BooksOK, NEW i \in Importers, NEW f \in Files, FindImported(i, f)
  PROVE  BooksOK'
<1>1. PICK pc \in {"load", "unparsed"} :
        imp' = [imp EXCEPT ![i] = [IdleImport EXCEPT !.pc = pc, !.file = f]]
  BY DEF FindImported
<1>2. PICK s : s = [IdleImport EXCEPT !.pc = pc, !.file = f]
  OBVIOUS
<1>3. s \in Imports /\ s.pc = pc /\ s.file = f
  <2>1. s = [pc |-> pc, file |-> f, base |-> 0, result |-> NoResult]
    BY <1>2 DEF IdleImport
  <2>2. NoResult \in Results
    BY DEF NoResult, Results
  <2> QED
    BY <1>1, <2>1, <2>2 DEF Imports
<1>4. imp[i].pc \notin Importing /\ s.pc \notin Importing
  BY <1>1, <1>3 DEF FindImported, Importing
<1>5. UNCHANGED <<files, runs, discs, posted, ops, seen>> /\ lock' = lock
  BY DEF FindImported
<1>6. LockOK' /\ lock' \in [Files -> Importers \cup {None}]
  BY <1>1, <1>2, <1>3, <1>4, <1>5, LockSame
<1>7. ImportOK(s) /\ ResultOK(s)
  BY <1>1, <1>3 DEF ImportOK, ResultOK, Importing
<1> QED
  BY <1>1, <1>2, <1>3, <1>5, <1>6, <1>7, ImportMoves

\* loadOrCreateFile's read.
LEMMA LoadFileStep ==
  ASSUME BooksOK, NEW i \in Importers, LoadFile(i)
  PROVE  BooksOK'
<1>1. /\ imp[i].pc = "load" /\ UNCHANGED <<files, runs, discs, posted, ops, seen>> /\ lock' = lock
      /\ UNCHANGED <<files, lock, runs, discs, posted, ops, seen>>
  BY DEF LoadFile
<1>2. imp[i] \in Imports /\ imp[i].file \in Files /\ imp[i].pc \notin Importing
  BY <1>1 DEF BooksOK, FilesOK, ImportOK, Importing
<1>3. PICK file \in [status : {None, "failed", "imported"}, version : Nat] : file = files[imp[i].file]
  BY <1>2 DEF BooksOK, FilesOK
<1>4. CASE file.status = None
  <2>1. Goto(i, "create")
    BY <1>3, <1>4 DEF LoadFile, Goto, None
  <2>2. PICK s \in Imports : imp' = [imp EXCEPT ![i] = s] /\ s.pc = "create" /\ s.file = imp[i].file
    BY <2>1, GotoFacts DEF BooksOK
  <2>3. s.pc \notin Importing /\ ImportOK(s) /\ ResultOK(s)
    BY <1>2, <2>2 DEF Importing, ImportOK, ResultOK
  <2> QED
    BY <1>1, <1>2, <2>2, <2>3, LockSame, ImportMoves
<1>5. CASE file.status = "imported"
  <2>1. imp' = [imp EXCEPT ![i] = IdleImport]
    BY <1>3, <1>5 DEF LoadFile, None
  <2> QED
    BY <1>1, <1>2, <2>1, GivesUp
<1>6. CASE file.status = "failed"
  <2>1. imp' = [imp EXCEPT ![i].pc = "reopen", ![i].base = file.version]
    BY <1>3, <1>6 DEF LoadFile, None
  <2>2. PICK s : s = [[imp[i] EXCEPT !.pc = "reopen"] EXCEPT !.base = file.version]
    OBVIOUS
  <2>3. s \in Imports /\ s.pc = "reopen" /\ s.file = imp[i].file /\ s.base = file.version
    <3>1. PICK t : t = [imp[i] EXCEPT !.pc = "reopen"]
      OBVIOUS
    <3>2. t \in Imports /\ t.pc = "reopen" /\ t.file = imp[i].file
      BY <1>2, <3>1 DEF Imports
    <3>3. s = [t EXCEPT !.base = file.version] /\ file.version \in Nat
      BY <1>3, <2>2, <3>1
    <3> QED
      BY <3>2, <3>3 DEF Imports
  <2>4. imp' = [imp EXCEPT ![i] = s]
    BY <1>2, <2>1, <2>2 DEF BooksOK, FilesOK
  <2>5. s.pc \notin Importing /\ ResultOK(s)
    BY <2>3 DEF Importing, ResultOK
  <2>6. ImportOK(s)
    BY <1>2, <1>3, <1>6, <2>3, <2>5 DEF ImportOK, None
  <2> QED
    BY <1>1, <1>2, <2>3, <2>4, <2>5, <2>6, LockSame, ImportMoves
<1> QED
  BY <1>3, <1>4, <1>5, <1>6

\* The INSERT of the file, or the UPDATE that marks it importing: whoever gets the row finds a
\* file that is not imported.
LEMMA TakeFileStep ==
  ASSUME BooksOK, NEW i \in Importers, CreateFile(i) \/ ReopenFile(i)
  PROVE  BooksOK'
<1>1. /\ imp[i].pc \in {"create", "reopen"} /\ lock[imp[i].file] = None
      /\ UNCHANGED <<files, runs, discs, posted, ops, seen>>
  BY DEF CreateFile, ReopenFile
<1>2. imp[i] \in Imports /\ imp[i].file \in Files /\ imp[i].pc \notin Importing
  BY <1>1 DEF BooksOK, FilesOK, ImportOK, Importing
<1>3. CASE imp' = [imp EXCEPT ![i] = IdleImport] /\ UNCHANGED lock
  <2>1. UNCHANGED <<files, lock, runs, discs, posted, ops, seen>>
    BY <1>1, <1>3
  <2> QED
    BY <1>2, <1>3, <2>1, GivesUp
<1>4. CASE Goto(i, "match") /\ lock' = [lock EXCEPT ![imp[i].file] = i]
            /\ files[imp[i].file].status # "imported"
  <2>1. PICK s \in Imports : imp' = [imp EXCEPT ![i] = s] /\ s.pc = "match" /\ s.file = imp[i].file
    BY <1>4, GotoFacts DEF BooksOK
  <2>2. s.pc \in Importing /\ ImportOK(s) /\ ResultOK(s)
    BY <1>2, <1>4, <2>1 DEF Importing, ImportOK, ResultOK
  <2>3. LockOK' /\ lock' \in [Files -> Importers \cup {None}]
    BY <1>1, <1>2, <1>4, <2>1, <2>2, LockTaken
  <2> QED
    BY <1>1, <2>1, <2>2, <2>3, ImportMoves
<1>5. CASE CreateFile(i)
  BY <1>3, <1>4, <1>5 DEF CreateFile, None
<1>6. CASE ReopenFile(i)
  <2>1. ASSUME CanUpdate(i)
        PROVE  files[imp[i].file].status # "imported"
    BY <1>6, <2>1 DEF ReopenFile, CanUpdate, BooksOK, ImportOK
  <2> QED
    BY <1>3, <1>4, <1>6, <2>1 DEF ReopenFile
<1> QED
  BY <1>5, <1>6

\* reconcile's reads.
LEMMA MatchStep ==
  ASSUME BooksOK, NEW i \in Importers, Match(i)
  PROVE  BooksOK'
<1>1. /\ imp[i].pc = "match"
      /\ imp' = [imp EXCEPT ![i].pc = "commit", ![i].result = MatchResult(imp[i].file)]
      /\ UNCHANGED <<files, runs, discs, posted, ops>> /\ lock' = lock
      /\ seen' = [seen EXCEPT ![imp[i].file] = Open]
  BY DEF Match, Open
<1>2. PICK f \in Files : f = imp[i].file
  BY <1>1 DEF BooksOK, ImportOK
<1>3. imp[i] \in Imports /\ ImportOK(imp[i])
  BY DEF BooksOK, FilesOK
<1>4. PICK result : result = MatchResult(f)
  OBVIOUS
<1>5. PICK s : s = [[imp[i] EXCEPT !.pc = "commit"] EXCEPT !.result = result]
  OBVIOUS
<1>6. s \in Imports /\ s.pc = "commit" /\ s.file = f /\ s.result = result
  <2>1. PICK t : t = [imp[i] EXCEPT !.pc = "commit"]
    OBVIOUS
  <2>2. t \in Imports /\ t.pc = "commit" /\ t.file = f
    BY <1>2, <1>3, <2>1 DEF Imports
  <2>3. s = [t EXCEPT !.result = result] /\ result \in Results
    BY <1>4, <1>5, <2>1, MatchFacts
  <2> QED
    BY <2>2, <2>3 DEF Imports
<1>7. imp' = [imp EXCEPT ![i] = s]
  BY <1>1, <1>2, <1>3, <1>4, <1>5 DEF BooksOK, FilesOK
<1>8. ImportOK(s)
  BY <1>1, <1>2, <1>3, <1>6 DEF ImportOK, Importing
<1>9. seen' \in [Files -> SUBSET Ids] /\ seen'[f] = Open /\ \A g \in Files \ {f} : seen'[g] = seen[g]
  <2>1. \A d \in Discrepancies : Id(d) \in Ids
    BY DEF Id, Ids, Discrepancies
  <2>2. Open \subseteq Ids
    BY <2>1 DEF Open, BooksOK, DiscsOK
  <2> QED
    BY <1>1, <1>2, <2>2 DEF BooksOK, FilesOK
<1>10. ResultOK(s)'
  <2>1. /\ s.result.matched \subseteq MatchableLines(f)
        /\ \A d \in s.result.opened : DiscOK(d)
        /\ \A n \in MatchableLines(f) :
             Accounted(f, n, s.result.matched, s.result.opened \cup discs, Open)
    BY <1>4, <1>6, MatchFacts
  <2> QED
    BY <1>1, <1>6, <1>9, <2>1 DEF ResultOK
<1>11. LockOK' /\ lock' \in [Files -> Importers \cup {None}]
  BY <1>1, <1>2, <1>6, <1>7, LockSame DEF Importing
<1> QED
  BY <1>1, <1>6, <1>7, <1>8, <1>9, <1>10, <1>11, ImportLooks DEF Importing

\* A crash rolls the transaction back.
LEMMA AbortStep ==
  ASSUME BooksOK, NEW i \in Importers, Abort(i)
  PROVE  BooksOK'
<1>1. /\ imp' = [imp EXCEPT ![i] = IdleImport] /\ UNCHANGED <<files, runs, discs, posted, ops, seen>>
      /\ lock' = [f \in Files |-> IF lock[f] = i THEN None ELSE lock[f]]
  BY DEF Abort
<1>2. /\ lock' \in [Files -> Importers \cup {None}]
      /\ \A f \in Files : lock'[f] = IF lock[f] = i THEN None ELSE lock[f]
  BY <1>1 DEF BooksOK, FilesOK
<1>3. LockOK'
  BY <1>1, <1>2, IdleFacts, LockReleased
<1>4. ImportOK(IdleImport) /\ ResultOK(IdleImport)
  BY IdleFacts, IdleOK
<1> QED
  BY <1>1, <1>2, <1>3, <1>4, IdleFacts, ImportMoves

\* recordParseFailure: it waits for the row, so no import is under way, and an import that has
\* seen the file failed will not find the version it saw.
LEMMA ParseFailureStep ==
  ASSUME BooksOK, NEW i \in Importers, RecordParseFailure(i)
  PROVE  BooksOK'
<1>1. imp[i].pc = "unparsed" /\ UNCHANGED <<lock, runs, discs, posted, ops, seen>>
  BY DEF RecordParseFailure
<1>2. PICK f \in Files : f = imp[i].file
  BY <1>1 DEF BooksOK, ImportOK
<1>3. PICK old \in [status : {None, "failed", "imported"}, version : Nat] : old = files[f]
  BY DEF BooksOK, FilesOK
<1>4. PICK new : new = CASE old.status = None       -> [status |-> "failed", version |-> 0]
                         [] old.status = "imported" -> old
                         [] OTHER -> [status |-> "failed", version |-> old.version + 1]
  OBVIOUS
<1>5. lock[f] = None /\ files' = [files EXCEPT ![f] = new] /\ imp' = [imp EXCEPT ![i] = IdleImport]
  BY <1>2, <1>3, <1>4 DEF RecordParseFailure, BooksOK, FilesOK
<1>6. /\ new \in [status : {None, "failed", "imported"}, version : Nat]
      /\ old.status = "imported" => new = old
      /\ old.status = None => new.status = "failed"
      /\ old.status = "failed" => new.status = "failed" /\ new.version = old.version + 1
  <2>1. CASE old.status = None
    BY <1>4, <2>1 DEF None
  <2>2. CASE old.status = "imported"
    BY <1>3, <1>4, <2>2 DEF None
  <2>3. CASE old.status = "failed"
    <3>1. new = [status |-> "failed", version |-> old.version + 1] /\ old.version \in Nat
      BY <1>3, <1>4, <2>3 DEF None
    <3> QED
      BY <2>3, <3>1 DEF None
  <2> QED
    BY <1>3, <2>1, <2>2, <2>3
<1>7. /\ files' \in [Files -> [status : {None, "failed", "imported"}, version : Nat]]
      /\ files'[f] = new /\ \A g \in Files \ {f} : files'[g] = files[g]
  BY <1>5, <1>6 DEF BooksOK, FilesOK
<1>8. /\ imp' \in [Importers -> Imports] /\ imp'[i] = IdleImport
      /\ \A j \in Importers \ {i} : imp'[j] = imp[j]
  BY <1>5, IdleFacts DEF BooksOK, FilesOK
<1>9. FilesOK' /\ DiscsOK'
  BY <1>1, <1>7, <1>8 DEF BooksOK, FilesOK, DiscsOK
<1>10. LockOK'
  <2>1. imp[i].pc \notin Importing /\ IdleImport.pc \notin Importing /\ lock' = lock
    BY <1>1, IdleFacts DEF Importing
  <2> QED
    BY <1>5, <2>1, IdleFacts, LockSame
<1>11. ASSUME NEW j \in Importers
       PROVE  ImportOK(imp[j])' /\ ResultOK(imp[j])'
  <2>1. PICK t : t = imp'[j]
    OBVIOUS
  <2>2. ImportOK(t) /\ ResultOK(t)
    BY <1>8, <2>1, IdleFacts, IdleOK DEF BooksOK
  <2>3. ASSUME t.pc \in Importing
        PROVE  t.file # f
    <3>1. j # i /\ t = imp[j]
      BY <1>8, <2>1, <2>3, IdleFacts DEF Importing
    <3> QED
      BY <1>5, <2>3, <3>1, NoneAssumption DEF BooksOK, LockOK
  <2>4. ASSUME t.pc = "reopen", t.file = f
        PROVE  t.base <= new.version /\ new.status # None /\ (t.base = new.version => new.status = "failed")
    <3>1. t \in Imports /\ t.base \in Nat /\ old.version \in Nat
      BY <1>3, <1>8, <2>1 DEF Imports
    <3>2. /\ t.base <= old.version /\ old.status # None
          /\ t.base = old.version => old.status = "failed"
      BY <1>3, <2>2, <2>4 DEF ImportOK
    <3> QED
      BY <1>3, <1>6, <3>1, <3>2 DEF None
  <2>5. t.pc # "idle" => t.file \in Files
    BY <2>2 DEF ImportOK
  <2>6. ASSUME t.pc = "reopen"
        PROVE  /\ t.base <= files'[t.file].version /\ files'[t.file].status # None
               /\ t.base = files'[t.file].version => files'[t.file].status = "failed"
    <3>1. CASE t.file = f
      BY <1>7, <2>4, <2>6, <3>1
    <3>2. CASE t.file # f
      BY <1>7, <2>2, <2>5, <2>6, <3>2 DEF ImportOK
    <3> QED
      BY <3>1, <3>2
  <2>7. ASSUME t.pc \in Importing
        PROVE  files'[t.file].status # "imported"
    BY <1>7, <2>2, <2>3, <2>5, <2>7 DEF ImportOK, Importing
  <2>8. ImportOK(t)' /\ ResultOK(t)'
    BY <1>1, <2>2, <2>5, <2>6, <2>7 DEF ImportOK, ResultOK
  <2> QED
    BY <2>1, <2>8 DEF ImportOK, ResultOK
<1>12. \A g \in Files : files'[g].status = "imported" <=> files[g].status = "imported"
  BY <1>3, <1>6, <1>7 DEF None
<1>13. RunsOK' /\ PostedOK'
  BY <1>1, <1>12 DEF BooksOK, RunsOK, PostedOK
<1>14. LinesAccounted'
  BY <1>1, <1>12 DEF BooksOK, LinesAccounted
<1> QED
  BY <1>9, <1>10, <1>11, <1>13, <1>14 DEF BooksOK

\* Commit: the file had no run, and now it has one, and every line of it is accounted for.
LEMMA CommitStep ==
  ASSUME BooksOK, NEW i \in Importers, Commit(i)
  PROVE  BooksOK'
<1>1. imp[i].pc = "commit" /\ UNCHANGED <<ops, seen>> /\ imp' = [imp EXCEPT ![i] = IdleImport]
  BY DEF Commit
<1>2. PICK f \in Files : f = imp[i].file
  BY <1>1 DEF BooksOK, ImportOK
<1>3. PICK result \in Results : result = imp[i].result
  BY DEF BooksOK, FilesOK, Imports
<1>4. PICK old \in [status : {None, "failed", "imported"}, version : Nat] : old = files[f]
  BY DEF BooksOK, FilesOK
<1>5. PICK new : new = [status |-> "imported", version |-> old.version + 2]
  OBVIOUS
<1>6. /\ files' = [files EXCEPT ![f] = new]
      /\ lock' = [lock EXCEPT ![f] = None]
      /\ runs' = [runs EXCEPT ![f] = runs[f] + 1]
      /\ discs' = discs \cup result.opened
      /\ posted' = posted \cup {<<f, n>> : n \in result.matched}
  BY <1>2, <1>3, <1>4, <1>5 DEF Commit, BooksOK, FilesOK
<1>7. /\ new \in [status : {None, "failed", "imported"}, version : Nat]
      /\ new.status = "imported" /\ new.version = old.version + 2
  BY <1>4, <1>5
<1>8. /\ files' \in [Files -> [status : {None, "failed", "imported"}, version : Nat]]
      /\ files'[f] = new /\ \A g \in Files \ {f} : files'[g] = files[g]
  BY <1>6, <1>7 DEF BooksOK, FilesOK
<1>9. runs[f] = 0
  <2>1. files[f].status # "imported"
    BY <1>1, <1>2 DEF BooksOK, ImportOK, Importing
  <2>2. runs[f] \in Nat /\ runs[f] <= 1 /\ runs[f] # 1
    BY <2>1 DEF BooksOK, FilesOK, RunsOK
  <2> QED
    BY <2>2
<1>10. runs' \in [Files -> Nat] /\ runs'[f] = 1 /\ \A g \in Files \ {f} : runs'[g] = runs[g]
  BY <1>6, <1>9 DEF BooksOK, FilesOK
<1>11. /\ imp' \in [Importers -> Imports] /\ imp'[i] = IdleImport
       /\ \A j \in Importers \ {i} : imp'[j] = imp[j]
  BY <1>1, IdleFacts DEF BooksOK, FilesOK
<1>12. /\ result.matched \subseteq MatchableLines(f) /\ result.opened \subseteq Discrepancies
       /\ \A d \in result.opened : DiscOK(d)
       /\ \A n \in MatchableLines(f) : Accounted(f, n, result.matched, result.opened \cup discs, seen[f])
  <2>1. result.opened \subseteq Discrepancies
    BY <1>3 DEF Results
  <2> QED
    BY <1>1, <1>2, <1>3, <2>1 DEF BooksOK, ResultOK
<1>13. lock[f] = i
  BY <1>1, <1>2 DEF BooksOK, LockOK, Importing
<1>14. \A g \in Files : lock[g] = i => g = f
  BY <1>2 DEF BooksOK, LockOK
<1>15. /\ lock' \in [Files -> Importers \cup {None}]
       /\ \A g \in Files : lock'[g] = IF lock[g] = i THEN None ELSE lock[g]
  BY <1>6, <1>13, <1>14 DEF BooksOK, FilesOK
<1>16. LockOK'
  BY <1>1, <1>15, IdleFacts, LockReleased
<1>17. posted' \subseteq Files \X Lines
  <2>1. result.matched \subseteq Lines
    BY <1>12, LineFacts
  <2> QED
    BY <1>6, <2>1 DEF BooksOK, FilesOK
<1>18. FilesOK'
  BY <1>1, <1>8, <1>10, <1>11, <1>15, <1>17 DEF BooksOK, FilesOK
<1>19. DiscsOK'
  BY <1>1, <1>6, <1>12 DEF BooksOK, DiscsOK
<1>20. ASSUME NEW j \in Importers
       PROVE  ImportOK(imp[j])' /\ ResultOK(imp[j])'
  <2>1. PICK t : t = imp'[j]
    OBVIOUS
  <2>2. ImportOK(t) /\ ResultOK(t)
    BY <1>11, <2>1, IdleFacts, IdleOK DEF BooksOK
  <2>3. t \in Imports /\ (t.pc # "idle" => t.file \in Files)
    BY <1>11, <2>1, <2>2 DEF ImportOK
  <2>4. ASSUME t.pc \in Importing
        PROVE  t.file # f
    <3>1. j # i /\ t = imp[j]
      BY <1>11, <2>1, <2>4, IdleFacts DEF Importing
    <3> QED
      BY <1>13, <2>4, <3>1 DEF BooksOK, LockOK
  <2>5. ASSUME t.pc = "reopen"
        PROVE  /\ t.base <= files'[t.file].version /\ files'[t.file].status # None
               /\ t.base = files'[t.file].version => files'[t.file].status = "failed"
    <3>1. CASE t.file = f
      <4>1. t.base \in Nat /\ old.version \in Nat /\ t.base <= old.version
        BY <1>4, <2>2, <2>3, <2>5, <3>1 DEF ImportOK, Imports
      <4>2. t.base < new.version /\ new.version \in Nat
        BY <1>7, <4>1
      <4> QED
        BY <1>7, <1>8, <3>1, <4>1, <4>2 DEF None
    <3>2. CASE t.file # f
      BY <1>8, <2>2, <2>3, <2>5, <3>2 DEF ImportOK
    <3> QED
      BY <3>1, <3>2
  <2>6. ASSUME t.pc \in Importing
        PROVE  files'[t.file].status # "imported"
    BY <1>8, <2>2, <2>3, <2>4, <2>6 DEF ImportOK, Importing
  <2>7. ImportOK(t)'
    BY <2>3, <2>5, <2>6 DEF ImportOK
  <2>8. ResultOK(t)'
    BY <1>1, <1>6, <2>2 DEF ResultOK, Accounted
  <2> QED
    BY <2>1, <2>7, <2>8 DEF ImportOK, ResultOK
<1>21. RunsOK'
  BY <1>7, <1>8, <1>10 DEF BooksOK, RunsOK
<1>22. PostedOK'
  <2>1. ASSUME NEW x \in posted'
        PROVE  x[2] \in MatchableLines(x[1]) /\ runs'[x[1]] = 1
    <3>1. CASE x \in posted
      <4>1. x[1] \in Files /\ x[2] \in MatchableLines(x[1]) /\ runs[x[1]] = 1
        BY <3>1 DEF BooksOK, FilesOK, PostedOK
      <4> QED
        BY <1>10, <4>1
    <3>2. CASE x \notin posted
      <4>1. PICK n \in result.matched : x = <<f, n>>
        BY <1>6, <2>1, <3>2
      <4> QED
        BY <1>10, <1>12, <4>1
    <3> QED
      BY <3>1, <3>2
  <2> QED
    BY <2>1 DEF PostedOK
<1>23. LinesAccounted'
  <2>1. ASSUME NEW g \in Files, files'[g].status = "imported", NEW n \in MatchableLines(g)
        PROVE  <<g, n>> \in posted' \/ \E d \in discs' : Covers(d, g, n, seen'[g])
    <3>1. CASE g = f
      <4>1. Accounted(f, n, result.matched, result.opened \cup discs, seen[f])
        BY <1>12, <2>1, <3>1
      <4> QED
        BY <1>1, <1>6, <3>1, <4>1 DEF Accounted
    <3>2. CASE g # f
      BY <1>1, <1>6, <1>8, <2>1, <3>2 DEF BooksOK, LinesAccounted, Covers
    <3> QED
      BY <3>1, <3>2
  <2> QED
    BY <2>1 DEF LinesAccounted, Covers
<1> QED
  BY <1>16, <1>18, <1>19, <1>20, <1>21, <1>22, <1>23 DEF BooksOK

-----------------------------------------------------------------------------
(* The steps of an operator                                                *)

\* Two states of one discrepancy.
SameDifference(c, d) == c.run = d.run /\ c.line = d.line /\ c.kind = d.kind /\ c.ref = d.ref

\* Operators leave files and imports alone, and no discrepancy loses its identity or its kind.
LEMMA OperatorMoves ==
  ASSUME BooksOK, UNCHANGED <<files, lock, runs, posted, imp, seen>>, DiscsOK',
         \A d \in discs : \E c \in discs' : SameDifference(c, d)
  PROVE  BooksOK'
<1>1. FilesOK' /\ LockOK' /\ RunsOK' /\ PostedOK'
  BY DEF BooksOK, FilesOK, LockOK, RunsOK, PostedOK
<1>2. ASSUME NEW c, NEW d, SameDifference(c, d), NEW f, NEW n, NEW open, Covers(d, f, n, open)
      PROVE  Covers(c, f, n, open)
  BY <1>2 DEF SameDifference, Covers, Id
<1>3. ASSUME NEW i \in Importers
      PROVE  ImportOK(imp[i])' /\ ResultOK(imp[i])'
  <2>1. ImportOK(imp[i])'
    BY DEF BooksOK, ImportOK
  <2>2. PICK s : s = imp[i]
    OBVIOUS
  <2>3. ASSUME s.pc = "commit", NEW n \in MatchableLines(s.file)
        PROVE  Accounted(s.file, n, s.result.matched, s.result.opened \cup discs', seen[s.file])
    <3>1. Accounted(s.file, n, s.result.matched, s.result.opened \cup discs, seen[s.file])
      BY <2>2, <2>3 DEF BooksOK, ResultOK
    <3> QED
      BY <1>2, <3>1 DEF Accounted
  <2>4. ResultOK(s)
    BY <2>2 DEF BooksOK
  <2>5. ResultOK(s)'
    BY <2>3, <2>4 DEF ResultOK
  <2> QED
    BY <2>1, <2>2, <2>5 DEF ResultOK
<1>4. ASSUME NEW f \in Files, files'[f].status = "imported", NEW n \in MatchableLines(f)
      PROVE  <<f, n>> \in posted' \/ \E d \in discs' : Covers(d, f, n, seen'[f])
  <2>1. <<f, n>> \in posted \/ \E d \in discs : Covers(d, f, n, seen[f])
    BY <1>4 DEF BooksOK, LinesAccounted, Covers
  <2> QED
    BY <1>2, <2>1
<1>5. LinesAccounted'
  BY <1>4 DEF LinesAccounted, Covers
<1> QED
  BY <1>1, <1>3, <1>5 DEF BooksOK

\* ResolveDiscrepancy's read.
LEMMA ResolveLoadStep ==
  ASSUME BooksOK, NEW o \in Operators, NEW d \in discs, ResolveLoad(o, d)
  PROVE  BooksOK'
<1>1. PICK s : s = [pc |-> "save", copy |-> d]
  OBVIOUS
<1>2. /\ ops' = [ops EXCEPT ![o] = s] /\ d.status = "open"
      /\ UNCHANGED <<files, lock, runs, posted, imp, seen>> /\ discs' = discs
  BY <1>1 DEF ResolveLoad
<1>3. d \in Discrepancies /\ DiscOK(d)
  BY DEF BooksOK, DiscsOK
<1>4. s \in Ops /\ s.copy = d
  BY <1>1, <1>3 DEF Ops
<1>5. /\ ops' \in [Operators -> Ops] /\ ops'[o] = s
      /\ \A q \in Operators \ {o} : ops'[q] = ops[q]
  BY <1>2, <1>4 DEF BooksOK, DiscsOK
<1>6. DiscsOK'
  BY <1>2, <1>3, <1>4, <1>5 DEF BooksOK, DiscsOK
<1> QED
  BY <1>2, <1>6, OperatorMoves DEF SameDifference

\* What the UPDATE of ResolveSave leaves of a discrepancy.
Saved(d, copy) ==
    IF CanClose(d, copy)
      THEN [d EXCEPT !.status = "closed", !.version = copy.version + 1, !.told = @ + 1]
      ELSE d

\* A copy that was read open closes what is still open, and nothing else.
LEMMA SavedFacts ==
  ASSUME NEW d \in Discrepancies, DiscOK(d), NEW copy \in Discrepancies, DiscOK(copy),
         copy.status = "open"
  PROVE  /\ Saved(d, copy) \in Discrepancies /\ DiscOK(Saved(d, copy))
         /\ SameDifference(Saved(d, copy), d)
<1>1. copy.version = 0 /\ d.version \in Nat /\ d.told \in Nat
  BY DEF DiscOK, Discrepancies
<1>2. CASE ~CanClose(d, copy)
  BY <1>2 DEF Saved, SameDifference
<1>3. CASE CanClose(d, copy)
  <2>1. d.version = 0 /\ d.told = 0
    BY <1>1, <1>3 DEF CanClose, DiscOK
  <2>2. PICK a : a = [d EXCEPT !.status = "closed"]
    OBVIOUS
  <2>3. a \in Discrepancies /\ a.status = "closed" /\ SameDifference(a, d) /\ a.told = 0
    BY <2>1, <2>2 DEF Discrepancies, SameDifference
  <2>4. PICK b : b = [a EXCEPT !.version = 1]
    OBVIOUS
  <2>5. /\ b \in Discrepancies /\ b.status = "closed" /\ SameDifference(b, d)
        /\ b.told = 0 /\ b.version = 1
    BY <2>3, <2>4 DEF Discrepancies, SameDifference
  <2>6. PICK c : c = [b EXCEPT !.told = 1]
    OBVIOUS
  <2>7. /\ c \in Discrepancies /\ c.status = "closed" /\ SameDifference(c, d)
        /\ c.told = 1 /\ c.version = 1
    BY <2>5, <2>6 DEF Discrepancies, SameDifference
  <2>8. Saved(d, copy) = c
    BY <1>1, <1>3, <2>1, <2>2, <2>4, <2>6 DEF Saved, Discrepancies
  <2> QED
    BY <2>7, <2>8 DEF DiscOK
<1> QED
  BY <1>2, <1>3

\* ResolveDiscrepancy's write.
LEMMA ResolveSaveStep ==
  ASSUME BooksOK, NEW o \in Operators, ResolveSave(o)
  PROVE  BooksOK'
<1>1. /\ ops[o].pc = "save" /\ ops' = [ops EXCEPT ![o] = IdleOp]
      /\ UNCHANGED <<files, lock, runs, posted, imp, seen>>
  BY DEF ResolveSave
<1>2. PICK copy : copy = ops[o].copy
  OBVIOUS
<1>3. copy \in Discrepancies /\ DiscOK(copy) /\ copy.status = "open"
  BY <1>1, <1>2 DEF BooksOK, DiscsOK
<1>4. discs' = {Saved(d, copy) : d \in discs}
  BY <1>2 DEF ResolveSave, Saved
<1>5. ASSUME NEW d \in discs
      PROVE  /\ Saved(d, copy) \in Discrepancies /\ DiscOK(Saved(d, copy))
             /\ SameDifference(Saved(d, copy), d)
  BY <1>3, SavedFacts DEF BooksOK, DiscsOK
<1>6. /\ ops' \in [Operators -> Ops] /\ ops'[o] = IdleOp
      /\ \A q \in Operators \ {o} : ops'[q] = ops[q]
  BY <1>1, IdleFacts DEF BooksOK, DiscsOK
<1>7. DiscsOK'
  <2>1. discs' \subseteq Discrepancies /\ \A d \in discs' : DiscOK(d)
    BY <1>4, <1>5
  <2>2. \A q \in Operators : ops'[q].pc = "save" =>
          ops'[q].copy \in Discrepancies /\ DiscOK(ops'[q].copy) /\ ops'[q].copy.status = "open"
    BY <1>6, IdleFacts DEF BooksOK, DiscsOK
  <2> QED
    BY <1>6, <2>1, <2>2 DEF DiscsOK, DiscOK
<1>8. \A d \in discs : \E c \in discs' : SameDifference(c, d)
  BY <1>4, <1>5
<1> QED
  BY <1>1, <1>7, <1>8, OperatorMoves

-----------------------------------------------------------------------------
(* The theorems                                                            *)

\* The invariant holds at the start.
LEMMA InitInv == Init => IInv
<1> SUFFICES ASSUME Init
             PROVE  IInv
  OBVIOUS
<1>1. ProjectorOK
  BY DEF Init, ProjectorOK
<1>2. RecordIsNewest
  BY DEF Init, RecordIsNewest
<1>3. NoFile \in [status : {None, "failed", "imported"}, version : Nat] /\ NoFile.status # "imported"
  BY DEF NoFile, None
<1>4. FilesOK
  BY <1>3, IdleFacts DEF Init, FilesOK
<1>5. \A i \in Importers : imp[i] = IdleImport
  BY DEF Init
<1>6. \A o \in Operators : ops[o] = IdleOp
  BY DEF Init
<1>7. DiscsOK
  BY <1>6, IdleFacts DEF Init, DiscsOK
<1>8. LockOK
  BY <1>5, IdleFacts, NoneAssumption DEF Init, LockOK, Importing
<1>9. \A i \in Importers : ImportOK(imp[i]) /\ ResultOK(imp[i])
  BY <1>5, IdleFacts, IdleOK
<1>10. RunsOK /\ PostedOK /\ LinesAccounted
  BY <1>3 DEF Init, RunsOK, PostedOK, LinesAccounted
<1> QED
  BY <1>1, <1>2, <1>4, <1>7, <1>8, <1>9, <1>10 DEF IInv

\* Every step keeps it.
LEMMA NextInv == IInv /\ [Next]_vars => IInv'
<1> SUFFICES ASSUME IInv, [Next]_vars
             PROVE  IInv'
  OBVIOUS
<1>1. ProjectorOK /\ RecordIsNewest /\ BooksOK
  BY Halves
<1>2. ASSUME UNCHANGED <<processed, records, aged>>, BooksOK'
      PROVE  IInv'
  BY <1>1, <1>2, RecordsKept DEF IInv, BooksOK
<1>3. CASE UNCHANGED vars
  BY <1>1, <1>2, <1>3, BooksKept DEF vars
<1>4. CASE (\E e \in Events : Project(e)) \/ (\E p \in Payments : Age(p))
  BY <1>4, ProjectStep, AgeStep
<1>5. ASSUME NEW i \in Importers,
             \/ \E f \in Files : FindImported(i, f)
             \/ RecordParseFailure(i) \/ LoadFile(i) \/ CreateFile(i) \/ ReopenFile(i)
             \/ Match(i) \/ Commit(i) \/ Abort(i)
      PROVE  IInv'
  <2>1. UNCHANGED <<processed, records, aged>>
    BY <1>5 DEF FindImported, RecordParseFailure, LoadFile, CreateFile, ReopenFile, Match, Commit, Abort
  <2>2. BooksOK'
    BY <1>1, <1>5, FindImportedStep, ParseFailureStep, LoadFileStep, TakeFileStep, MatchStep,
       CommitStep, AbortStep
  <2> QED
    BY <1>2, <2>1, <2>2
<1>6. ASSUME NEW o \in Operators, ResolveSave(o) \/ \E d \in discs : ResolveLoad(o, d)
      PROVE  IInv'
  <2>1. UNCHANGED <<processed, records, aged>>
    BY <1>6 DEF ResolveSave, ResolveLoad
  <2>2. BooksOK'
    BY <1>1, <1>6, ResolveSaveStep, ResolveLoadStep
  <2> QED
    BY <1>2, <2>1, <2>2
<1> QED
  BY <1>3, <1>4, <1>5, <1>6 DEF Next

\* The invariant holds throughout.
LEMMA Inductive == Spec => []IInv
BY InitInv, NextInv, PTL DEF Spec

\* Every state is well typed; a file's row is locked by exactly the import that is past
\* loadOrCreateFile, and nobody sees a file that is being imported.
THEOREM TypeCorrect == Spec => []TypeOK
<1>1. IInv => TypeOK
  <2> SUFFICES ASSUME IInv
               PROVE  TypeOK
    OBVIOUS
  <2>1. \A p \in Payments : records[p] = NoRecord \/ records[p].seq \in {e.seq : e \in Events}
    <3>1. ASSUME NEW p \in Payments
          PROVE  records[p] = NoRecord \/ \E e \in Events : records[p] = RecordOf(e)
      BY DEF IInv, ProjectorOK
    <3>2. \A e \in Events : RecordOf(e).seq = e.seq
      BY DEF RecordOf
    <3> QED
      BY <3>1, <3>2
  <2>2. processed \subseteq Events /\ aged \subseteq {p \in Payments : records[p] # NoRecord}
    BY DEF IInv, ProjectorOK
  <2>3. ASSUME NEW f \in Files
        PROVE  /\ files[f].status \in {None, "failed", "imported"}
               /\ lock[f] \in Importers \cup {None}
               /\ \A i \in Importers :
                    lock[f] = i <=> imp[i].file = f /\ imp[i].pc \in {"match", "commit"}
               /\ runs[f] \in Nat
    BY DEF IInv, FilesOK, LockOK, Importing
  <2>4. \A d \in discs : d.kind \in {"missing_in_ledger", "missing_in_psp",
                                     "amount_mismatch", "status_mismatch"}
    BY DEF IInv, DiscsOK, Discrepancies, Kinds
  <2>5. ASSUME NEW x \in posted
        PROVE  \E f \in Files : \E n \in MatchableLines(f) : x = <<f, n>>
    <3>1. x \in Files \X Lines /\ x[2] \in MatchableLines(x[1])
      BY DEF IInv, FilesOK, PostedOK
    <3>2. x = <<x[1], x[2]>> /\ x[1] \in Files
      BY <3>1
    <3> QED
      BY <3>1, <3>2
  <2>6. \A o \in Operators : ops[o].pc \in {"idle", "save"}
    BY DEF IInv, DiscsOK, Ops
  <2> QED
    BY <2>1, <2>2, <2>3, <2>4, <2>5, <2>6 DEF TypeOK
<1> QED
  BY <1>1, Inductive, PTL

\* Any number of imports of one file, racing, failing to parse, crashing and repeated, leave it
\* with one run, exactly when it is imported, and nothing is posted before.
THEOREM FileImportedOnce == Spec => []ImportedOnce
<1>1. IInv => ImportedOnce
  <2> SUFFICES ASSUME IInv, NEW f \in Files
               PROVE  /\ runs[f] <= 1
                      /\ files[f].status = "imported" <=> runs[f] = 1
                      /\ (\E n \in DOMAIN LinesOf[f] : <<f, n>> \in posted) => runs[f] = 1
    BY DEF ImportedOnce
  <2>1. ASSUME NEW n, <<f, n>> \in posted
        PROVE  runs[f] = 1
    <3>1. runs[<<f, n>>[1]] = 1
      BY <2>1 DEF IInv, PostedOK
    <3> QED
      BY <3>1
  <2> QED
    BY <2>1 DEF IInv, RunsOK
<1> QED
  BY <1>1, Inductive, PTL

\* A payment's record is the newest of the events processed, in whatever order they came.
THEOREM NewestWins == Spec => []RecordIsNewest
<1>1. IInv => RecordIsNewest
  BY DEF IInv
<1> QED
  BY <1>1, Inductive, PTL

\* Every line of an imported file that takes part in the matching is posted, has a discrepancy of
\* its own, or is covered by one about its reference that its import found open, although operators
\* may close discrepancies between the matcher's reads and the commit and ever after.
THEOREM NoLineForgotten == Spec => []LinesAccounted
<1>1. IInv => LinesAccounted
  BY DEF IInv
<1> QED
  BY <1>1, Inductive, PTL

\* Any number of operators close a discrepancy once and announce it once.
THEOREM ClosedOnce == Spec => []ResolvedOnce
<1>1. IInv => ResolvedOnce
  BY DEF IInv, DiscsOK, DiscOK, ResolvedOnce
<1> QED
  BY <1>1, Inductive, PTL
=============================================================================
