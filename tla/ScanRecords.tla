----------------------------- MODULE ScanRecords -----------------------------
(***************************************************************************)
(* The saved answers of one user's scans (src/backend/app/ai/              *)
(* scan_records.py, one row per photo), the part of POST /scan that reads  *)
(* and writes them (api/scan.py, services/scan/records.py) and the         *)
(* corrections that refer to them (ai/scan_corrections.py).                *)
(*                                                                         *)
(* A request is one execution of the scan handler, followed by the save of *)
(* the "Add it yourself" entry its response may lead to.  An answer is     *)
(* named by the request whose provider call produced it; so is a row id by *)
(* the request whose insert made it.  Statements that may wait for a row   *)
(* lock are separate actions, so the steps of overlapping saves interleave *)
(* inside their transactions.                                              *)
(***************************************************************************)
EXTENDS Naturals, FiniteSets

CONSTANTS
    Requests,      \* the executions of POST /scan
    Photos,        \* fingerprints (normalised bytes)
    Enhanced,      \* requests for an enhanced scan
    MaxPerUser,    \* scan_records.max_per_user
    Correcting,    \* requests from whose response the user saves an entry
    Purging,       \* whether the daily purge runs
    Nobody,        \* no request: no answer, no row id, no lease holder
    NoRow,         \* the photo has no row
    MaxAge,        \* bound on the stamps that get past the retention
    MaxFaults      \* bound on failed or unacknowledged transactions in a run

ASSUME ConstantsOK ==
    /\ IsFiniteSet(Requests) /\ Enhanced \subseteq Requests
    /\ IsFiniteSet(Photos)
    /\ Nobody \notin Requests
    /\ Correcting \subseteq Requests /\ Purging \in BOOLEAN
    /\ MaxPerUser \in Nat \ {0} /\ MaxAge \in Nat /\ MaxFaults \in Nat

(* A row: its id, the answer it holds, when that answer was stamped        *)
(* (created_at), and the answer its enrichment was computed from.          *)
Rows == [id : Requests, answer : Requests, created : Nat,
         enriched : Requests \cup {Nobody}]

ASSUME NoRowOK == NoRow \notin Rows

VARIABLES
    \* the requests
    pc,          \* the next step of the handler
    photo,       \* the photo it was sent
    answer,      \* the answer it works with: its own, or the one it repeats
    stamp,       \* created_at of that answer's AI step (0: nothing saved)
    cut,         \* the retention cutoff when its save began
    pending,     \* the row its open save transaction will leave
    victims,     \* the row ids its save evicts
    recordId,    \* scan_record_id of its response
    reading,     \* the answer its correction was compared with
    \* the database and the clock
    row,         \* table scan_records, committed
    open,        \* requests whose save transaction holds its row lock
    lease,       \* the holder of the in-flight lease (table ai_inflight)
    corrections, \* table scan_corrections: the record ids that have a row
    aged,        \* those whose row is older than RAW_RETENTION_DAYS
    doomed,      \* row ids the running purge statement has selected
    clock,       \* the last stamp given out
    expiry,      \* stamps up to this one are past the retention
    faults,      \* faults so far
    \* history
    overlapped,  \* saves that another save's commit overlapped
    counted,     \* what went into scan_corrections_daily
    purges       \* how often the ledger's purge removed a record's correction

requestVars == <<pc, photo, answer, stamp, cut, recordId, reading>>
saveVars    == <<pending, victims, open, overlapped>>
correctionVars == <<corrections, aged, counted, purges>>
tableVars   == <<row, correctionVars>>
vars == <<requestVars, saveVars, tableVars, lease, doomed, clock, expiry, faults>>

Phases == {"new", "looked", "calling", "answered", "stamped", "saving",
           "evicting", "saved", "naming", "serving", "shown", "correcting",
           "done"}

TypeOK ==
    /\ pc \in [Requests -> Phases]
    /\ photo \in [Requests -> Photos]
    /\ answer \in [Requests -> Requests \cup {Nobody}]
    /\ stamp \in [Requests -> Nat] /\ cut \in [Requests -> Nat]
    /\ pending \in [Requests -> Rows \cup {NoRow}]
    /\ victims \in [Requests -> SUBSET Requests]
    /\ recordId \in [Requests -> Requests \cup {Nobody}]
    /\ reading \in [Requests -> Requests \cup {Nobody}]
    /\ row \in [Photos -> Rows \cup {NoRow}]
    /\ open \subseteq Requests /\ overlapped \subseteq Requests
    /\ lease \in Requests \cup {Nobody}
    /\ corrections \subseteq Requests /\ aged \subseteq corrections
    /\ doomed \subseteq Requests
    /\ counted \subseteq [id : Requests, by : Requests, reading : Requests, after : Nat]
    /\ purges \in [Requests -> Nat]
    /\ clock \in Nat /\ expiry \in 0..clock /\ faults \in 0..MaxFaults

Init ==
    /\ pc = [q \in Requests |-> "new"]
    /\ photo \in [Requests -> Photos]
    /\ answer = [q \in Requests |-> Nobody]
    /\ stamp = [q \in Requests |-> 0]
    /\ cut = [q \in Requests |-> 0]
    /\ pending = [q \in Requests |-> NoRow]
    /\ victims = [q \in Requests |-> {}]
    /\ recordId = [q \in Requests |-> Nobody]
    /\ reading = [q \in Requests |-> Nobody]
    /\ row = [p \in Photos |-> NoRow]
    /\ open = {} /\ overlapped = {}
    /\ lease = Nobody
    /\ corrections = {} /\ aged = {} /\ doomed = {} /\ counted = {}
    /\ purges = [q \in Requests |-> 0]
    /\ clock = 0 /\ expiry = 0 /\ faults = 0

Becomes(q, phase) == pc' = [pc EXCEPT ![q] = phase]
Fault == faults < MaxFaults /\ faults' = faults + 1

(* lookup: the row exists and is younger than the retention.               *)
Valid(r) == r # NoRow /\ r.created > expiry
(* record_serves: an enhanced scan is answered only by an enhanced answer. *)
Serves(q, r) == Valid(r) /\ (q \in Enhanced => r.answer \in Enhanced)

(* Another save's open transaction has the lock of the photo's row.        *)
Locked(p, q) == \E o \in open \ {q} : photo[o] = p
IdsOf(rows) == {rows[p].id : p \in {x \in Photos : rows[x] # NoRow}}
Named(id) == CHOOSE p \in Photos : row[p] # NoRow /\ row[p].id = id

----------------------------------------------------------------------------
(* The scan up to its answer.                                              *)

(* _serve_saved_answer: the row answers the request, which works with a    *)
(* copy of it from here on; an enrichment that is there is served as it is.*)
Repeat(q) ==
    /\ pc[q] = "new"
    /\ Serves(q, row[photo[q]])
    /\ LET r == row[photo[q]]
       IN  /\ answer' = [answer EXCEPT ![q] = r.answer]
           /\ stamp' = [stamp EXCEPT ![q] = r.created]
           /\ recordId' = [recordId EXCEPT ![q] = r.id]
           /\ Becomes(q, IF r.enriched # Nobody THEN "shown" ELSE "serving")
    /\ UNCHANGED <<photo, cut, reading, saveVars, tableVars, lease, doomed, clock, expiry, faults>>

(* Nothing saved answers it, or the lookup failed: the normal path.        *)
Look(q) ==
    /\ pc[q] = "new"
    /\ \/ ~Serves(q, row[photo[q]]) /\ UNCHANGED faults
       \/ Serves(q, row[photo[q]]) /\ Fault
    /\ Becomes(q, "looked")
    /\ UNCHANGED <<photo, answer, stamp, cut, recordId, reading, saveVars, tableVars, lease, doomed, clock, expiry>>

(* _reserve_scan_quota, of which only the lease matters here: one call at  *)
(* a time (ScanQuota!OneCallPerUser), else 429 scan_in_progress.           *)
Reserve(q) ==
    /\ pc[q] = "looked"
    /\ IF lease = Nobody
         THEN lease' = q /\ Becomes(q, "calling")
         ELSE Becomes(q, "done") /\ UNCHANGED lease
    /\ UNCHANGED <<photo, answer, stamp, cut, recordId, reading, saveVars, tableVars, doomed, clock, expiry, faults>>

(* _run_provider: the call ends and the settle frees the lease.  Only an   *)
(* answer with outcome ok is saved; a refusal or a truncated reply is      *)
(* shown; any other end is an error response.                              *)
Answer(q, end) ==
    /\ pc[q] = "calling"
    /\ lease' = Nobody
    /\ answer' = [answer EXCEPT ![q] = IF end = "done" THEN Nobody ELSE q]
    /\ Becomes(q, end)
    /\ UNCHANGED <<photo, stamp, cut, recordId, reading, saveVars, tableVars, doomed, clock, expiry, faults>>

----------------------------------------------------------------------------
(* save_ai_step, one transaction, begun after the lease is free.           *)

(* created = now: taken before the first statement runs (and may wait).    *)
Stamp(q) ==
    /\ pc[q] = "answered"
    /\ clock' = clock + 1
    /\ stamp' = [stamp EXCEPT ![q] = clock']
    /\ cut' = [cut EXCEPT ![q] = expiry]
    /\ Becomes(q, "stamped")
    /\ UNCHANGED <<photo, answer, recordId, reading, saveVars, tableVars, lease, doomed, expiry, faults>>

(* The WHERE of the upsert: what is there is not a valid enhanced answer,  *)
(* or the new answer is enhanced too.                                      *)
Replaces(q, r) ==
    \/ r.answer \notin Enhanced
    \/ q \in Enhanced
    \/ r.created <= cut[q]

(* The row after the upsert: inserted under a new id, replaced under the   *)
(* old id with its enrichment cleared, or left as it is (and locked).      *)
Upserted(q) ==
    LET r == row[photo[q]]
        new == [id |-> q, answer |-> answer[q], created |-> stamp[q], enriched |-> Nobody]
    IN  IF r = NoRow THEN new
        ELSE IF Replaces(q, r) THEN [new EXCEPT !.id = r.id]
        ELSE r

Upsert(q) ==
    /\ pc[q] = "stamped"
    /\ ~Locked(photo[q], q)
    /\ pending' = [pending EXCEPT ![q] = Upserted(q)]
    /\ open' = open \cup {q}
    /\ Becomes(q, "saving")
    /\ UNCHANGED <<photo, answer, stamp, cut, recordId, reading, victims, overlapped, tableVars, lease, doomed, clock, expiry, faults>>

(* Mutated form: the rows to evict are selected before the upsert.         *)
BeyondCapBefore(q) ==
    {row[p].id : p \in {x \in Photos : row[x] # NoRow
        /\ Cardinality({y \in Photos : row[y] # NoRow /\ row[y].created > row[x].created}) >= MaxPerUser}}

(* The rows beyond the cap, newest first, among the rows this statement    *)
(* sees: the committed ones and its own.                                   *)
BeyondCap(q) ==
    LET seen == [row EXCEPT ![photo[q]] = pending[q]]
        there == {p \in Photos : seen[p] # NoRow}
        newer(p) == {x \in there : seen[x].created > seen[p].created}
    IN  {seen[p].id : p \in {x \in there : Cardinality(newer(x)) >= MaxPerUser}}

Evict(q) ==
    /\ pc[q] = "saving"
    /\ victims' = [victims EXCEPT ![q] = BeyondCap(q)]
    /\ Becomes(q, "evicting")
    /\ UNCHANGED <<photo, answer, stamp, cut, recordId, reading, pending, open, overlapped, tableVars, lease, doomed, clock, expiry, faults>>

(* The delete waits for the row of a victim that another save has locked.  *)
WaitsFor(q, o) ==
    /\ pc[q] = "evicting" /\ o \in open \ {q}
    /\ row[photo[o]] # NoRow /\ row[photo[o]].id \in victims[q]

(* Rows go by id: PostgreSQL re-checks a row it waited for against the ids *)
(* the subquery returned, not against the order or age they came from.     *)
Without(rows, ids) ==
    [p \in Photos |-> IF rows[p] # NoRow /\ rows[p].id \in ids THEN NoRow ELSE rows[p]]
Cascade(rows) ==
    corrections' = corrections \cap IdsOf(rows) /\ aged' = aged \cap IdsOf(rows)

Commit(q) ==
    /\ pc[q] = "evicting" /\ q \in open
    /\ ~\E o \in Requests : WaitsFor(q, o)
    /\ row' = Without([row EXCEPT ![photo[q]] = pending[q]], victims[q])
    /\ Cascade(row')
    /\ open' = open \ {q}
    /\ overlapped' = (overlapped \cup open) \ {q}
    /\ pending' = [pending EXCEPT ![q] = NoRow]
    /\ victims' = [victims EXCEPT ![q] = {}]

Save(q) ==
    /\ Commit(q)
    /\ Becomes(q, "saved")
    /\ UNCHANGED <<photo, answer, stamp, cut, recordId, reading, counted, purges, lease, doomed, clock, expiry, faults>>

(* services/scan/records.save_ai_step: any exception means "not saved", so *)
(* the response names no record and the enrichment is not kept.            *)
NotSaved(q) ==
    /\ stamp' = [stamp EXCEPT ![q] = 0]
    /\ Becomes(q, "shown")

SaveUnacknowledged(q) ==
    /\ Commit(q) /\ Fault
    /\ NotSaved(q)
    /\ UNCHANGED <<photo, answer, cut, recordId, reading, counted, purges, lease, doomed, clock, expiry>>

(* Saves that wait for one another: PostgreSQL ends one of them.           *)
Deadlocked(q) ==
    \E S \in SUBSET open : q \in S /\ \A s \in S : \E o \in S : WaitsFor(s, o)

(* Mutated form: the exception is caught and the transaction left open.    *)
SaveFailsOpen(q) ==
    /\ pc[q] \in {"saving", "evicting"}
    /\ Deadlocked(q) \/ faults < MaxFaults
    /\ NotSaved(q)
    /\ UNCHANGED <<photo, answer, cut, recordId, reading, saveVars, tableVars, lease, doomed, clock, expiry, faults>>

SaveFails(q) ==
    /\ pc[q] \in {"saving", "evicting"}
    /\ \/ Deadlocked(q) /\ UNCHANGED faults
       \/ Fault
    /\ open' = open \ {q}
    /\ pending' = [pending EXCEPT ![q] = NoRow]
    /\ victims' = [victims EXCEPT ![q] = {}]
    /\ NotSaved(q)
    /\ UNCHANGED <<photo, answer, cut, recordId, reading, overlapped, tableVars, lease, doomed, clock, expiry>>

----------------------------------------------------------------------------
(* After the AI step: enrichment, the record's id, the response.           *)

(* Mutated form: the enrichment is matched on the fingerprint only.        *)
HoldsAny(q) == row[photo[q]] # NoRow

(* save_enrichment_step's WHERE: the row still holds the answer the books  *)
(* were looked up for.                                                     *)
Holds(q) == row[photo[q]] # NoRow /\ row[photo[q]].created = stamp[q]

(* Every lookup finished: the enrichment is stored if the row still holds  *)
(* the answer; for a repeat the response then follows.                     *)
Enrich(q) ==
    /\ pc[q] \in {"saved", "serving"}
    /\ ~Locked(photo[q], q)
    /\ row' = IF Holds(q) THEN [row EXCEPT ![photo[q]].enriched = answer[q]] ELSE row
    /\ Becomes(q, IF pc[q] = "saved" THEN "naming" ELSE "shown")
    /\ UNCHANGED <<photo, answer, stamp, cut, recordId, reading, saveVars, correctionVars, lease, doomed, clock, expiry, faults>>

(* A lookup did not finish (or the save of its result failed): the step    *)
(* stays missing.                                                          *)
EnrichLater(q) ==
    /\ pc[q] \in {"saved", "serving"}
    /\ Becomes(q, IF pc[q] = "saved" THEN "naming" ELSE "shown")
    /\ UNCHANGED <<photo, answer, stamp, cut, recordId, reading, saveVars, tableVars, lease, doomed, clock, expiry, faults>>

(* record_id: the id of the row, if it holds this very answer.             *)
Name(q) ==
    /\ pc[q] = "naming"
    /\ recordId' = [recordId EXCEPT ![q] = IF Holds(q) THEN row[photo[q]].id ELSE Nobody]
    /\ Becomes(q, "shown")
    /\ UNCHANGED <<photo, answer, stamp, cut, reading, saveVars, tableVars, lease, doomed, clock, expiry, faults>>

----------------------------------------------------------------------------
(* scan_corrections.record, for an entry the user saved from the response. *)

(* lookup_by_id: the reading is taken from the row the reference names.    *)
CorrectRead(q) ==
    /\ q \in Correcting
    /\ pc[q] = "shown" /\ recordId[q] # Nobody
    /\ IF recordId[q] \in IdsOf(row) /\ Valid(row[Named(recordId[q])])
         THEN /\ reading' = [reading EXCEPT ![q] = row[Named(recordId[q])].answer]
              /\ Becomes(q, "correcting")
         ELSE Becomes(q, "done") /\ UNCHANGED reading
    /\ UNCHANGED <<photo, answer, stamp, cut, recordId, saveVars, tableVars, lease, doomed, clock, expiry, faults>>

(* What a correction adds to the day's totals.                             *)
Counted(q) == [id |-> recordId[q], by |-> q, reading |-> reading[q], after |-> purges[recordId[q]]]

(* Mutated form: the totals are added to without looking whether the       *)
(* insert found the candidate there already.                               *)
CorrectWriteAgain(q) ==
    /\ pc[q] = "correcting"
    /\ IF recordId[q] \in IdsOf(row)
         THEN corrections' = corrections \cup {recordId[q]} /\ counted' = counted \cup {Counted(q)}
         ELSE UNCHANGED <<corrections, counted>>
    /\ Becomes(q, "done")
    /\ UNCHANGED <<photo, answer, stamp, cut, recordId, reading, saveVars, row, aged, purges, lease, doomed, clock, expiry, faults>>

(* The insert (foreign key, unique per record and candidate) and, when it  *)
(* inserted a row, the day's totals, in one transaction.                   *)
CorrectWrite(q) ==
    /\ pc[q] = "correcting"
    /\ IF recordId[q] \in IdsOf(row) \ corrections
         THEN corrections' = corrections \cup {recordId[q]} /\ counted' = counted \cup {Counted(q)}
         ELSE UNCHANGED <<corrections, counted>>
    /\ Becomes(q, "done")
    /\ UNCHANGED <<photo, answer, stamp, cut, recordId, reading, saveVars, row, aged, purges, lease, doomed, clock, expiry, faults>>

----------------------------------------------------------------------------
(* Retention.                                                              *)

Age ==
    /\ expiry < clock /\ expiry < MaxAge
    /\ expiry' = expiry + 1
    /\ UNCHANGED <<requestVars, saveVars, tableVars, lease, doomed, clock, faults>>

(* purge_old: one DELETE ... WHERE id IN (SELECT ... created_at <= cutoff);*)
(* it selects the expired rows, then waits for those a save has locked.    *)
PurgeSelect ==
    /\ Purging /\ doomed = {}
    /\ doomed' = {row[p].id : p \in {x \in Photos : row[x] # NoRow /\ ~Valid(row[x])}}
    /\ doomed' # {}
    /\ UNCHANGED <<requestVars, saveVars, tableVars, lease, clock, expiry, faults>>

PurgeDelete ==
    /\ doomed # {}
    /\ ~\E o \in open : row[photo[o]] # NoRow /\ row[photo[o]].id \in doomed
    /\ row' = Without(row, doomed)
    /\ Cascade(row')
    /\ doomed' = {}
    /\ UNCHANGED <<requestVars, saveVars, counted, purges, lease, clock, expiry, faults>>

(* RAW_RETENTION_DAYS pass, for every correction that has a row.  A re-scan *)
(* keeps the record's id and makes its answer valid again, so the record   *)
(* may well outlive them.                                                  *)
AgeCorrections ==
    /\ Purging /\ aged # corrections
    /\ aged' = corrections
    /\ UNCHANGED <<requestVars, saveVars, row, corrections, counted, purges, lease, doomed, clock, expiry, faults>>

(* _purge_scan_corrections: one batch of the rows older than that goes,     *)
(* whatever becomes of their records.                                      *)
PurgeCorrections ==
    /\ Purging
    /\ \E batch \in SUBSET aged \ {{}} :
          /\ corrections' = corrections \ batch /\ aged' = aged \ batch
          /\ purges' = [id \in Requests |-> IF id \in batch THEN purges[id] + 1 ELSE purges[id]]
    /\ UNCHANGED <<requestVars, saveVars, row, counted, lease, doomed, clock, expiry, faults>>

----------------------------------------------------------------------------
Scan(q) ==
    \/ Repeat(q) \/ Look(q) \/ Reserve(q)
    \/ \E end \in {"answered", "shown", "done"} : Answer(q, end)
SaveStep(q) ==
    Stamp(q) \/ Upsert(q) \/ Evict(q) \/ Save(q) \/ SaveUnacknowledged(q) \/ SaveFails(q)
Respond(q) == Enrich(q) \/ EnrichLater(q) \/ Name(q)
Correct(q) == CorrectRead(q) \/ CorrectWrite(q)
Purge == PurgeSelect \/ PurgeDelete \/ AgeCorrections \/ PurgeCorrections

Next ==
    \/ \E q \in Requests : Scan(q) \/ SaveStep(q) \/ Respond(q) \/ Correct(q)
    \/ Age
    \/ Purge

Spec == Init /\ [][Next]_vars

(* A handler that runs its save goes on to its next statement when that    *)
(* does not wait, and PostgreSQL ends a deadlock (deadlock_timeout); the   *)
(* purge, once started, goes on too.                                       *)
Fairness ==
    /\ \A q \in Requests : WF_vars(SaveStep(q))
    /\ WF_vars(PurgeDelete)
FairSpec == Spec /\ Fairness

----------------------------------------------------------------------------
(* Properties.                                                             *)

(* A stored enrichment was computed from the answer stored beside it, even *)
(* when a re-scan replaces the answer while the books are looked up        *)
(* (save_enrichment_step: "so it never lands on a newer answer").          *)
EnrichmentFits ==
    \A p \in Photos : row[p] # NoRow => row[p].enriched \in {Nobody, row[p].answer}

(* A valid enhanced answer is never replaced by a standard one, however    *)
(* the two saves wait for each other (save_ai_step).                       *)
EnhancedKept ==
    [][\A p \in Photos :
         (Valid(row[p]) /\ row[p].answer \in Enhanced /\ row'[p] # NoRow)
           => row'[p].answer \in Enhanced]_vars

(* Overlapping saves may leave more rows than the cap (each evicts what it *)
(* sees), but a save no other commit overlapped brings the user back to    *)
(* it, whatever the saves before it left behind.                           *)
CapRestored ==
    [][\A q \in Requests :
         (pc[q] = "evicting" /\ pc'[q] = "saved" /\ q \notin overlapped)
           => Cardinality({p \in Photos : row'[p] # NoRow}) <= MaxPerUser]_vars

(* A candidate of a record is counted into the daily totals at most once   *)
(* for each time the ledger's purge forgets it: from whichever responses   *)
(* the user saves it, and however a re-scan, an eviction or the purge of   *)
(* its record comes in between, it counts again only after its raw row was *)
(* removed as older than 30 days (scan_corrections: "cannot lose or        *)
(* double-count a row").                                                   *)
CountedOnce == \A a, b \in counted : a.id = b.id /\ a.after = b.after => a = b

(* Why these hold, as an inductive invariant.                              *)

(* The answers in the system with their stamps: in the rows, in the rows   *)
(* of open saves, and in the requests.                                     *)
StampedRow(r) == <<r.answer, r.created>>
Stamps ==
    {StampedRow(row[p]) : p \in {x \in Photos : row[x] # NoRow}}
    \cup {StampedRow(pending[q]) : q \in open}
    \cup {<<answer[q], stamp[q]>> : q \in {x \in Requests : stamp[x] # 0}}

(* A stamp names one answer, so matching on created_at matches the answer. *)
StampsFit ==
    /\ \A a, b \in Stamps : a[2] = b[2] => a[1] = b[1]
    /\ \A a \in Stamps : a[2] <= clock

PendingFits ==
    \A q \in open : pending[q].enriched \in {Nobody, pending[q].answer}

(* What the phase of a request says of its other variables.                *)
Unsaved == {"new", "looked", "calling", "answered"}
Saving == {"saving", "evicting"}
PhasesFit ==
    \A q \in Requests :
        /\ q \in open <=> pc[q] \in Saving
        /\ cut[q] <= expiry
        /\ pc[q] \in Unsaved => stamp[q] = 0
        /\ pc[q] \in {"stamped", "saved", "serving"} \cup Saving =>
             stamp[q] # 0 /\ answer[q] # Nobody
        /\ pc[q] \in {"answered", "stamped"} \cup Saving => answer[q] = q
        /\ pc[q] = "correcting" => reading[q] # Nobody

(* An open save has its photo's row to itself: the row it will leave has   *)
(* the id of the one that is there, or is new.                             *)
LocksHold ==
    /\ \A q, o \in open : photo[q] = photo[o] => q = o
    /\ \A q \in open :
         /\ pending[q] # NoRow
         /\ IF row[photo[q]] = NoRow
              THEN pending[q].id = q
              ELSE pending[q].id = row[photo[q]].id
         /\ \/ pending[q].answer \in Enhanced
            \/ row[photo[q]] = NoRow
            \/ row[photo[q]].answer \notin Enhanced
            \/ row[photo[q]].created <= expiry

(* An id is in use only once its insert was committed, and a counted       *)
(* correction is in the table as long as its record is, unless purged.     *)
Inserted == {q \in Requests : pc[q] \notin Unsaved \cup {"stamped"} \cup Saving}
IdsFit ==
    /\ IdsOf(row) \subseteq Inserted
    /\ \A c \in counted : c.id \in Inserted
    /\ \A c \in counted :
         /\ c.after <= purges[c.id]
         /\ c.id \in IdsOf(row) /\ c.after = purges[c.id] => c.id \in corrections

IInv ==
    /\ TypeOK /\ StampsFit /\ EnrichmentFits /\ PendingFits
    /\ PhasesFit /\ LocksHold /\ IdsFit /\ CountedOnce

(* Every save that has begun ends (each request saves at most once, so     *)
(* from some point on none is in progress): the locks overlapping saves    *)
(* hold on one another's rows never leave one waiting for ever.            *)
SavesEnd == <>[](\A q \in Requests : pc[q] \notin {"stamped", "saving", "evicting"})
=============================================================================
