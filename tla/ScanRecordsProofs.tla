-------------------------- MODULE ScanRecordsProofs --------------------------
(***************************************************************************)
(* Proofs about ScanRecords for any sets of requests and photos and any    *)
(* cap: enrichments fit their answers, corrections count once, enhanced    *)
(* answers stay, and a save no other overlaps brings back the cap.         *)
(***************************************************************************)
EXTENDS ScanRecords, FiniteSetTheorems, TLAPS

USE DEF Becomes

LEMMA RowFacts ==
    ASSUME NEW r, r \in Rows \cup {NoRow}, r # NoRow
    PROVE  /\ r \in Rows
           /\ r.id \in Requests /\ r.answer \in Requests /\ r.created \in Nat
           /\ r.enriched \in Requests \cup {Nobody}
BY DEF Rows

LEMMA UpsertedType ==
    ASSUME TypeOK, NEW q \in Requests, answer[q] = q
    PROVE  Upserted(q) \in Rows
<1> DEFINE r == row[photo[q]]
           new == [id |-> q, answer |-> answer[q], created |-> stamp[q], enriched |-> Nobody]
<1>1. photo[q] \in Photos /\ r \in Rows \cup {NoRow} /\ stamp[q] \in Nat
  BY DEF TypeOK
<1>2. new \in Rows
  BY <1>1 DEF Rows
<1>3. r # NoRow => [new EXCEPT !.id = r.id] \in Rows
  BY <1>1, <1>2, RowFacts DEF Rows
<1>4. Upserted(q) = IF r = NoRow THEN new ELSE IF Replaces(q, r) THEN [new EXCEPT !.id = r.id] ELSE r
  BY DEF Upserted
<1> QED
  BY <1>1, <1>2, <1>3, <1>4

LEMMA WithoutType ==
    ASSUME NEW rows \in [Photos -> Rows \cup {NoRow}], NEW ids
    PROVE  /\ Without(rows, ids) \in [Photos -> Rows \cup {NoRow}]
           /\ \A p \in Photos : Without(rows, ids)[p] \in {rows[p], NoRow}
           /\ \A p \in Photos : rows[p] # NoRow /\ rows[p].id \in ids => Without(rows, ids)[p] = NoRow
           /\ \A p \in Photos : rows[p] # NoRow /\ rows[p].id \notin ids => Without(rows, ids)[p] = rows[p]
BY DEF Without

LEMMA IdsType ==
    ASSUME NEW rows \in [Photos -> Rows \cup {NoRow}]
    PROVE  IdsOf(rows) \subseteq Requests
BY RowFacts DEF IdsOf

LEMMA NamedType ==
    ASSUME TypeOK, NEW id \in IdsOf(row)
    PROVE  Named(id) \in Photos /\ row[Named(id)] # NoRow /\ row[Named(id)].id = id
<1>1. \E p \in Photos : row[p] # NoRow /\ row[p].id = id
  BY DEF IdsOf
<1> QED
  BY <1>1 DEF Named

LEMMA BeyondType ==
    ASSUME TypeOK, NEW q \in Requests, pending[q] \in Rows
    PROVE  BeyondCap(q) \in SUBSET Requests
<1> DEFINE seen == [row EXCEPT ![photo[q]] = pending[q]]
<1>1. seen \in [Photos -> Rows \cup {NoRow}]
  BY DEF TypeOK
<1>2. \A p \in Photos : seen[p] # NoRow => seen[p].id \in Requests
  BY <1>1, RowFacts
<1> HIDE DEF seen
<1>3. \A id \in BeyondCap(q) : \E p \in Photos : seen[p] # NoRow /\ id = seen[p].id
  BY DEF BeyondCap, seen
<1> QED
  BY <1>2, <1>3

(* The committed rows after a save, whose phase was type-correct.          *)
LEMMA CommitType ==
    ASSUME TypeOK, NEW q \in Requests, Commit(q), pending[q] \in Rows
    PROVE  /\ row' \in [Photos -> Rows \cup {NoRow}]
           /\ corrections' \subseteq Requests /\ aged' \subseteq corrections'
           /\ open' \subseteq Requests /\ overlapped' \subseteq Requests
           /\ pending' \in [Requests -> Rows \cup {NoRow}]
           /\ victims' \in [Requests -> SUBSET Requests]
<1>1. [row EXCEPT ![photo[q]] = pending[q]] \in [Photos -> Rows \cup {NoRow}]
  BY DEF TypeOK
<1>2. row' \in [Photos -> Rows \cup {NoRow}]
  BY <1>1, WithoutType DEF Commit
<1> QED
  BY <1>2 DEF Commit, TypeOK, Cascade

LEMMA TypeStep ==
    ASSUME ConstantsOK, IInv, [Next]_vars
    PROVE  TypeOK'
<1> USE DEF requestVars, saveVars, tableVars, correctionVars
<1>t. TypeOK
  BY DEF IInv
<1>1. ASSUME NEW q \in Requests, Repeat(q) PROVE TypeOK'
  <2>1. row[photo[q]] \in Rows
    BY <1>t, <1>1, RowFacts DEF TypeOK, Repeat, Serves, Valid
  <2> QED
    BY <1>t, <1>1, <2>1, RowFacts, NoRowOK DEF TypeOK, Repeat, Phases
<1>2. ASSUME NEW q \in Requests, Look(q) PROVE TypeOK'
  BY <1>t, <1>2, ConstantsOK DEF TypeOK, Look, Phases, Fault, ConstantsOK
<1>3. ASSUME NEW q \in Requests, Reserve(q) PROVE TypeOK'
  BY <1>t, <1>3 DEF TypeOK, Reserve, Phases
<1>4. ASSUME NEW q \in Requests, NEW end \in {"answered", "shown", "done"}, Answer(q, end) PROVE TypeOK'
  BY <1>t, <1>4 DEF TypeOK, Answer, Phases
<1>5. ASSUME NEW q \in Requests, Stamp(q) PROVE TypeOK'
  BY <1>t, <1>5 DEF TypeOK, Stamp, Phases
<1>6. ASSUME NEW q \in Requests, Upsert(q) PROVE TypeOK'
  <2>1. Upserted(q) \in Rows
    BY <1>t, <1>6, UpsertedType DEF Upsert, IInv, PhasesFit
  <2> QED
    BY <1>t, <1>6, <2>1 DEF TypeOK, Upsert, Phases
<1>p. ASSUME NEW q \in open PROVE pending[q] \in Rows
  BY <1>t, <1>p DEF IInv, LocksHold, TypeOK
<1>7. ASSUME NEW q \in Requests, Evict(q) PROVE TypeOK'
  <2>1. BeyondCap(q) \in SUBSET Requests
    BY <1>t, <1>p, <1>7, BeyondType DEF Evict, IInv, PhasesFit, Saving
  <2> QED
    BY <1>t, <1>7, <2>1 DEF TypeOK, Evict, Phases
<1>8. ASSUME NEW q \in Requests, Save(q) PROVE TypeOK'
  <2>1. q \in open /\ Commit(q)
    BY <1>8 DEF Save, Commit
  <2> QED
    BY <1>t, <1>8, <2>1, <1>p, CommitType DEF TypeOK, Save, Phases
<1>9. ASSUME NEW q \in Requests, SaveUnacknowledged(q) PROVE TypeOK'
  <2>1. q \in open /\ Commit(q)
    BY <1>9 DEF SaveUnacknowledged, Commit
  <2> QED
    BY <1>t, <1>9, <2>1, <1>p, CommitType, ConstantsOK
       DEF TypeOK, SaveUnacknowledged, Phases, NotSaved, Fault, ConstantsOK
<1>10. ASSUME NEW q \in Requests, SaveFails(q) PROVE TypeOK'
  BY <1>t, <1>10, ConstantsOK DEF TypeOK, SaveFails, Phases, NotSaved, Fault, ConstantsOK
<1>11. ASSUME NEW q \in Requests, Enrich(q) PROVE TypeOK'
  <2>1. row' \in [Photos -> Rows \cup {NoRow}]
    <3>1. CASE Holds(q)
      <4>1. row[photo[q]] \in Rows /\ photo[q] \in Photos /\ answer[q] \in Requests \cup {Nobody}
        BY <1>t, <3>1, RowFacts DEF TypeOK, Holds
      <4>2. [row[photo[q]] EXCEPT !.enriched = answer[q]] \in Rows
        BY <4>1 DEF Rows
      <4> QED
        BY <1>t, <1>11, <3>1, <4>1, <4>2 DEF TypeOK, Enrich
    <3>2. CASE ~Holds(q)
      BY <1>t, <1>11, <3>2 DEF TypeOK, Enrich
    <3> QED
      BY <3>1, <3>2
  <2> QED
    BY <1>t, <1>11, <2>1 DEF TypeOK, Enrich, Phases
<1>12. ASSUME NEW q \in Requests, EnrichLater(q) PROVE TypeOK'
  BY <1>t, <1>12 DEF TypeOK, EnrichLater, Phases
<1>13. ASSUME NEW q \in Requests, Name(q) PROVE TypeOK'
  BY <1>t, <1>13, RowFacts DEF TypeOK, Name, Phases, Holds
<1>14. ASSUME NEW q \in Requests, CorrectRead(q) PROVE TypeOK'
  <2>1. recordId[q] \in IdsOf(row) => row[Named(recordId[q])].answer \in Requests
    BY <1>t, NamedType, RowFacts DEF TypeOK
  <2> QED
    BY <1>t, <1>14, <2>1 DEF TypeOK, CorrectRead, Phases
<1>15. ASSUME NEW q \in Requests, CorrectWrite(q) PROVE TypeOK'
  <2>1. IdsOf(row) \subseteq Requests
    BY <1>t, IdsType DEF TypeOK
  <2>2. reading[q] \in Requests
    BY <1>t, <1>15 DEF TypeOK, CorrectWrite, IInv, PhasesFit
  <2>3. recordId[q] \in Requests =>
          Counted(q) \in [id : Requests, by : Requests, reading : Requests, after : Nat]
    BY <1>t, <2>2 DEF TypeOK, Counted
  <2> QED
    BY <1>t, <1>15, <2>1, <2>3 DEF TypeOK, CorrectWrite, Phases
<1>16. ASSUME Age PROVE TypeOK'
  BY <1>t, <1>16 DEF TypeOK, Age
<1>17. ASSUME PurgeSelect PROVE TypeOK'
  BY <1>t, <1>17, RowFacts DEF TypeOK, PurgeSelect
<1>18. ASSUME PurgeDelete PROVE TypeOK'
  BY <1>t, <1>18, WithoutType DEF TypeOK, PurgeDelete, Cascade
<1>19. ASSUME UNCHANGED vars PROVE TypeOK'
  BY <1>t, <1>19 DEF TypeOK, vars
<1>20. ASSUME AgeCorrections PROVE TypeOK'
  BY <1>t, <1>20 DEF TypeOK, AgeCorrections
<1>21. ASSUME PurgeCorrections PROVE TypeOK'
  BY <1>t, <1>21 DEF TypeOK, PurgeCorrections
<1> QED
  BY <1>1, <1>2, <1>3, <1>4, <1>5, <1>6, <1>7, <1>8, <1>9, <1>10, <1>11, <1>12, <1>13, <1>14,
     <1>15, <1>16, <1>17, <1>18, <1>19, <1>20, <1>21
     DEF Next, Scan, SaveStep, Respond, Correct, Purge

----------------------------------------------------------------------------
(* The phases and the other variables of a request.                        *)

LEMMA PhasesStep ==
    ASSUME ConstantsOK, IInv, [Next]_vars
    PROVE  PhasesFit'
<1> USE DEF requestVars, saveVars, tableVars, correctionVars
<1>t. TypeOK /\ PhasesFit
  BY DEF IInv
<1>1. ASSUME NEW q \in Requests, Repeat(q) PROVE PhasesFit'
  <2>1. row[photo[q]] # NoRow /\ row[photo[q]].answer \in Requests /\ row[photo[q]].created > 0
    BY <1>t, <1>1, RowFacts DEF TypeOK, Repeat, Serves, Valid
  <2>2. q \notin open /\ cut[q] <= expiry
    BY <1>t, <1>1 DEF Repeat, PhasesFit, Saving, TypeOK
  <2> QED
    BY <1>t, <1>1, <2>1, <2>2, ConstantsOK DEF TypeOK, PhasesFit, Saving, Unsaved, Repeat, ConstantsOK
<1>2. ASSUME NEW q \in Requests, Look(q) PROVE PhasesFit'
  BY <1>t, <1>2 DEF TypeOK, PhasesFit, Saving, Unsaved, Look
<1>3. ASSUME NEW q \in Requests, Reserve(q) PROVE PhasesFit'
  BY <1>t, <1>3 DEF TypeOK, PhasesFit, Saving, Unsaved, Reserve
<1>4. ASSUME NEW q \in Requests, NEW end \in {"answered", "shown", "done"}, Answer(q, end) PROVE PhasesFit'
  BY <1>t, <1>4 DEF TypeOK, PhasesFit, Saving, Unsaved, Answer
<1>5. ASSUME NEW q \in Requests, Stamp(q) PROVE PhasesFit'
  BY <1>t, <1>5, ConstantsOK DEF TypeOK, PhasesFit, Saving, Unsaved, Stamp, ConstantsOK
<1>6. ASSUME NEW q \in Requests, Upsert(q) PROVE PhasesFit'
  BY <1>t, <1>6 DEF TypeOK, PhasesFit, Saving, Unsaved, Upsert
<1>7. ASSUME NEW q \in Requests, Evict(q) PROVE PhasesFit'
  BY <1>t, <1>7 DEF TypeOK, PhasesFit, Saving, Unsaved, Evict
<1>8. ASSUME NEW q \in Requests, Save(q) PROVE PhasesFit'
  BY <1>t, <1>8 DEF TypeOK, PhasesFit, Saving, Unsaved, Save, Commit
<1>9. ASSUME NEW q \in Requests, SaveUnacknowledged(q) PROVE PhasesFit'
  BY <1>t, <1>9 DEF TypeOK, PhasesFit, Saving, Unsaved, SaveUnacknowledged, Commit, NotSaved
<1>10. ASSUME NEW q \in Requests, SaveFails(q) PROVE PhasesFit'
  BY <1>t, <1>10 DEF TypeOK, PhasesFit, Saving, Unsaved, SaveFails, NotSaved
<1>11. ASSUME NEW q \in Requests, Enrich(q) PROVE PhasesFit'
  BY <1>t, <1>11 DEF TypeOK, PhasesFit, Saving, Unsaved, Enrich
<1>12. ASSUME NEW q \in Requests, EnrichLater(q) PROVE PhasesFit'
  BY <1>t, <1>12 DEF TypeOK, PhasesFit, Saving, Unsaved, EnrichLater
<1>13. ASSUME NEW q \in Requests, Name(q) PROVE PhasesFit'
  BY <1>t, <1>13 DEF TypeOK, PhasesFit, Saving, Unsaved, Name
<1>14. ASSUME NEW q \in Requests, CorrectRead(q) PROVE PhasesFit'
  <2>1. recordId[q] \in IdsOf(row) => row[Named(recordId[q])].answer \in Requests
    BY <1>t, NamedType, RowFacts DEF TypeOK
  <2> QED
    BY <1>t, <1>14, <2>1, ConstantsOK DEF TypeOK, PhasesFit, Saving, Unsaved, CorrectRead, ConstantsOK
<1>15. ASSUME NEW q \in Requests, CorrectWrite(q) PROVE PhasesFit'
  BY <1>t, <1>15 DEF TypeOK, PhasesFit, Saving, Unsaved, CorrectWrite
<1>16. ASSUME Age PROVE PhasesFit'
  BY <1>t, <1>16 DEF TypeOK, PhasesFit, Saving, Unsaved, Age
<1>17. ASSUME PurgeSelect PROVE PhasesFit'
  BY <1>t, <1>17 DEF TypeOK, PhasesFit, Saving, Unsaved, PurgeSelect
<1>18. ASSUME PurgeDelete PROVE PhasesFit'
  BY <1>t, <1>18 DEF TypeOK, PhasesFit, Saving, Unsaved, PurgeDelete
<1>19. ASSUME AgeCorrections \/ PurgeCorrections PROVE PhasesFit'
  BY <1>t, <1>19 DEF TypeOK, PhasesFit, Saving, Unsaved, AgeCorrections, PurgeCorrections
<1>20. ASSUME UNCHANGED vars PROVE PhasesFit'
  BY <1>t, <1>20 DEF TypeOK, PhasesFit, Saving, Unsaved, vars
<1> QED
  BY <1>1, <1>2, <1>3, <1>4, <1>5, <1>6, <1>7, <1>8, <1>9, <1>10, <1>11, <1>12, <1>13, <1>14,
     <1>15, <1>16, <1>17, <1>18, <1>19, <1>20
     DEF Next, Scan, SaveStep, Respond, Correct, Purge

----------------------------------------------------------------------------
(* What a commit and a purge leave of the rows.                            *)

LEMMA CommitRows ==
    ASSUME IInv, NEW q \in Requests, Commit(q)
    PROVE  /\ q \in open /\ pending[q] # NoRow
           /\ \A p \in Photos : row'[p] \in {NoRow, IF p = photo[q] THEN pending[q] ELSE row[p]}
           /\ \A o \in open \ {q} : photo[o] # photo[q] /\ row'[photo[o]] = row[photo[o]]
           /\ open' = open \ {q}
           /\ \A o \in open' : pending'[o] = pending[o]
           /\ corrections' = corrections \cap IdsOf(row')
<1>t. TypeOK /\ LocksHold /\ q \in open /\ open \subseteq Requests
  BY DEF IInv, Commit, TypeOK
<1> DEFINE rows == [row EXCEPT ![photo[q]] = pending[q]]
<1>1. pending[q] # NoRow /\ pending[q] \in Rows /\ photo[q] \in Photos
  BY <1>t DEF LocksHold, TypeOK
<1>2. rows \in [Photos -> Rows \cup {NoRow}] /\ row' = Without(rows, victims[q])
  BY <1>t, <1>1 DEF TypeOK, Commit
<1>3. \A p \in Photos : rows[p] = IF p = photo[q] THEN pending[q] ELSE row[p]
  BY <1>t DEF TypeOK
<1> HIDE DEF rows
<1>4. \A p \in Photos : row'[p] \in {NoRow, IF p = photo[q] THEN pending[q] ELSE row[p]}
  BY <1>2, <1>3, WithoutType
<1>5. ASSUME NEW o \in open \ {q}
      PROVE  photo[o] # photo[q] /\ row'[photo[o]] = row[photo[o]]
  <2>1. photo[o] \in Photos /\ photo[o] # photo[q]
    BY <1>t DEF LocksHold, TypeOK
  <2>2. ~(row[photo[o]] # NoRow /\ row[photo[o]].id \in victims[q])
    BY <1>t DEF Commit, WaitsFor
  <2>3. rows[photo[o]] = row[photo[o]]
    BY <1>3, <2>1
  <2> QED
    BY <1>2, <2>1, <2>2, <2>3, WithoutType
<1> QED
  BY <1>t, <1>1, <1>4, <1>5 DEF Commit, Cascade, TypeOK

LEMMA PurgeRows ==
    ASSUME IInv, PurgeDelete
    PROVE  /\ \A p \in Photos : row'[p] \in {NoRow, row[p]}
           /\ \A o \in open : row'[photo[o]] = row[photo[o]]
           /\ corrections' = corrections \cap IdsOf(row')
<1>1. TypeOK /\ row' = Without(row, doomed)
  BY DEF IInv, PurgeDelete
<1>2. ASSUME NEW o \in open
      PROVE  row'[photo[o]] = row[photo[o]]
  <2>1. photo[o] \in Photos /\ ~(row[photo[o]] # NoRow /\ row[photo[o]].id \in doomed)
    BY <1>1 DEF TypeOK, PurgeDelete
  <2> QED
    BY <1>1, <2>1, WithoutType DEF TypeOK
<1> QED
  BY <1>1, <1>2, WithoutType DEF TypeOK, PurgeDelete, Cascade

----------------------------------------------------------------------------
(* Stamps.                                                                 *)

(* The stamps after a step, from where each of them comes.                 *)
LEMMA StampsFrom ==
    ASSUME NEW S,
           \A p \in Photos : row'[p] # NoRow => StampedRow(row'[p]) \in S,
           \A q \in open' : StampedRow(pending'[q]) \in S,
           \A q \in Requests : stamp'[q] # 0 => <<answer'[q], stamp'[q]>> \in S
    PROVE  Stamps' \subseteq S
BY DEF Stamps, StampedRow

LEMMA StampsHas ==
    /\ \A p \in Photos : row[p] # NoRow => StampedRow(row[p]) \in Stamps
    /\ \A q \in open : StampedRow(pending[q]) \in Stamps
    /\ \A q \in Requests : stamp[q] # 0 => <<answer[q], stamp[q]>> \in Stamps
BY DEF Stamps, StampedRow

LEMMA StampsKeep ==
    ASSUME StampsFit, Stamps' \subseteq Stamps, clock' = clock
    PROVE  StampsFit'
BY DEF StampsFit

(* The row a save writes carries the save's answer or is the row there.    *)
LEMMA UpsertedStamp ==
    ASSUME TypeOK, NEW q \in Requests, answer[q] = q
    PROVE  /\ Upserted(q) # NoRow
           /\ \/ /\ row[photo[q]] # NoRow
                 /\ Upserted(q) = row[photo[q]]
                 /\ ~Replaces(q, row[photo[q]])
              \/ /\ Upserted(q).answer = q /\ Upserted(q).created = stamp[q]
                 /\ Upserted(q).enriched = Nobody
                 /\ row[photo[q]] # NoRow => Replaces(q, row[photo[q]])
           /\ row[photo[q]] # NoRow => Upserted(q).id = row[photo[q]].id
           /\ row[photo[q]] = NoRow => Upserted(q).id = q
<1>1. Upserted(q) \in Rows
  BY UpsertedType
<1> QED
  BY <1>1, NoRowOK DEF Upserted, NoRowOK

LEMMA StampsStep ==
    ASSUME ConstantsOK, IInv, [Next]_vars
    PROVE  StampsFit'
<1> USE DEF requestVars, saveVars, tableVars, correctionVars
<1>t. TypeOK /\ PhasesFit /\ StampsFit /\ LocksHold
  BY DEF IInv
<1>r. ASSUME row' = row
      PROVE  \A p \in Photos : row'[p] # NoRow => StampedRow(row'[p]) \in Stamps
  BY <1>r, StampsHas
<1>o. ASSUME pending' = pending, open' = open
      PROVE  \A q \in open' : StampedRow(pending'[q]) \in Stamps
  BY <1>o, StampsHas
<1>s. ASSUME answer' = answer, stamp' = stamp
      PROVE  \A q \in Requests : stamp'[q] # 0 => <<answer'[q], stamp'[q]>> \in Stamps
  BY <1>s, StampsHas
<1>1. ASSUME NEW q \in Requests, Repeat(q) PROVE StampsFit'
  <2>1. /\ row[photo[q]] # NoRow /\ photo[q] \in Photos
        /\ answer' = [answer EXCEPT ![q] = row[photo[q]].answer]
        /\ stamp' = [stamp EXCEPT ![q] = row[photo[q]].created]
    BY <1>t, <1>1 DEF Repeat, Serves, Valid, TypeOK
  <2>2. <<row[photo[q]].answer, row[photo[q]].created>> \in Stamps
    BY <2>1, StampsHas DEF StampedRow
  <2>3. ASSUME NEW x \in Requests, stamp'[x] # 0
        PROVE  <<answer'[x], stamp'[x]>> \in Stamps
    <3>1. CASE x = q
      BY <1>t, <2>1, <2>2, <3>1 DEF TypeOK
    <3>2. CASE x # q
      BY <1>t, <2>1, <2>3, <3>2, StampsHas DEF TypeOK
    <3> QED
      BY <3>1, <3>2
  <2>4. Stamps' \subseteq Stamps
    BY <1>1, <1>r, <1>o, <2>3, StampsFrom DEF Repeat
  <2> QED
    BY <1>t, <1>1, <2>4, StampsKeep DEF Repeat
<1>2. ASSUME UNCHANGED <<row, pending, open, answer, stamp, clock>> PROVE StampsFit'
  BY <1>t, <1>2, <1>r, <1>o, <1>s, StampsFrom, StampsKeep
<1>4. ASSUME NEW q \in Requests, NEW end \in {"answered", "shown", "done"}, Answer(q, end) PROVE StampsFit'
  <2>1. stamp[q] = 0 /\ stamp' = stamp /\ \A x \in Requests \ {q} : answer'[x] = answer[x]
    BY <1>t, <1>4 DEF Answer, PhasesFit, Unsaved, TypeOK
  <2>2. \A x \in Requests : stamp'[x] # 0 => <<answer'[x], stamp'[x]>> \in Stamps
    BY <2>1, StampsHas
  <2> QED
    BY <1>t, <1>4, <1>r, <1>o, <2>2, StampsFrom, StampsKeep DEF Answer
<1>5. ASSUME NEW q \in Requests, Stamp(q) PROVE StampsFit'
  <2> DEFINE S == Stamps \cup {<<answer[q], clock + 1>>}
  <2>1. /\ answer' = answer /\ clock' = clock + 1
        /\ stamp'[q] = clock + 1 /\ \A x \in Requests \ {q} : stamp'[x] = stamp[x]
    BY <1>t, <1>5 DEF Stamp, TypeOK
  <2>2. \A x \in Requests : stamp'[x] # 0 => <<answer'[x], stamp'[x]>> \in S
    BY <2>1, StampsHas
  <2>3. Stamps' \subseteq S
    BY <1>5, <1>r, <1>o, <2>2, StampsFrom DEF Stamp
  <2>4. \A a \in Stamps : a[2] \in Nat
    BY <1>t, RowFacts DEF Stamps, StampedRow, TypeOK, LocksHold
  <2> QED
    BY <1>t, <2>1, <2>3, <2>4 DEF StampsFit, TypeOK
<1>6. ASSUME NEW q \in Requests, Upsert(q) PROVE StampsFit'
  <2>1. answer[q] = q /\ stamp[q] # 0
    BY <1>t, <1>6 DEF Upsert, PhasesFit
  <2>2. photo[q] \in Photos /\ \A x \in open \ {q} : pending'[x] = pending[x]
    BY <1>t, <1>6 DEF Upsert, TypeOK
  <2>3. pending'[q] = Upserted(q)
    BY <1>t, <1>6 DEF Upsert, TypeOK
  <2>4. StampedRow(pending'[q]) \in Stamps
    BY <1>t, <2>1, <2>2, <2>3, UpsertedStamp, StampsHas DEF StampedRow
  <2>5. \A x \in open' : StampedRow(pending'[x]) \in Stamps
    BY <1>6, <2>2, <2>4, StampsHas DEF Upsert
  <2> QED
    BY <1>t, <1>6, <1>r, <1>s, <2>5, StampsFrom, StampsKeep DEF Upsert
<1>c. ASSUME NEW q \in Requests, Commit(q)
      PROVE  /\ \A p \in Photos : row'[p] # NoRow => StampedRow(row'[p]) \in Stamps
             /\ \A x \in open' : StampedRow(pending'[x]) \in Stamps
  BY <1>c, CommitRows, StampsHas
<1>n. ASSUME NEW q \in Requests, answer' = answer, NotSaved(q)
      PROVE  \A x \in Requests : stamp'[x] # 0 => <<answer'[x], stamp'[x]>> \in Stamps
  <2>1. stamp'[q] = 0 /\ \A x \in Requests \ {q} : stamp'[x] = stamp[x]
    BY <1>t, <1>n DEF NotSaved, TypeOK
  <2> QED
    BY <1>n, <2>1, StampsHas
<1>8. ASSUME NEW q \in Requests, Save(q) PROVE StampsFit'
  BY <1>t, <1>8, <1>c, <1>s, StampsFrom, StampsKeep DEF Save
<1>9. ASSUME NEW q \in Requests, SaveUnacknowledged(q) PROVE StampsFit'
  BY <1>t, <1>9, <1>c, <1>n, StampsFrom, StampsKeep DEF SaveUnacknowledged
<1>10. ASSUME NEW q \in Requests, SaveFails(q) PROVE StampsFit'
  <2>1. \A x \in open' : pending'[x] = pending[x] /\ x \in open
    BY <1>t, <1>10 DEF SaveFails, TypeOK
  <2>2. \A x \in open' : StampedRow(pending'[x]) \in Stamps
    BY <2>1, StampsHas
  <2> QED
    BY <1>t, <1>10, <1>r, <1>n, <2>2, StampsFrom, StampsKeep DEF SaveFails
<1>11. ASSUME NEW q \in Requests, Enrich(q) PROVE StampsFit'
  <2>1. CASE ~Holds(q)
    BY <1>11, <2>1, <1>2 DEF Enrich
  <2>2. CASE Holds(q)
    <3>1. photo[q] \in Photos /\ row[photo[q]] \in Rows /\ row[photo[q]] # NoRow
      BY <1>t, <2>2, RowFacts DEF Holds, TypeOK
    <3>2. /\ row'[photo[q]] = [row[photo[q]] EXCEPT !.enriched = answer[q]]
          /\ \A p \in Photos \ {photo[q]} : row'[p] = row[p]
      BY <1>t, <1>11, <2>2, <3>1 DEF Enrich, TypeOK
    <3>3. StampedRow(row'[photo[q]]) = StampedRow(row[photo[q]])
      BY <3>1, <3>2 DEF Rows, StampedRow
    <3>4. \A p \in Photos : row'[p] # NoRow => StampedRow(row'[p]) \in Stamps
      BY <3>1, <3>2, <3>3, StampsHas
    <3> QED
      BY <1>t, <1>11, <1>o, <1>s, <3>4, StampsFrom, StampsKeep DEF Enrich
  <2> QED
    BY <2>1, <2>2
<1>18. ASSUME PurgeDelete PROVE StampsFit'
  <2>1. \A p \in Photos : row'[p] # NoRow => StampedRow(row'[p]) \in Stamps
    BY <1>18, PurgeRows, StampsHas
  <2> QED
    BY <1>t, <1>18, <1>o, <1>s, <2>1, StampsFrom, StampsKeep DEF PurgeDelete
<1>k. ASSUME NEW q \in Requests,
             Look(q) \/ Reserve(q) \/ Evict(q) \/ EnrichLater(q) \/ Name(q) \/ Correct(q)
      PROVE  StampsFit'
  BY <1>2, <1>k DEF Look, Reserve, Evict, EnrichLater, Name, Correct, CorrectRead, CorrectWrite
<1>l. ASSUME Age \/ PurgeSelect \/ AgeCorrections \/ PurgeCorrections \/ UNCHANGED vars PROVE StampsFit'
  BY <1>2, <1>l DEF Age, PurgeSelect, AgeCorrections, PurgeCorrections, vars
<1> QED
  BY <1>1, <1>4, <1>5, <1>6, <1>8, <1>9, <1>10, <1>11, <1>18, <1>k, <1>l
     DEF Next, Scan, SaveStep, Respond, Purge

----------------------------------------------------------------------------
(* Enrichments.                                                            *)

(* A row that still has the stamp of a request's answer has that answer.   *)
LEMMA HeldAnswer ==
    ASSUME IInv, NEW q \in Requests, Holds(q), stamp[q] # 0
    PROVE  photo[q] \in Photos /\ row[photo[q]] \in Rows /\ row[photo[q]].answer = answer[q]
<1>1. photo[q] \in Photos /\ row[photo[q]] # NoRow /\ row[photo[q]].created = stamp[q]
  BY DEF Holds, IInv, TypeOK
<1>2. /\ <<row[photo[q]].answer, row[photo[q]].created>> \in Stamps
      /\ <<answer[q], stamp[q]>> \in Stamps
  BY <1>1, StampsHas DEF StampedRow
<1>3. \A a, b \in Stamps : a[2] = b[2] => a[1] = b[1]
  BY DEF IInv, StampsFit
<1>4. row[photo[q]].answer = answer[q]
  BY <1>1, <1>2, <1>3
<1> QED
  BY <1>1, <1>4, RowFacts DEF IInv, TypeOK

LEMMA FitsStep ==
    ASSUME ConstantsOK, IInv, [Next]_vars
    PROVE  EnrichmentFits' /\ PendingFits'
<1> USE DEF requestVars, saveVars, tableVars, correctionVars
<1>t. TypeOK /\ PhasesFit /\ EnrichmentFits /\ PendingFits
  BY DEF IInv
<1>r. ASSUME row' = row PROVE EnrichmentFits'
  BY <1>t, <1>r DEF EnrichmentFits
<1>o. ASSUME pending' = pending, open' = open PROVE PendingFits'
  BY <1>t, <1>o DEF PendingFits
<1>6. ASSUME NEW q \in Requests, Upsert(q) PROVE EnrichmentFits' /\ PendingFits'
  <2>1. answer[q] = q /\ photo[q] \in Photos
    BY <1>t, <1>6 DEF Upsert, PhasesFit, TypeOK
  <2>2. pending'[q] = Upserted(q) /\ \A x \in open \ {q} : pending'[x] = pending[x]
    BY <1>t, <1>6 DEF Upsert, TypeOK
  <2>3. Upserted(q).enriched \in {Nobody, Upserted(q).answer}
    BY <1>t, <2>1, UpsertedStamp DEF EnrichmentFits
  <2> QED
    BY <1>t, <1>r, <1>6, <2>2, <2>3 DEF Upsert, PendingFits
<1>c. ASSUME NEW q \in Requests, Commit(q) PROVE EnrichmentFits' /\ PendingFits'
  BY <1>t, <1>c, CommitRows DEF EnrichmentFits, PendingFits
<1>10. ASSUME NEW q \in Requests, SaveFails(q) PROVE EnrichmentFits' /\ PendingFits'
  <2>1. \A x \in open' : pending'[x] = pending[x] /\ x \in open
    BY <1>t, <1>10 DEF SaveFails, TypeOK
  <2> QED
    BY <1>t, <1>r, <1>10, <2>1 DEF SaveFails, PendingFits
<1>11. ASSUME NEW q \in Requests, Enrich(q) PROVE EnrichmentFits' /\ PendingFits'
  <2>1. CASE ~Holds(q)
    BY <1>11, <2>1, <1>r, <1>o DEF Enrich
  <2>2. CASE Holds(q)
    <3>1. photo[q] \in Photos /\ row[photo[q]] \in Rows /\ row[photo[q]].answer = answer[q]
      BY <1>t, <1>11, <2>2, HeldAnswer DEF Enrich, PhasesFit
    <3>2. /\ row'[photo[q]] = [row[photo[q]] EXCEPT !.enriched = answer[q]]
          /\ \A p \in Photos \ {photo[q]} : row'[p] = row[p]
      BY <1>t, <1>11, <2>2, <3>1 DEF Enrich, TypeOK
    <3>3. row'[photo[q]].enriched = row'[photo[q]].answer
      BY <3>1, <3>2 DEF Rows
    <3> QED
      BY <1>t, <1>11, <1>o, <3>2, <3>3 DEF Enrich, EnrichmentFits
  <2> QED
    BY <2>1, <2>2
<1>18. ASSUME PurgeDelete PROVE EnrichmentFits' /\ PendingFits'
  BY <1>t, <1>18, <1>o, PurgeRows DEF PurgeDelete, EnrichmentFits
<1>k. ASSUME NEW q \in Requests,
             Scan(q) \/ Stamp(q) \/ Evict(q) \/ EnrichLater(q) \/ Name(q) \/ Correct(q)
      PROVE  EnrichmentFits' /\ PendingFits'
  BY <1>r, <1>o, <1>k
     DEF Scan, Repeat, Look, Reserve, Answer, Stamp, Evict, EnrichLater, Name, Correct, CorrectRead, CorrectWrite
<1>l. ASSUME Age \/ PurgeSelect \/ AgeCorrections \/ PurgeCorrections \/ UNCHANGED vars PROVE EnrichmentFits' /\ PendingFits'
  BY <1>r, <1>o, <1>l DEF Age, PurgeSelect, AgeCorrections, PurgeCorrections, vars
<1> QED
  BY <1>6, <1>c, <1>10, <1>11, <1>18, <1>k, <1>l
     DEF Next, SaveStep, Save, SaveUnacknowledged, Respond, Purge

----------------------------------------------------------------------------
(* Locks.                                                                  *)

LEMMA LocksStep ==
    ASSUME ConstantsOK, IInv, [Next]_vars
    PROVE  LocksHold'
<1> USE DEF requestVars, saveVars, tableVars, correctionVars
<1>t. TypeOK /\ PhasesFit /\ LocksHold
  BY DEF IInv
<1>1. ASSUME UNCHANGED <<row, pending, open, photo, expiry>> PROVE LocksHold'
  BY <1>t, <1>1 DEF LocksHold
<1>2. ASSUME NEW q \in Requests, Upsert(q) PROVE LocksHold'
  <2>1. answer[q] = q /\ photo[q] \in Photos /\ cut[q] <= expiry /\ q \notin open
    BY <1>t, <1>2 DEF Upsert, PhasesFit, TypeOK, Saving
  <2>2. /\ pending'[q] = Upserted(q) /\ \A x \in open : pending'[x] = pending[x]
        /\ open' = open \cup {q} /\ UNCHANGED <<row, photo, expiry>>
    BY <1>t, <1>2, <2>1 DEF Upsert, TypeOK
  <2>3. \A o \in open : photo[o] # photo[q]
    BY <1>2, <2>1 DEF Upsert, Locked
  <2>4. row[photo[q]] # NoRow => row[photo[q]].created \in Nat
    BY <1>t, <2>1, RowFacts DEF TypeOK
  <2>5. \/ Upserted(q).answer \in Enhanced
        \/ row[photo[q]] = NoRow
        \/ row[photo[q]].answer \notin Enhanced
        \/ row[photo[q]].created <= expiry
    BY <1>t, <2>1, <2>4, UpsertedStamp DEF Replaces, TypeOK
  <2>6. Upserted(q) # NoRow /\ IF row[photo[q]] = NoRow THEN Upserted(q).id = q
                                                      ELSE Upserted(q).id = row[photo[q]].id
    BY <1>t, <2>1, UpsertedStamp
  <2> QED
    BY <1>t, <2>2, <2>3, <2>5, <2>6 DEF LocksHold
<1>3. ASSUME NEW q \in Requests, Commit(q), UNCHANGED <<photo, expiry>> PROVE LocksHold'
  BY <1>t, <1>3, CommitRows DEF LocksHold
<1>4. ASSUME NEW q \in Requests, SaveFails(q) PROVE LocksHold'
  <2>1. /\ \A x \in open' : pending'[x] = pending[x] /\ x \in open
        /\ UNCHANGED <<row, photo, expiry>>
    BY <1>t, <1>4 DEF SaveFails, TypeOK
  <2> QED
    BY <1>t, <2>1 DEF LocksHold
<1>5. ASSUME NEW q \in Requests, Enrich(q) PROVE LocksHold'
  <2>1. q \notin open /\ \A o \in open : photo[o] # photo[q]
    BY <1>t, <1>5 DEF Enrich, PhasesFit, Saving, Locked
  <2>2. \A o \in open : photo[o] \in Photos /\ row'[photo[o]] = row[photo[o]]
    BY <1>t, <1>5, <2>1 DEF Enrich, TypeOK
  <2> QED
    BY <1>t, <1>5, <2>2 DEF Enrich, LocksHold
<1>6. ASSUME Age PROVE LocksHold'
  <2>1. \A o \in open : row[photo[o]] # NoRow => row[photo[o]].created \in Nat
    BY <1>t, RowFacts DEF TypeOK
  <2> QED
    BY <1>t, <1>6, <2>1 DEF Age, LocksHold, TypeOK
<1>7. ASSUME PurgeDelete PROVE LocksHold'
  BY <1>t, <1>7, PurgeRows DEF PurgeDelete, LocksHold
<1>k. ASSUME NEW q \in Requests,
             Scan(q) \/ Stamp(q) \/ Evict(q) \/ EnrichLater(q) \/ Name(q) \/ Correct(q)
      PROVE  LocksHold'
  BY <1>1, <1>k
     DEF Scan, Repeat, Look, Reserve, Answer, Stamp, Evict, EnrichLater, Name, Correct, CorrectRead, CorrectWrite
<1>l. ASSUME PurgeSelect \/ AgeCorrections \/ PurgeCorrections \/ UNCHANGED vars PROVE LocksHold'
  BY <1>1, <1>l DEF PurgeSelect, AgeCorrections, PurgeCorrections, vars
<1> QED
  BY <1>2, <1>3, <1>4, <1>5, <1>6, <1>7, <1>k, <1>l
     DEF Next, SaveStep, Save, SaveUnacknowledged, Respond, Purge

----------------------------------------------------------------------------
(* Ids and the corrections counted.                                        *)

(* No phase of a request leads back to before its insert.                  *)
LEMMA InsertedGrows ==
    ASSUME ConstantsOK, IInv, [Next]_vars
    PROVE  Inserted \subseteq Inserted'
<1> USE DEF requestVars, saveVars, tableVars, correctionVars, Inserted, Unsaved, Saving
<1>t. TypeOK
  BY DEF IInv
<1>1. ASSUME NEW q \in Requests, Scan(q) PROVE Inserted \subseteq Inserted'
  BY <1>t, <1>1 DEF Scan, Repeat, Look, Reserve, Answer, TypeOK
<1>2. ASSUME NEW q \in Requests, SaveStep(q) PROVE Inserted \subseteq Inserted'
  BY <1>t, <1>2 DEF SaveStep, Stamp, Upsert, Evict, Save, SaveUnacknowledged, SaveFails, NotSaved, TypeOK
<1>3. ASSUME NEW q \in Requests, Respond(q) \/ Correct(q) PROVE Inserted \subseteq Inserted'
  BY <1>t, <1>3 DEF Respond, Enrich, EnrichLater, Name, Correct, CorrectRead, CorrectWrite, TypeOK
<1>4. ASSUME Age \/ Purge \/ UNCHANGED vars PROVE Inserted \subseteq Inserted'
  BY <1>4 DEF Age, Purge, PurgeSelect, PurgeDelete, AgeCorrections, PurgeCorrections, vars
<1> QED
  BY <1>1, <1>2, <1>3, <1>4 DEF Next

LEMMA IdsStep ==
    ASSUME ConstantsOK, IInv, [Next]_vars
    PROVE  IdsFit' /\ CountedOnce'
<1> USE DEF requestVars, saveVars, tableVars, correctionVars
<1>t. TypeOK /\ PhasesFit /\ LocksHold /\ IdsFit /\ CountedOnce
  BY DEF IInv
<1>i. Inserted \subseteq Inserted'
  BY InsertedGrows
<1>1. ASSUME IdsOf(row') \subseteq IdsOf(row), corrections' = corrections \cap IdsOf(row') \/ corrections' = corrections,
             UNCHANGED <<counted, purges>>
      PROVE  IdsFit' /\ CountedOnce'
  BY <1>t, <1>i, <1>1 DEF IdsFit, CountedOnce
<1>2. ASSUME NEW q \in Requests, Commit(q), UNCHANGED <<counted, purges>>, q \in Inserted'
      PROVE  IdsFit' /\ CountedOnce'
  <2>1. q \notin Inserted /\ q \in open /\ photo[q] \in Photos
    BY <1>t, <1>2 DEF Inserted, PhasesFit, Commit, Saving, TypeOK
  <2>2. IdsOf(row') \subseteq IdsOf(row) \cup {pending[q].id}
    BY <1>2, CommitRows DEF IdsOf
  <2>3. pending[q].id \in IdsOf(row) \cup {q}
    BY <1>t, <2>1 DEF LocksHold, IdsOf
  <2>4. corrections' = corrections \cap IdsOf(row')
    BY <1>2, CommitRows
  <2> QED
    BY <1>t, <1>i, <1>2, <2>1, <2>2, <2>3, <2>4 DEF IdsFit, CountedOnce
<1>3. ASSUME NEW q \in Requests, Enrich(q) PROVE IdsFit' /\ CountedOnce'
  <2>1. \A p \in Photos : row'[p] # NoRow => row[p] # NoRow /\ row'[p].id = row[p].id
    <3>1. CASE ~Holds(q)
      BY <1>3, <3>1 DEF Enrich
    <3>2. CASE Holds(q)
      <4>1. row[photo[q]] \in Rows /\ row[photo[q]] # NoRow /\ photo[q] \in Photos
        BY <1>t, <3>2, RowFacts DEF Holds, TypeOK
      <4> QED
        BY <1>t, <1>3, <3>2, <4>1 DEF Enrich, Rows, TypeOK
    <3> QED
      BY <3>1, <3>2
  <2>2. IdsOf(row') \subseteq IdsOf(row)
    BY <2>1 DEF IdsOf
  <2> QED
    BY <1>1, <1>3, <2>2 DEF Enrich
<1>4. ASSUME NEW q \in Requests, CorrectWrite(q) PROVE IdsFit' /\ CountedOnce'
  <2>1. CASE recordId[q] \in IdsOf(row) \ corrections
    <3>1. /\ corrections' = corrections \cup {recordId[q]} /\ UNCHANGED <<row, purges>>
          /\ counted' = counted \cup {Counted(q)}
      BY <1>4, <2>1 DEF CorrectWrite
    <3>2. \A c \in counted : c.id # recordId[q] \/ c.after # purges[recordId[q]]
      BY <1>t, <2>1 DEF IdsFit
    <3>3. /\ Counted(q).id = recordId[q] /\ Counted(q).after = purges[recordId[q]]
          /\ purges[recordId[q]] \in Nat
      BY <1>t, <2>1, IdsType DEF Counted, TypeOK
    <3>4. CountedOnce'
      BY <1>t, <3>1, <3>2, <3>3 DEF CountedOnce
    <3>5. IdsFit'
      BY <1>t, <1>i, <2>1, <3>1, <3>3 DEF IdsFit
    <3> QED
      BY <3>4, <3>5
  <2>2. CASE recordId[q] \notin IdsOf(row) \ corrections
    BY <1>1, <1>4, <2>2 DEF CorrectWrite
  <2> QED
    BY <2>1, <2>2
<1>5. ASSUME PurgeDelete PROVE IdsFit' /\ CountedOnce'
  <2>1. IdsOf(row') \subseteq IdsOf(row)
    BY <1>5, PurgeRows DEF IdsOf
  <2> QED
    BY <1>1, <1>5, <2>1, PurgeRows DEF PurgeDelete
<1>6. ASSUME NEW q \in Requests, Save(q) \/ SaveUnacknowledged(q) PROVE IdsFit' /\ CountedOnce'
  <2>1. q \in Inserted'
    BY <1>t, <1>6 DEF Save, SaveUnacknowledged, NotSaved, Inserted, Unsaved, Saving, TypeOK
  <2> QED
    BY <1>2, <1>6, <2>1 DEF Save, SaveUnacknowledged
<1>k. ASSUME NEW q \in Requests,
             Scan(q) \/ Stamp(q) \/ Upsert(q) \/ Evict(q) \/ SaveFails(q) \/ EnrichLater(q) \/ Name(q) \/ CorrectRead(q)
      PROVE  IdsFit' /\ CountedOnce'
  BY <1>1, <1>k
     DEF Scan, Repeat, Look, Reserve, Answer, Stamp, Upsert, Evict, SaveFails, EnrichLater, Name, CorrectRead
<1>l. ASSUME Age \/ PurgeSelect \/ AgeCorrections \/ UNCHANGED vars PROVE IdsFit' /\ CountedOnce'
  BY <1>1, <1>l DEF Age, PurgeSelect, AgeCorrections, vars
<1>7. ASSUME PurgeCorrections PROVE IdsFit' /\ CountedOnce'
  <2>1. PICK batch \in SUBSET aged :
          /\ corrections' = corrections \ batch
          /\ purges' = [id \in Requests |-> IF id \in batch THEN purges[id] + 1 ELSE purges[id]]
    BY <1>7 DEF PurgeCorrections
  <2>2. ASSUME NEW c \in counted
        PROVE  /\ c.after <= purges'[c.id]
               /\ c.after = purges'[c.id] => c.id \notin batch /\ c.after = purges[c.id]
    BY <1>t, <2>1 DEF TypeOK, IdsFit
  <2> QED
    BY <1>t, <1>i, <1>7, <2>1, <2>2 DEF IdsFit, CountedOnce, PurgeCorrections
<1> QED
  BY <1>3, <1>4, <1>5, <1>6, <1>7, <1>k, <1>l
     DEF Next, SaveStep, Respond, Correct, Purge

----------------------------------------------------------------------------
LEMMA InitInv ==
    ASSUME ConstantsOK, Init
    PROVE  IInv
<1>1. TypeOK
  BY ConstantsOK DEF Init, TypeOK, Phases, ConstantsOK
<1>2. Stamps = {}
  BY DEF Init, Stamps
<1>3. IdsOf(row) = {}
  BY DEF Init, IdsOf
<1>4. EnrichmentFits /\ PendingFits /\ PhasesFit /\ LocksHold /\ CountedOnce
  BY DEF Init, EnrichmentFits, PendingFits, PhasesFit, LocksHold, CountedOnce, Unsaved, Saving
<1> QED
  BY <1>1, <1>2, <1>3, <1>4 DEF IInv, StampsFit, IdsFit, Init

(* The inductive invariant holds, for any number of requests and photos:   *)
(* stamps name answers, open saves have their rows to themselves, ids are  *)
(* never used again.                                                       *)
THEOREM Invariant == Spec => []IInv
<1>1. Init => IInv
  BY InitInv, ConstantsOK
<1>2. IInv /\ [Next]_vars => IInv'
  BY ConstantsOK, TypeStep, PhasesStep, StampsStep, FitsStep, LocksStep, IdsStep DEF IInv
<1> QED
  BY <1>1, <1>2, PTL DEF Spec

(* The enrichment stored with an answer was computed from that answer      *)
(* (save_enrichment_step).                                                 *)
THEOREM EnrichmentsFit == Spec => []EnrichmentFits
<1>1. IInv => EnrichmentFits
  BY DEF IInv
<1> QED
  BY <1>1, Invariant, PTL

(* A candidate counts once, and again only after the ledger's purge has    *)
(* removed its raw row (scan_corrections.record).                          *)
THEOREM CorrectionsCountOnce == Spec => []CountedOnce
<1>1. IInv => CountedOnce
  BY DEF IInv
<1> QED
  BY <1>1, Invariant, PTL

(* No save replaces a valid enhanced answer by a standard one              *)
(* (save_ai_step), however the saves interleave.                           *)
THEOREM EnhancedStays == Spec => EnhancedKept
<1> USE DEF requestVars, saveVars, tableVars, correctionVars
<1> DEFINE A == \A p \in Photos :
         (Valid(row[p]) /\ row[p].answer \in Enhanced /\ row'[p] # NoRow)
           => row'[p].answer \in Enhanced
<1>1. ASSUME IInv, [Next]_vars PROVE A
  <2>1. ASSUME row' = row PROVE A
    BY <2>1
  <2>2. ASSUME NEW q \in Requests, Commit(q) PROVE A
    <3>1. ASSUME NEW p \in Photos, Valid(row[p]), row[p].answer \in Enhanced, row'[p] # NoRow
          PROVE  row'[p].answer \in Enhanced
      <4>1. row'[p] = IF p = photo[q] THEN pending[q] ELSE row[p]
        BY <1>1, <2>2, <3>1, CommitRows
      <4>2. p = photo[q] => pending[q].answer \in Enhanced
        <5>1. row[p] # NoRow /\ row[p].created \in Nat /\ row[p].created > expiry /\ expiry \in Nat
          BY <1>1, <3>1, RowFacts DEF IInv, TypeOK, Valid
        <5> QED
          BY <1>1, <2>2, <3>1, <5>1 DEF IInv, LocksHold, Commit
      <4> QED
        BY <3>1, <4>1, <4>2
    <3> QED
      BY <3>1
  <2>3. ASSUME NEW q \in Requests, Enrich(q) PROVE A
    <3>1. CASE ~Holds(q)
      BY <2>1, <2>3, <3>1 DEF Enrich
    <3>2. CASE Holds(q)
      <4>1. row[photo[q]] \in Rows /\ photo[q] \in Photos
        BY <1>1, <3>2, RowFacts DEF Holds, IInv, TypeOK
      <4> QED
        BY <1>1, <2>3, <3>2, <4>1 DEF Enrich, Rows, IInv, TypeOK
    <3> QED
      BY <3>1, <3>2
  <2>4. ASSUME PurgeDelete PROVE A
    BY <1>1, <2>4, PurgeRows
  <2>k. ASSUME NEW q \in Requests,
               Scan(q) \/ Stamp(q) \/ Upsert(q) \/ Evict(q) \/ SaveFails(q) \/ EnrichLater(q) \/ Name(q) \/ Correct(q)
        PROVE  A
    BY <2>1, <2>k
       DEF Scan, Repeat, Look, Reserve, Answer, Stamp, Upsert, Evict, SaveFails, EnrichLater, Name, Correct, CorrectRead, CorrectWrite
  <2>l. ASSUME Age \/ PurgeSelect \/ AgeCorrections \/ PurgeCorrections \/ UNCHANGED vars PROVE A
    BY <2>1, <2>l DEF Age, PurgeSelect, AgeCorrections, PurgeCorrections, vars
  <2> QED
    BY <1>1, <2>2, <2>3, <2>4, <2>k, <2>l
       DEF Next, SaveStep, Save, SaveUnacknowledged, Respond, Purge
<1>2. IInv /\ [Next]_vars => [A]_vars
  BY <1>1
<1> QED
  BY <1>2, Invariant, PTL DEF Spec, EnhancedKept

----------------------------------------------------------------------------
(* The cap.  The rows a save sees were stamped at different times, since a *)
(* stamp names an answer and an answer has one photo.  So at most the cap  *)
(* of them have fewer than the cap newer ones; its delete leaves no other, *)
(* and until its commit rows only go, unless another save commits.         *)

(* A row holds an answer about its photo.                                  *)
PhotosFit ==
    /\ \A p \in Photos : row[p] # NoRow => photo[row[p].answer] = p
    /\ \A q \in open : photo[pending[q].answer] = photo[q]

(* The rows a save sees, and where its delete leaves one.                  *)
Seen(q) == [row EXCEPT ![photo[q]] = pending[q]]
Left(q) == {p \in Photos : Seen(q)[p] # NoRow /\ Seen(q)[p].id \notin victims[q]}

CapFits ==
    \A q \in open : pc[q] = "evicting" /\ q \notin overlapped => Cardinality(Left(q)) <= MaxPerUser

CapInv == IInv /\ PhotosFit /\ CapFits

(* The members of a set that have fewer than n members before them, when a *)
(* number orders them all: they are at most n.                             *)
Few(T, c, n) == {p \in T : Cardinality({x \in T : c[x] > c[p]}) < n}

LEMMA FewInFront ==
    ASSUME NEW T, IsFiniteSet(T), NEW c \in [T -> Nat],
           \A x, y \in T : c[x] = c[y] => x = y,
           NEW n \in Nat
    PROVE  IsFiniteSet(Few(T, c, n)) /\ Cardinality(Few(T, c, n)) <= n
<1> DEFINE Front(p) == {x \in T : c[x] > c[p]}
           few == {p \in T : Cardinality(Front(p)) < n}
           f == [p \in few |-> Cardinality(Front(p))]
<1>1. \A p \in T : IsFiniteSet(Front(p)) /\ Cardinality(Front(p)) \in Nat
  BY FS_Subset, FS_CardinalityType
<1>2. ASSUME NEW p \in T, NEW r \in T, c[p] > c[r]
      PROVE  Cardinality(Front(p)) # Cardinality(Front(r))
  <2>1. Front(p) \subseteq Front(r) /\ p \in Front(r) /\ p \notin Front(p)
    BY <1>2
  <2>2. IsFiniteSet(Front(r)) /\ Front(p) # Front(r)
    BY <1>1, <2>1
  <2> HIDE DEF Front
  <2> QED
    BY <2>1, <2>2, FS_Subset
<1> HIDE DEF Front
<1>3. \A p, r \in few : f[p] = f[r] => p = r
  BY <1>2
<1>4. f \in [few -> 0 .. (n - 1)]
  <2>1. \A p \in few : Cardinality(Front(p)) \in 0 .. (n - 1)
    BY <1>1
  <2> QED
    BY <2>1
<1>5. f \in Injection(few, 0 .. (n - 1))
  BY <1>3, <1>4 DEF Injection, IsInjective
<1>6. IsFiniteSet(0 .. (n - 1)) /\ Cardinality(0 .. (n - 1)) = n
  <2>1. IsFiniteSet(0 .. (n - 1)) /\ Cardinality(0 .. (n - 1)) = IF 0 > n - 1 THEN 0 ELSE n - 1 - 0 + 1
    BY FS_Interval
  <2> QED
    BY <2>1
<1> HIDE DEF few, f
<1>7. IsFiniteSet(few) /\ Cardinality(few) <= n
  BY <1>5, <1>6, FS_Injection
<1> QED
  BY <1>7 DEF few, Front, Few

(* What the sweep of a save sees and leaves.                               *)
LEMMA SeenTyped ==
    ASSUME ConstantsOK, TypeOK, NEW q \in Requests, pending[q] \in Rows
    PROVE  /\ Seen(q) \in [Photos -> Rows \cup {NoRow}]
           /\ \A p \in Photos : Seen(q)[p] = IF p = photo[q] THEN pending[q] ELSE row[p]
           /\ IsFiniteSet(Left(q)) /\ Cardinality(Left(q)) \in Nat
<1>1. Seen(q) \in [Photos -> Rows \cup {NoRow}] /\ photo[q] \in Photos
  BY DEF TypeOK, Seen
<1>2. IsFiniteSet(Left(q))
  BY ConstantsOK, FS_Subset DEF ConstantsOK, Left
<1> QED
  BY <1>1, <1>2, FS_CardinalityType DEF Seen, TypeOK

(* The rows a save sees were stamped at different times.                   *)
LEMMA SeenApart ==
    ASSUME ConstantsOK, IInv, PhotosFit, NEW q \in open,
           NEW x \in Photos, NEW y \in Photos, Seen(q)[x] # NoRow, Seen(q)[y] # NoRow,
           Seen(q)[x].created = Seen(q)[y].created
    PROVE  x = y
<1>1. TypeOK /\ q \in Requests /\ pending[q] \in Rows
  BY DEF IInv, LocksHold, TypeOK
<1>2. ASSUME NEW p \in Photos, Seen(q)[p] # NoRow
      PROVE  photo[Seen(q)[p].answer] = p /\ StampedRow(Seen(q)[p]) \in Stamps
  BY <1>1, <1>2, SeenTyped, StampsHas DEF PhotosFit
<1>3. Seen(q)[x].answer = Seen(q)[y].answer
  BY <1>2 DEF IInv, StampsFit, StampedRow
<1> QED
  BY <1>2, <1>3

(* The delete leaves no more than the cap.                                 *)
LEMMA EvictionSuffices ==
    ASSUME ConstantsOK, IInv, PhotosFit, NEW q \in open
    PROVE  Cardinality({p \in Photos : Seen(q)[p] # NoRow /\ Seen(q)[p].id \notin BeyondCap(q)}) <= MaxPerUser
<1> DEFINE there == {p \in Photos : Seen(q)[p] # NoRow}
           c == [p \in there |-> Seen(q)[p].created]
           few == Few(there, c, MaxPerUser)
           kept == {p \in Photos : Seen(q)[p] # NoRow /\ Seen(q)[p].id \notin BeyondCap(q)}
<1>1. TypeOK /\ q \in Requests /\ pending[q] \in Rows /\ MaxPerUser \in Nat
  BY ConstantsOK DEF IInv, LocksHold, TypeOK, ConstantsOK
<1>2. IsFiniteSet(there)
  BY ConstantsOK, FS_Subset DEF ConstantsOK
<1>3. \A p \in there : Seen(q)[p] \in Rows /\ Seen(q)[p].created \in Nat
  BY <1>1, SeenTyped, RowFacts
<1>4. c \in [there -> Nat] /\ \A p \in there : c[p] = Seen(q)[p].created
  BY <1>3
<1>5. \A x, y \in there : c[x] = c[y] => x = y
  BY <1>4, SeenApart
<1>6. kept \subseteq few
  <2>1. ASSUME NEW p \in there, p \notin few
        PROVE  Seen(q)[p].id \in BeyondCap(q)
    <3> DEFINE Front == {x \in there : c[x] > c[p]}
               Newer == {x \in there : Seen(q)[x].created > Seen(q)[p].created}
    <3>1. Front = Newer /\ ~(Cardinality(Front) < MaxPerUser)
      BY <1>4, <2>1 DEF Few
    <3>2. IsFiniteSet(Front)
      BY <1>2, FS_Subset
    <3>3. Cardinality(Newer) >= MaxPerUser
      <4> HIDE DEF Front, Newer
      <4> QED
        BY <1>1, <3>1, <3>2, FS_CardinalityType
    <3> QED
      BY <3>3 DEF BeyondCap, Seen
  <2> QED
    BY <2>1
<1> HIDE DEF c, there
<1>7. IsFiniteSet(few) /\ Cardinality(few) <= MaxPerUser
  BY <1>1, <1>2, <1>4, <1>5, FewInFront
<1> HIDE DEF few
<1>8. IsFiniteSet(kept) /\ Cardinality(kept) <= Cardinality(few)
  BY <1>6, <1>7, FS_Subset
<1> HIDE DEF kept
<1>9. Cardinality(kept) \in Nat /\ Cardinality(few) \in Nat
  BY <1>7, <1>8, FS_CardinalityType
<1>10. Cardinality(kept) <= MaxPerUser
  BY <1>1, <1>7, <1>8, <1>9
<1> QED
  BY <1>10 DEF kept

(* Every row holds an answer about its photo after every step.             *)
LEMMA PhotosStep ==
    ASSUME ConstantsOK, IInv, PhotosFit, [Next]_vars
    PROVE  PhotosFit'
<1> USE DEF requestVars, saveVars, tableVars, correctionVars
<1>t. TypeOK /\ PhasesFit /\ LocksHold
  BY DEF IInv
<1>1. ASSUME UNCHANGED <<row, pending, open, photo>> PROVE PhotosFit'
  BY <1>1 DEF PhotosFit
<1>2. ASSUME NEW q \in Requests, Upsert(q) PROVE PhotosFit'
  <2>1. answer[q] = q /\ photo[q] \in Photos
    BY <1>t, <1>2 DEF Upsert, PhasesFit, TypeOK
  <2>2. /\ pending'[q] = Upserted(q) /\ \A x \in open : x # q => pending'[x] = pending[x]
        /\ open' = open \cup {q} /\ UNCHANGED <<row, photo>>
    BY <1>t, <1>2 DEF Upsert, TypeOK
  <2>3. photo[Upserted(q).answer] = photo[q]
    BY <1>t, <2>1, UpsertedStamp DEF PhotosFit
  <2> QED
    BY <2>2, <2>3 DEF PhotosFit
<1>3. ASSUME NEW q \in Requests, Commit(q), UNCHANGED photo PROVE PhotosFit'
  BY <1>3, CommitRows DEF PhotosFit
<1>4. ASSUME NEW q \in Requests, SaveFails(q) PROVE PhotosFit'
  <2>1. /\ \A x \in open' : pending'[x] = pending[x] /\ x \in open
        /\ UNCHANGED <<row, photo>>
    BY <1>t, <1>4 DEF SaveFails, TypeOK
  <2> QED
    BY <2>1 DEF PhotosFit
<1>5. ASSUME NEW q \in Requests, Enrich(q) PROVE PhotosFit'
  <2>1. CASE ~Holds(q)
    BY <1>1, <1>5, <2>1 DEF Enrich
  <2>2. CASE Holds(q)
    <3>1. row[photo[q]] \in Rows /\ photo[q] \in Photos
      BY <1>t, <2>2, RowFacts DEF Holds, TypeOK
    <3> QED
      BY <1>t, <1>5, <2>2, <3>1 DEF Enrich, Rows, TypeOK, PhotosFit, Holds
  <2> QED
    BY <2>1, <2>2
<1>6. ASSUME PurgeDelete PROVE PhotosFit'
  BY <1>6, PurgeRows DEF PurgeDelete, PhotosFit
<1>k. ASSUME NEW q \in Requests,
             Scan(q) \/ Stamp(q) \/ Evict(q) \/ EnrichLater(q) \/ Name(q) \/ Correct(q)
      PROVE  PhotosFit'
  BY <1>1, <1>k
     DEF Scan, Repeat, Look, Reserve, Answer, Stamp, Evict, EnrichLater, Name, Correct, CorrectRead, CorrectWrite
<1>l. ASSUME Age \/ PurgeSelect \/ AgeCorrections \/ PurgeCorrections \/ UNCHANGED vars PROVE PhotosFit'
  BY <1>1, <1>l DEF Age, PurgeSelect, AgeCorrections, PurgeCorrections, vars
<1> QED
  BY <1>2, <1>3, <1>4, <1>5, <1>6, <1>k, <1>l
     DEF Next, SaveStep, Save, SaveUnacknowledged, Respond, Purge

(* A save leaves no more when rows only go, keep their ids, and it goes on.*)
LEMMA LeftShrinks ==
    ASSUME ConstantsOK, IInv, NEW q \in open, UNCHANGED photo,
           pending'[q] = pending[q], victims'[q] = victims[q], row' \in [Photos -> Rows \cup {NoRow}],
           \A p \in Photos : p # photo[q] /\ row'[p] # NoRow => row[p] # NoRow /\ row'[p].id = row[p].id
    PROVE  Cardinality(Left(q)') <= Cardinality(Left(q))
<1>1. TypeOK /\ q \in Requests /\ pending[q] \in Rows /\ photo[q] \in Photos
  BY DEF IInv, LocksHold, TypeOK
<1>2. \A p \in Photos : Seen(q)'[p] = IF p = photo[q] THEN pending[q] ELSE row'[p]
  BY <1>1 DEF Seen
<1>3. \A p \in Photos : Seen(q)[p] = IF p = photo[q] THEN pending[q] ELSE row[p]
  BY <1>1, SeenTyped
<1>4. Left(q)' \subseteq Left(q)
  BY <1>2, <1>3 DEF Left
<1>5. IsFiniteSet(Left(q))
  BY <1>1, SeenTyped
<1> QED
  BY <1>4, <1>5, FS_Subset

(* A step that changes no row but in ways a save may ignore.               *)
LEMMA CapKept ==
    ASSUME ConstantsOK, IInv, CapFits, TypeOK', UNCHANGED photo,
           \A q \in open' : pc'[q] = "evicting" /\ q \notin overlapped' =>
               /\ q \in open /\ pc[q] = "evicting" /\ q \notin overlapped
               /\ pending'[q] = pending[q] /\ victims'[q] = victims[q]
               /\ \A p \in Photos : p # photo[q] /\ row'[p] # NoRow => row[p] # NoRow /\ row'[p].id = row[p].id
    PROVE  CapFits'
<1>1. ASSUME NEW q \in open', pc'[q] = "evicting", q \notin overlapped'
      PROVE  Cardinality(Left(q)') <= MaxPerUser
  <2>1. q \in open /\ pc[q] = "evicting" /\ q \notin overlapped
    BY <1>1
  <2>2. TypeOK /\ q \in Requests /\ pending[q] \in Rows
    BY <2>1 DEF IInv, LocksHold, TypeOK
  <2>3. Cardinality(Left(q)') <= Cardinality(Left(q))
    BY <1>1, <2>1, LeftShrinks DEF TypeOK
  <2>4. Cardinality(Left(q)) <= MaxPerUser /\ Cardinality(Left(q)) \in Nat
    BY <2>1, <2>2, SeenTyped DEF CapFits
  <2>5. IsFiniteSet(Left(q)')
    BY ConstantsOK, FS_Subset DEF ConstantsOK, Left
  <2>6. Cardinality(Left(q)') \in Nat
    BY <2>5, FS_CardinalityType
  <2> QED
    BY <2>3, <2>4, <2>6, ConstantsOK DEF ConstantsOK
<1> QED
  BY <1>1 DEF CapFits

(* What an eviction will leave fits the cap after every step.              *)
LEMMA CapStep ==
    ASSUME ConstantsOK, IInv, PhotosFit, CapFits, TypeOK', [Next]_vars
    PROVE  CapFits'
<1> USE DEF requestVars, saveVars, tableVars, correctionVars
<1>t. TypeOK /\ PhasesFit /\ LocksHold
  BY DEF IInv
<1>1. ASSUME UNCHANGED <<row, saveVars, photo>>, \A q \in Requests : pc'[q] = "evicting" => pc[q] = "evicting"
      PROVE  CapFits'
  BY <1>t, <1>1, CapKept DEF TypeOK
<1>2. ASSUME NEW s \in Requests, Upsert(s) PROVE CapFits'
  <2>1. \A q \in open' : pc'[q] = "evicting" =>
            q # s /\ q \in open /\ pc[q] = "evicting" /\ pending'[q] = pending[q]
    BY <1>t, <1>2 DEF Upsert, TypeOK
  <2> QED
    BY <1>2, <2>1, CapKept DEF Upsert
<1>3. ASSUME NEW s \in Requests, Evict(s) PROVE CapFits'
  <2>1. s \in open
    BY <1>t, <1>3 DEF Evict, PhasesFit, Saving
  <2>2. /\ victims'[s] = BeyondCap(s) /\ UNCHANGED <<row, photo, pending, open, overlapped>>
        /\ \A q \in Requests : q # s => victims'[q] = victims[q] /\ pc'[q] = pc[q]
    BY <1>t, <1>3 DEF Evict, TypeOK
  <2>3. Left(s)' = {p \in Photos : Seen(s)[p] # NoRow /\ Seen(s)[p].id \notin BeyondCap(s)}
    BY <2>2 DEF Left, Seen
  <2>4. Cardinality(Left(s)') <= MaxPerUser
    BY <2>1, <2>3, EvictionSuffices
  <2>5. ASSUME NEW q \in open', q # s, pc'[q] = "evicting", q \notin overlapped'
        PROVE  Cardinality(Left(q)') <= MaxPerUser
    <3>1. q \in open /\ pc[q] = "evicting" /\ q \notin overlapped /\ Left(q)' = Left(q)
      BY <1>t, <2>2, <2>5 DEF Left, Seen, TypeOK
    <3> QED
      BY <3>1 DEF CapFits
  <2> QED
    BY <2>4, <2>5 DEF CapFits
<1>4. ASSUME NEW s \in Requests, Commit(s), UNCHANGED photo PROVE CapFits'
  <2>1. \A q \in open' : q \in overlapped'
    BY <1>4 DEF Commit
  <2> QED
    BY <2>1 DEF CapFits
<1>5. ASSUME NEW s \in Requests, SaveFails(s) PROVE CapFits'
  <2>1. /\ UNCHANGED <<row, photo, overlapped>>
        /\ \A q \in open' : q \in open /\ pc'[q] = pc[q] /\ pending'[q] = pending[q] /\ victims'[q] = victims[q]
    BY <1>t, <1>5 DEF SaveFails, NotSaved, TypeOK
  <2> QED
    BY <2>1, CapKept
<1>6. ASSUME NEW s \in Requests, Enrich(s) PROVE CapFits'
  <2>1. \A q \in Requests : pc'[q] = "evicting" => pc[q] = "evicting"
    BY <1>t, <1>6 DEF Enrich, TypeOK
  <2>2. CASE ~Holds(s)
    BY <1>1, <1>6, <2>1, <2>2 DEF Enrich
  <2>3. CASE Holds(s)
    <3>1. row[photo[s]] \in Rows /\ photo[s] \in Photos
      BY <1>t, <2>3, RowFacts DEF Holds, TypeOK
    <3>2. \A p \in Photos : row'[p] # NoRow => row[p] # NoRow /\ row'[p].id = row[p].id
      BY <1>t, <1>6, <2>3, <3>1 DEF Enrich, Rows, TypeOK, Holds
    <3> QED
      BY <1>t, <1>6, <2>1, <3>2, CapKept DEF Enrich, TypeOK
  <2> QED
    BY <2>2, <2>3
<1>7. ASSUME PurgeDelete PROVE CapFits'
  BY <1>7, PurgeRows, CapKept DEF PurgeDelete
<1>k. ASSUME NEW s \in Requests, Scan(s) \/ Stamp(s) \/ EnrichLater(s) \/ Name(s) \/ Correct(s)
      PROVE  CapFits'
  <2>1. \A q \in Requests : pc'[q] = "evicting" => pc[q] = "evicting"
    BY <1>t, <1>k
       DEF Scan, Repeat, Look, Reserve, Answer, Stamp, EnrichLater, Name, Correct, CorrectRead, CorrectWrite, TypeOK
  <2> QED
    BY <1>1, <1>k, <2>1
       DEF Scan, Repeat, Look, Reserve, Answer, Stamp, EnrichLater, Name, Correct, CorrectRead, CorrectWrite
<1>l. ASSUME Age \/ PurgeSelect \/ AgeCorrections \/ PurgeCorrections \/ UNCHANGED vars PROVE CapFits'
  BY <1>1, <1>l DEF Age, PurgeSelect, AgeCorrections, PurgeCorrections, vars
<1> QED
  BY <1>2, <1>3, <1>4, <1>5, <1>6, <1>7, <1>k, <1>l
     DEF Next, SaveStep, Save, SaveUnacknowledged, Respond, Purge

(* A save during which no other one commits brings the user's rows back to *)
(* the cap (_evict), whatever the saves before it left, however its steps  *)
(* interleave with enrichments, corrections and the purge, and for any     *)
(* number of photos and any cap.                                           *)
THEOREM CapComesBack == Spec => CapRestored
<1> USE DEF requestVars, saveVars, tableVars, correctionVars
<1> DEFINE A == \A q \in Requests :
         (pc[q] = "evicting" /\ pc'[q] = "saved" /\ q \notin overlapped)
           => Cardinality({p \in Photos : row'[p] # NoRow}) <= MaxPerUser
<1>1. Init => CapInv
  BY InitInv, ConstantsOK DEF Init, CapInv, PhotosFit, CapFits
<1>2. CapInv /\ [Next]_vars => CapInv'
  BY ConstantsOK, TypeStep, PhasesStep, StampsStep, FitsStep, LocksStep, IdsStep, PhotosStep, CapStep
     DEF IInv, CapInv
<1>3. ASSUME CapInv, [Next]_vars, NEW q \in Requests,
             pc[q] = "evicting", pc'[q] = "saved", q \notin overlapped
      PROVE  Cardinality({p \in Photos : row'[p] # NoRow}) <= MaxPerUser
  <2>t. IInv /\ TypeOK
    BY <1>3 DEF CapInv, IInv
  <2>1. Save(q)
    <3>1. ASSUME NEW s \in Requests, Scan(s) \/ Respond(s) \/ Correct(s) PROVE FALSE
      BY <1>3, <2>t, <3>1
         DEF Scan, Repeat, Look, Reserve, Answer, Respond, Enrich, EnrichLater, Name, Correct,
             CorrectRead, CorrectWrite, TypeOK
    <3>2. ASSUME NEW s \in Requests, SaveStep(s) PROVE Save(q)
      BY <1>3, <2>t, <3>2
         DEF SaveStep, Stamp, Upsert, Evict, Save, SaveUnacknowledged, SaveFails, NotSaved, TypeOK
    <3>3. ASSUME Age \/ Purge \/ UNCHANGED vars PROVE FALSE
      BY <1>3, <3>3 DEF Age, Purge, PurgeSelect, PurgeDelete, AgeCorrections, PurgeCorrections, vars
    <3> QED
      BY <1>3, <3>1, <3>2, <3>3 DEF Next
  <2>2. q \in open /\ row' = Without(Seen(q), victims[q])
    BY <2>1 DEF Save, Commit, Seen
  <2>3. Cardinality(Left(q)) <= MaxPerUser
    BY <1>3, <2>2 DEF CapInv, CapFits
  <2>4. {p \in Photos : row'[p] # NoRow} = Left(q)
    BY <2>2 DEF Without, Left
  <2> QED
    BY <2>3, <2>4
<1>4. CapInv /\ [Next]_vars => [A]_vars
  BY <1>3
<1> QED
  BY <1>1, <1>2, <1>4, PTL DEF Spec, CapRestored

=============================================================================
