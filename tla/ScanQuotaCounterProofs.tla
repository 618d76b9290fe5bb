------------------------ MODULE ScanQuotaCounterProofs ------------------------
(***************************************************************************)
(* Theorems about the counters of ScanQuota: the daily units, the reserved *)
(* estimates, the zero-result window and the settled spend, for every      *)
(* value of the constants.                                                 *)
(***************************************************************************)
EXTENDS ScanQuotaProofs, WellFoundedInduction

(* A request's step touches only its own fields, and another request's lease
   row only by taking it over.                                              *)
LEMMA OthersUntouched ==
    ASSUME TypeOK, NEW r \in Requests, NEW s \in Requests, s # r,
           Step(r) \/ Crash(r)
    PROVE  /\ pc'[s] = pc[s] /\ tries'[s] = tries[s] /\ taken'[s] = taken[s]
           /\ outcome'[s] = outcome[s] /\ unit'[s] = unit[s]
           /\ estimate'[s] = estimate[s]
           /\ (s \in kept' <=> s \in kept) /\ (s \in usage' <=> s \in usage)
           /\ Holds(s)' => Holds(s) /\ flag'[userOf[s]] = flag[userOf[s]]
<1> USE DEF callVars, leaseVars, unitVars, spendVars
<1> DEFINE Same == /\ pc'[s] = pc[s] /\ tries'[s] = tries[s] /\ taken'[s] = taken[s]
                   /\ outcome'[s] = outcome[s] /\ unit'[s] = unit[s]
                   /\ estimate'[s] = estimate[s]
                   /\ (s \in kept' <=> s \in kept) /\ (s \in usage' <=> s \in usage)
           Row == holder'[userOf[s]] = s
                    => holder[userOf[s]] = s /\ flag'[userOf[s]] = flag[userOf[s]]
<1>t. /\ pc \in [Requests -> Phases] /\ tries \in [Requests -> 0..1]
      /\ taken \in [Requests -> BOOLEAN] /\ outcome \in [Requests -> Outcomes \cup {"none"}]
      /\ unit \in [Requests -> {"none", "found", "nomatch"}]
      /\ estimate \in [Requests -> {"none", "held", "spent"}]
      /\ holder \in [Users -> Requests \cup {NoRequest}]
      /\ flag \in [Users -> BOOLEAN]
      /\ userOf[s] \in Users /\ userOf[r] \in Users /\ s # NoRequest
  BY ConstantsOK DEF TypeOK
<1>0. CASE CheckGlobal(r) \/ CheckThrottle(r) \/ Crash(r)
  BY <1>0, <1>t DEF CheckGlobal, CheckThrottle, Crash, Goto, Holds
<1>1. ASSUME NEW o, NEW c, NEW row, Answer(r, o, c, row) PROVE Same /\ Row
  BY <1>1, <1>t DEF Answer, Goto
<1>2. ASSUME NEW a, ReserveCost(r, a) \/ GiveBackCost(r, a) PROVE Same /\ Row
  BY <1>2, <1>t DEF ReserveCost, GiveBackCost, Goto
<1>3. ASSUME NEW a, AcquireLease(r, a) PROVE Same /\ Row
  BY <1>3, <1>t DEF AcquireLease, ClaimLease, OwnsRow, Goto
<1>4. ASSUME NEW a, TakeUnit(r, a) PROVE Same /\ Row
  BY <1>4, <1>t DEF TakeUnit, Goto, Holds
<1>5. ASSUME NEW a, Renew(r, a) PROVE Same /\ Row
  BY <1>5, <1>t DEF Renew, Goto
<1>6. ASSUME NEW a, GiveBackUnit(r, a) PROVE Same /\ Row
  BY <1>6, <1>t DEF GiveBackUnit, AfterGiveBack, DropFound, Goto, Holds
<1>7. ASSUME NEW a, LeaseLost(r, a) \/ RefundUnit(r, a) PROVE Same /\ Row
  BY <1>7, <1>t DEF LeaseLost, RefundUnit, AfterGiveBack, DropFound, Goto
<1>8. DeleteLease(r) \/ UNCHANGED leaseVars => Row
  BY <1>t DEF DeleteLease, Holds
<1>9. ASSUME NEW a, NEW save, Settle(r, a, save) PROVE Same /\ Row
  <2>1. Same
    BY <1>9, <1>t DEF Settle, SettleCommit, SettleSpend, MoveToNoMatch, AfterSettle, Goto
  <2>2. DeleteLease(r) \/ UNCHANGED leaseVars
    BY <1>9 DEF Settle, SettleCommit
  <2> QED BY <2>1, <2>2, <1>8
<1>10. ASSUME NEW a, Unlease(r, a) \/ SpendAfterLease(r, a) PROVE Same /\ Row
  <2>1. Same
    BY <1>10, <1>t DEF Unlease, SpendAfterLease, SettleSpend, RetryOrEnd, Goto
  <2>2. DeleteLease(r) \/ UNCHANGED leaseVars
    BY <1>10 DEF Unlease, SpendAfterLease
  <2> QED BY <2>1, <2>2, <1>8
<1> QED BY <1>0, <1>1, <1>2, <1>3, <1>4, <1>5, <1>6, <1>7, <1>9, <1>10
        DEF Step, Reserve, Call, GiveBack, Release, Holds

(* What one step may do to the two counters: nothing, count a unit, take a
   found unit off, or move one to no-match.                                 *)
Counts(r) ==
    /\ unit[r] = "none"
    /\ unit' = [unit EXCEPT ![r] = "found"]
    /\ found' = [found EXCEPT ![userOf[r]] = found[userOf[r]] + 1]
    /\ UNCHANGED nomatch
Uncounts(r) ==
    /\ unit[r] = "found"
    /\ unit' = [unit EXCEPT ![r] = "none"]
    /\ found' = [found EXCEPT ![userOf[r]] = Minus(found[userOf[r]], 1)]
    /\ UNCHANGED nomatch
Recounts(r) ==
    /\ unit[r] = "found"
    /\ unit' = [unit EXCEPT ![r] = "nomatch"]
    /\ found' = [found EXCEPT ![userOf[r]] = Minus(found[userOf[r]], 1)]
    /\ nomatch' = [nomatch EXCEPT ![userOf[r]] = nomatch[userOf[r]] + 1]

(* Every step of a request is one of these for the counters.                *)
LEMMA UnitStep ==
    ASSUME TypeOK, FlagInv, UnitPhaseInv, NEW r \in Requests, Step(r)
    PROVE  Counts(r) \/ Uncounts(r) \/ Recounts(r) \/ UNCHANGED unitVars
<1> USE DEF callVars, leaseVars, unitVars, spendVars
<1>1. Holds(r) => (flag[userOf[r]] <=> unit[r] = "found")
  BY DEF FlagInv
<1>2. /\ pc[r] \in BeforeTake => unit[r] = "none"
      /\ pc[r] = "refunding" => unit[r] = "found"
  BY DEF UnitPhaseInv
<1>3. CASE Reserve(r) \/ Call(r)
  BY <1>2, <1>3 DEF Reserve, Call, CheckGlobal, CheckThrottle, ReserveCost, AcquireLease,
     TakeUnit, Renew, Answer, Counts, BeforeTake
<1>4. CASE GiveBack(r)
  BY <1>1, <1>2, <1>4 DEF GiveBack, GiveBackCost, GiveBackUnit, LeaseLost, RefundUnit,
     DropFound, Uncounts
<1>5. CASE Release(r)
  BY <1>1, <1>5 DEF Release, Settle, SettleCommit, Unlease, SpendAfterLease,
     MoveToNoMatch, Moves, Recounts
<1> QED BY <1>3, <1>4, <1>5 DEF Step

(* The counted requests of a user are finitely many.                        *)
LEMMA HoldingFinite ==
    ASSUME NEW u \in Users, NEW kind
    PROVE  /\ IsFiniteSet(Holding(u, kind)) /\ Cardinality(Holding(u, kind)) \in Nat
           /\ Cardinality(Holding(u, kind)) = 0 <=> Holding(u, kind) = {}
<1>1. Holding(u, kind) \subseteq Requests
  BY DEF Holding, Of
<1>2. IsFiniteSet(Holding(u, kind))
  BY <1>1, ConstantsOK, FS_Subset
<1> QED BY <1>2, FS_CardinalityType, FS_EmptySet

(* A request whose unit changes from one counter to another leaves the one
   set and joins the other.                                                 *)
LEMMA HoldingMoved ==
    ASSUME TypeOK, NEW r \in Requests, NEW k \in {"none", "found", "nomatch"},
           unit[r] # k, unit' = [unit EXCEPT ![r] = k],
           NEW u \in Users, NEW kind \in {"found", "nomatch"}
    PROVE  Cardinality(Holding(u, kind)') =
             IF u # userOf[r] THEN Cardinality(Holding(u, kind))
             ELSE IF kind = k THEN Cardinality(Holding(u, kind)) + 1
             ELSE IF kind = unit[r] THEN Cardinality(Holding(u, kind)) - 1
             ELSE Cardinality(Holding(u, kind))
<1>1. CASE u # userOf[r]
  <2>1. Holding(u, kind)' = Holding(u, kind)
    BY <1>1 DEF Holding, Of, TypeOK
  <2> QED BY <1>1, <2>1
<1>2. CASE u = userOf[r] /\ kind = k
  <2>1. Holding(u, kind)' = Holding(u, kind) \cup {r} /\ r \notin Holding(u, kind)
    BY <1>2 DEF Holding, Of, TypeOK
  <2>2. IsFiniteSet(Holding(u, kind))
    BY HoldingFinite
  <2>3. Cardinality(Holding(u, kind) \cup {r}) = Cardinality(Holding(u, kind)) + 1
    BY <2>1, <2>2, FS_AddElement
  <2> QED BY <1>2, <2>1, <2>3
<1>3. CASE u = userOf[r] /\ kind # k /\ kind = unit[r]
  <2>1. Holding(u, kind)' = Holding(u, kind) \ {r} /\ r \in Holding(u, kind)
    BY <1>3 DEF Holding, Of, TypeOK
  <2>2. IsFiniteSet(Holding(u, kind))
    BY HoldingFinite
  <2>3. Cardinality(Holding(u, kind) \ {r}) = Cardinality(Holding(u, kind)) - 1
    BY <2>1, <2>2, FS_RemoveElement
  <2> QED BY <1>3, <2>1, <2>3
<1>4. CASE u = userOf[r] /\ kind # k /\ kind # unit[r]
  <2>1. Holding(u, kind)' = Holding(u, kind)
    BY <1>4 DEF Holding, Of, TypeOK
  <2> QED BY <1>4, <2>1
<1> QED BY <1>1, <1>2, <1>3, <1>4

(* Each of these changes keeps the counters equal to the sets they count.   *)
LEMMA UnitsStayExact ==
    ASSUME TypeOK, UnitsExact, NEW r \in Requests,
           Counts(r) \/ Uncounts(r) \/ Recounts(r)
    PROVE  UnitsExact'
<1> SUFFICES ASSUME NEW u \in Users
             PROVE  /\ found'[u] = Cardinality(Holding(u, "found")')
                    /\ nomatch'[u] = Cardinality(Holding(u, "nomatch")')
  BY DEF UnitsExact
<1>t. /\ found \in [Users -> Nat] /\ nomatch \in [Users -> Nat]
      /\ unit \in [Requests -> {"none", "found", "nomatch"}] /\ userOf[r] \in Users
  BY ConstantsOK DEF TypeOK
<1>e. /\ found[u] = Cardinality(Holding(u, "found"))
      /\ nomatch[u] = Cardinality(Holding(u, "nomatch"))
  BY DEF UnitsExact
<1>p. unit[r] = "found" /\ u = userOf[r] => found[u] > 0
  <2>1. unit[r] = "found" /\ u = userOf[r] => r \in Holding(u, "found")
    BY DEF Holding, Of
  <2> QED BY <2>1, <1>e, <1>t, HoldingFinite
<1>1. CASE Counts(r)
  <2>1. Cardinality(Holding(u, "found")') =
          IF u = userOf[r] THEN Cardinality(Holding(u, "found")) + 1
          ELSE Cardinality(Holding(u, "found"))
    BY <1>1, HoldingMoved DEF Counts
  <2>2. Cardinality(Holding(u, "nomatch")') = Cardinality(Holding(u, "nomatch"))
    BY <1>1, HoldingMoved DEF Counts
  <2> QED BY <1>1, <1>e, <1>t, <2>1, <2>2 DEF Counts
<1>2. CASE Uncounts(r)
  <2>1. Cardinality(Holding(u, "found")') =
          IF u = userOf[r] THEN Cardinality(Holding(u, "found")) - 1
          ELSE Cardinality(Holding(u, "found"))
    BY <1>2, HoldingMoved DEF Uncounts
  <2>2. Cardinality(Holding(u, "nomatch")') = Cardinality(Holding(u, "nomatch"))
    BY <1>2, HoldingMoved DEF Uncounts
  <2> QED BY <1>2, <1>e, <1>p, <1>t, <2>1, <2>2 DEF Uncounts, Minus
<1>3. CASE Recounts(r)
  <2>1. Cardinality(Holding(u, "found")') =
          IF u = userOf[r] THEN Cardinality(Holding(u, "found")) - 1
          ELSE Cardinality(Holding(u, "found"))
    BY <1>3, HoldingMoved DEF Recounts
  <2>2. Cardinality(Holding(u, "nomatch")') =
          IF u = userOf[r] THEN Cardinality(Holding(u, "nomatch")) + 1
          ELSE Cardinality(Holding(u, "nomatch"))
    BY <1>3, HoldingMoved DEF Recounts
  <2> QED BY <1>3, <1>e, <1>p, <1>t, <2>1, <2>2 DEF Recounts, Minus
<1> QED BY <1>1, <1>2, <1>3

(* A second attempt is only ever that of a give-back or a settle.           *)
LEMMA TriesStep ==
    ASSUME TypeOK, TriesInv, NEW r \in Requests, Step(r) \/ Crash(r)
    PROVE  TriesInv'
<1> USE DEF callVars, leaseVars, unitVars, spendVars
<1> DEFINE Good == tries'[r] = 0
                    \/ pc'[r] \in {"returning", "settling", "unleasing", "spending", "crashed"}
<1>t. pc \in [Requests -> Phases] /\ tries \in [Requests -> 0..1]
  BY DEF TypeOK
<1>i. tries[r] = 0 \/ pc[r] \in {"returning", "settling", "unleasing", "spending", "crashed"}
  BY DEF TriesInv
<1>1. ASSUME CheckGlobal(r) \/ CheckThrottle(r) \/ Crash(r) PROVE Good
  BY <1>1, <1>t, <1>i DEF CheckGlobal, CheckThrottle, Crash, Goto
<1>2. ASSUME NEW o, NEW c, NEW row, Answer(r, o, c, row) PROVE Good
  BY <1>2, <1>t, <1>i DEF Answer, Goto
<1>3. ASSUME NEW a, \/ ReserveCost(r, a) \/ AcquireLease(r, a) \/ TakeUnit(r, a)
                    \/ Renew(r, a) \/ GiveBackCost(r, a)
      PROVE  Good
  BY <1>3, <1>t, <1>i DEF ReserveCost, AcquireLease, TakeUnit, Renew, GiveBackCost, Goto
<1>4. ASSUME NEW a, GiveBackUnit(r, a) \/ RefundUnit(r, a) \/ LeaseLost(r, a)
      PROVE  Good
  BY <1>4, <1>t, <1>i DEF GiveBackUnit, RefundUnit, LeaseLost, AfterGiveBack, Goto
<1>5. ASSUME NEW a, NEW save, Settle(r, a, save) PROVE Good
  BY <1>5, <1>t DEF Settle, AfterSettle, Goto
<1>6. ASSUME NEW a, Unlease(r, a) \/ SpendAfterLease(r, a) PROVE Good
  BY <1>6, <1>t, <1>i DEF Unlease, SpendAfterLease, RetryOrEnd, Goto
<1>7. Good
  BY <1>1, <1>2, <1>3, <1>4, <1>5, <1>6 DEF Step, Reserve, Call, GiveBack, Release
<1> QED BY <1>7, OthersUntouched DEF TriesInv

(* The flag on a lease row keeps saying whether its holder's unit is counted. *)
LEMMA FlagStep ==
    ASSUME TypeOK, FlagInv, UnitPhaseInv, NEW r \in Requests, Step(r) \/ Crash(r)
    PROVE  FlagInv'
<1> USE DEF callVars, leaseVars, unitVars, spendVars
<1> DEFINE u == userOf[r]
           Row == /\ \A v \in Users : v # u => holder'[v] = holder[v] /\ flag'[v] = flag[v]
                  /\ holder'[u] \in {holder[u], r, NoRequest}
                  /\ flag'[u] => holder'[u] \in Requests
                  /\ holder'[u] = r => (flag'[u] <=> unit'[r] = "found")
<1>t. /\ unit \in [Requests -> {"none", "found", "nomatch"}]
      /\ holder \in [Users -> Requests \cup {NoRequest}]
      /\ flag \in [Users -> BOOLEAN]
      /\ u \in Users /\ r # NoRequest /\ NoRequest \notin Requests
  BY ConstantsOK DEF TypeOK
<1>i. /\ flag[u] => holder[u] \in Requests
      /\ holder[u] = r => (flag[u] <=> unit[r] = "found")
      /\ pc[r] \in BeforeTake => unit[r] = "none"
      /\ pc[r] = "refunding" => holder[u] # r
  BY <1>t DEF FlagInv, Holds, UnitPhaseInv
<1>1. ASSUME CheckGlobal(r) \/ CheckThrottle(r) \/ Crash(r) PROVE Row
  BY <1>1, <1>t, <1>i DEF CheckGlobal, CheckThrottle, Crash
<1>2. ASSUME NEW o, NEW c, NEW row, Answer(r, o, c, row) PROVE Row
  BY <1>2, <1>t, <1>i DEF Answer
<1>3. ASSUME NEW a, ReserveCost(r, a) \/ GiveBackCost(r, a) PROVE Row
  BY <1>3, <1>t, <1>i DEF ReserveCost, GiveBackCost
<1>4. ASSUME NEW a, AcquireLease(r, a) PROVE Row
  BY <1>4, <1>t, <1>i DEF AcquireLease, ClaimLease, OwnsRow, BeforeTake
<1>5. ASSUME NEW a, TakeUnit(r, a) PROVE Row
  BY <1>5, <1>t, <1>i DEF TakeUnit, Holds
<1>6. ASSUME NEW a, Renew(r, a) PROVE Row
  BY <1>6, <1>t, <1>i DEF Renew
<1>7. ASSUME NEW a, GiveBackUnit(r, a) PROVE Row
  BY <1>7, <1>t, <1>i DEF GiveBackUnit, DropFound, Holds
<1>8. ASSUME NEW a, LeaseLost(r, a) \/ RefundUnit(r, a) PROVE Row
  BY <1>8, <1>t, <1>i DEF LeaseLost, RefundUnit, DropFound
<1>9. DeleteLease(r) => Row
  BY <1>t, <1>i DEF DeleteLease, Holds
<1>10. ASSUME NEW a, NEW save, Settle(r, a, save) PROVE Row
  <2>1. DeleteLease(r) \/ UNCHANGED <<unitVars, leaseVars>>
    BY <1>10 DEF Settle, SettleCommit
  <2> QED BY <2>1, <1>9, <1>t, <1>i
<1>11. ASSUME NEW a, Unlease(r, a) \/ SpendAfterLease(r, a) PROVE Row
  <2>1. DeleteLease(r) \/ UNCHANGED <<unitVars, leaseVars>>
    BY <1>11 DEF Unlease, SpendAfterLease
  <2> QED BY <2>1, <1>9, <1>t, <1>i
<1>12. Row
  BY <1>1, <1>2, <1>3, <1>4, <1>5, <1>6, <1>7, <1>8, <1>10, <1>11
     DEF Step, Reserve, Call, GiveBack, Release
<1>13. ASSUME NEW v \in Users
       PROVE  /\ holder'[v] \in Requests => userOf[holder'[v]] = v
              /\ flag'[v] => holder'[v] \in Requests
  BY <1>12, <1>t DEF FlagInv
<1>14. ASSUME NEW s \in Requests
       PROVE  (Holds(s) => (flag[userOf[s]] <=> unit[s] = "found"))'
  <2>1. CASE s = r
    BY <2>1, <1>12 DEF Holds
  <2>2. CASE s # r
    BY <2>2, OthersUntouched DEF FlagInv, Holds
  <2> QED BY <2>1, <2>2
<1>15. \A s \in Requests : (Holds(s) => (flag[userOf[s]] <=> unit[s] = "found"))'
  BY <1>14 DEF Holds
<1> QED BY <1>13, <1>15 DEF FlagInv, Holds

(* What a phase knows of the unit is what the step into it left behind.     *)
LEMMA UnitPhaseStep ==
    ASSUME TypeOK, TriesInv, FlagInv, UnitPhaseInv, NEW r \in Requests,
           Step(r) \/ Crash(r)
    PROVE  UnitPhaseInv'
<1> USE DEF callVars, leaseVars, unitVars, spendVars, BeforeTake, Settling
<1> DEFINE u == userOf[r]
           Good == /\ pc'[r] \in BeforeTake => unit'[r] = "none" /\ outcome'[r] = "none"
                   /\ pc'[r] \in {"taken", "calling", "refunding"} => taken'[r] /\ unit'[r] = "found"
                   /\ pc'[r] = "refunding" => holder'[u] # r
                   /\ pc'[r] = "returning" /\ taken'[r] /\ tries'[r] = 0 => unit'[r] = "found"
                   /\ outcome'[r] \in Answered \cup {"error"}
                        => unit'[r] # "none" /\ pc'[r] \in Settling
                   /\ /\ pc'[r] \in Settling \ {"crashed"} /\ unit'[r] = "found"
                      /\ outcome'[r] \in Refundable \cup {"none"}
                      => r \in kept'
<1>t. /\ pc \in [Requests -> Phases] /\ tries \in [Requests -> 0..1]
      /\ taken \in [Requests -> BOOLEAN] /\ outcome \in [Requests -> Outcomes \cup {"none"}]
      /\ unit \in [Requests -> {"none", "found", "nomatch"}]
      /\ holder \in [Users -> Requests \cup {NoRequest}]
      /\ flag \in [Users -> BOOLEAN] /\ u \in Users
  BY ConstantsOK DEF TypeOK
<1>h. Holds(r) <=> holder[u] = r
  BY DEF Holds
<1>i. /\ pc[r] \in BeforeTake => unit[r] = "none" /\ outcome[r] = "none"
      /\ pc[r] \in {"taken", "calling", "refunding"} => taken[r] /\ unit[r] = "found"
      /\ pc[r] = "refunding" => holder[u] # r
      /\ pc[r] = "returning" /\ taken[r] /\ tries[r] = 0 => unit[r] = "found"
      /\ outcome[r] \in Answered \cup {"error"} => unit[r] # "none" /\ pc[r] \in Settling
      /\ /\ pc[r] \in Settling \ {"crashed"} /\ unit[r] = "found"
         /\ outcome[r] \in Refundable \cup {"none"}
         => r \in kept
  BY DEF UnitPhaseInv, Holds
<1>f. holder[u] = r => (flag[u] <=> unit[r] = "found")
  BY DEF FlagInv, Holds
<1>z. tries[r] = 0 \/ pc[r] \in {"returning", "settling", "unleasing", "spending", "crashed"}
  BY DEF TriesInv
<1>1. ASSUME CheckGlobal(r) \/ CheckThrottle(r) \/ Crash(r) PROVE Good
  BY <1>1, <1>t, <1>i DEF CheckGlobal, CheckThrottle, Crash, Goto
<1>2. ASSUME NEW o \in Replies, NEW c, NEW row, Answer(r, o, c, row) PROVE Good
  <2>1. o # "none"
    BY ConstantsOK DEF Outcomes, Answered
  <2> QED BY <1>2, <2>1, <1>t, <1>i DEF Answer, Goto, Answered, Refundable
<1>3. ASSUME NEW a, ReserveCost(r, a) \/ AcquireLease(r, a) \/ GiveBackCost(r, a)
      PROVE  Good
  BY <1>3, <1>t, <1>i DEF ReserveCost, AcquireLease, GiveBackCost, Goto, Answered
<1>4. ASSUME NEW a \in Acks, TakeUnit(r, a) PROVE Good
  <2>1. DailyLimit[u] = 0 => FoundFull(u)
    BY ConstantsOK, <1>t DEF FoundFull, TypeOK
  <2>2. /\ pc[r] = "admitted" /\ UNCHANGED outcome
        /\ pc'[r] \in {"settling", "returning", "taken"}
        /\ taken'[r] = (Holds(r) /\ ~FoundFull(u) /\ a = "acked")
        /\ unit'[r] = IF Holds(r) /\ ~FoundFull(u) /\ Lands(a) THEN "found" ELSE unit[r]
    BY <1>4, <1>t DEF TakeUnit, Goto
  <2>3. /\ pc'[r] = "taken" => Holds(r) /\ ~FoundFull(u) /\ a = "acked"
        /\ pc'[r] = "settling" => FoundFull(u)
    BY <1>4, <1>t, <2>1 DEF TakeUnit, Goto
  <2> QED BY <2>2, <2>3, <1>t, <1>i DEF Lands, Answered
<1>5. ASSUME NEW a, Renew(r, a) PROVE Good
  BY <1>5, <1>t, <1>i DEF Renew, Goto, Answered
<1>6. ASSUME NEW a \in CleanAcks, GiveBackUnit(r, a) PROVE Good
  BY <1>6, <1>t, <1>i, <1>f, <1>h DEF GiveBackUnit, AfterGiveBack, GaveUp, DropFound, Goto,
     Lands, Cut, Answered, CleanAcks, Acks
<1>7. ASSUME NEW a \in CleanAcks, LeaseLost(r, a) PROVE Good
  BY <1>7, <1>t, <1>i, <1>h DEF LeaseLost, AfterGiveBack, GaveUp, Goto,
     Lands, Cut, Answered, CleanAcks, Acks
<1>8. ASSUME NEW a \in CleanAcks, RefundUnit(r, a) PROVE Good
  BY <1>8, <1>t, <1>i, <1>z DEF RefundUnit, AfterGiveBack, DropFound, Goto,
     Lands, Cut, Answered, CleanAcks, Acks
<1>9. ASSUME NEW a, NEW save, Settle(r, a, save) PROVE Good
  <2>1. pc[r] = "settling" /\ UNCHANGED <<outcome, kept>> /\ pc'[r] \in Settling \ {"crashed"}
    BY <1>9, <1>t DEF Settle, AfterSettle, Goto
  <2>2. unit'[r] = unit[r] \/ unit'[r] = "nomatch"
    BY <1>9, <1>t DEF Settle, SettleCommit, MoveToNoMatch
  <2> QED BY <2>1, <2>2, <1>i
<1>10. ASSUME NEW a, Unlease(r, a) \/ SpendAfterLease(r, a) PROVE Good
  <2>1. /\ pc[r] \in {"unleasing", "spending"} /\ UNCHANGED <<outcome, kept, unit>>
        /\ pc'[r] \in Settling \ {"crashed"}
    BY <1>10, <1>t DEF Unlease, SpendAfterLease, RetryOrEnd, Goto
  <2> QED BY <2>1, <1>i
<1>11. Good
  BY <1>1, <1>2, <1>3, <1>4, <1>5, <1>6, <1>7, <1>8, <1>9, <1>10
     DEF Step, Reserve, Call, GiveBack, Release
<1>12. ASSUME NEW s \in Requests, s # r
       PROVE  /\ pc'[s] = pc[s] /\ tries'[s] = tries[s] /\ taken'[s] = taken[s]
              /\ outcome'[s] = outcome[s] /\ unit'[s] = unit[s]
              /\ (s \in kept' <=> s \in kept)
              /\ holder'[userOf[s]] = s => holder[userOf[s]] = s
  BY <1>12, OthersUntouched DEF Holds
<1> QED BY <1>11, <1>12 DEF UnitPhaseInv, Holds

(* Initially nothing is counted.                                            *)
LEMMA UnitInit == Init => UnitInv
<1> SUFFICES ASSUME Init PROVE UnitInv
  OBVIOUS
<1>1. TriesInv /\ FlagInv /\ UnitPhaseInv
  BY ConstantsOK DEF Init, TriesInv, FlagInv, UnitPhaseInv, Holds, BeforeTake, Answered
<1>2. ASSUME NEW u \in Users PROVE found[u] = 0 /\ nomatch[u] = 0
  BY DEF Init
<1>3. ASSUME NEW u \in Users, NEW kind \in {"found", "nomatch"}
      PROVE  Cardinality(Holding(u, kind)) = 0
  <2>1. Holding(u, kind) = {}
    BY DEF Init, Holding, Of
  <2> QED BY <2>1, FS_EmptySet
<1> QED BY <1>1, <1>2, <1>3 DEF UnitInv, UnitsExact

(* Every step keeps what is known of the units.                             *)
LEMMA UnitNext == TypeOK /\ UnitInv /\ [Next]_vars => UnitInv'
<1> SUFFICES ASSUME TypeOK, UnitInv, [Next]_vars PROVE UnitInv'
  OBVIOUS
<1> USE DEF UnitInv
<1>1. ASSUME UNCHANGED <<pc, outcome, taken, tries, holder, flag, found, nomatch, unit, kept>>
      PROVE  UnitInv'
  BY <1>1 DEF TriesInv, FlagInv, UnitPhaseInv, UnitsExact, Holding, Of, Holds
<1>2. ASSUME NEW r \in Requests, UNCHANGED <<found, nomatch, unit>> PROVE UnitsExact'
  BY <1>2 DEF UnitsExact, Holding, Of
<1>3. ASSUME NEW r \in Requests, Step(r) PROVE UnitInv'
  <2>1. UnitsExact'
    BY <1>2, <1>3, UnitStep, UnitsStayExact DEF unitVars
  <2> QED BY <1>3, <2>1, TriesStep, FlagStep, UnitPhaseStep
<1>4. ASSUME NEW r \in Requests, Crash(r) PROVE UnitInv'
  <2>1. UnitsExact'
    BY <1>2, <1>4 DEF Crash, unitVars
  <2> QED BY <1>4, <2>1, TriesStep, FlagStep, UnitPhaseStep
<1>5. CASE Tick \/ (\E u \in Users : AgeOut(u)) \/ UNCHANGED vars
  BY <1>1, <1>5 DEF Tick, AgeOut, vars, requestVars, leaseVars, unitVars
<1> QED BY <1>3, <1>4, <1>5 DEF Next

(* The unit invariant implies the properties of the charge.                 *)
LEMMA UnitImplies == UnitInv => AnsweredIsCounted /\ KeptIsTracked
BY DEF UnitInv, UnitPhaseInv, AnsweredIsCounted, KeptIsTracked, Settling

(* The counters are exact, an answered call stays charged, and a charge that
   was not earned is tracked by a warning.                                  *)
THEOREM UnitsSafe == Spec => [](UnitsExact /\ AnsweredIsCounted /\ KeptIsTracked)
<1>1. Init => TypeOK /\ UnitInv
  BY InitTyped, UnitInit
<1>2. TypeOK /\ UnitInv /\ [Next]_vars => TypeOK' /\ UnitInv'
  BY NextTyped, UnitNext
<1>3. UnitInv => UnitsExact /\ AnsweredIsCounted /\ KeptIsTracked
  BY UnitImplies DEF UnitInv
<1> QED BY <1>1, <1>2, <1>3, PTL DEF Spec

(* Neither daily counter passes its limit: a unit is taken, or moved, only
   below it.                                                                *)
Limited == \A u \in Users : found[u] <= DailyLimit[u] /\ nomatch[u] <= NoMatchCeiling[u]

(* A step that counts a unit had room for it.                               *)
LEMMA LimitedStep ==
    ASSUME TypeOK, FlagInv, UnitPhaseInv, Limited, NEW r \in Requests, Step(r)
    PROVE  Limited'
<1> DEFINE u == userOf[r]
<1>t. /\ found \in [Users -> Nat] /\ nomatch \in [Users -> Nat] /\ u \in Users
      /\ DailyLimit \in [Users -> Nat] /\ NoMatchCeiling \in [Users -> Nat]
      /\ unit \in [Requests -> {"none", "found", "nomatch"}]
  BY ConstantsOK DEF TypeOK
<1>1. Counts(r) => found[u] < DailyLimit[u]
  <2>1. ASSUME Counts(r), NEW a \in Acks, TakeUnit(r, a) PROVE ~FoundFull(u)
    BY <2>1, <1>t DEF Counts, TakeUnit
  <2>2. ASSUME Counts(r) PROVE \E a \in Acks : TakeUnit(r, a)
    <3>1. found' # found /\ unit'[r] = "found" /\ unit[r] = "none"
      BY <2>2, <1>t DEF Counts
    <3>2. ~(Call(r) \/ GiveBack(r) \/ Release(r))
      BY <3>1, <1>t DEF Call, Answer, GiveBack, GiveBackCost, GiveBackUnit, LeaseLost,
         RefundUnit, DropFound, Release, Settle, SettleCommit, MoveToNoMatch, Unlease,
         SpendAfterLease, unitVars
    <3> QED BY <3>1, <3>2 DEF Step, Reserve, CheckGlobal, CheckThrottle, ReserveCost,
         AcquireLease, Renew, unitVars
  <2> QED BY <2>1, <2>2, <1>t DEF FoundFull
<1>2. Recounts(r) => nomatch[u] < NoMatchCeiling[u]
  <2>1. ASSUME Recounts(r) PROVE nomatch' # nomatch
    BY <2>1, <1>t DEF Recounts
  <2>2. ASSUME nomatch' # nomatch PROVE Moves(r)
    BY <2>2 DEF Step, Reserve, Call, GiveBack, Release, CheckGlobal, CheckThrottle,
       ReserveCost, AcquireLease, TakeUnit, Renew, Answer, GiveBackCost, GiveBackUnit,
       LeaseLost, RefundUnit, DropFound, Settle, SettleCommit, MoveToNoMatch, Unlease,
       SpendAfterLease, unitVars
  <2> QED BY <2>1, <2>2 DEF Moves
<1>3. SUFFICES ASSUME NEW v \in Users
               PROVE  found'[v] <= DailyLimit[v] /\ nomatch'[v] <= NoMatchCeiling[v]
  BY DEF Limited
<1>4. found[v] <= DailyLimit[v] /\ nomatch[v] <= NoMatchCeiling[v]
  BY DEF Limited
<1>5. CASE Counts(r)
  BY <1>1, <1>4, <1>5, <1>t DEF Counts
<1>6. CASE Uncounts(r)
  BY <1>4, <1>6, <1>t DEF Uncounts, Minus
<1>7. CASE Recounts(r)
  BY <1>2, <1>4, <1>7, <1>t DEF Recounts, Minus
<1>8. CASE UNCHANGED unitVars
  BY <1>4, <1>8 DEF unitVars
<1> QED BY <1>5, <1>6, <1>7, <1>8, UnitStep

(* Every step keeps the counters within their limits.                       *)
LEMMA LimitedNext == TypeOK /\ UnitInv /\ Limited /\ [Next]_vars => Limited'
<1> SUFFICES ASSUME TypeOK, UnitInv, Limited, [Next]_vars PROVE Limited'
  OBVIOUS
<1>1. ASSUME NEW r \in Requests, Step(r) PROVE Limited'
  BY <1>1, LimitedStep DEF UnitInv
<1>2. CASE UNCHANGED <<found, nomatch>>
  BY <1>2 DEF Limited
<1> QED BY <1>1, <1>2 DEF Next, Crash, Tick, AgeOut, vars, unitVars

(* The answered requests of a user are among those counted.                 *)
LEMMA AnswersCounted ==
    ASSUME UnitInv, TypeOK, Limited PROVE AnswersBounded
<1> SUFFICES ASSUME NEW u \in Users
             PROVE  Cardinality({r \in Of(u) : outcome[r] \in Answered \cup {"error"}})
                        <= DailyLimit[u] + NoMatchCeiling[u]
  BY DEF AnswersBounded
<1> DEFINE A == {r \in Of(u) : outcome[r] \in Answered \cup {"error"}}
           F == Holding(u, "found")
           N == Holding(u, "nomatch")
<1>1. A \subseteq F \cup N
  BY DEF UnitInv, UnitPhaseInv, Holding, Of, TypeOK
<1>2. /\ IsFiniteSet(F) /\ IsFiniteSet(N)
      /\ Cardinality(F) \in Nat /\ Cardinality(N) \in Nat
  BY HoldingFinite
<1>3. F \cap N = {}
  BY DEF Holding
<1>4. /\ IsFiniteSet(F \cup N)
      /\ Cardinality(F \cup N) = Cardinality(F) + Cardinality(N)
  <2>1. Cardinality(F \cup N) = Cardinality(F) + Cardinality(N) - Cardinality(F \cap N)
    BY <1>2, FS_Union
  <2>2. Cardinality(F \cap N) = 0
    BY <1>3, FS_EmptySet
  <2>3. IsFiniteSet(F \cup N)
    BY <1>2, FS_Union
  <2> HIDE DEF F, N
  <2> QED BY <1>2, <2>1, <2>2, <2>3
<1>5. Cardinality(A) <= Cardinality(F \cup N) /\ IsFiniteSet(A)
  BY <1>1, <1>4, FS_Subset
<1>6. Cardinality(A) \in Nat
  BY <1>5, FS_CardinalityType
<1>7. Cardinality(F) <= DailyLimit[u] /\ Cardinality(N) <= NoMatchCeiling[u]
  BY DEF UnitInv, UnitsExact, Limited
<1>8. DailyLimit[u] \in Nat /\ NoMatchCeiling[u] \in Nat
  BY ConstantsOK
<1> HIDE DEF A, F, N
<1>9. Cardinality(A) <= DailyLimit[u] + NoMatchCeiling[u]
  BY <1>2, <1>4, <1>5, <1>6, <1>7, <1>8
<1> QED BY <1>9 DEF A

(* A user's answered calls of a day never exceed the two ceilings together. *)
THEOREM AllowanceSafe == Spec => []AnswersBounded
<1>1. Init => TypeOK /\ UnitInv /\ Limited
  BY InitTyped, UnitInit, ConstantsOK DEF Init, Limited
<1>2. TypeOK /\ UnitInv /\ Limited /\ [Next]_vars => TypeOK' /\ UnitInv' /\ Limited'
  BY NextTyped, UnitNext, LimitedNext
<1>3. TypeOK /\ UnitInv /\ Limited => AnswersBounded
  BY AnswersCounted
<1> QED BY <1>1, <1>2, <1>3, PTL DEF Spec

-----------------------------------------------------------------------------
(* The estimates.                                                           *)

(* What one step may do to the reserved estimates.                          *)
HoldsCost(r) ==
    /\ estimate[r] = "none"
    /\ reserved' = reserved + Est
    /\ estimate' = [estimate EXCEPT ![r] = "held"]
FreesCost(r) ==
    /\ estimate[r] = "held"
    /\ reserved' = Minus(reserved, Est)
    /\ \E e \in {"none", "spent"} : estimate' = [estimate EXCEPT ![r] = e]

(* Every step of a request is one of these for the day's spend row.         *)
LEMMA EstimateStep ==
    ASSUME TypeOK, EstimatePhaseInv, NEW r \in Requests, Step(r)
    PROVE  HoldsCost(r) \/ FreesCost(r) \/ UNCHANGED <<reserved, estimate>>
<1> USE DEF callVars, leaseVars, unitVars, spendVars
<1>1. /\ pc[r] = "checked" => estimate[r] = "none"
      /\ pc[r] \in {"busy", "unleased"} => estimate[r] = "held"
      /\ pc[r] = "settling" /\ r \notin usage => estimate[r] = "held"
      /\ pc[r] = "spending" => estimate[r] = "held"
  BY DEF EstimatePhaseInv, Charged
<1>2. CASE Reserve(r) \/ Call(r)
  BY <1>1, <1>2 DEF Reserve, Call, CheckGlobal, CheckThrottle, ReserveCost, AcquireLease,
     TakeUnit, Renew, Answer, HoldsCost
<1>3. CASE GiveBack(r)
  BY <1>1, <1>3 DEF GiveBack, GiveBackCost, GiveBackUnit, LeaseLost, RefundUnit, FreesCost
<1>4. CASE Release(r)
  BY <1>1, <1>4 DEF Release, Settle, SettleCommit, Unlease, SpendAfterLease,
     SettleSpend, AlreadySettled, FreesCost
<1> QED BY <1>2, <1>3, <1>4 DEF Step

(* The held estimates are finitely many.                                    *)
LEMMA HeldFinite ==
    /\ IsFiniteSet(Held) /\ Cardinality(Held) \in Nat
    /\ Cardinality(Held) = 0 <=> Held = {}
<1>1. Held \subseteq Requests
  BY DEF Held
<1>2. IsFiniteSet(Held)
  BY <1>1, ConstantsOK, FS_Subset
<1> QED BY <1>2, FS_CardinalityType, FS_EmptySet

(* One estimate more or less is Est micros more or less.                    *)
LEMMA Times ==
    ASSUME NEW n \in Nat, NEW e \in Nat
    PROVE  /\ e * (n + 1) = e * n + e
           /\ n > 0 => e * n >= e /\ e * (n - 1) = e * n - e
<1>1. e * (n + 1) = e * n + e
  OBVIOUS
<1>2. ASSUME n > 0 PROVE e * n >= e /\ e * (n - 1) = e * n - e
  <2>1. e * (n - 1) = e * n - e
    OBVIOUS
  <2>2. e * (n - 1) >= 0
    BY <1>2
  <2> QED BY <2>1, <2>2
<1> QED BY <1>1, <1>2

(* Each of these changes keeps reserved equal to the estimates held.        *)
LEMMA EstimatesStayExact ==
    ASSUME TypeOK, EstimatesExact, NEW r \in Requests,
           HoldsCost(r) \/ FreesCost(r) \/ UNCHANGED <<reserved, estimate>>
    PROVE  EstimatesExact'
<1>t. /\ estimate \in [Requests -> {"none", "held", "spent"}]
      /\ reserved \in Nat /\ Est \in Nat /\ Cardinality(Held) \in Nat
      /\ reserved = Est * Cardinality(Held)
  BY ConstantsOK, HeldFinite DEF TypeOK, EstimatesExact
<1>1. CASE HoldsCost(r)
  <2>1. Held' = Held \cup {r} /\ r \notin Held
    BY <1>1, <1>t DEF Held, HoldsCost
  <2>2. Cardinality(Held') = Cardinality(Held) + 1
    BY <2>1, HeldFinite, FS_AddElement
  <2>3. reserved' = reserved + Est
    BY <1>1 DEF HoldsCost
  <2> QED BY <2>2, <2>3, <1>t, Times DEF EstimatesExact
<1>2. CASE FreesCost(r)
  <2>1. Held' = Held \ {r} /\ r \in Held
    BY <1>2, <1>t DEF Held, FreesCost
  <2>2. Cardinality(Held') = Cardinality(Held) - 1
    BY <2>1, HeldFinite, FS_RemoveElement
  <2>3. Cardinality(Held) > 0
    BY <2>1, HeldFinite
  <2>4. /\ Est * Cardinality(Held) >= Est
        /\ Est * (Cardinality(Held) - 1) = Est * Cardinality(Held) - Est
    BY <2>3, <1>t, Times
  <2>5. reserved' = reserved - Est
    BY <1>2, <1>t, <2>4 DEF FreesCost, Minus
  <2> QED BY <2>2, <2>4, <2>5, <1>t DEF EstimatesExact
<1>3. CASE UNCHANGED <<reserved, estimate>>
  BY <1>3 DEF EstimatesExact, Held
<1> QED BY <1>1, <1>2, <1>3

(* What a phase knows of the estimate is what the step into it left behind. *)
LEMMA EstimatePhaseStep ==
    ASSUME TypeOK, EstimatePhaseInv, NEW r \in Requests, Step(r) \/ Crash(r)
    PROVE  EstimatePhaseInv'
<1> USE DEF callVars, leaseVars, unitVars, spendVars, Charged, Settling
<1> DEFINE u == userOf[r]
           Good == /\ pc'[r] \in {"idle", "waiting", "checked"} => estimate'[r] = "none"
                   /\ pc'[r] \in Charged => estimate'[r] = "held"
                   /\ pc'[r] = "settling" /\ r \notin usage' => estimate'[r] = "held"
                   /\ pc'[r] = "unleasing" /\ holder'[u] = r => estimate'[r] = "held"
                   /\ pc'[r] = "spending" => estimate'[r] = "held" /\ holder'[u] # r
                   /\ r \in usage' => /\ estimate'[r] = "spent" /\ holder'[u] # r
                                      /\ pc'[r] \in Settling \ {"spending"}
<1>t. /\ pc \in [Requests -> Phases] /\ tries \in [Requests -> 0..1]
      /\ hasRow \in [Requests -> BOOLEAN]
      /\ estimate \in [Requests -> {"none", "held", "spent"}]
      /\ holder \in [Users -> Requests \cup {NoRequest}]
      /\ u \in Users /\ r # NoRequest
  BY ConstantsOK DEF TypeOK
<1>h. Holds(r) <=> holder[u] = r
  BY DEF Holds
<1>i. /\ pc[r] \in {"idle", "waiting", "checked"} => estimate[r] = "none"
      /\ pc[r] \in Charged => estimate[r] = "held"
      /\ pc[r] = "settling" /\ r \notin usage => estimate[r] = "held"
      /\ pc[r] = "unleasing" /\ holder[u] = r => estimate[r] = "held"
      /\ pc[r] = "spending" => estimate[r] = "held" /\ holder[u] # r
      /\ r \in usage => /\ estimate[r] = "spent" /\ holder[u] # r
                        /\ pc[r] \in Settling \ {"spending"}
  BY DEF EstimatePhaseInv, Holds
<1>1. ASSUME CheckGlobal(r) \/ CheckThrottle(r) \/ Crash(r) PROVE Good
  BY <1>1, <1>t, <1>i DEF CheckGlobal, CheckThrottle, Crash, Goto
<1>2. ASSUME NEW o, NEW c, NEW row, Answer(r, o, c, row) PROVE Good
  BY <1>2, <1>t, <1>i DEF Answer, Goto
<1>3. ASSUME NEW a \in Acks, ReserveCost(r, a) PROVE Good
  BY <1>3, <1>t, <1>i DEF ReserveCost, Goto, Lands, Acks
<1>4. ASSUME NEW a, AcquireLease(r, a) PROVE Good
  BY <1>4, <1>t, <1>i DEF AcquireLease, Goto
<1>5. ASSUME NEW a, TakeUnit(r, a) \/ Renew(r, a) PROVE Good
  BY <1>5, <1>t, <1>i DEF TakeUnit, Renew, Goto
<1>6. ASSUME NEW a \in CleanAcks, GiveBackCost(r, a) PROVE Good
  BY <1>6, <1>t, <1>i DEF GiveBackCost, Goto, Lands, CleanAcks, Acks
<1>7. ASSUME NEW a, GiveBackUnit(r, a) \/ LeaseLost(r, a) \/ RefundUnit(r, a)
      PROVE  Good
  BY <1>7, <1>t, <1>i DEF GiveBackUnit, LeaseLost, RefundUnit, AfterGiveBack, Goto
<1>d. DeleteLease(r) => holder'[u] # r
  BY <1>t, <1>h DEF DeleteLease
<1>8. ASSUME NEW a \in CleanAcks, NEW save, Settle(r, a, save) PROVE Good
  <2>1. pc[r] = "settling" /\ pc'[r] \in Settling \ {"spending", "crashed"}
    BY <1>8, <1>t DEF Settle, AfterSettle, Goto
  <2>2. CASE Lands(a)
    <3>1. /\ holder'[u] # r /\ usage' \subseteq usage \cup {r}
          /\ r \in usage' <=> r \in usage \/ hasRow[r]
      BY <1>8, <2>2, <1>d DEF Settle, SettleCommit
    <3>2. estimate'[r] = IF r \in usage THEN estimate[r] ELSE "spent"
      BY <1>8, <2>2, <1>t DEF Settle, SettleCommit, SettleSpend, AlreadySettled
    <3>3. pc'[r] = "settling" => hasRow[r]
      BY <1>8, <1>t DEF Settle, AfterSettle, Goto
    <3> QED BY <2>1, <3>1, <3>2, <3>3, <1>i
  <2>3. CASE ~Lands(a)
    BY <1>8, <2>1, <2>3, <1>i DEF Settle
  <2> QED BY <2>2, <2>3
<1>9. ASSUME NEW a \in CleanAcks, Unlease(r, a) PROVE Good
  <2>1. /\ pc[r] = "unleasing" /\ pc'[r] \in {"spending", "unleasing", "done"}
        /\ UNCHANGED <<estimate, usage>>
        /\ pc'[r] = "spending" => Lands(a) /\ Holds(r)
        /\ DeleteLease(r) \/ UNCHANGED holder
        /\ Lands(a) => DeleteLease(r)
    BY <1>9, <1>t DEF Unlease, RetryOrEnd, Goto, Lands, LeaseDeleted
  <2>2. holder'[u] = r => holder[u] = r
    BY <2>1, <1>d
  <2> QED BY <2>1, <2>2, <1>d, <1>h, <1>i
<1>10. ASSUME NEW a \in CleanAcks, SpendAfterLease(r, a) PROVE Good
  BY <1>10, <1>t, <1>i DEF SpendAfterLease, SettleSpend, RetryOrEnd, Goto
<1>11. Good
  BY <1>1, <1>2, <1>3, <1>4, <1>5, <1>6, <1>7, <1>8, <1>9, <1>10
     DEF Step, Reserve, Call, GiveBack, Release
<1>12. ASSUME NEW s \in Requests, s # r
       PROVE  /\ pc'[s] = pc[s] /\ estimate'[s] = estimate[s]
              /\ (s \in usage' <=> s \in usage)
              /\ holder'[userOf[s]] = s => holder[userOf[s]] = s
  BY <1>12, OthersUntouched DEF Holds
<1> QED BY <1>11, <1>12 DEF EstimatePhaseInv, Holds

(* A request joins the strandable ones only by a fault.                     *)
LEMMA StrandableStep ==
    ASSUME TypeOK, TriesInv, EstimatePhaseInv, NEW r \in Requests, Step(r) \/ Crash(r)
    PROVE  \/ faults' = faults + 1 /\ Strandable' \subseteq Strandable \cup {r}
           \/ faults' = faults /\ Strandable' \subseteq Strandable
<1> USE DEF callVars, leaseVars, unitVars, spendVars, Charged
<1> DEFINE In(p, t, e) == /\ e = "held"
                          /\ \/ p \in {"unleasing", "spending", "done", "crashed"}
                             \/ p = "settling" /\ t = 1
           Joins == In(pc'[r], tries'[r], estimate'[r]) /\ ~In(pc[r], tries[r], estimate[r])
           Good == faults' = faults + 1 \/ (faults' = faults /\ ~Joins)
<1>t. /\ pc \in [Requests -> Phases] /\ tries \in [Requests -> 0..1]
      /\ estimate \in [Requests -> {"none", "held", "spent"}]
  BY DEF TypeOK
<1>i. /\ pc[r] \in {"idle", "waiting", "checked"} => estimate[r] = "none"
      /\ r \in usage => estimate[r] = "spent"
  BY DEF EstimatePhaseInv
<1>z. tries[r] = 0 \/ pc[r] \in {"returning", "settling", "unleasing", "spending", "crashed"}
  BY DEF TriesInv
<1>1. ASSUME CheckGlobal(r) \/ CheckThrottle(r) PROVE Good
  BY <1>1, <1>t, <1>i, <1>z DEF CheckGlobal, CheckThrottle, Goto
<1>2. ASSUME NEW o, NEW c, NEW row, Answer(r, o, c, row) PROVE Good
  BY <1>2, <1>t, <1>z DEF Answer, Goto, Fault
<1>3. ASSUME NEW a \in Acks, ReserveCost(r, a) PROVE Good
  BY <1>3, <1>t, <1>i DEF ReserveCost, Goto, Fault
<1>4. ASSUME NEW a, AcquireLease(r, a) PROVE Good
  BY <1>4, <1>t, <1>i DEF AcquireLease, Goto, Fault
<1>5. ASSUME NEW a, TakeUnit(r, a) PROVE Good
  BY <1>5, <1>t, <1>z DEF TakeUnit, Goto, Fault
<1>6. ASSUME NEW a, Renew(r, a) PROVE Good
  BY <1>6, <1>t DEF Renew, Goto, Fault
<1>7. ASSUME NEW a \in CleanAcks, GiveBackCost(r, a) PROVE Good
  BY <1>7, <1>t DEF GiveBackCost, Goto, Fault, Lands
<1>8. ASSUME NEW a, GiveBackUnit(r, a) \/ LeaseLost(r, a) \/ RefundUnit(r, a)
      PROVE  Good
  BY <1>8, <1>t DEF GiveBackUnit, LeaseLost, RefundUnit, AfterGiveBack, Goto, Fault
<1>9. ASSUME NEW a, NEW save, Settle(r, a, save) PROVE Good
  <2>1. CASE a = "acked" /\ save
    <3>1. estimate'[r] = "spent"
      BY <1>9, <2>1, <1>t, <1>i DEF Settle, SettleCommit, SettleSpend, AlreadySettled, Lands
    <3> QED BY <1>9, <2>1, <3>1 DEF Settle, Fault
  <2>2. CASE ~(a = "acked" /\ save)
    BY <1>9, <2>2 DEF Settle, Fault
  <2> QED BY <2>1, <2>2
<1>10. ASSUME NEW a, Unlease(r, a) \/ SpendAfterLease(r, a) PROVE Good
  <2>1. CASE a = "acked"
    <3>1. pc[r] \in {"unleasing", "spending"} /\ faults' = faults
      BY <1>10, <2>1 DEF Unlease, SpendAfterLease, Fault
    <3>2. estimate'[r] \in {estimate[r], "spent"}
      BY <1>10, <1>t DEF Unlease, SpendAfterLease, SettleSpend
    <3> QED BY <3>1, <3>2
  <2>2. CASE a # "acked"
    BY <1>10, <2>2 DEF Unlease, SpendAfterLease, Fault
  <2> QED BY <2>1, <2>2
<1>11. ASSUME Crash(r) PROVE Good
  BY <1>11 DEF Crash, Fault
<1>12. Good
  BY <1>1, <1>2, <1>3, <1>4, <1>5, <1>6, <1>7, <1>8, <1>9, <1>10, <1>11
     DEF Step, Reserve, Call, GiveBack, Release
<1>13. ASSUME NEW s \in Requests, s # r
       PROVE  s \in Strandable' <=> s \in Strandable
  BY <1>13, OthersUntouched DEF Strandable, Held
<1>14. r \in Strandable' /\ r \notin Strandable => Joins
  BY DEF Strandable, Held
<1>15. Strandable' \subseteq Requests
  BY DEF Strandable, Held
<1> QED BY <1>12, <1>13, <1>14, <1>15

(* So the strandable requests never outnumber the faults.                   *)
LEMMA StrandableBounded ==
    ASSUME TypeOK, Cardinality(Strandable) <= faults, NEW r \in Requests,
           \/ faults' = faults + 1 /\ Strandable' \subseteq Strandable \cup {r}
           \/ faults' = faults /\ Strandable' \subseteq Strandable
    PROVE  Cardinality(Strandable') <= faults'
<1>1. Strandable \subseteq Requests /\ Strandable' \subseteq Requests
  BY DEF Strandable, Held
<1>2. IsFiniteSet(Strandable) /\ IsFiniteSet(Strandable')
  BY <1>1, ConstantsOK, FS_Subset
<1>3. Cardinality(Strandable) \in Nat /\ Cardinality(Strandable') \in Nat /\ faults \in Nat
  BY <1>2, FS_CardinalityType, ConstantsOK DEF TypeOK
<1>4. /\ IsFiniteSet(Strandable \cup {r})
      /\ Cardinality(Strandable \cup {r}) <= Cardinality(Strandable) + 1
      /\ Cardinality(Strandable \cup {r}) \in Nat
  <2>1. /\ IsFiniteSet(Strandable \cup {r})
        /\ Cardinality(Strandable \cup {r}) \in
             {Cardinality(Strandable), Cardinality(Strandable) + 1}
    BY <1>2, FS_AddElement
  <2> QED BY <2>1, <1>3
<1>5. Strandable' \subseteq Strandable => Cardinality(Strandable') <= Cardinality(Strandable)
  BY <1>2, FS_Subset
<1>6. Strandable' \subseteq Strandable \cup {r}
        => Cardinality(Strandable') <= Cardinality(Strandable \cup {r})
  BY <1>4, FS_Subset
<1> QED BY <1>3, <1>4, <1>5, <1>6

(* Initially nothing is reserved.                                           *)
LEMMA EstimateInit == Init => EstimateInv
<1> SUFFICES ASSUME Init PROVE EstimateInv
  OBVIOUS
<1>1. TriesInv /\ EstimatePhaseInv
  BY DEF Init, TriesInv, EstimatePhaseInv, Charged
<1>2. Held = {} /\ Strandable = {}
  BY DEF Init, Held, Strandable
<1>3. Cardinality(Held) = 0 /\ Cardinality(Strandable) = 0
  BY <1>2, FS_EmptySet
<1>4. reserved = 0 /\ faults = 0 /\ Est * 0 = 0
  BY ConstantsOK DEF Init
<1> QED BY <1>1, <1>3, <1>4 DEF EstimateInv, EstimatesExact

(* Every step keeps what is known of the estimates.                         *)
LEMMA EstimateNext == TypeOK /\ EstimateInv /\ [Next]_vars => EstimateInv'
<1> SUFFICES ASSUME TypeOK, EstimateInv, [Next]_vars PROVE EstimateInv'
  OBVIOUS
<1> USE DEF EstimateInv
<1>1. ASSUME UNCHANGED <<pc, tries, holder, reserved, estimate, usage, faults>>
      PROVE  EstimateInv'
  BY <1>1 DEF TriesInv, EstimatePhaseInv, EstimatesExact, Strandable, Held, Holds
<1>2. ASSUME NEW r \in Requests, Step(r) \/ Crash(r) PROVE EstimateInv'
  <2>1. HoldsCost(r) \/ FreesCost(r) \/ UNCHANGED <<reserved, estimate>>
    BY <1>2, EstimateStep DEF Crash, spendVars
  <2>2. EstimatesExact'
    BY <2>1, EstimatesStayExact
  <2>3. Cardinality(Strandable') <= faults'
    BY <1>2, StrandableStep, StrandableBounded
  <2> QED BY <1>2, <2>2, <2>3, TriesStep, EstimatePhaseStep
<1>3. CASE Tick \/ (\E u \in Users : AgeOut(u)) \/ UNCHANGED vars
  BY <1>1, <1>3 DEF Tick, AgeOut, vars, requestVars, leaseVars, spendVars
<1> QED BY <1>2, <1>3 DEF Next

(* The estimate invariant implies the properties of the settle.             *)
LEMMA EstimateImplies == TypeOK /\ EstimateInv => LedgerProvesSettle /\ StrandedByFaults
<1> SUFFICES ASSUME TypeOK, EstimateInv PROVE LedgerProvesSettle /\ StrandedByFaults
  OBVIOUS
<1>1. LedgerProvesSettle
  BY DEF TypeOK, EstimateInv, EstimatePhaseInv, LedgerProvesSettle
<1>2. {r \in Held : Ended(r)} \subseteq Strandable /\ Strandable \subseteq Requests
  BY DEF Strandable, Ended, Held
<1>3. IsFiniteSet(Strandable)
  BY <1>2, ConstantsOK, FS_Subset
<1>4. /\ Cardinality({r \in Held : Ended(r)}) <= Cardinality(Strandable)
      /\ IsFiniteSet({r \in Held : Ended(r)})
  BY <1>2, <1>3, FS_Subset
<1>5. /\ Cardinality({r \in Held : Ended(r)}) \in Nat /\ Cardinality(Strandable) \in Nat
      /\ faults \in Nat /\ Cardinality(Strandable) <= faults
  BY <1>3, <1>4, FS_CardinalityType, ConstantsOK DEF TypeOK, EstimateInv
<1> QED BY <1>1, <1>4, <1>5 DEF StrandedByFaults

(* reserved_micros is exact, a ledger row proves a settle, and each fault
   strands at most one estimate.                                            *)
THEOREM EstimatesSafe ==
    Spec => [](EstimatesExact /\ LedgerProvesSettle /\ StrandedByFaults)
<1>1. Init => TypeOK /\ EstimateInv
  BY InitTyped, EstimateInit
<1>2. TypeOK /\ EstimateInv /\ [Next]_vars => TypeOK' /\ EstimateInv'
  BY NextTyped, EstimateNext
<1>3. TypeOK /\ EstimateInv => EstimatesExact /\ LedgerProvesSettle /\ StrandedByFaults
  BY EstimateImplies DEF EstimateInv
<1> QED BY <1>1, <1>2, <1>3, PTL DEF Spec

-----------------------------------------------------------------------------
(* The zero-result window.                                                  *)
(* The zero-result window only loses its oldest row or gains one that is
   flagged only when no other is.                                           *)
LEMMA WarningStep ==
    ASSUME TypeOK, OneWarningPerWindow, [Next]_vars
    PROVE  OneWarningPerWindow'
<1> SUFFICES ASSUME NEW u \in Users, NEW i \in DOMAIN zeros'[u], NEW j \in DOMAIN zeros'[u],
                    zeros'[u][i], zeros'[u][j]
             PROVE  i = j
  BY DEF OneWarningPerWindow
<1>t. zeros \in [Users -> Seq(BOOLEAN)]
  BY DEF TypeOK
<1>o. \A v \in Users : \A m, n \in DOMAIN zeros[v] : zeros[v][m] /\ zeros[v][n] => m = n
  BY DEF OneWarningPerWindow
<1>1. CASE UNCHANGED zeros
  BY <1>1, <1>o
<1>2. ASSUME NEW v \in Users, AgeOut(v) PROVE i = j
  <2>1. CASE u = v
    <3>1. zeros'[u] = Tail(zeros[u]) /\ zeros[u] \in Seq(BOOLEAN) /\ zeros[u] # <<>>
      BY <1>2, <2>1, <1>t DEF AgeOut
    <3>2. /\ DOMAIN zeros'[u] = 1..(Len(zeros[u]) - 1) /\ Len(zeros[u]) \in Nat
          /\ DOMAIN zeros[u] = 1..Len(zeros[u])
          /\ \A k \in DOMAIN zeros'[u] : zeros'[u][k] = zeros[u][k + 1]
      BY <3>1, HeadTailProperties
    <3>3. i + 1 \in DOMAIN zeros[u] /\ j + 1 \in DOMAIN zeros[u]
      BY <3>2
    <3>4. i + 1 = j + 1
      BY <3>2, <3>3, <1>o
    <3> QED BY <3>2, <3>4
  <2>2. CASE u # v
    BY <1>2, <2>2, <1>t, <1>o DEF AgeOut
  <2> QED BY <2>1, <2>2
<1>3. ASSUME NEW r \in Requests, zeros' = ZeroRecorded(r) PROVE i = j
  <2> DEFINE rows == zeros[userOf[r]]
             warn == Len(rows) + 1 = ZeroThreshold /\ ~WarnedInWindow(userOf[r])
  <2>1. CASE zeros'[u] = zeros[u]
    BY <2>1, <1>o
  <2>2. CASE u = userOf[r] /\ zeros'[u] = Append(rows, warn)
    <3>1. rows \in Seq(BOOLEAN) /\ rows = zeros[u] /\ warn \in BOOLEAN
      BY <2>2, <1>t
    <3> HIDE DEF warn
    <3>2. /\ DOMAIN zeros'[u] = 1..(Len(rows) + 1) /\ Len(rows) \in Nat
          /\ DOMAIN rows = 1..Len(rows)
          /\ \A k \in 1..Len(rows) : zeros'[u][k] = rows[k]
          /\ zeros'[u][Len(rows) + 1] = warn
      BY <2>2, <3>1
    <3>3. warn => \A k \in DOMAIN rows : ~rows[k]
      BY <2>2, <3>1 DEF warn, WarnedInWindow
    <3> QED BY <3>1, <3>2, <3>3, <1>o
  <2>3. \/ zeros'[u] = zeros[u]
        \/ u = userOf[r] /\ zeros'[u] = Append(rows, warn)
    BY <1>3, <1>t DEF ZeroRecorded
  <2> QED BY <2>1, <2>2, <2>3
<1>4. ASSUME NEW r \in Requests, Step(r)
      PROVE  UNCHANGED zeros \/ zeros' = ZeroRecorded(r)
  BY <1>4 DEF Step, Reserve, Call, GiveBack, Release, CheckGlobal, CheckThrottle,
     ReserveCost, AcquireLease, TakeUnit, Renew, Answer, GiveBackCost, GiveBackUnit,
     LeaseLost, RefundUnit, Settle, SettleCommit, Unlease, SpendAfterLease
<1> QED BY <1>1, <1>2, <1>3, <1>4 DEF Next, Crash, Tick, vars

(* A window of zero results never claims its warning twice.                 *)
THEOREM WarningSafe == Spec => []OneWarningPerWindow
<1>1. Init => OneWarningPerWindow
  BY DEF Init, OneWarningPerWindow
<1> QED BY <1>1, WarningStep, TypeCorrect, PTL DEF Spec
-----------------------------------------------------------------------------
(* The settled spend: sums over a set of requests, by induction on its size *)
(* (through the least counterexample).                                      *)

(* A set of naturals that has 0, and with each number below `top` its
   successor, has every number up to `top`.                                 *)
LEMMA UpTo ==
    ASSUME NEW top \in Nat, NEW S, 0 \in S, \A n \in 0..top : n < top /\ n \in S => n + 1 \in S
    PROVE  top \in S
<1> DEFINE T == {n \in 0..top : n \notin S}
           Below == OpToRel(<, Nat)
<1>1. SUFFICES ASSUME T # {} PROVE FALSE
  OBVIOUS
<1>2. IsWellFoundedOn(Below, Nat)
  BY NatLessThanWellFounded
<1>7. T \subseteq Nat
  OBVIOUS
<1>3. \A m, n \in Nat : m < n => <<m, n>> \in Below
  BY DEF OpToRel
<1>4. PICK n \in T : \A m \in T : <<m, n>> \notin Below
  <2> HIDE DEF Below, T
  <2> QED BY <1>1, <1>2, <1>7, WFMin
<1> HIDE DEF Below
<1>5. n \in 1..top /\ n - 1 \in 0..top /\ n - 1 < n
  BY <1>4
<1>6. n - 1 \in S
  <2>1. <<n - 1, n>> \in Below
    BY <1>3, <1>5
  <2>2. n - 1 \notin T
    BY <1>4, <2>1
  <2> QED BY <1>5, <2>2
<1> QED BY <1>4, <1>5, <1>6

Chosen(s) == CHOOSE x \in s : TRUE

(* What one step of the sum of c over s makes of the sum over the rest.      *)
Added(f, c, s) == IF s = {} THEN 0 ELSE c[Chosen(s)] + f[s \ {Chosen(s)}]

(* f gives the sum of c over every subset of S, as MapThenSumSet takes it.   *)
AddsUp(f, c, S) == f = [s \in SUBSET S |-> Added(f, c, s)]

(* The element taken is one of the set.                                     *)
LEMMA ChosenIn == \A s : s # {} => Chosen(s) \in s
BY DEF Chosen

(* What choosing an element leaves has one element less.                    *)
LEMMA OneLess ==
    ASSUME NEW S, IsFiniteSet(S), NEW s \in SUBSET S, NEW x \in s
    PROVE  /\ s \ {x} \in SUBSET S /\ IsFiniteSet(s)
           /\ Cardinality(s) \in Nat \ {0} /\ Cardinality(s) <= Cardinality(S)
           /\ Cardinality(S) \in Nat
           /\ Cardinality(s \ {x}) = Cardinality(s) - 1
<1>1. IsFiniteSet(s) /\ Cardinality(s) <= Cardinality(S) /\ Cardinality(S) \in Nat
  BY FS_Subset, FS_CardinalityType
<1>2. Cardinality(s) \in Nat /\ Cardinality(s) # 0
  BY <1>1, FS_CardinalityType, FS_EmptySet
<1>3. Cardinality(s \ {x}) = Cardinality(s) - 1
  BY <1>1, FS_RemoveElement
<1> QED BY <1>1, <1>2, <1>3

(* There is such a function: one for the subsets of at most n elements,
   extended size by size.                                                   *)
LEMMA AddsUpExists ==
    ASSUME NEW S, IsFiniteSet(S), NEW c
    PROVE  \E f : AddsUp(f, c, S)
<1> DEFINE Small(n) == {s \in SUBSET S : Cardinality(s) <= n}
           Sums(f, n) == f = [s \in Small(n) |-> Added(f, c, s)]
           A == {n \in Nat : \E f : Sums(f, n)}
<1>1. Cardinality(S) \in Nat
  BY FS_CardinalityType
<1>2. 0 \in A
  <2> DEFINE f == [s \in Small(0) |-> 0]
  <2>1. \A s \in Small(0) : s = {}
    BY FS_Subset, FS_EmptySet, FS_CardinalityType
  <2>2. Sums(f, 0)
    BY <2>1 DEF Added
  <2> QED BY <2>2
<1>3. ASSUME NEW n \in Nat, n \in A PROVE n + 1 \in A
  <2>1. PICK f : Sums(f, n)
    BY <1>3
  <2> DEFINE g == [s \in Small(n + 1) |-> Added(f, c, s)]
  <2>2. \A s \in Small(n) : s \in Small(n + 1)
    <3>1. \A s \in SUBSET S : Cardinality(s) \in Nat
      BY FS_Subset, FS_CardinalityType
    <3> QED BY <3>1
  <2>3. \A s \in Small(n) : f[s] = Added(f, c, s)
    BY <2>1
  <2>4. \A s \in Small(n) : g[s] = f[s]
    BY <2>2, <2>3
  <2>5. ASSUME NEW s \in Small(n + 1), s # {} PROVE s \ {Chosen(s)} \in Small(n)
    BY <2>5, ChosenIn, OneLess
  <2>6. ASSUME NEW s \in Small(n + 1) PROVE Added(f, c, s) = Added(g, c, s)
    <3> HIDE DEF g, Small
    <3> QED BY <2>4, <2>5 DEF Added
  <2>7. Sums(g, n + 1)
    BY <2>6
  <2>8. n + 1 \in Nat /\ \E h : Sums(h, n + 1)
    <3> HIDE DEF g, Sums
    <3> QED BY <2>7
  <2> QED BY <2>8
<1>4. Cardinality(S) \in A
  <2> HIDE DEF A
  <2> QED BY <1>1, <1>2, <1>3, UpTo
<1>5. Small(Cardinality(S)) = SUBSET S
  BY FS_Subset
<1> QED BY <1>4, <1>5 DEF AddsUp

(* Whichever element is taken off first, the sum is the same.               *)
LEMMA AnyFirst ==
    ASSUME NEW S, IsFiniteSet(S), NEW c, \A x \in S : c[x] \in Nat,
           NEW f, AddsUp(f, c, S), NEW t \in SUBSET S
    PROVE  f[t] \in Nat /\ \A x \in t : f[t] = c[x] + f[t \ {x}]
<1> DEFINE Good(s) == f[s] \in Nat /\ \A x \in s : f[s] = c[x] + f[s \ {x}]
           A == {n \in Nat : \A s \in SUBSET S : Cardinality(s) <= n => Good(s)}
<1>0. \A s \in SUBSET S : /\ IsFiniteSet(s) /\ Cardinality(s) \in Nat
                          /\ Cardinality(s) <= Cardinality(S) /\ f[s] = Added(f, c, s)
  BY FS_Subset, FS_CardinalityType DEF AddsUp
<1>1. 0 \in A
  <2>1. ASSUME NEW s \in SUBSET S, Cardinality(s) <= 0 PROVE s = {}
    BY <1>0, <2>1, FS_EmptySet
  <2> QED BY <1>0, <2>1 DEF Added
<1>2. ASSUME NEW n \in Nat, n \in A PROVE n + 1 \in A
  <2>3. SUFFICES ASSUME NEW s \in SUBSET S, Cardinality(s) <= n + 1
               PROVE  f[s] \in Nat /\ \A x \in s : f[s] = c[x] + f[s \ {x}]
    <3>1. n + 1 \in Nat
      OBVIOUS
    <3> QED BY <3>1
  <2>0. \A r \in SUBSET S : Cardinality(r) <= n =>
                f[r] \in Nat /\ \A x \in r : f[r] = c[x] + f[r \ {x}]
    BY <1>2
  <2> HIDE DEF A, Good
  <2>1. CASE s = {}
    <3>1. f[s] = 0
      <4>1. f[s] = Added(f, c, s)
        BY <1>0
      <4> QED BY <2>1, <4>1 DEF Added
    <3> QED BY <2>1, <3>1
  <2>2. CASE s # {}
    <3>1. PICK p \in s : f[s] = c[p] + f[s \ {p}]
      <4>1. f[s] = Added(f, c, s) /\ Chosen(s) \in s
        BY <1>0, <2>2, ChosenIn
      <4> QED BY <2>2, <4>1 DEF Added
    <3>2. \A x \in s : /\ s \ {x} \in SUBSET S /\ Cardinality(s \ {x}) <= n
                      /\ Cardinality(s \ {x}) \in Nat
      BY <1>0, <2>3, OneLess
    <3>3. \A x \in s : f[s \ {x}] \in Nat /\ c[x] \in Nat
      BY <2>0, <3>2
    <3>4. ASSUME NEW x \in s, x # p PROVE f[s] = c[x] + f[s \ {x}]
      <4> DEFINE rest == (s \ {p}) \ {x}
      <4>1. f[s \ {p}] = c[x] + f[rest]
        BY <2>0, <3>2, <3>4
      <4>2. rest = (s \ {x}) \ {p} /\ p \in s \ {x} /\ s \ {x} \in SUBSET S
        BY <3>4
      <4>3. f[s \ {x}] = c[p] + f[rest]
        BY <2>0, <3>2, <4>2
      <4>4. f[rest] \in Nat
        <5>1. Cardinality(rest) = Cardinality(s \ {x}) - 1
          BY <4>2, OneLess
        <5>2. rest \in SUBSET S /\ Cardinality(rest) <= n
          BY <3>2, <5>1
        <5> QED BY <2>0, <5>2
      <4> HIDE DEF rest
      <4> QED BY <3>1, <3>3, <4>1, <4>3, <4>4
    <3>5. f[s] \in Nat
      BY <3>1, <3>3
    <3>6. \A x \in s : f[s] = c[x] + f[s \ {x}]
      <4>1. SUFFICES ASSUME NEW x \in s PROVE f[s] = c[x] + f[s \ {x}]
        OBVIOUS
      <4> QED BY <3>1, <3>4
    <3> QED BY <3>5, <3>6
  <2> QED BY <2>1, <2>2
<1>3. Cardinality(S) \in A
  <2> HIDE DEF A
  <2> QED BY <1>1, <1>2, FS_CardinalityType, UpTo
<1> QED BY <1>0, <1>3

(* The sum of a subset does not depend on what else the function is for.     *)
LEMMA SameSum ==
    ASSUME NEW S, IsFiniteSet(S), NEW c, NEW f, AddsUp(f, c, S),
           NEW T, IsFiniteSet(T), NEW d, NEW g, AddsUp(g, d, T),
           NEW u, u \subseteq S, u \subseteq T, \A x \in u : c[x] = d[x]
    PROVE  f[u] = g[u]
<1> DEFINE A == {n \in Nat : \A s \in SUBSET u : Cardinality(s) <= n => f[s] = g[s]}
<1>0. \A s \in SUBSET u : /\ IsFiniteSet(s) /\ Cardinality(s) \in Nat
                          /\ f[s] = Added(f, c, s) /\ g[s] = Added(g, d, s)
  BY FS_Subset, FS_CardinalityType DEF AddsUp
<1>u. IsFiniteSet(u) /\ u \in SUBSET u
  BY FS_Subset
<1>1. 0 \in A
  <2>1. ASSUME NEW s \in SUBSET u, Cardinality(s) <= 0 PROVE s = {}
    BY <1>0, <2>1, FS_EmptySet
  <2> QED BY <1>0, <2>1 DEF Added
<1>2. ASSUME NEW n \in Nat, n \in A PROVE n + 1 \in A
  <2> SUFFICES ASSUME NEW s \in SUBSET u, Cardinality(s) <= n + 1 PROVE f[s] = g[s]
    BY <1>2
  <2>1. CASE s = {}
    BY <1>0, <2>1 DEF Added
  <2>2. CASE s # {}
    <3>1. Chosen(s) \in s
      BY <2>2, ChosenIn
    <3>2. s \ {Chosen(s)} \in SUBSET u /\ Cardinality(s \ {Chosen(s)}) <= n
      BY <1>u, <3>1, OneLess
    <3> QED BY <1>0, <1>2, <2>2, <3>1, <3>2 DEF Added
  <2> QED BY <2>1, <2>2
<1>3. Cardinality(u) \in A
  <2> HIDE DEF A
  <2> QED BY <1>u, <1>1, <1>2, FS_CardinalityType, UpTo
<1> QED BY <1>0, <1>u, <1>3

(* The sum as SettledExact writes it.                                       *)
Total(c, S) == MapThenSumSet(LAMBDA r : c[r], S)

(* It is the value of a function that adds up.                              *)
LEMMA TotalIs ==
    ASSUME NEW S, IsFiniteSet(S), NEW c
    PROVE  \E f : AddsUp(f, c, S) /\ Total(c, S) = f[S]
<1>1. \E f : AddsUp(f, c, S)
  BY AddsUpExists
<1> QED BY <1>1 DEF Total, MapThenSumSet, MapThenFoldSet, AddsUp, Added, Chosen

(* The total depends on the summands alone.                                 *)
LEMMA TotalSame ==
    ASSUME NEW S, IsFiniteSet(S), NEW c, NEW d, \A x \in S : c[x] = d[x]
    PROVE  Total(c, S) = Total(d, S)
<1>1. PICK f : AddsUp(f, c, S) /\ Total(c, S) = f[S]
  BY TotalIs
<1>2. PICK g : AddsUp(g, d, S) /\ Total(d, S) = g[S]
  BY TotalIs
<1> QED BY <1>1, <1>2, SameSum

(* An element more adds its own summand.                                    *)
LEMMA TotalPlus ==
    ASSUME NEW S, IsFiniteSet(S), NEW r, r \notin S, NEW c,
           \A x \in S \cup {r} : c[x] \in Nat
    PROVE  Total(c, S \cup {r}) = Total(c, S) + c[r]
<1> DEFINE T == S \cup {r}
<1>1. IsFiniteSet(T)
  BY FS_AddElement
<1>2. PICK f : AddsUp(f, c, S) /\ Total(c, S) = f[S]
  BY TotalIs
<1>3. PICK g : AddsUp(g, c, T) /\ Total(c, T) = g[T]
  BY <1>1, TotalIs
<1>4. f[S] = g[S]
  BY <1>1, <1>2, <1>3, SameSum
<1>5. T \ {r} = S /\ r \in T /\ T \in SUBSET T
  OBVIOUS
<1>6. g[T] = c[r] + g[S] /\ f[S] \in Nat /\ c[r] \in Nat
  <2> HIDE DEF T
  <2>3. \A x \in T : c[x] \in Nat
    BY DEF T
  <2>1. g[T] = c[r] + g[T \ {r}]
    BY <1>1, <1>3, <1>5, <2>3, AnyFirst
  <2>2. f[S] \in Nat
    BY <1>2, AnyFirst
  <2> QED BY <1>5, <2>1, <2>2
<1> HIDE DEF T
<1>7. Total(c, T) = Total(c, S) + c[r]
  BY <1>2, <1>3, <1>4, <1>6
<1> QED BY <1>7 DEF T

(* Only a settle of a held estimate changes what is settled; a settled call's
   cost stays.                                                              *)
LEMMA SettlesOnce ==
    ASSUME TypeOK, EstimatePhaseInv, NEW r \in Requests, Step(r) \/ Crash(r)
    PROVE  \/ SettleSpend(r) /\ UNCHANGED cost /\ estimate[r] # "spent"
           \/ /\ UNCHANGED settled
              /\ estimate'[r] = "spent" <=> estimate[r] = "spent"
              /\ \A x \in Requests : estimate[x] = "spent" => cost'[x] = cost[x]
<1> USE DEF callVars, leaseVars, unitVars, spendVars, Charged
<1>1. /\ pc[r] \in Charged \cup {"checked"} => estimate[r] # "spent"
      /\ pc[r] = "settling" /\ r \notin usage => estimate[r] # "spent"
      /\ pc[r] = "spending" => estimate[r] # "spent"
  BY DEF EstimatePhaseInv
<1>t. estimate \in [Requests -> {"none", "held", "spent"}] /\ cost \in [Requests -> Nat]
  BY DEF TypeOK
<1>2. CASE Reserve(r)
  BY <1>1, <1>2, <1>t DEF Reserve, CheckGlobal, CheckThrottle, ReserveCost, AcquireLease, TakeUnit, Renew
<1>3. CASE Call(r)
  <2>1. PICK o \in Replies, c \in Costs, row \in BOOLEAN : Answer(r, o, c, row)
    BY <1>3 DEF Call
  <2>2. estimate[r] # "spent" /\ UNCHANGED <<settled, estimate>>
    BY <1>1, <2>1 DEF Answer
  <2>3. \A x \in Requests : x # r => cost'[x] = cost[x]
    BY <2>1, <1>t DEF Answer
  <2> QED BY <2>2, <2>3
<1>4. CASE GiveBack(r)
  BY <1>1, <1>4, <1>t DEF GiveBack, GiveBackCost, GiveBackUnit, LeaseLost, RefundUnit
<1>5. CASE Release(r)
  BY <1>1, <1>5, <1>t DEF Release, Settle, SettleCommit, AlreadySettled, Unlease, SpendAfterLease
<1>6. CASE Crash(r)
  BY <1>6 DEF Crash
<1> QED BY <1>2, <1>3, <1>4, <1>5, <1>6 DEF Step

(* A settle adds the cost of one call to the spend and the call to the settled. *)
LEMMA SettledStep ==
    ASSUME TypeOK, EstimatePhaseInv, SettledExact, NEW r \in Requests, Step(r) \/ Crash(r)
    PROVE  SettledExact'
<1>1. settled = Total(cost, Spent) /\ IsFiniteSet(Spent)
  <2>1. Spent \subseteq Requests
    BY DEF Spent
  <2> QED BY <2>1, ConstantsOK, FS_Subset DEF SettledExact, Total
<1>2. SUFFICES settled' = Total(cost', Spent')
  BY DEF SettledExact, Total, MapThenSumSet, MapThenFoldSet
<1>3. \A s \in Requests : s # r => estimate'[s] = estimate[s]
  BY OthersUntouched
<1>4. CASE SettleSpend(r) /\ UNCHANGED cost /\ estimate[r] # "spent"
  <2>1. Spent' = Spent \cup {r} /\ r \notin Spent
    BY <1>4 DEF TypeOK, SettleSpend, Spent
  <2>2. \A x \in Spent \cup {r} : cost[x] \in Nat
    BY DEF Spent, TypeOK
  <2>3. Total(cost, Spent \cup {r}) = Total(cost, Spent) + cost[r]
    BY <1>1, <2>1, <2>2, TotalPlus
  <2> QED BY <1>1, <1>4, <2>1, <2>3 DEF SettleSpend
<1>5. CASE /\ UNCHANGED settled
           /\ estimate'[r] = "spent" <=> estimate[r] = "spent"
           /\ \A x \in Requests : estimate[x] = "spent" => cost'[x] = cost[x]
  <2>1. Spent' = Spent
    BY <1>3, <1>5 DEF Spent
  <2>2. \A x \in Spent : cost[x] = cost'[x]
    BY <1>5 DEF Spent
  <2>3. Total(cost, Spent) = Total(cost', Spent)
    BY <1>1, <2>2, TotalSame
  <2> QED BY <1>1, <1>5, <2>1, <2>3
<1> QED BY <1>4, <1>5, SettlesOnce

(* Time and the window's end settle nothing.                                *)
LEMMA SettledNext == TypeOK /\ EstimateInv /\ SettledExact /\ [Next]_vars => SettledExact'
<1> SUFFICES ASSUME TypeOK, EstimateInv, SettledExact, [Next]_vars PROVE SettledExact'
  OBVIOUS
<1>1. ASSUME UNCHANGED <<settled, cost, estimate>> PROVE SettledExact'
  BY <1>1 DEF SettledExact, Spent, MapThenSumSet, MapThenFoldSet
<1>2. CASE \E r \in Requests : Step(r) \/ Crash(r)
  BY <1>2, SettledStep DEF EstimateInv
<1>3. CASE Tick
  BY <1>1, <1>3 DEF Tick, spendVars
<1>4. ASSUME NEW u \in Users, AgeOut(u) PROVE SettledExact'
  BY <1>1, <1>4 DEF AgeOut, requestVars, spendVars
<1>5. CASE UNCHANGED vars
  BY <1>1, <1>5 DEF vars, requestVars, spendVars
<1> QED BY <1>2, <1>3, <1>4, <1>5 DEF Next

(* The day's settled spend is what the settled calls cost, each added once,
   whatever settles are lost, retried or done without the lease.            *)
THEOREM SpendSafe == Spec => []SettledExact
<1>1. Init => TypeOK /\ EstimateInv /\ SettledExact
  <2> SUFFICES ASSUME Init PROVE SettledExact
    BY InitTyped, EstimateInit
  <2>1. Spent = {} /\ settled = 0
    BY DEF Init, Spent
  <2>2. IsFiniteSet({}) /\ \A f : AddsUp(f, cost, {}) => f[{}] = 0
    BY FS_EmptySet DEF AddsUp, Added
  <2>3. Total(cost, {}) = 0
    BY <2>2, TotalIs
  <2> QED BY <2>1, <2>3 DEF SettledExact, Total
<1>2. TypeOK /\ EstimateInv /\ SettledExact /\ [Next]_vars
        => TypeOK' /\ EstimateInv' /\ SettledExact'
  BY NextTyped, EstimateNext, SettledNext
<1> QED BY <1>1, <1>2, PTL DEF Spec
=============================================================================
