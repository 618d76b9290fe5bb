--------------------------- MODULE ScanQuotaProofs ---------------------------
(***************************************************************************)
(* Theorems about ScanQuota, for every set of users and requests, every    *)
(* limit and every bound on faults.                                        *)
(***************************************************************************)
EXTENDS ScanQuota, FiniteSetTheorems, SequenceTheorems, TLAPS

(* The initial counters are zero and every request is idle.                 *)
LEMMA InitTyped == Init => TypeOK
BY ConstantsOK DEF Init, TypeOK, Phases

(* A transaction's fault, if it has one, stays within the bound.            *)
LEMMA FaultTyped ==
    ASSUME TypeOK, NEW a, Fault(a)
    PROVE  faults' \in 0..MaxFaults
BY ConstantsOK DEF TypeOK, Fault

(* The clamped subtraction of the counters never leaves the naturals.       *)
LEMMA MinusTyped ==
    ASSUME NEW a \in Nat, NEW b \in Nat
    PROVE  Minus(a, b) \in Nat
BY DEF Minus

(* The two lease operations keep the lease row typed.                       *)
LEMMA LeaseTyped ==
    ASSUME TypeOK, NEW r \in Requests,
           \/ ClaimLease(r)
           \/ DeleteLease(r)
           \/ UNCHANGED leaseVars
    PROVE  /\ holder' \in [Users -> Requests \cup {NoRequest}]
           /\ ttl' \in [Users -> -1..(Timeout + Grace)]
           /\ flag' \in [Users -> BOOLEAN]
<1>1. CASE ClaimLease(r)
  BY <1>1, ConstantsOK DEF TypeOK, ClaimLease, OwnsRow
<1>2. CASE DeleteLease(r)
  <2>1. \/ UNCHANGED leaseVars
        \/ /\ holder' = [holder EXCEPT ![userOf[r]] = NoRequest]
           /\ ttl' = [ttl EXCEPT ![userOf[r]] = -1]
           /\ flag' = [flag EXCEPT ![userOf[r]] = FALSE]
    BY <1>2 DEF DeleteLease
  <2>2. -1 \in -1..(Timeout + Grace)
    BY ConstantsOK
  <2> QED BY ZenonT(60), <2>1, <2>2 DEF TypeOK, leaseVars
<1>3. CASE UNCHANGED leaseVars
  BY <1>3 DEF TypeOK, leaseVars
<1> QED BY <1>1, <1>2, <1>3

(* The settle's spend keeps the day's row typed.                            *)
LEMMA SpendTyped ==
    ASSUME TypeOK, NEW r \in Requests, SettleSpend(r) \/ UNCHANGED spendVars
    PROVE  /\ reserved' \in Nat /\ settled' \in Nat
           /\ estimate' \in [Requests -> {"none", "held", "spent"}]
<1>1. reserved \in Nat /\ settled \in Nat /\ cost[r] \in Nat /\ Est \in Nat
  BY ConstantsOK DEF TypeOK
<1>2. Minus(reserved, Est) \in Nat
  BY <1>1, MinusTyped
<1>3. settled + cost[r] \in Nat
  BY <1>1
<1>4. CASE SettleSpend(r)
  BY <1>2, <1>3, <1>4 DEF TypeOK, SettleSpend
<1>5. CASE UNCHANGED spendVars
  BY <1>5 DEF TypeOK, spendVars
<1> QED BY <1>4, <1>5

(* A decrement of the found counter, or none, keeps the counters typed.     *)
LEMMA DropTyped ==
    ASSUME TypeOK, NEW r \in Requests, DropFound(r) \/ UNCHANGED <<found, unit>>
    PROVE  /\ found' \in [Users -> Nat]
           /\ unit' \in [Requests -> {"none", "found", "nomatch"}]
<1>1. userOf[r] \in Users /\ Minus(found[userOf[r]], 1) \in Nat
  BY ConstantsOK, MinusTyped DEF TypeOK
<1> QED BY ZenonT(60), <1>1 DEF TypeOK, DropFound

(* The move of a unit to no-match keeps the counters typed.                 *)
LEMMA MoveTyped ==
    ASSUME TypeOK, NEW r \in Requests, MoveToNoMatch(r) \/ UNCHANGED unitVars
    PROVE  /\ found' \in [Users -> Nat] /\ nomatch' \in [Users -> Nat]
           /\ unit' \in [Requests -> {"none", "found", "nomatch"}]
<1>1. userOf[r] \in Users /\ Minus(found[userOf[r]], 1) \in Nat
  BY ConstantsOK, MinusTyped DEF TypeOK
<1>2. nomatch[userOf[r]] + 1 \in Nat
  BY <1>1 DEF TypeOK
<1>3. CASE UNCHANGED unitVars
  BY <1>3 DEF TypeOK, unitVars
<1>4. CASE /\ nomatch' = [nomatch EXCEPT ![userOf[r]] = nomatch[userOf[r]] + 1]
           /\ found' = [found EXCEPT ![userOf[r]] = Minus(found[userOf[r]], 1)]
           /\ unit' = [unit EXCEPT ![r] = "nomatch"]
  <2>1. found' \in [Users -> Nat]
    BY <1>1, <1>4 DEF TypeOK
  <2>2. nomatch' \in [Users -> Nat]
    BY <1>2, <1>4 DEF TypeOK
  <2>3. unit' \in [Requests -> {"none", "found", "nomatch"}]
    BY <1>4 DEF TypeOK
  <2> QED BY <2>1, <2>2, <2>3
<1> QED BY <1>3, <1>4 DEF MoveToNoMatch

(* A recorded zero result appends one Boolean.                              *)
LEMMA ZerosTyped ==
    ASSUME TypeOK, NEW r \in Requests
    PROVE  ZeroRecorded(r) \in [Users -> Seq(BOOLEAN)]
<1> DEFINE rows == zeros[userOf[r]]
           warn == Len(rows) + 1 = ZeroThreshold /\ ~WarnedInWindow(userOf[r])
<1>1. rows \in Seq(BOOLEAN) /\ warn \in BOOLEAN
  BY ConstantsOK DEF TypeOK
<1>2. Append(rows, warn) \in Seq(BOOLEAN)
  BY <1>1
<1> HIDE DEF rows, warn
<1>3. [zeros EXCEPT ![userOf[r]] = Append(rows, warn)] \in [Users -> Seq(BOOLEAN)]
  BY <1>2 DEF TypeOK
<1> QED BY <1>3 DEF ZeroRecorded, rows, warn, TypeOK

(* The reservation keeps the types.                                         *)
LEMMA ReserveTyped ==
    ASSUME NEW r \in Requests, TypeOK, Reserve(r)
    PROVE  TypeOK'
<1> USE DEF callVars, leaseVars, unitVars, spendVars
<1>1. CASE CheckGlobal(r)
  BY <1>1 DEF CheckGlobal, Goto, TypeOK, Phases
<1>2. CASE CheckThrottle(r)
  BY <1>2 DEF CheckThrottle, Goto, TypeOK, Phases
<1>3. ASSUME NEW a \in Acks, ReserveCost(r, a) PROVE TypeOK'
  <2>1. faults' \in 0..MaxFaults
    BY <1>3, FaultTyped DEF ReserveCost
  <2>2. pc' \in [Requests -> Phases]
    BY <1>3 DEF ReserveCost, Goto, TypeOK, Phases
  <2>3. reserved' \in Nat /\ estimate' \in [Requests -> {"none", "held", "spent"}]
    <3>1. \/ UNCHANGED <<reserved, estimate>>
          \/ /\ reserved' = reserved + Est
             /\ estimate' = [estimate EXCEPT ![r] = "held"]
      BY <1>3 DEF ReserveCost
    <3>2. reserved + Est \in Nat
      BY ConstantsOK DEF TypeOK
    <3> QED BY <3>1, <3>2 DEF TypeOK
  <2> QED BY <1>3, <2>1, <2>2, <2>3 DEF ReserveCost, TypeOK
<1>4. ASSUME NEW a \in Acks, AcquireLease(r, a) PROVE TypeOK'
  <2>1. faults' \in 0..MaxFaults
    BY <1>4, FaultTyped DEF AcquireLease
  <2>2. pc' \in [Requests -> Phases]
    BY <1>4 DEF AcquireLease, Goto, TypeOK, Phases
  <2>3. ClaimLease(r) \/ UNCHANGED leaseVars
    BY <1>4 DEF AcquireLease
  <2> QED BY <1>4, <2>1, <2>2, <2>3, LeaseTyped DEF AcquireLease, TypeOK
<1>5. ASSUME NEW a \in Acks, TakeUnit(r, a) PROVE TypeOK'
  <2>1. faults' \in 0..MaxFaults
    BY <1>5, FaultTyped DEF TakeUnit
  <2>2. pc' \in [Requests -> Phases]
    BY <1>5 DEF TakeUnit, Goto, TypeOK, Phases
  <2>3. flag' \in [Users -> BOOLEAN]
    BY <1>5 DEF TakeUnit, TypeOK
  <2>6. found' \in [Users -> Nat]
    <3>1. found' = found \/ found' = [found EXCEPT ![userOf[r]] = found[userOf[r]] + 1]
      BY <1>5 DEF TakeUnit
    <3>2. found \in [Users -> Nat] /\ userOf[r] \in Users
      BY ConstantsOK DEF TypeOK
    <3> QED BY <3>1, <3>2
  <2>4. unit' \in [Requests -> {"none", "found", "nomatch"}]
    BY <1>5 DEF TakeUnit, TypeOK
  <2>5. taken' \in [Requests -> BOOLEAN]
    BY <1>5 DEF TakeUnit, TypeOK, Holds
  <2> QED BY <1>5, <2>1, <2>2, <2>3, <2>4, <2>5, <2>6 DEF TakeUnit, TypeOK
<1>6. ASSUME NEW a \in Acks, Renew(r, a) PROVE TypeOK'
  <2>1. faults' \in 0..MaxFaults
    BY <1>6, FaultTyped DEF Renew
  <2>2. pc' \in [Requests -> Phases]
    <3>1. Goto(r, "calling") \/ Goto(r, "returning")
      BY <1>6 DEF Renew
    <3> QED BY <3>1 DEF Goto, TypeOK, Phases
  <2>3. ttl' \in [Users -> -1..(Timeout + Grace)]
    BY <1>6, ConstantsOK DEF Renew, TypeOK
  <2>4. timer' \in [Requests -> 0..Timeout]
    <3>1. timer' = timer \/ timer' = [timer EXCEPT ![r] = Timeout]
      BY <1>6 DEF Renew
    <3>2. timer \in [Requests -> 0..Timeout] /\ Timeout \in 0..Timeout
      BY ConstantsOK DEF TypeOK
    <3> QED BY <3>1, <3>2
  <2> QED BY <1>6, <2>1, <2>2, <2>3, <2>4 DEF Renew, TypeOK
<1> QED BY <1>1, <1>2, <1>3, <1>4, <1>5, <1>6 DEF Reserve

(* The provider call keeps the types.                                       *)
LEMMA CallTyped ==
    ASSUME NEW r \in Requests, TypeOK, Call(r)
    PROVE  TypeOK'
<1> USE DEF leaseVars, unitVars, spendVars
<1>1. PICK o \in Replies, c \in Costs, row \in BOOLEAN : Answer(r, o, c, row)
  BY DEF Call
<1>2. o \in Outcomes /\ c \in Nat
  BY ConstantsOK
<1>3. faults' \in 0..MaxFaults
  BY <1>1, FaultTyped DEF Answer
<1>4. pc' \in [Requests -> Phases]
  BY <1>1 DEF Answer, Goto, TypeOK, Phases
<1>5. outcome' \in [Requests -> Outcomes \cup {"none"}]
  BY <1>1, <1>2 DEF Answer, TypeOK
<1>6. cost' \in [Requests -> Nat]
  BY <1>1, <1>2, ConstantsOK DEF Answer, TypeOK
<1>7. hasRow' \in [Requests -> BOOLEAN]
  BY <1>1 DEF Answer, TypeOK
<1>8. timer' \in [Requests -> 0..Timeout]
  <2>1. 0 \in 0..Timeout /\ timer' = [timer EXCEPT ![r] = 0]
    BY <1>1, ConstantsOK DEF Answer
  <2> QED BY <2>1 DEF TypeOK
<1> QED BY <1>1, <1>3, <1>4, <1>5, <1>6, <1>7, <1>8 DEF Answer, TypeOK

(* Moving a request to a phase and setting its attempts keeps both typed.   *)
LEMMA AttemptTyped ==
    ASSUME NEW r \in Requests, TypeOK,
           \E phase \in Phases : Goto(r, phase),
           \E n \in 0..1 : tries' = [tries EXCEPT ![r] = n]
    PROVE  pc' \in [Requests -> Phases] /\ tries' \in [Requests -> 0..1]
<1>1. pc' \in [Requests -> Phases]
  BY DEF Goto, TypeOK
<1>2. tries' \in [Requests -> 0..1]
  BY DEF TypeOK
<1> QED BY <1>1, <1>2

(* What follows a give-back attempt keeps the types.                        *)
LEMMA AfterGiveBackTyped ==
    ASSUME NEW r \in Requests, NEW a, TypeOK, AfterGiveBack(r, a)
    PROVE  pc' \in [Requests -> Phases] /\ tries' \in [Requests -> 0..1]
<1>1. /\ \E phase \in {"settling", "returning"} : Goto(r, phase)
      /\ \E n \in 0..1 : tries' = [tries EXCEPT ![r] = n]
  BY DEF AfterGiveBack
<1> QED BY <1>1, AttemptTyped DEF Phases

(* The give-backs keep the types.                                           *)
LEMMA GiveBackTyped ==
    ASSUME NEW r \in Requests, TypeOK, GiveBack(r)
    PROVE  TypeOK'
<1> USE DEF callVars, leaseVars, unitVars, spendVars
<1>1. ASSUME NEW a \in CleanAcks, GiveBackCost(r, a) PROVE TypeOK'
  <2>1. faults' \in 0..MaxFaults
    BY <1>1, FaultTyped DEF GiveBackCost
  <2>2. pc' \in [Requests -> Phases]
    BY <1>1 DEF GiveBackCost, Goto, TypeOK, Phases
  <2>3. reserved' \in Nat /\ estimate' \in [Requests -> {"none", "held", "spent"}]
    <3>1. Minus(reserved, Est) \in Nat
      BY ConstantsOK, MinusTyped DEF TypeOK
    <3> QED BY <1>1, <3>1 DEF GiveBackCost, TypeOK
  <2> QED BY <1>1, <2>1, <2>2, <2>3 DEF GiveBackCost, TypeOK
<1>2. ASSUME NEW a \in CleanAcks, GiveBackUnit(r, a) PROVE TypeOK'
  <2>1. faults' \in 0..MaxFaults
    BY <1>2, FaultTyped DEF GiveBackUnit
  <2>2. pc' \in [Requests -> Phases] /\ tries' \in [Requests -> 0..1]
    BY <1>2, AfterGiveBackTyped DEF GiveBackUnit
  <2>3. DropFound(r) \/ UNCHANGED <<found, unit>>
    BY <1>2 DEF GiveBackUnit
  <2>4. flag' \in [Users -> BOOLEAN]
    BY <1>2 DEF GiveBackUnit, TypeOK
  <2>5. kept' \subseteq Requests
    BY <1>2 DEF GiveBackUnit, TypeOK
  <2> QED BY <1>2, <2>1, <2>2, <2>3, <2>4, <2>5, DropTyped DEF GiveBackUnit, TypeOK
<1>3. ASSUME NEW a \in CleanAcks, LeaseLost(r, a) PROVE TypeOK'
  <2>1. faults' \in 0..MaxFaults
    BY <1>3, FaultTyped DEF LeaseLost
  <2>2. pc' \in [Requests -> Phases] /\ tries' \in [Requests -> 0..1]
    <3>1. CASE AfterGiveBack(r, a)
      BY <3>1, AfterGiveBackTyped
    <3>2. CASE Goto(r, "refunding") /\ UNCHANGED tries
      BY <3>2 DEF Goto, TypeOK, Phases
    <3> QED BY <1>3, <3>1, <3>2 DEF LeaseLost
  <2>3. kept' \subseteq Requests
    BY <1>3 DEF LeaseLost, TypeOK
  <2> QED BY <1>3, <2>1, <2>2, <2>3 DEF LeaseLost, TypeOK
<1>4. ASSUME NEW a \in CleanAcks, RefundUnit(r, a) PROVE TypeOK'
  <2>1. faults' \in 0..MaxFaults
    BY <1>4, FaultTyped DEF RefundUnit
  <2>2. pc' \in [Requests -> Phases] /\ tries' \in [Requests -> 0..1]
    BY <1>4, AfterGiveBackTyped DEF RefundUnit
  <2>3. DropFound(r) \/ UNCHANGED <<found, unit>>
    BY <1>4 DEF RefundUnit
  <2>4. kept' \subseteq Requests
    BY <1>4 DEF RefundUnit, TypeOK
  <2> QED BY <1>4, <2>1, <2>2, <2>3, <2>4, DropTyped DEF RefundUnit, TypeOK
<1> QED BY <1>1, <1>2, <1>3, <1>4 DEF GiveBack

(* The settle and the lease-only path keep the types.                       *)
LEMMA ReleaseTyped ==
    ASSUME NEW r \in Requests, TypeOK, Release(r)
    PROVE  TypeOK'
<1> USE DEF callVars, leaseVars, unitVars, spendVars
<1>0. ASSUME NEW a, RetryOrEnd(r, a)
      PROVE  pc' \in [Requests -> Phases] /\ tries' \in [Requests -> 0..1]
  <2>1. /\ \E phase \in {"unleasing", "done"} : Goto(r, phase)
        /\ \E n \in 0..1 : tries' = [tries EXCEPT ![r] = n]
    BY <1>0 DEF RetryOrEnd
  <2> QED BY <2>1, AttemptTyped DEF Phases
<1>1. ASSUME NEW a \in CleanAcks, NEW save \in BOOLEAN, Settle(r, a, save)
      PROVE  TypeOK'
  <2>1. faults' \in 0..MaxFaults
    BY <1>1, FaultTyped DEF Settle
  <2>2. pc' \in [Requests -> Phases] /\ tries' \in [Requests -> 0..1]
    <3>1. /\ \E phase \in {"done", "settling", "unleasing"} : Goto(r, phase)
          /\ \E n \in 0..1 : tries' = [tries EXCEPT ![r] = n]
      BY <1>1 DEF Settle, AfterSettle
    <3> QED BY <3>1, AttemptTyped DEF Phases
  <2>3. DeleteLease(r) \/ UNCHANGED leaseVars
    BY <1>1 DEF Settle, SettleCommit
  <2>4. SettleSpend(r) \/ UNCHANGED spendVars
    BY <1>1 DEF Settle, SettleCommit
  <2>5. MoveToNoMatch(r) \/ UNCHANGED unitVars
    BY <1>1 DEF Settle, SettleCommit
  <2>6. zeros' \in [Users -> Seq(BOOLEAN)]
    BY <1>1, ZerosTyped DEF Settle, SettleCommit, TypeOK
  <2>7. usage' \subseteq Requests
    BY <1>1 DEF Settle, SettleCommit, TypeOK
  <2>8. UNCHANGED <<callVars, taken, kept>>
    BY <1>1 DEF Settle
  <2>9. /\ holder' \in [Users -> Requests \cup {NoRequest}]
        /\ ttl' \in [Users -> -1..(Timeout + Grace)]
        /\ flag' \in [Users -> BOOLEAN]
    BY <2>3, LeaseTyped
  <2>10. /\ reserved' \in Nat /\ settled' \in Nat
         /\ estimate' \in [Requests -> {"none", "held", "spent"}]
    BY <2>4, SpendTyped
  <2>11. /\ found' \in [Users -> Nat] /\ nomatch' \in [Users -> Nat]
         /\ unit' \in [Requests -> {"none", "found", "nomatch"}]
    BY <2>5, MoveTyped
  <2> QED BY <2>1, <2>2, <2>6, <2>7, <2>8, <2>9, <2>10, <2>11 DEF TypeOK
<1>2. ASSUME NEW a \in CleanAcks, Unlease(r, a) PROVE TypeOK'
  <2>1. faults' \in 0..MaxFaults
    BY <1>2, FaultTyped DEF Unlease
  <2>2. pc' \in [Requests -> Phases] /\ tries' \in [Requests -> 0..1]
    <3>1. CASE Goto(r, "spending") /\ UNCHANGED tries
      BY <3>1 DEF Goto, TypeOK, Phases
    <3>2. CASE RetryOrEnd(r, a)
      BY <3>2, <1>0
    <3> QED BY <1>2, <3>1, <3>2 DEF Unlease
  <2>3. DeleteLease(r) \/ UNCHANGED leaseVars
    BY <1>2 DEF Unlease
  <2> QED BY <1>2, <2>1, <2>2, <2>3, LeaseTyped DEF Unlease, TypeOK
<1>3. ASSUME NEW a \in CleanAcks, SpendAfterLease(r, a) PROVE TypeOK'
  <2>1. faults' \in 0..MaxFaults
    BY <1>3, FaultTyped DEF SpendAfterLease
  <2>2. pc' \in [Requests -> Phases] /\ tries' \in [Requests -> 0..1]
    BY <1>3, <1>0 DEF SpendAfterLease
  <2>3. SettleSpend(r) \/ UNCHANGED spendVars
    BY <1>3 DEF SpendAfterLease
  <2> QED BY <1>3, <2>1, <2>2, <2>3, SpendTyped DEF SpendAfterLease, TypeOK
<1> QED BY <1>1, <1>2, <1>3 DEF Release

(* A crash, the passage of time and the window's ageing keep the types.     *)
LEMMA EnvironmentTyped ==
    ASSUME TypeOK, \/ \E r \in Requests : Crash(r)
                   \/ Tick
                   \/ \E u \in Users : AgeOut(u)
    PROVE  TypeOK'
<1> USE DEF requestVars, leaseVars, unitVars, spendVars
<1>1. ASSUME NEW r \in Requests, Crash(r) PROVE TypeOK'
  <2>1. faults' \in 0..MaxFaults
    BY <1>1, FaultTyped DEF Crash
  <2>2. pc' \in [Requests -> Phases] /\ timer' \in [Requests -> 0..Timeout]
    BY SMTT(60), <1>1, ConstantsOK DEF Crash, Goto, TypeOK, Phases
  <2> QED BY <1>1, <2>1, <2>2 DEF Crash, TypeOK
<1>2. ASSUME Tick PROVE TypeOK'
  <2>1. ttl' \in [Users -> -1..(Timeout + Grace)]
    <3>1. \A u \in Users : ttl[u] >= 0 => ttl[u] - 1 \in -1..(Timeout + Grace)
      BY SMTT(60), ConstantsOK DEF TypeOK
    <3> QED BY <1>2, <3>1 DEF Tick, TypeOK
  <2>2. timer' \in [Requests -> 0..Timeout]
    <3>1. \A r \in Requests : Minus(timer[r], 1) \in 0..Timeout
      BY ConstantsOK DEF TypeOK, Minus
    <3> QED BY <1>2, <3>1 DEF Tick
  <2> QED BY <1>2, <2>1, <2>2 DEF Tick, TypeOK
<1>3. ASSUME NEW u \in Users, AgeOut(u) PROVE TypeOK'
  <2>1. zeros[u] \in Seq(BOOLEAN) /\ zeros[u] # <<>>
    BY <1>3 DEF AgeOut, TypeOK
  <2>2. Tail(zeros[u]) \in Seq(BOOLEAN)
    BY <2>1, HeadTailProperties
  <2>3. zeros' \in [Users -> Seq(BOOLEAN)]
    BY <1>3, <2>2 DEF AgeOut, TypeOK
  <2> QED BY <1>3, <2>3 DEF AgeOut, TypeOK
<1> QED BY <1>1, <1>2, <1>3

(* Every step keeps the types.                                              *)
LEMMA NextTyped == TypeOK /\ [Next]_vars => TypeOK'
<1> SUFFICES ASSUME TypeOK, [Next]_vars PROVE TypeOK'
  OBVIOUS
<1>1. ASSUME NEW r \in Requests, Step(r) PROVE TypeOK'
  BY <1>1, ReserveTyped, CallTyped, GiveBackTyped, ReleaseTyped DEF Step
<1>2. CASE UNCHANGED vars
  BY <1>2 DEF TypeOK, vars, requestVars, leaseVars, unitVars, spendVars
<1> QED BY <1>1, <1>2, EnvironmentTyped DEF Next

(* Types are correct in every state the allowance can reach.                *)
THEOREM TypeCorrect == Spec => []TypeOK
<1> QED BY InitTyped, NextTyped, PTL DEF Spec

-----------------------------------------------------------------------------
(* The per-user lease.                                                      *)

(* A request's step leaves every running call holding a lease that outlives
   the call's deadline, whoever takes the step.                             *)
LEMMA CallStepKeepsLease ==
    ASSUME TypeOK, LeaseCoversCall, NEW r \in Requests, NEW s \in Requests,
           Step(r), pc'[s] = "calling"
    PROVE  /\ holder'[userOf[s]] = s
           /\ ttl'[userOf[s]] >= timer'[s] + Grace
<1> USE DEF callVars, leaseVars, unitVars, spendVars
<1>u. userOf[s] \in Users /\ userOf[r] \in Users /\ s # NoRequest
  BY ConstantsOK
<1>t. /\ pc \in [Requests -> Phases] /\ timer \in [Requests -> 0..Timeout]
      /\ holder \in [Users -> Requests \cup {NoRequest}]
      /\ ttl \in [Users -> -1..(Timeout + Grace)]
      /\ Timeout \in Nat /\ Grace \in Nat \ {0}
  BY ConstantsOK DEF TypeOK
<1>c. pc[s] = "calling" => holder[userOf[s]] = s /\ ttl[userOf[s]] >= timer[s] + Grace
  BY DEF LeaseCoversCall, Holds
<1>n. pc[s] = "calling" => ttl[userOf[s]] >= 0
  BY <1>c, <1>t, <1>u
\* A step that leaves the other's row alone and calls nobody.
<1>1. SUFFICES ASSUME ~(\E a \in Acks : Renew(r, a))
               PROVE  /\ holder'[userOf[s]] = s
                      /\ ttl'[userOf[s]] >= timer'[s] + Grace
  <2>1. ASSUME NEW a \in Acks, Renew(r, a)
        PROVE  /\ holder'[userOf[s]] = s
               /\ ttl'[userOf[s]] >= timer'[s] + Grace
    <3>1. CASE s = r
      <4>1. Holds(r) /\ a = "acked"
        BY <2>1, <3>1, <1>t DEF Renew, Goto
      <4>2. ttl'[userOf[s]] = Timeout + Grace /\ timer'[s] = Timeout /\ holder' = holder
        BY <4>1, <2>1, <3>1, <1>t, <1>u DEF Renew, Lands
      <4> QED BY <4>1, <4>2, <3>1, <1>t DEF Holds
    <3>2. CASE s # r
      <4>1. pc[s] = "calling" /\ timer'[s] = timer[s] /\ holder' = holder
        BY <2>1, <3>2, <1>t DEF Renew, Goto
      <4>2. userOf[s] = userOf[r] => ~Holds(r)
        BY <4>1, <1>c, <3>2 DEF Holds
      <4>3. ttl'[userOf[s]] = ttl[userOf[s]]
        BY <4>2, <2>1, <1>t, <1>u DEF Renew
      <4> QED BY <4>1, <4>3, <1>c
    <3> QED BY <3>1, <3>2
  <2> QED BY <2>1
<1>2. /\ r # s => timer'[s] = timer[s] /\ pc'[s] = pc[s]
      /\ pc'[r] = "calling" => FALSE
  BY <1>1, <1>t DEF Step, Reserve, Call, GiveBack, Release, CheckGlobal, CheckThrottle,
     ReserveCost, AcquireLease, TakeUnit, Answer, GiveBackCost, GiveBackUnit, LeaseLost,
     RefundUnit, Settle, Unlease, SpendAfterLease, AfterGiveBack, AfterSettle, RetryOrEnd, Goto
<1>3. \/ UNCHANGED <<holder, ttl>>
      \/ LeaseFree(userOf[r]) /\ OwnsRow(r)
      \/ DeleteLease(r)
  BY <1>1 DEF Step, Reserve, Call, GiveBack, Release, CheckGlobal, CheckThrottle,
     ReserveCost, AcquireLease, ClaimLease, TakeUnit, Answer, GiveBackCost, GiveBackUnit, LeaseLost,
     RefundUnit, Settle, SettleCommit, Unlease, SpendAfterLease
<1>4. r # s /\ pc[s] = "calling"
  BY <1>2
<1>5. /\ holder'[userOf[s]] = holder[userOf[s]]
      /\ ttl'[userOf[s]] = ttl[userOf[s]]
  <2>1. CASE LeaseFree(userOf[r]) /\ OwnsRow(r)
    BY <2>1, <1>4, <1>c, <1>n, <1>u, <1>t DEF LeaseFree, OwnsRow
  <2>2. CASE DeleteLease(r)
    BY <2>2, <1>4, <1>c, <1>u, <1>t DEF DeleteLease, Holds
  <2> QED BY <1>3, <2>1, <2>2
<1> QED BY <1>2, <1>4, <1>5, <1>c

(* Every step keeps a running call's lease ahead of its deadline.           *)
LEMMA LeaseNext == TypeOK /\ LeaseCoversCall /\ [Next]_vars => LeaseCoversCall'
<1> SUFFICES ASSUME TypeOK, LeaseCoversCall, [Next]_vars, NEW s \in Requests,
                    pc'[s] = "calling"
             PROVE  /\ holder'[userOf[s]] = s
                    /\ ttl'[userOf[s]] >= timer'[s] + Grace
  BY DEF LeaseCoversCall, Holds
<1>c. pc[s] = "calling" => holder[userOf[s]] = s /\ ttl[userOf[s]] >= timer[s] + Grace
  BY DEF LeaseCoversCall, Holds
<1>1. ASSUME NEW r \in Requests, Step(r)
      PROVE  /\ holder'[userOf[s]] = s
             /\ ttl'[userOf[s]] >= timer'[s] + Grace
  BY <1>1, CallStepKeepsLease
<1>2. ASSUME NEW r \in Requests, Crash(r)
      PROVE  /\ holder'[userOf[s]] = s
             /\ ttl'[userOf[s]] >= timer'[s] + Grace
  <2>1. s # r /\ pc[s] = "calling" /\ timer'[s] = timer[s] /\ UNCHANGED leaseVars
    BY <1>2 DEF Crash, Goto, TypeOK
  <2> QED BY <2>1, <1>c DEF leaseVars
<1>3. ASSUME Tick
      PROVE  /\ holder'[userOf[s]] = s
             /\ ttl'[userOf[s]] >= timer'[s] + Grace
  <2>1. /\ pc[s] = "calling" /\ timer[s] > 0 /\ holder' = holder
        /\ timer'[s] = Minus(timer[s], 1)
    BY <1>3 DEF Tick
  <2>2. ttl'[userOf[s]] = IF ttl[userOf[s]] >= 0 THEN ttl[userOf[s]] - 1 ELSE ttl[userOf[s]]
    BY <1>3, ConstantsOK DEF Tick
  <2>3. timer[s] \in Nat /\ ttl[userOf[s]] \in Int /\ Grace \in Nat
    BY ConstantsOK DEF TypeOK
  <2> QED BY <2>1, <2>2, <2>3, <1>c DEF Minus
<1>4. ASSUME NEW u \in Users, AgeOut(u)
      PROVE  /\ holder'[userOf[s]] = s
             /\ ttl'[userOf[s]] >= timer'[s] + Grace
  BY <1>4, <1>c DEF AgeOut, requestVars, leaseVars
<1>5. CASE UNCHANGED vars
  BY <1>5, <1>c DEF vars, requestVars, leaseVars
<1> QED BY <1>1, <1>2, <1>3, <1>4, <1>5 DEF Next

(* Initially nobody calls.                                                  *)
LEMMA LeaseInit == Init => LeaseCoversCall
BY DEF Init, LeaseCoversCall

(* Two calls of one user cannot both hold the user's one lease row.         *)
LEMMA LeaseImplies == LeaseCoversCall => OneCallPerUser
BY DEF LeaseCoversCall, OneCallPerUser, Holds

(* Two provider calls of one user never overlap.                            *)
THEOREM NoOverlap == Spec => []OneCallPerUser
<1>1. Init => TypeOK /\ LeaseCoversCall
  BY InitTyped, LeaseInit
<1>2. TypeOK /\ LeaseCoversCall /\ [Next]_vars => TypeOK' /\ LeaseCoversCall'
  BY NextTyped, LeaseNext
<1> QED BY <1>1, <1>2, LeaseImplies, PTL DEF Spec

(* A settle attempt always moves the request on.                            *)
LEMMA SettleMoves ==
    ASSUME TypeOK, NEW r \in Requests, NEW a,
           \/ pc[r] = "settling" /\ AfterSettle(r, a)
           \/ pc[r] = "unleasing" /\ RetryOrEnd(r, a)
           \/ pc[r] = "unleasing" /\ Goto(r, "spending")
    PROVE  <<pc'[r], tries'[r]>> # <<pc[r], tries[r]>>
BY DEF TypeOK, AfterSettle, RetryOrEnd, Goto

(* A lease leaves its holder only by the holder's step or after expiring.   *)
THEOREM LeaseSafe == Spec => LeaseNotStolen
<1> USE DEF callVars, leaseVars, unitVars, spendVars
<1>1. ASSUME TypeOK, [Next]_vars,
             NEW u \in Users, NEW r \in Requests, holder[u] = r, holder'[u] # r
      PROVE  ttl[u] < 0 \/ <<pc'[r], tries'[r]>> # <<pc[r], tries[r]>>
  <2>1. PICK s \in Requests : Step(s)
    BY <1>1 DEF Next, Crash, Tick, AgeOut, vars
  <2>2. \/ UNCHANGED holder
        \/ LeaseFree(userOf[s]) /\ OwnsRow(s)
        \/ DeleteLease(s) /\ \E a, save : Settle(s, a, save)
        \/ DeleteLease(s) /\ \E a : Unlease(s, a)
    <3>1. CASE Reserve(s) \/ Call(s) \/ GiveBack(s)
      BY <3>1 DEF Reserve, Call, GiveBack, CheckGlobal, CheckThrottle, ReserveCost,
         AcquireLease, ClaimLease, TakeUnit, Renew, Answer, GiveBackCost,
         GiveBackUnit, LeaseLost, RefundUnit
    <3>2. ASSUME NEW a \in CleanAcks, NEW save \in BOOLEAN, Settle(s, a, save)
          PROVE  UNCHANGED holder \/ DeleteLease(s)
      BY <3>2 DEF Settle, SettleCommit
    <3>3. ASSUME NEW a \in CleanAcks, Unlease(s, a)
          PROVE  UNCHANGED holder \/ DeleteLease(s)
      BY <3>3 DEF Unlease
    <3>4. ASSUME NEW a \in CleanAcks, SpendAfterLease(s, a)
          PROVE  UNCHANGED holder
      BY <3>4 DEF SpendAfterLease
    <3> QED BY <2>1, <3>1, <3>2, <3>3, <3>4 DEF Step, Release
  <2>3. CASE LeaseFree(userOf[s]) /\ OwnsRow(s)
    BY <1>1, <2>3, ConstantsOK DEF TypeOK, LeaseFree, OwnsRow
  <2>4. CASE DeleteLease(s) /\ ((\E a, save : Settle(s, a, save)) \/ \E a : Unlease(s, a))
    <3>1. s = r
      BY <1>1, <2>4, ConstantsOK DEF TypeOK, DeleteLease, Holds
    <3>2. <<pc'[s], tries'[s]>> # <<pc[s], tries[s]>>
      BY <1>1, <2>4, SettleMoves DEF Settle, Unlease
    <3> QED BY <3>1, <3>2
  <2> QED BY <1>1, <2>2, <2>3, <2>4
<1>2. TypeOK /\ [Next]_vars =>
        [\A u \in Users : \A r \in Requests :
          /\ holder[u] = r /\ holder'[u] # r
          => ttl[u] < 0 \/ <<pc'[r], tries'[r]>> # <<pc[r], tries[r]>>]_vars
  BY <1>1
<1> QED BY <1>2, TypeCorrect, PTL DEF LeaseNotStolen, Spec
=============================================================================
