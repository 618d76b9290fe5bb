----------------------------- MODULE UsageLedger -----------------------------
(***************************************************************************)
(* What remains of a paid call: its row in ai_usage (ai/ledger.py), its    *)
(* cost in the day's spend with the alerts it sets off (ai/breaker.py,     *)
(* ai/quota/settle.py), and the nightly jobs that roll rows up and purge   *)
(* (services/token_cleanup.py), one per instance of the service.  Leases   *)
(* and allowances of the same settle are in ScanQuota.                     *)
(***************************************************************************)
EXTENDS Integers, Sequences, FiniteSets, FiniteSetsExt

CONSTANTS
  Calls,      \* paid calls, each with one call_id and at most one row
  Cost,       \* Calls -> what the call cost
  Ceiling,    \* the Free daily ceiling
  Pcts,       \* ALERT_THRESHOLDS_PCT
  Jobs,       \* clean-up tasks, one in each process
  Steps,      \* the steps of a night, in their order; "usage" and "spend"
              \* have effects here
  RawDays, DailyDays, SpendDays, \* days a row is kept in each table
  BatchSize, MaxBatches,         \* PURGE_BATCH_SIZE, PURGE_MAX_BATCHES
  Attempts,   \* _RETRY_ATTEMPTS of a step
  Settles,    \* attempts of a settle
  MaxDay,     \* bound: days
  None

(* No row is another row's value; the rest is what the settings of the     *)
(* clean-up and the alerts' thresholds are.                                *)
ConstantsOK ==
  /\ IsFiniteSet(Calls) /\ Cost \in [Calls -> Nat]
  /\ Ceiling \in Int /\ Pcts \subseteq Nat \ {0}
  /\ {RawDays, DailyDays, SpendDays, MaxDay} \subseteq Nat
  /\ None \notin Int

VARIABLES
  raw,     \* ai_usage: call -> the day of its row, or None
  daily,   \* ai_usage_daily: day -> calls counted
  spend,   \* ai_spend_daily: day -> settled cost, None without a row
  mask,    \* ai_spend_daily: day -> thresholds claimed
  call,    \* Calls -> the settle and the alerts of a call
  job,     \* Jobs -> [step, attempt, part, batch, day]
  today,
  wrote,   \* history: call -> the day its row was committed, or None
  sent,    \* history: alerts sent, <<day, pct>> -> how often
  faults   \* history: a day with a settle or claim whose outcome was lost

settleVars == <<raw, spend, mask, call, wrote, sent, faults>>
vars == <<settleVars, daily, job, today>>

Days == 0..MaxDay
RowsOf(day) == {c \in Calls : raw[c] = day}

Go(c, step) == call' = [call EXCEPT ![c] = step]
Done(c) == Go(c, [at |-> "end"])
-----------------------------------------------------------------------------
(* The call was answered; its reservation made the day's row, and that day *)
(* stays its day of spend.                                                 *)
Answer(c) ==
  /\ call[c].at = "idle"
  /\ spend' = [spend EXCEPT ![today] = IF @ = None THEN 0 ELSE @]
  /\ Go(c, [at |-> "settle", day |-> today, try |-> 1])
  /\ UNCHANGED <<raw, mask, wrote, sent, faults, daily, job, today>>

Crossed(total) ==
  IF Ceiling <= 0 \/ total = None THEN {} ELSE {p \in Pcts : total * 100 >= p * Ceiling}

(* One transaction: the row, and the spend if the row was not there.       *)
Inserted(c) == wrote[c] = None
Plus(total, cost) == IF total = None THEN None ELSE total + cost

Write(c, day) ==
  IF Inserted(c)
  THEN /\ raw' = [raw EXCEPT ![c] = today]
       /\ wrote' = [wrote EXCEPT ![c] = today]
       /\ spend' = [spend EXCEPT ![day] = Plus(@, Cost[c])]
  ELSE UNCHANGED <<raw, wrote, spend>>

\* Mutant: judged by the spend before this settle.
PendingBefore(c, day) ==
  IF Inserted(c) THEN Crossed(spend[day]) \ mask[day] ELSE {}

(* The totals this settle returned decide which alerts are pending.        *)
Pending(c, day) ==
  IF Inserted(c) THEN Crossed(Plus(spend[day], Cost[c])) \ mask[day] ELSE {}

Settle(c) ==
  LET day == call[c].day
      due == Pending(c, day) IN
  /\ call[c].at = "settle" /\ Write(c, day)
  /\ IF due = {} THEN Done(c) ELSE Go(c, [at |-> "claim", day |-> day, due |-> due])
  /\ UNCHANGED <<mask, sent, faults, daily, job, today>>

(* An attempt that fails, before its commit or with the answer lost.  After *)
(* the last, the row is dropped: the spend alone is settled, if the lease   *)
(* is still there to show that no attempt committed.                        *)
Again(c) ==
  IF call[c].try < Settles THEN Go(c, [call[c] EXCEPT !.try = @ + 1])
  ELSE Go(c, [at |-> "fallback", day |-> call[c].day])

SettleFails(c) ==
  /\ call[c].at = "settle"
  /\ \/ UNCHANGED <<raw, spend, wrote>>
     \/ Write(c, call[c].day)
  /\ Again(c)
  /\ faults' = faults \cup {call[c].day}
  /\ UNCHANGED <<mask, sent, daily, job, today>>

Fallback(c) ==
  LET day == call[c].day
      due == Pending(c, day) IN
  /\ call[c].at = "fallback"
  /\ spend' = IF Inserted(c) THEN [spend EXCEPT ![day] = Plus(@, Cost[c])] ELSE spend
  /\ IF due = {} THEN Done(c) ELSE Go(c, [at |-> "claim", day |-> day, due |-> due])
  /\ UNCHANGED <<raw, mask, wrote, sent, faults, daily, job, today>>

(* Cut off by its bound, nothing is tried again: it committed or did not. *)
SettleTimesOut(c) ==
  /\ call[c].at = "settle"
  /\ \/ UNCHANGED <<raw, spend, wrote>>
     \/ Write(c, call[c].day)
  /\ Done(c)
  /\ faults' = faults \cup {call[c].day}
  /\ UNCHANGED <<mask, sent, daily, job, today>>

\* Mutant: every bit that was due is sent, not only the ones this claim set.
AllDue(c) == call[c].due

(* claim_alerts: each threshold goes to the one that sets its bit.         *)
Set(c) ==
  LET day == call[c].day IN
  IF spend[day] = None THEN mask ELSE [mask EXCEPT ![day] = @ \cup call[c].due]
Won(c) == Set(c)[call[c].day] \ mask[call[c].day]

Claim(c) ==
  /\ call[c].at = "claim"
  /\ mask' = Set(c)
  /\ Go(c, [at |-> "send", day |-> call[c].day, won |-> Won(c)])
  /\ UNCHANGED <<raw, spend, wrote, sent, faults, daily, job, today>>

(* The claim fails, or commits with its answer lost and wins nothing when  *)
(* it is tried again; or the process stops before it sends.                *)
ClaimFails(c) ==
  /\ call[c].at = "claim"
  /\ mask' \in {mask, Set(c)}
  /\ Done(c)
  /\ faults' = faults \cup {call[c].day}
  /\ UNCHANGED <<raw, spend, wrote, sent, daily, job, today>>

Send(c) ==
  /\ call[c].at = "send"
  /\ sent' = [a \in DOMAIN sent |->
                sent[a] + (IF a[1] = call[c].day /\ a[2] \in call[c].won THEN 1 ELSE 0)]
  /\ Done(c)
  /\ UNCHANGED <<raw, spend, mask, wrote, faults, daily, job, today>>
-----------------------------------------------------------------------------
(* A night: its steps one by one; cutoffs are taken when a step begins.    *)
Step(j) == Steps[job[j].step]
Resting(j) == job[j].step = 0
At(step, try) ==
  [step |-> step, attempt |-> try, part |-> "run", batch |-> 0, day |-> today]

NextStep(j) ==
  job' = [job EXCEPT ![j] =
    IF job[j].step = Len(Steps) THEN At(0, 1) ELSE At(job[j].step + 1, 1)]

Wake(j) ==
  /\ Resting(j) /\ job[j].day < today
  /\ job' = [job EXCEPT ![j] = At(1, 1)]
  /\ UNCHANGED <<settleVars, daily, today>>

Running(j, name, part) == ~Resting(j) /\ Step(j) = name /\ job[j].part = part

Old(j) == {c \in Calls : raw[c] # None /\ raw[c] < job[j].day - RawDays}

(* After a batch: another while it was full, else the step's next part.    *)
AfterBatch(j, moved, part) ==
  LET more == Cardinality(moved) = BatchSize /\ job[j].batch + 1 < MaxBatches IN
  job' = [job EXCEPT ![j] = IF more THEN [job[j] EXCEPT !.batch = @ + 1]
                            ELSE [job[j] EXCEPT !.part = part, !.batch = 0]]

(* _rollup_batch: the rows go and their totals come in one transaction.    *)
RollUp(moved) ==
  /\ raw' = [c \in Calls |-> IF c \in moved THEN None ELSE raw[c]]
  /\ daily' = [d \in Days |-> daily[d] + Cardinality(moved \cap RowsOf(d))]

Batch(j, rows) ==
  {moved \in SUBSET rows : Cardinality(moved) = Min({BatchSize, Cardinality(rows)})}

RollUpBatch(j) ==
  /\ Running(j, "usage", "run")
  /\ \E moved \in Batch(j, Old(j)) : RollUp(moved) /\ AfterBatch(j, moved, "daily")
  /\ UNCHANGED <<spend, mask, call, wrote, sent, faults, today>>

PurgeDaily(j) ==
  /\ Running(j, "usage", "daily")
  /\ daily' = [d \in Days |-> IF d < job[j].day - DailyDays THEN 0 ELSE daily[d]]
  /\ NextStep(j)
  /\ UNCHANGED <<settleVars, today>>

PurgeSpend(j) ==
  LET old == {d \in Days : d < job[j].day - SpendDays} IN
  /\ Running(j, "spend", "run")
  /\ spend' = [d \in Days |-> IF d \in old THEN None ELSE spend[d]]
  /\ mask' = [d \in Days |-> IF d \in old THEN {} ELSE mask[d]]
  /\ NextStep(j)
  /\ UNCHANGED <<raw, call, wrote, sent, faults, daily, today>>

OtherStep(j) ==
  /\ ~Resting(j) /\ Step(j) \notin {"usage", "spend"}
  /\ NextStep(j)
  /\ UNCHANGED <<settleVars, daily, today>>

\* Mutant: the totals commit on their own, before the delete.
TotalsKept(j) ==
  /\ UNCHANGED raw
  /\ IF Running(j, "usage", "run")
     THEN \E moved \in Batch(j, Old(j)) :
            daily' = [d \in Days |-> daily[d] + Cardinality(moved \cap RowsOf(d))]
     ELSE UNCHANGED daily

(* An attempt fails: its open batch is undone, or was committed and its    *)
(* answer lost.  A transient error is tried again, and any last one goes   *)
(* on to the next step.                                                    *)
Undone(j) == UNCHANGED <<raw, daily>>

BatchOf(j) ==
  \/ Undone(j)
  \/ /\ Running(j, "usage", "run")
     /\ \E moved \in Batch(j, Old(j)) : RollUp(moved)

StepFails(j, transient) ==
  /\ ~Resting(j) /\ BatchOf(j)
  /\ IF transient /\ job[j].attempt < Attempts
     THEN job' = [job EXCEPT ![j] = At(@.step, @.attempt + 1)]
     ELSE NextStep(j)
  /\ UNCHANGED <<spend, mask, call, wrote, sent, faults, today>>

Restart(j) ==
  /\ ~Resting(j)
  /\ job' = [job EXCEPT ![j] = At(0, 1)]
  /\ UNCHANGED <<settleVars, daily, today>>

Tick ==
  /\ today < MaxDay /\ today' = today + 1
  /\ UNCHANGED <<settleVars, daily, job>>

Init ==
  /\ raw = [c \in Calls |-> None] /\ wrote = raw
  /\ daily = [d \in Days |-> 0] /\ spend = [d \in Days |-> None]
  /\ mask = [d \in Days |-> {}] /\ sent = [a \in Days \X Pcts |-> 0]
  /\ call = [c \in Calls |-> [at |-> "idle"]]
  /\ job = [j \in Jobs |-> [step |-> 0, attempt |-> 1, part |-> "run", batch |-> 0,
                            day |-> -1]]
  /\ today = 0 /\ faults = {}

Paid ==
  \E c \in Calls :
    \/ Answer(c) \/ Settle(c) \/ SettleFails(c) \/ Fallback(c) \/ SettleTimesOut(c)
    \/ Claim(c) \/ ClaimFails(c) \/ Send(c)

Night ==
  \E j \in Jobs :
    \/ Wake(j) \/ RollUpBatch(j) \/ PurgeDaily(j) \/ PurgeSpend(j)
    \/ OtherStep(j) \/ Restart(j) \/ \E transient \in BOOLEAN : StepFails(j, transient)

Next == Paid \/ Night \/ Tick
Spec == Init /\ [][Next]_vars
-----------------------------------------------------------------------------
(* Every row ever committed counts once, in ai_usage or in its day's total, *)
(* through retries, restarts and two instances at work, until its day may  *)
(* be purged.                                                              *)
RowsCountOnce ==
  \A d \in Days : d >= today - DailyDays =>
    daily[d] + Cardinality(RowsOf(d)) = Cardinality({c \in Calls : wrote[c] = d})

(* A threshold is announced once a day at most, whoever settles and whatever *)
(* of settles and claims is lost.                                          *)
AlertsOnce == \A a \in DOMAIN sent : sent[a] <= 1

(* On a day without such losses, when no settle is under way, every        *)
(* threshold the spend has reached is claimed: two settles that cross it   *)
(* together do not each leave it to the other.                             *)
CrossedIsClaimed ==
  \A d \in Days \ faults :
    (\A c \in Calls : call[c].at \in {"idle", "send", "end"}) =>
      Crossed(spend[d]) \subseteq mask[d]
=============================================================================
