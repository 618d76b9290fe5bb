------------------------------ MODULE ScanQuota ------------------------------
(***************************************************************************)
(* The AI scan allowance of the backend (src/backend/app/ai/quota and      *)
(* ai/breaker.py) together with the part of POST /scan that uses it        *)
(* (api/scan.py:_run_provider): reserve before the provider is called, one *)
(* provider call under a per-user lease, refund, settle.                   *)
(*                                                                         *)
(* A request is one execution of the handler.  Every database transaction  *)
(* of the handler is one action; requests interleave between transactions. *)
(* A transaction may commit and be acknowledged, commit with its           *)
(* acknowledgement lost (the call raises), or fail; a give-back may also   *)
(* be cut off by its time bound before or after its commit; the process    *)
(* may die.  All counters belong to one UTC day (the reservation carries   *)
(* its day through to the settle).                                         *)
(***************************************************************************)
EXTENDS Naturals, Integers, FiniteSets, Sequences, FiniteSetsExt

CONSTANTS
    Users,            \* the users who scan
    Requests,         \* the executions of POST /scan
    userOf,           \* the user of each request
    Premium,          \* users of the Premium tier (the others are Free)
    Enhanced,         \* requests for an enhanced scan
    NoRequest,        \* the holder of a lease row that does not exist
    DailyLimit,       \* quota.<tier>.found_daily, by user
    NoMatchCeiling,   \* quota.<tier>.no_match_daily, by user
    GlobalLimit,      \* scan.global_daily_limit
    Ceiling,          \* breaker.free_daily_ceiling_micros
    Est,              \* FeatureSpec.est_cost_ceiling_micros
    Costs,            \* what an answered call may be priced at
    Timeout, Grace,   \* the provider deadline, and what the lease adds to it
    ZeroThreshold,    \* scan.enhanced.zero_result_threshold
    ThrottleOn,       \* scan.enhanced.zero_result_action = "throttle"
    Replies,          \* the provider outcomes that are explored
    MaxFaults         \* bound on faults (lost replies, errors, crashes) in a run

(* How a provider call can end, as _run_provider tells the cases apart.    *)
Answered   == {"books", "nomatch", "refused"}
(* scan.py: the unit is given back; every other failure keeps it.           *)
Refundable == {"malformed", "timeout", "unavailable", "disabled"}
Outcomes   == Answered \cup {"malformed", "timeout", "unavailable", "disabled", "error"}

ASSUME ConstantsOK ==
    /\ IsFiniteSet(Requests) /\ NoRequest \notin Requests
    /\ userOf \in [Requests -> Users]
    /\ Premium \subseteq Users /\ Enhanced \subseteq Requests
    /\ DailyLimit \in [Users -> Nat] /\ NoMatchCeiling \in [Users -> Nat]
    /\ GlobalLimit \in Nat /\ Ceiling \in Nat /\ Est \in Nat \ {0}
    /\ Costs \subseteq Nat
    /\ Timeout \in Nat /\ Grace \in Nat \ {0}
    /\ ZeroThreshold \in Nat /\ ThrottleOn \in BOOLEAN
    /\ Replies \subseteq Outcomes
    /\ MaxFaults \in Nat

VARIABLES
    \* the requests
    pc,          \* the next transaction of the handler
    outcome,     \* how the provider call ended ("none": it never ran)
    hasRow,      \* a usage-ledger insert was built for the call
    cost,        \* what the call settles
    taken,       \* the take of the daily unit was acknowledged
    tries,       \* attempts made by the running give-back
    timer,       \* time left to the provider deadline
    \* table ai_inflight, one row per user
    holder, ttl, flag,
    \* table ai_quota: the day's found and no-match units of each user
    found, nomatch,
    \* table ai_spend_daily: the day's row
    reserved, settled,
    usage,       \* table ai_usage: the calls that have a ledger row
    zeros,       \* table ai_enhanced_zero_results: in-window rows (warned?)
    kept,        \* requests that sent the "unit kept" Sentry warning
    faults,      \* faults so far
    \* history: where the request's unit is counted and its estimate is
    unit, estimate

requestVars == <<pc, outcome, hasRow, cost, taken, tries, timer>>
leaseVars == <<holder, ttl, flag>>
unitVars  == <<found, nomatch, unit>>
spendVars == <<reserved, settled, estimate>>
callVars  == <<outcome, hasRow, cost, timer>>
vars == <<requestVars, leaseVars, unitVars, spendVars, usage, zeros, kept, faults>>

Phases == {"idle", "waiting", "checked", "costed", "busy", "unleased",
           "leased", "admitted", "taken", "calling", "returning", "refunding",
           "settling", "unleasing", "spending", "done", "crashed"}

TypeOK ==
    /\ pc \in [Requests -> Phases]
    /\ outcome \in [Requests -> Outcomes \cup {"none"}]
    /\ hasRow \in [Requests -> BOOLEAN]
    /\ cost \in [Requests -> Nat]
    /\ taken \in [Requests -> BOOLEAN]
    /\ tries \in [Requests -> 0..1]
    /\ timer \in [Requests -> 0..Timeout]
    /\ holder \in [Users -> Requests \cup {NoRequest}]
    /\ ttl \in [Users -> -1..(Timeout + Grace)]
    /\ flag \in [Users -> BOOLEAN]
    /\ found \in [Users -> Nat] /\ nomatch \in [Users -> Nat]
    /\ reserved \in Nat /\ settled \in Nat
    /\ usage \subseteq Requests /\ kept \subseteq Requests
    /\ zeros \in [Users -> Seq(BOOLEAN)]
    /\ faults \in 0..MaxFaults
    /\ unit \in [Requests -> {"none", "found", "nomatch"}]
    /\ estimate \in [Requests -> {"none", "held", "spent"}]

Init ==
    /\ pc = [r \in Requests |-> "idle"]
    /\ outcome = [r \in Requests |-> "none"]
    /\ hasRow = [r \in Requests |-> FALSE]
    /\ cost = [r \in Requests |-> 0]
    /\ taken = [r \in Requests |-> FALSE]
    /\ tries = [r \in Requests |-> 0]
    /\ timer = [r \in Requests |-> 0]
    /\ holder = [u \in Users |-> NoRequest]
    /\ ttl = [u \in Users |-> -1]
    /\ flag = [u \in Users |-> FALSE]
    /\ found = [u \in Users |-> 0] /\ nomatch = [u \in Users |-> 0]
    /\ reserved = 0 /\ settled = 0
    /\ usage = {} /\ kept = {}
    /\ zeros = [u \in Users |-> <<>>]
    /\ faults = 0
    /\ unit = [r \in Requests |-> "none"]
    /\ estimate = [r \in Requests |-> "none"]

-----------------------------------------------------------------------------
(* How a transaction ends for the handler.  "lost": it committed and then  *)
(* raised; "cutAfter"/"cutBefore": the give-back bound cut it off.          *)
Acks     == {"acked", "lost", "failed"}
CleanAcks == Acks \cup {"cutAfter", "cutBefore"}
Lands(a) == a \in {"acked", "lost", "cutAfter"}
Cut(a)   == a \in {"cutAfter", "cutBefore"}

(* Everything but an acknowledged commit uses up a fault.                   *)
Fault(a) ==
    IF a = "acked" THEN UNCHANGED faults
    ELSE faults < MaxFaults /\ faults' = faults + 1

Goto(r, phase) == pc' = [pc EXCEPT ![r] = phase]

(* The lease row carries this request's random lease_id.                    *)
Holds(r) == holder[userOf[r]] = r
Minus(a, b) == IF a >= b THEN a - b ELSE 0

GlobalUnits == MapThenSumSet(LAMBDA u : found[u] + nomatch[u], Users)

-----------------------------------------------------------------------------
(* quota.reserve, transaction by transaction.                               *)

(* Entitlement, then the approximate service-wide count: both only read.
   A request told "scan_in_progress" is sent again by the app.              *)
CheckGlobal(r) ==
    /\ pc[r] \in {"idle", "waiting"}
    /\ IF \/ r \in Enhanced /\ userOf[r] \notin Premium
          \/ GlobalUnits >= GlobalLimit
       THEN Goto(r, "done") ELSE Goto(r, "checked")
    /\ UNCHANGED <<callVars, taken, tries, leaseVars, unitVars, spendVars,
                   usage, zeros, kept, faults>>

(* Premium adds its estimate whatever the total; Free only below it.        *)
WithinCeiling(r) ==
    userOf[r] \notin Premium => reserved + settled + Est <= Ceiling

(* breaker.reserve.  If it raises, nothing is given back: its commit may
   have landed, and then the estimate stays reserved until the day ends.    *)
ReserveCost(r, a) ==
    /\ pc[r] = "checked"
    /\ IF WithinCeiling(r) /\ Lands(a)
       THEN /\ reserved' = reserved + Est
            /\ estimate' = [estimate EXCEPT ![r] = "held"]
       ELSE UNCHANGED <<reserved, estimate>>
    /\ Goto(r, IF WithinCeiling(r) /\ a = "acked" THEN "costed" ELSE "done")
    /\ Fault(a)
    /\ UNCHANGED <<callVars, taken, tries, leaseVars, unitVars, settled,
                   usage, zeros, kept>>

(* Mutated form: the upsert has no WHERE.                                   *)
TakesAnyLease(u) == TRUE
(* Mutated form: an expired row is never taken over.                        *)
NoTakeover(u) == holder[u] = NoRequest
(* No row, or an expired one.                                               *)
LeaseFree(u) == holder[u] = NoRequest \/ ttl[u] < 0

Throttled(r) == r \in Enhanced /\ ThrottleOn

(* The upsert: insert the row or take over an expired one, resetting the
   old holder's unit flag.                                                  *)
OwnsRow(r) ==
    /\ holder' = [holder EXCEPT ![userOf[r]] = r]
    /\ ttl' = [ttl EXCEPT ![userOf[r]] = Timeout + Grace]
(* Mutated form: a takeover keeps the old holder's flag.                     *)
InheritsFlag(r) == OwnsRow(r) /\ UNCHANGED flag
(* The row is now this request's, which has taken nothing yet.              *)
ClaimLease(r) == OwnsRow(r) /\ flag' = [flag EXCEPT ![userOf[r]] = FALSE]

AcquireLease(r, a) ==
    LET u == userOf[r] IN
    /\ pc[r] = "costed"
    /\ IF LeaseFree(u) /\ Lands(a) THEN ClaimLease(r) ELSE UNCHANGED leaseVars
    /\ Goto(r, CASE a # "acked"           -> "unleased"
                 [] ~LeaseFree(u)         -> "busy"
                 [] Throttled(r)          -> "leased"
                 [] OTHER                 -> "admitted")
    /\ Fault(a)
    /\ UNCHANGED <<callVars, taken, tries, unitVars, spendVars, usage, zeros, kept>>

(* give_back_cost: attempted once, since nothing would show that a failed
   attempt committed.                                                       *)
GiveBackCost(r, a) ==
    /\ pc[r] \in {"busy", "unleased"}
    /\ IF Lands(a)
       THEN /\ reserved' = Minus(reserved, Est)
            /\ estimate' = [estimate EXCEPT ![r] = "none"]
       ELSE UNCHANGED <<reserved, estimate>>
    /\ Goto(r, IF pc[r] = "busy" /\ a = "acked" THEN "waiting" ELSE "done")
    /\ Fault(a)
    /\ UNCHANGED <<callVars, taken, tries, leaseVars, unitVars, settled,
                   usage, zeros, kept>>

(* zero_result_throttle: refuse at or above the threshold, under the lease. *)
CheckThrottle(r) ==
    /\ pc[r] = "leased"
    /\ Goto(r, IF Len(zeros[userOf[r]]) < ZeroThreshold THEN "admitted" ELSE "settling")
    /\ UNCHANGED <<callVars, taken, tries, leaseVars, unitVars, spendVars,
                   usage, zeros, kept, faults>>

(* Mutated form: off by one.                                                *)
OneOverLimit(u) == found[u] > DailyLimit[u]
(* The conditional upsert: units_used < limit.                              *)
FoundFull(u) == found[u] >= DailyLimit[u]

(* take_unit: the flag on the request's own lease row and the conditional
   increment commit together.  Nothing is taken without the lease, nor at
   the limit; an acknowledged refusal leaves nothing to give back.          *)
TakeUnit(r, a) ==
    LET u == userOf[r]
        full == FoundFull(u)
    IN
    /\ pc[r] = "admitted"
    /\ IF Holds(r) /\ ~full /\ Lands(a)
       THEN /\ found' = [found EXCEPT ![u] = found[u] + 1]
            /\ flag' = [flag EXCEPT ![u] = TRUE]
            /\ unit' = [unit EXCEPT ![r] = "found"]
       ELSE UNCHANGED <<found, flag, unit>>
    /\ taken' = [taken EXCEPT ![r] = Holds(r) /\ ~full /\ a = "acked"]
    /\ Goto(r, CASE DailyLimit[u] = 0              -> "settling"
                 [] a # "acked" \/ ~Holds(r)       -> "returning"
                 [] full                           -> "settling"
                 [] OTHER                          -> "taken")
    /\ (DailyLimit[u] = 0 => a = "acked") /\ Fault(a)
    /\ UNCHANGED <<callVars, tries, holder, ttl, nomatch, spendVars, usage,
                   zeros, kept>>

(* renew_lease, and run_feature starts the provider call under its deadline.
   A holder whose row expired but was not taken over still renews it.       *)
Renew(r, a) ==
    LET u == userOf[r] IN
    /\ pc[r] = "taken"
    /\ ttl' = IF Holds(r) /\ Lands(a)
              THEN [ttl EXCEPT ![u] = Timeout + Grace] ELSE ttl
    /\ IF Holds(r) /\ a = "acked"
       THEN Goto(r, "calling") /\ timer' = [timer EXCEPT ![r] = Timeout]
       ELSE Goto(r, "returning") /\ UNCHANGED timer
    /\ Fault(a)
    /\ UNCHANGED <<outcome, hasRow, cost, taken, tries, holder, flag, unitVars,
                   spendVars, usage, zeros, kept>>

-----------------------------------------------------------------------------
(* _run_provider: the call ends with reply o, priced at c.  "malformed"
   is billed and refunded; "timeout" and "error" (any other failure, or a
   cancelled request) settle the estimate; the ledger row is not built for a
   kill switch, and may fail to build for any other reply.                  *)
Answer(r, o, c, row) ==
    /\ pc[r] = "calling"
    /\ outcome' = [outcome EXCEPT ![r] = o]
    /\ cost' = [cost EXCEPT ![r] =
           CASE o \in {"timeout", "error"}          -> Est
             [] o \in {"unavailable", "disabled"}   -> 0
             [] OTHER                               -> c]
    /\ hasRow' = [hasRow EXCEPT ![r] = row /\ o # "disabled"]
    /\ Goto(r, IF o \in Refundable THEN "returning" ELSE "settling")
    /\ timer' = [timer EXCEPT ![r] = 0]
    /\ Fault(IF row THEN "acked" ELSE "failed")
    /\ UNCHANGED <<taken, tries, leaseVars, unitVars, spendVars, usage, zeros, kept>>

-----------------------------------------------------------------------------
(* _return_unit: at most two attempts inside one time bound.                *)

(* _give_back: one retry, and none after the bound cut an attempt off.      *)
AfterGiveBack(r, a) ==
    \/ /\ a = "acked" \/ Cut(a) \/ tries[r] = 1
       /\ Goto(r, "settling") /\ tries' = [tries EXCEPT ![r] = 0]
    \/ /\ a \in {"lost", "failed"} /\ tries[r] = 0
       /\ Goto(r, "returning") /\ tries' = [tries EXCEPT ![r] = 1]

(* The decrement of ai_quota: never below zero.                             *)
DropFound(r) ==
    LET u == userOf[r] IN
    /\ found' = [found EXCEPT ![u] = Minus(found[u], 1)]
    /\ unit' = [unit EXCEPT ![r] = "none"]

(* The give-back is over without having been acknowledged: a warning says
   that the unit stays charged.                                             *)
GaveUp(r, a) == a # "acked" /\ (Cut(a) \/ tries[r] = 1)

(* give_back_unit while the lease row is still this request's: the flag is
   cleared and the unit taken off in one commit, only if the flag was set.  *)
GiveBackUnit(r, a) ==
    /\ pc[r] = "returning"
    /\ Holds(r)
    /\ IF flag[userOf[r]] /\ Lands(a)
       THEN DropFound(r) /\ flag' = [flag EXCEPT ![userOf[r]] = FALSE]
       ELSE UNCHANGED <<found, unit, flag>>
    /\ AfterGiveBack(r, a)
    /\ kept' = IF GaveUp(r, a) THEN kept \cup {r} ELSE kept
    /\ Fault(a)
    /\ UNCHANGED <<callVars, taken, holder, ttl, nomatch, spendVars, usage, zeros>>

(* give_back_unit finds the lease lost.  Only a first attempt of a request
   that knows it took the unit goes on to the ungated refund_unit.          *)
LeaseLost(r, a) ==
    LET fallback == taken[r] /\ tries[r] = 0 IN
    /\ pc[r] = "returning"
    /\ ~Holds(r)
    /\ IF a = "acked" /\ fallback
       THEN Goto(r, "refunding") /\ UNCHANGED <<tries, kept>>
       ELSE /\ AfterGiveBack(r, a)
            /\ kept' = IF a = "acked" \/ GaveUp(r, a) THEN kept \cup {r} ELSE kept
    /\ Fault(a)
    /\ UNCHANGED <<callVars, taken, leaseVars, unitVars, spendVars, usage, zeros>>

(* refund_unit, the ungated fallback.                                       *)
RefundUnit(r, a) ==
    /\ pc[r] = "refunding"
    /\ IF Lands(a) THEN DropFound(r) ELSE UNCHANGED <<found, unit>>
    /\ AfterGiveBack(r, a)
    /\ kept' = IF Cut(a) THEN kept \cup {r} ELSE kept
    /\ Fault(a)
    /\ UNCHANGED <<callVars, taken, leaseVars, nomatch, spendVars, usage, zeros>>

-----------------------------------------------------------------------------
(* quota.release: the settle.                                               *)

(* breaker.settle: the estimate leaves reserved, the cost enters settled.   *)
SettleSpend(r) ==
    /\ reserved' = Minus(reserved, Est)
    /\ settled' = settled + cost[r]
    /\ estimate' = [estimate EXCEPT ![r] = "spent"]

(* release_lease: the row is deleted only while it carries our lease_id.    *)
DeleteLease(r) ==
    LET u == userOf[r] IN
    IF Holds(r)
    THEN /\ holder' = [holder EXCEPT ![u] = NoRequest]
         /\ ttl' = [ttl EXCEPT ![u] = -1]
         /\ flag' = [flag EXCEPT ![u] = FALSE]
    ELSE UNCHANGED leaseVars

(* The settle has a zero-result or a no-match to decide.                    *)
Decides(r) ==
    IF r \in Enhanced THEN outcome[r] \in {"nomatch", "refused"}
    ELSE outcome[r] = "nomatch"

(* Mutated form: earlier warnings are not looked up.                        *)
NeverWarned(u) == FALSE
(* A row of the window has claimed the warning.                             *)
WarnedInWindow(u) == \E i \in DOMAIN zeros[u] : zeros[u][i]

(* record_zero_result: an enhanced call that found no books, below the
   threshold; the row that reaches it claims the window's one warning.      *)
ZeroRecorded(r) ==
    LET rows == zeros[userOf[r]]
        warn == Len(rows) + 1 = ZeroThreshold /\ ~WarnedInWindow(userOf[r])
    IN IF /\ r \in Enhanced /\ Decides(r)
          /\ Holds(r) /\ Len(rows) < ZeroThreshold
       THEN [zeros EXCEPT ![userOf[r]] = Append(rows, warn)]
       ELSE zeros

(* move_to_no_match: the found unit of a standard call that recognised no
   book becomes a no-match unit while there is room for one.                *)
Moves(r) ==
    /\ r \notin Enhanced /\ Decides(r)
    /\ Holds(r) /\ flag[userOf[r]]
    /\ nomatch[userOf[r]] < NoMatchCeiling[userOf[r]]

MoveToNoMatch(r) ==
    LET u == userOf[r] IN
    IF Moves(r)
    THEN /\ nomatch' = [nomatch EXCEPT ![u] = nomatch[u] + 1]
         /\ found' = [found EXCEPT ![u] = Minus(found[u], 1)]
         /\ unit' = [unit EXCEPT ![r] = "nomatch"]
    ELSE UNCHANGED unitVars

(* Mutated form: the insert's RETURNING is not looked at.                   *)
IgnoresLedger(r) == FALSE
(* ON CONFLICT (call_id) DO NOTHING returned no row.                        *)
AlreadySettled(r) == r \in usage

(* The settle transaction.  A ledger row that is already there proves that an
   earlier attempt committed, so only the lease delete runs.  save = FALSE:
   the record or the move failed and only its savepoint was rolled back.    *)
SettleCommit(r, save) ==
    /\ IF AlreadySettled(r)
       THEN UNCHANGED <<unitVars, spendVars, zeros>>
       ELSE /\ SettleSpend(r)
            /\ IF save THEN zeros' = ZeroRecorded(r) /\ MoveToNoMatch(r)
               ELSE UNCHANGED <<zeros, unitVars>>
    /\ usage' = IF hasRow[r] THEN usage \cup {r} ELSE usage
    /\ DeleteLease(r)

(* What follows an attempt: done, a second attempt, or the lease-only path.
   Without a ledger row the second attempt is already lease-only.           *)
AfterSettle(r, a) ==
    \/ /\ a = "acked" \/ Cut(a)
       /\ Goto(r, "done") /\ tries' = [tries EXCEPT ![r] = 0]
    \/ /\ a \in {"lost", "failed"} /\ hasRow[r] /\ tries[r] = 0
       /\ Goto(r, "settling") /\ tries' = [tries EXCEPT ![r] = 1]
    \/ /\ a \in {"lost", "failed"} /\ hasRow[r] /\ tries[r] = 1
       /\ Goto(r, "unleasing") /\ tries' = [tries EXCEPT ![r] = 0]
    \/ /\ a \in {"lost", "failed"} /\ ~hasRow[r]
       /\ Goto(r, "unleasing") /\ tries' = [tries EXCEPT ![r] = 1]

Settle(r, a, save) ==
    /\ pc[r] = "settling"
    /\ IF Lands(a) THEN SettleCommit(r, save)
       ELSE UNCHANGED <<unitVars, spendVars, zeros, usage, leaseVars>>
    /\ AfterSettle(r, a)
    /\ Fault(IF save THEN a ELSE "failed") /\ (~save => a = "acked" /\ Decides(r))
    /\ UNCHANGED <<callVars, taken, kept>>

RetryOrEnd(r, a) ==
    IF a \in {"lost", "failed"} /\ tries[r] = 0
    THEN Goto(r, "unleasing") /\ tries' = [tries EXCEPT ![r] = 1]
    ELSE Goto(r, "done") /\ tries' = [tries EXCEPT ![r] = 0]

(* release_lease reports whether it deleted the row.                        *)
LeaseDeleted(r) == Holds(r)

(* settle_after_lease, first commit: delete the lease on its own.           *)
Unlease(r, a) ==
    /\ pc[r] = "unleasing"
    /\ IF Lands(a) THEN DeleteLease(r) ELSE UNCHANGED leaseVars
    /\ IF a = "acked" /\ LeaseDeleted(r)
       THEN Goto(r, "spending") /\ UNCHANGED tries
       ELSE RetryOrEnd(r, a)
    /\ Fault(a)
    /\ UNCHANGED <<callVars, taken, unitVars, spendVars, usage, zeros, kept>>

(* settle_after_lease, second commit: the spend, once the lease was deleted.
   Without its lease the call records and moves nothing.                    *)
SpendAfterLease(r, a) ==
    /\ pc[r] = "spending"
    /\ IF Lands(a) THEN SettleSpend(r) ELSE UNCHANGED spendVars
    /\ RetryOrEnd(r, a)
    /\ Fault(a)
    /\ UNCHANGED <<callVars, taken, leaseVars, unitVars, usage, zeros, kept>>

-----------------------------------------------------------------------------
(* The environment.                                                         *)

(* The process dies, or a native cancel cuts through the shield.            *)
Crash(r) ==
    /\ pc[r] \notin {"idle", "waiting", "done", "crashed"}
    /\ Goto(r, "crashed")
    /\ timer' = [timer EXCEPT ![r] = 0]
    /\ Fault("failed")
    /\ UNCHANGED <<outcome, hasRow, cost, taken, tries, leaseVars, unitVars,
                   spendVars, usage, zeros, kept>>

(* Time passes.  The gateway's deadline ends every call in time; nothing
   bounds how long the other steps take.                                    *)
Tick ==
    /\ \A r \in Requests : pc[r] = "calling" => timer[r] > 0
    /\ \E u \in Users : ttl[u] >= 0
    /\ ttl' = [u \in Users |-> IF ttl[u] >= 0 THEN ttl[u] - 1 ELSE ttl[u]]
    /\ timer' = [r \in Requests |-> Minus(timer[r], 1)]
    /\ UNCHANGED <<pc, outcome, hasRow, cost, taken, tries, holder, flag,
                   unitVars, spendVars, usage, zeros, kept, faults>>

(* The oldest zero-result row leaves the sliding window.                    *)
AgeOut(u) ==
    /\ zeros[u] # <<>>
    /\ zeros' = [zeros EXCEPT ![u] = Tail(zeros[u])]
    /\ UNCHANGED <<requestVars, leaseVars, unitVars, spendVars, usage, kept, faults>>

Reserve(r) ==
    \/ CheckGlobal(r)
    \/ CheckThrottle(r)
    \/ \E a \in Acks : \/ ReserveCost(r, a)
                       \/ AcquireLease(r, a)
                       \/ TakeUnit(r, a)
                       \/ Renew(r, a)

GiveBack(r) ==
    \E a \in CleanAcks : \/ GiveBackCost(r, a)
                         \/ GiveBackUnit(r, a)
                         \/ LeaseLost(r, a)
                         \/ RefundUnit(r, a)

Release(r) ==
    \E a \in CleanAcks : \/ \E save \in BOOLEAN : Settle(r, a, save)
                         \/ Unlease(r, a)
                         \/ SpendAfterLease(r, a)

Call(r) ==
    \E o \in Replies, c \in Costs, row \in BOOLEAN : Answer(r, o, c, row)

Step(r) == Reserve(r) \/ Call(r) \/ GiveBack(r) \/ Release(r)

Next ==
    \/ \E r \in Requests : Step(r) \/ Crash(r)
    \/ Tick
    \/ \E u \in Users : AgeOut(u)

Spec == Init /\ [][Next]_vars

(* A started handler is executed by the event loop, an app told to wait
   sends its photo again, and time passes.  No request has to arrive.       *)
Fairness ==
    /\ \A r \in Requests : WF_vars(pc[r] # "idle" /\ Step(r))
    /\ WF_vars(Tick)

FairSpec == Spec /\ Fairness

-----------------------------------------------------------------------------
(* Properties.                                                              *)

Of(u) == {r \in Requests : userOf[r] = u}
Holding(u, kind) == {r \in Of(u) : unit[r] = kind}
Held == {r \in Requests : estimate[r] = "held"}
Spent == {r \in Requests : estimate[r] = "spent"}
Ended(r) == pc[r] \in {"done", "crashed"}

(* Two provider calls of one user never overlap, however the reservation
   stalls and whoever takes an expired lease over (leases.py).              *)
OneCallPerUser ==
    \A r, s \in Requests :
        /\ userOf[r] = userOf[s] /\ r # s
        => ~(pc[r] = "calling" /\ pc[s] = "calling")

(* The two daily counters count exactly the requests whose unit is in them:
   whatever replies are lost, retried or raced by a takeover, no unit comes
   back twice and none is counted twice (units.py, refunds.py, no_match.py). *)
UnitsExact ==
    \A u \in Users : /\ found[u] = Cardinality(Holding(u, "found"))
                     /\ nomatch[u] = Cardinality(Holding(u, "nomatch"))

(* A call that was answered, or that may have been paid for, stays counted
   as found or no-match (quota_steps.py: the reservation is kept).          *)
AnsweredIsCounted ==
    \A r \in Requests :
        outcome[r] \in Answered \cup {"error"} => unit[r] # "none"

(* A request that ends without an answer but stays charged has sent the
   unit-kept warning (refunds.py: an accepted exception, tracked).          *)
KeptIsTracked ==
    \A r \in Requests :
        /\ pc[r] = "done" /\ unit[r] = "found"
        /\ outcome[r] \in Refundable \cup {"none"}
        => r \in kept

(* A user's answered calls of a day never exceed the found and no-match
   ceilings together (quota/__init__.py).                                   *)
AnswersBounded ==
    \A u \in Users :
        Cardinality({r \in Of(u) : outcome[r] \in Answered \cup {"error"}})
            <= DailyLimit[u] + NoMatchCeiling[u]

(* reserved_micros is the sum of the estimates still held: none is released
   twice, so its clamp at zero never hides one (breaker.py, settle.py).     *)
EstimatesExact == reserved = Est * Cardinality(Held)

(* settled_micros is what the settled calls cost, each added once, however
   often its settle is retried (settle.py).                                 *)
SettledExact == settled = MapThenSumSet(LAMBDA r : cost[r], Spent)

(* What a retried settle relies on: a call's ledger row proves that its
   estimate was settled and its lease deleted (settle.py).                  *)
LedgerProvesSettle ==
    \A r \in usage : estimate[r] = "spent" /\ ~Holds(r)

(* Each fault strands at most one estimate of an ended request until the day
   ends (breaker.py: the breaker refuses sooner, never later).              *)
StrandedByFaults ==
    Cardinality({r \in Held : Ended(r)}) <= faults

(* At most one row of the window has claimed the zero-result warning.       *)
OneWarningPerWindow ==
    \A u \in Users : \A i, j \in DOMAIN zeros[u] :
        zeros[u][i] /\ zeros[u][j] => i = j

(* A lease leaves its holder only by the holder's own step or because it
   expired: a slow request never frees or renews another's lease.           *)
LeaseNotStolen ==
    [][\A u \in Users : \A r \in Requests :
          /\ holder[u] = r /\ holder'[u] # r
          => ttl[u] < 0 \/ <<pc'[r], tries'[r]>> # <<pc[r], tries[r]>>]_vars

(* Every started request ends, also one told to wait while another of the
   user's requests died holding the lease.  (A request starts once and an
   ended one stays ended, so this says that each start leads to an end.)    *)
RequestsEnd == <>[](\A r \in Requests : pc[r] = "idle" \/ Ended(r))

-----------------------------------------------------------------------------
(* The inductive invariant behind the theorems of ScanQuotaProofs.          *)

BeforeTake == {"idle", "waiting", "checked", "costed", "busy", "unleased",
               "leased", "admitted"}
Charged == {"costed", "busy", "unleased", "leased", "admitted", "taken",
            "calling", "returning", "refunding"}
Settling == {"settling", "unleasing", "spending", "done", "crashed"}

(* A running call holds its lease until after its own deadline.             *)
LeaseCoversCall ==
    \A r \in Requests :
        pc[r] = "calling" =>
            /\ Holds(r)
            /\ ttl[userOf[r]] >= timer[r] + Grace

(* Only a give-back or a settle that failed once is on its second attempt.  *)
TriesInv ==
    \A r \in Requests :
        tries[r] = 0 \/ pc[r] \in {"returning", "settling", "unleasing", "spending", "crashed"}

(* The flag of a lease row says whether the unit of its holder is counted.  *)
FlagInv ==
    /\ \A u \in Users : holder[u] \in Requests => userOf[holder[u]] = u
    /\ \A u \in Users : flag[u] => holder[u] \in Requests
    /\ \A r \in Requests : Holds(r) => (flag[userOf[r]] <=> unit[r] = "found")

(* What each phase knows of the request's unit.                             *)
UnitPhaseInv ==
    \A r \in Requests :
        /\ pc[r] \in BeforeTake => unit[r] = "none" /\ outcome[r] = "none"
        /\ pc[r] \in {"taken", "calling", "refunding"} => taken[r] /\ unit[r] = "found"
        /\ pc[r] = "refunding" => ~Holds(r)
        /\ pc[r] = "returning" /\ taken[r] /\ tries[r] = 0 => unit[r] = "found"
        /\ outcome[r] \in Answered \cup {"error"}
             => unit[r] # "none" /\ pc[r] \in Settling
        /\ /\ pc[r] \in Settling \ {"crashed"} /\ unit[r] = "found"
           /\ outcome[r] \in Refundable \cup {"none"}
           => r \in kept

UnitInv == TriesInv /\ FlagInv /\ UnitPhaseInv /\ UnitsExact

(* What each phase knows of the request's estimate.                         *)
EstimatePhaseInv ==
    \A r \in Requests :
        /\ pc[r] \in {"idle", "waiting", "checked"} => estimate[r] = "none"
        /\ pc[r] \in Charged => estimate[r] = "held"
        /\ pc[r] = "settling" /\ r \notin usage => estimate[r] = "held"
        /\ pc[r] = "unleasing" /\ Holds(r) => estimate[r] = "held"
        /\ pc[r] = "spending" => estimate[r] = "held" /\ ~Holds(r)
        /\ r \in usage => /\ estimate[r] = "spent" /\ ~Holds(r)
                          /\ pc[r] \in Settling \ {"spending"}

(* Held estimates that may never be released: of an ended request, or of one
   whose settle has failed.                                                 *)
Strandable ==
    {r \in Held : \/ pc[r] \in {"unleasing", "spending", "done", "crashed"}
                  \/ pc[r] = "settling" /\ tries[r] = 1}

EstimateInv ==
    /\ TriesInv /\ EstimatePhaseInv /\ EstimatesExact
    /\ Cardinality(Strandable) <= faults

IInv == TypeOK /\ LeaseCoversCall /\ UnitInv /\ EstimateInv

=============================================================================
