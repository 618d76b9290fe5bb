---------------------------- MODULE ServicesProofs ----------------------------
(* Proofs about the services of the backend, for any values of their constants: *)
(* what an adapter makes of a reply of any length, ScanRequest, UsageLedger,   *)
(* AiSettings and Enrichment.                                                 *)
EXTENDS MCServices, FiniteSetTheorems, WellFoundedInduction, TLAPS

-----------------------------------------------------------------------------
(* Replies.  Induction on the number of items read, by the least counterexample *)
(* (the induction theorems of the library take an operator, which no prover     *)
(* here can instantiate).                                                     *)

LEMMA Least ==
  ASSUME NEW T, T \subseteq Nat, T # {}
  PROVE  \E n \in T : \A m \in T : ~(m < n)
<1> DEFINE Below == OpToRel(<, Nat)
<1>1. IsWellFoundedOn(Below, Nat)
  BY NatLessThanWellFounded
<1>2. \A m, n \in Nat : m < n => <<m, n>> \in Below
  BY DEF OpToRel
<1> HIDE DEF Below
<1>3. \E n \in T : \A m \in T : <<m, n>> \notin Below
  BY <1>1, WFMin
<1> QED
  BY <1>2, <1>3

\* A set of naturals that has 0, and the next of each it has up to `top`, has all.
LEMMA UpTo ==
  ASSUME NEW top \in Nat, NEW S, 0 \in S, \A n \in 0..top : n < top /\ n \in S => n + 1 \in S
  PROVE  \A n \in 0..top : n \in S
<1> SUFFICES ASSUME {n \in 0..top : n \notin S} # {} PROVE FALSE
  OBVIOUS
<1> DEFINE T == {n \in 0..top : n \notin S}
<1>0. T \subseteq Nat /\ T # {}
  OBVIOUS
<1>1. PICK n \in T : \A m \in T : ~(m < n)
  <2> HIDE DEF T
  <2> QED
    BY <1>0, Least
<1>2. n \in 1..top /\ n \notin S
  BY <1>1
<1>3. n - 1 \in 0..top /\ n - 1 < top /\ n - 1 < n /\ (n - 1) + 1 = n
  BY <1>2
<1>4. n - 1 \in S
  BY <1>1, <1>3
<1> QED
  BY <1>2, <1>3, <1>4

Reads(p, items, got, top) ==
  got = [n \in 0..top |-> IF n = 0 THEN [found |-> <<>>, broken |-> 0]
                          ELSE Take(p, got[n - 1], items[n])]

\* The loop over the items is the function its equation describes.
LEMMA ReadsExists ==
  ASSUME NEW p, NEW items, NEW top \in Nat
  PROVE  \E got : Reads(p, items, got, top)
<1> DEFINE S == {k \in 0..top : \E got : Reads(p, items, got, k)}
<1>1. 0 \in S
  <2> DEFINE got == [n \in 0..0 |-> [found |-> <<>>, broken |-> 0]]
  <2>1. Reads(p, items, got, 0)
    BY DEF Reads
  <2> QED
    BY <2>1
<1>2. ASSUME NEW k \in 0..top, k < top, k \in S PROVE k + 1 \in S
  <2>1. PICK got : Reads(p, items, got, k)
    BY <1>2
  <2> DEFINE more == [n \in 0..(k + 1) |-> IF n <= k THEN got[n] ELSE Take(p, got[k], items[k + 1])]
  <2>2. ASSUME NEW n \in 0..(k + 1)
        PROVE  more[n] = IF n = 0 THEN [found |-> <<>>, broken |-> 0] ELSE Take(p, more[n - 1], items[n])
    <3>1. CASE n = 0
      BY <2>1, <3>1 DEF Reads
    <3>2. CASE n \in 1..k
      <4>1. n - 1 \in 0..k /\ n \in 0..k /\ n \in 0..(k + 1) /\ n - 1 \in 0..(k + 1)
        BY <3>2
      <4>2. more[n] = got[n] /\ more[n - 1] = got[n - 1]
        BY <4>1
      <4>3. got[n] = Take(p, got[n - 1], items[n])
        BY <2>1, <3>2, <4>1 DEF Reads
      <4> QED
        BY <3>2, <4>2, <4>3
    <3>3. CASE n = k + 1
      <4>1. ~(n <= k) /\ k <= k /\ n - 1 = k /\ k \in 0..(k + 1) /\ n # 0
        BY <3>3
      <4>2. more[n - 1] = got[k] /\ more[n] = Take(p, got[k], items[k + 1])
        BY <3>3, <4>1
      <4> QED
        BY <3>3, <4>1, <4>2
    <3> QED
      BY <3>1, <3>2, <3>3
  <2>3. Reads(p, items, more, k + 1)
    <3> DEFINE more2 == [n \in 0..(k + 1) |-> IF n = 0 THEN [found |-> <<>>, broken |-> 0]
                                              ELSE Take(p, more[n - 1], items[n])]
    <3>1. more = more2
      BY <2>2
    <3> QED
      BY <3>1 DEF Reads
  <2> HIDE DEF more
  <2> QED
    BY <1>2, <2>3
<1> HIDE DEF S
<1>3. top \in S
  BY <1>1, <1>2, UpTo
<1> QED
  BY <1>3 DEF S

LEMMA ReadingReads ==
  ASSUME NEW p, NEW items \in Seq(Items)
  PROVE  Reads(p, items, Reading(p, items), Len(items))
<1>1. PICK got : Reads(p, items, got, Len(items))
  <2>1. Len(items) \in Nat
    OBVIOUS
  <2> QED
    BY <2>1, ReadsExists
<1>2. Reading(p, items) = CHOOSE f : Reads(p, items, f, Len(items))
  BY DEF Reading, Reads
<1> QED
  BY <1>1, <1>2


(* After n items: a book is found once one of them is neither broken nor        *)
(* dropped, and all n count as broken exactly when they are.                   *)
Counted(p, items, got, n) ==
  /\ got \in [found : Seq(Items), broken : 0..n]
  /\ got.found = <<>> <=> \A i \in 1..n : Broken(p, items[i]) \/ Dropped(p, items[i])
  /\ got.broken = n <=> \A i \in 1..n : Broken(p, items[i])

LEMMA TakeCounts ==
  ASSUME NEW p, NEW items \in Seq(Items), NEW n \in 0..Len(items), n < Len(items), NEW got,
         Counted(p, items, got, n), MaxBooks \in Nat \ {0}
  PROVE  Counted(p, items, Take(p, got, items[n + 1]), n + 1)
<1> DEFINE item == items[n + 1]
           next == Take(p, got, item)
<1>1. /\ item \in Items /\ got.found \in Seq(Items) /\ got.broken \in 0..n
      /\ Len(got.found) \in Nat /\ (got.found # <<>> <=> Len(got.found) > 0)
      /\ got = [found |-> got.found, broken |-> got.broken]
  BY DEF Counted
<1>2. \A i \in 1..(n + 1) : i \in 1..n \/ i = n + 1
  OBVIOUS
<1>3. 1..n \subseteq 1..(n + 1) /\ n + 1 \in 1..(n + 1)
  OBVIOUS
<1>4. /\ got.found = <<>> <=> \A i \in 1..n : Broken(p, items[i]) \/ Dropped(p, items[i])
      /\ got.broken = n <=> \A i \in 1..n : Broken(p, items[i])
  BY DEF Counted
<1>5. CASE Len(got.found) >= MaxBooks
  <2>1. next = got /\ got.found # <<>>
    BY <1>1, <1>5 DEF Take
  <2>2. got.broken # n
    BY <1>1, <1>4, <1>5
  <2> QED
    BY <1>1, <1>2, <1>3, <1>4, <2>1, <2>2 DEF Counted
<1>6. CASE Len(got.found) < MaxBooks /\ Broken(p, item)
  <2>1. next = [got EXCEPT !.broken = @ + 1]
    BY <1>1, <1>6 DEF Take
  <2>2. next.found = got.found /\ next.broken = got.broken + 1 /\ next \in [found : Seq(Items), broken : 0..(n + 1)]
    BY <1>1, <2>1
  <2> QED
    BY <1>1, <1>2, <1>3, <1>4, <1>6, <2>2, SMTT(30) DEF Counted
<1>7. CASE Len(got.found) < MaxBooks /\ ~Broken(p, item) /\ (Dropped(p, item) \/ Contains(got.found, item))
  <2>1. next = got
    BY <1>1, <1>7 DEF Take
  <2>2. Contains(got.found, item) => got.found # <<>>
    BY <1>1 DEF Contains
  <2> QED
    BY <1>1, <1>2, <1>3, <1>4, <1>7, <2>1, <2>2 DEF Counted
<1>8. CASE Len(got.found) < MaxBooks /\ ~Broken(p, item) /\ ~Dropped(p, item) /\ ~Contains(got.found, item)
  <2>1. next = [got EXCEPT !.found = Append(@, item)]
    BY <1>1, <1>8 DEF Take
  <2>2. /\ next.found = Append(got.found, item) /\ next.broken = got.broken
        /\ next \in [found : Seq(Items), broken : 0..(n + 1)]
    <3> HIDE DEF item
    <3> DEFINE more == Append(got.found, item)
    <3>1. more \in Seq(Items) /\ got.broken \in 0..(n + 1)
      BY <1>1
    <3>2. got \in [found : Seq(Items), broken : 0..n]
      BY DEF Counted
    <3>3. next = [got EXCEPT !.found = more]
      BY <2>1
    <3> HIDE DEF more, next
    <3>4. next = [found |-> more, broken |-> got.broken]
      BY <3>2, <3>3
    <3> QED
      BY <3>1, <3>4 DEF more
  <2>3. next.found # <<>> /\ next.broken # n + 1
    BY <1>1, <2>2
  <2> QED
    BY <1>1, <1>2, <1>3, <1>4, <1>8, <2>2, <2>3 DEF Counted
<1> QED
  BY <1>1, <1>5, <1>6, <1>7, <1>8

LEMMA CollectCounts ==
  ASSUME NEW p, NEW items \in Seq(Items), MaxBooks \in Nat \ {0}
  PROVE  Counted(p, items, Collect(p, items), Len(items))
<1> DEFINE got == Reading(p, items)
           top == Len(items)
           S == {n \in 0..top : Counted(p, items, got[n], n)}
<1>1. Reads(p, items, got, top) /\ top \in Nat
  BY ReadingReads
<1> HIDE DEF got
<1>2. 0 \in S
  <2>1. got[0] = [found |-> <<>>, broken |-> 0] /\ 0 \in 0..top
    BY <1>1 DEF Reads
  <2>2. Counted(p, items, got[0], 0)
    BY <2>1 DEF Counted
  <2> QED
    BY <2>1, <2>2
<1>3. ASSUME NEW n \in 0..top, n < top, n \in S PROVE n + 1 \in S
  <2>1. got[n + 1] = Take(p, got[n], items[n + 1]) /\ n + 1 \in 0..top
    BY <1>1, <1>3 DEF Reads
  <2>2. Counted(p, items, got[n], n)
    BY <1>3
  <2>3. Counted(p, items, got[n + 1], n + 1)
    BY <1>3, <2>1, <2>2, TakeCounts
  <2> QED
    BY <2>1, <2>3
<1>4. top \in S
  <2>1. \A n \in 0..top : n < top /\ n \in S => n + 1 \in S
    BY <1>3
  <2>2. top \in Nat
    BY <1>1
  <2> HIDE DEF S, top
  <2>3. \A n \in 0..top : n \in S
    BY <1>2, <2>1, <2>2, UpTo
  <2> QED
    BY <2>2, <2>3
<1> QED
  BY <1>4 DEF Collect, got

\* The rule of Replies holds of what the adapters and the gateway do with a reply,
\* whatever its items are and however many it has.
THEOREM RepliesRead ==
  ASSUME NEW p \in {"openai", "anthropic"}, NEW r \in [stop : Stops, form : Forms, items : Seq(Items)],
         MaxBooks \in Nat \ {0}
  PROVE  /\ Reported(Identified(p, r)) \in {"ok", "refused", "truncated", "malformed"}
         /\ Reported(Identified(p, r)) # "malformed" <=> Usable(p, r)
<1> DEFINE got == Collect(p, r.items)
           parsed == Parsed(p, r)
<1>1. /\ r.items \in Seq(Items) /\ r.stop \in {"done", "cut", "declined", "odd"}
      /\ Len(r.items) \in Nat /\ DOMAIN r.items = 1..Len(r.items)
      /\ r.items = <<>> <=> Len(r.items) = 0
  BY DEF Stops
<1>2. Counted(p, r.items, got, Len(r.items))
  BY <1>1, CollectCounts
<1>3. /\ got.found = <<>> <=> \A i \in DOMAIN r.items : Broken(p, r.items[i]) \/ Dropped(p, r.items[i])
      /\ got.broken = Len(r.items) <=> \A i \in DOMAIN r.items : Broken(p, r.items[i])
  BY <1>1, <1>2 DEF Counted
<1>4. Listed(p, r) => /\ parsed.read <=> ~(r.items # <<>> /\ got.broken = Len(r.items))
                      /\ parsed.found = IF r.items # <<>> /\ got.broken = Len(r.items) THEN <<>> ELSE got.found
  BY DEF Parsed, Unread
<1>5. ~Listed(p, r) => /\ parsed.found = <<>>
                       /\ parsed.read <=> p = "anthropic" /\ r.form = "noise" /\ r.stop = "cut"
  BY DEF Parsed, Unread
<1> HIDE DEF got, parsed
<1>6. CASE r.stop = "declined"
  BY <1>6 DEF Reported, Identified, StopOutcome, Usable
<1>7. CASE r.stop = "cut"
  <2>1. Identified(p, r).outcome = "truncated" /\ Identified(p, r).found = parsed.found
    BY <1>7 DEF Identified, StopOutcome, parsed
  <2>2. parsed.found # <<>> <=> Usable(p, r)
    BY <1>1, <1>3, <1>4, <1>5, <1>7 DEF Usable
  <2> QED
    BY <2>1, <2>2 DEF Reported
<1>8. CASE r.stop = "done"
  <2>1. Identified(p, r).outcome = IF parsed.read THEN "ok" ELSE "malformed"
    BY <1>8 DEF Identified, StopOutcome, parsed
  <2>2. parsed.read <=> Usable(p, r)
    BY <1>1, <1>3, <1>4, <1>5, <1>8 DEF Usable
  <2> QED
    BY <2>1, <2>2 DEF Reported
<1>9. CASE r.stop = "odd"
  BY <1>9 DEF Reported, Identified, StopOutcome, Usable
<1> QED
  BY <1>1, <1>6, <1>7, <1>8, <1>9


-----------------------------------------------------------------------------
(* ScanRequest.                                                              *)

Snapshots == [on : BOOLEAN, enhanced : BOOLEAN, model : Models]

(* Where a request may be, and what it carries there.                          *)
Preparing == [at : {"counting", "checking", "uploading", "looking"}, enhanced : BOOLEAN, ai : Snapshots]
Holding == [at : {"waiting", "decoding", "abandoned"}, enhanced : BOOLEAN, ai : Snapshots, file : Files]
Leased == [at : {"starting"}, ai : Snapshots, began : Nat, attempt : Nat]
Called == [at : {"calling", "retrying"}, ai : Snapshots, began : Nat, attempt : Nat,
           opened : Nat, sent : Nat, called : Models]
Refused == [at : {"done"}, answer : Nat]
Ended == [at : {"settled", "done"}, answer : Nat, unit : {"kept", "back"},
          status : {"ok", "refused", "truncated", "malformed", "refunded", "timeout", "error"},
          model : Models, cost : Nat, called : Models, billed : {"yes", "no", "perhaps", "unsaid"},
          usable : BOOLEAN]
Stages == {Idle} \cup Preparing \cup Holding \cup Leased \cup Called \cup Refused \cup Ended

(* A call began within the lease's Grace, with the model of the request's      *)
(* settings, and is not past its deadline.                                    *)
InTime(r) ==
  /\ r.at = "starting" => now < r.began + Grace
  /\ r.at \in {"calling", "retrying"} =>
       r.called = r.ai.model /\ r.opened < r.began + Grace /\ now <= r.opened + Timeout

(* What a call that has ended settled.                                        *)
Told(r) ==
  /\ r.answer = 503 => r.unit = "back"
  /\ r.answer = 500 => r.unit = "kept"
  /\ r.answer = 200 => r.unit = "kept" /\ r.status # "error"
Charged(r) ==
  /\ r.billed \in {"yes", "unsaid"} => (r.unit = "kept" <=> r.usable)
  /\ r.billed = "no" => r.unit = "back"
  /\ Told(r)
Billed(r) ==
  /\ r.model = r.called
  /\ r.billed \in {"yes", "perhaps"} => r.cost > 0
  /\ r.billed = "no" => r.cost = 0

Fine(r) == r \in Stages /\ InTime(r) /\ (r \in Ended => Charged(r) /\ Billed(r))

RequestInv ==
  /\ now \in Nat /\ setting \in Snapshots /\ req \in [Requests -> Stages]
  /\ \A q \in Requests : Fine(req[q])

LEMMA RequestStart == Init => RequestInv
<1> SUFFICES ASSUME Init PROVE RequestInv
  OBVIOUS
<1>1. Idle \in Stages /\ Idle.at = "idle" /\ Idle \notin Ended
  BY DEF Stages, Idle, Ended
<1>2. Fine(Idle)
  BY <1>1 DEF Fine, InTime
<1>3. now \in Nat /\ setting \in Snapshots
  BY DEF Init, Snapshots
<1>4. req \in [Requests -> Stages] /\ \A q \in Requests : req[q] = Idle
  BY <1>1 DEF Init
<1> QED
  BY <1>2, <1>3, <1>4 DEF RequestInv

\* A step of one request, at one time, is fine when what it becomes is.
LEMMA OneMoves ==
  ASSUME RequestInv, UNCHANGED <<now, setting>>, NEW q \in Requests, NEW r, r \in Stages,
         InTime(r), r \in Ended => Charged(r) /\ Billed(r), req' = [req EXCEPT ![q] = r]
  PROVE  RequestInv'
<1>1. req' \in [Requests -> Stages]
  BY DEF RequestInv
<1>2. ASSUME NEW p \in Requests PROVE Fine(req'[p])
  BY <1>2 DEF RequestInv, Fine
<1>3. ASSUME NEW p \in Requests PROVE Fine(req[p])'
  <2>1. InTime(req[p])' <=> InTime(req'[p])
    BY DEF InTime
  <2> QED
    BY <1>2, <2>1 DEF Fine, Charged, Billed
<1> QED
  BY <1>1, <1>3 DEF RequestInv


\* What a request carries follows from where it is.
LEMMA Placed ==
  ASSUME RequestInv, NEW q \in Requests
  PROVE  /\ req[q].at \in {"counting", "checking", "uploading", "looking"} => req[q] \in Preparing
         /\ req[q].at \in {"waiting", "decoding", "abandoned"} => req[q] \in Holding
         /\ req[q].at = "starting" => req[q] \in Leased
         /\ req[q].at \in {"calling", "retrying"} => req[q] \in Called
         /\ req[q].at = "settled" => req[q] \in Ended
         /\ InTime(req[q])
<1>1. req[q] \in Stages /\ InTime(req[q])
  BY DEF RequestInv, Fine
<1> DEFINE r == req[q]
<1>2. r = Idle => r.at = "idle"
  BY DEF Idle
<1>3. r \in Preparing => r.at \in {"counting", "checking", "uploading", "looking"}
  BY DEF Preparing
<1>4. r \in Holding => r.at \in {"waiting", "decoding", "abandoned"}
  BY DEF Holding
<1>5. r \in Leased => r.at = "starting"
  BY DEF Leased
<1>6. r \in Called => r.at \in {"calling", "retrying"}
  BY DEF Called
<1>7. r \in Refused => r.at = "done"
  BY DEF Refused
<1>8. r \in Ended => r.at \in {"settled", "done"}
  BY DEF Ended
<1> HIDE DEF r
<1>9. r \in Stages /\ InTime(r)
  BY <1>1 DEF r
<1> QED
  BY <1>2, <1>3, <1>4, <1>5, <1>6, <1>7, <1>8, <1>9 DEF Stages, r

\* A request that has not ended a call settles nothing, and outside a call no
\* time is short.
LEMMA Unsettled ==
  ASSUME NEW r, r \in Preparing \cup Holding \cup Refused
  PROVE  r \in Stages /\ InTime(r) /\ r \notin Ended
<1>1. r.at \notin {"starting", "calling", "retrying"}
  BY DEF Preparing, Holding, Refused
<1>2. r \in Ended => "unit" \in DOMAIN r
  BY DEF Ended
<1>3. "unit" \notin DOMAIN r
  BY DEF Preparing, Holding, Refused
<1> QED
  BY <1>1, <1>2, <1>3 DEF Stages, InTime

LEMMA CallStages ==
  ASSUME NEW r, r \in Leased \cup Called
  PROVE  r \in Stages /\ r \notin Ended
<1>1. r \in Ended => "unit" \in DOMAIN r
  BY DEF Ended
<1>2. r \in Leased => "unit" \notin DOMAIN r
  BY DEF Leased
<1>3. r \in Called => "unit" \notin DOMAIN r
  BY DEF Called
<1> QED
  BY <1>1, <1>2, <1>3 DEF Stages

\* The first check that fails has a code.
LEMMA FirstHasCode ==
  ASSUME NEW f, NEW checks, checks \in {FileChecks(f), ImageChecks(f)}, Failing(checks) # {}
  PROVE  FirstFailure(checks) \in Nat
<1>1. /\ DOMAIN checks \subseteq Nat /\ \A i \in DOMAIN checks : checks[i][2] \in Nat
  BY DEF FileChecks, ImageChecks
<1> DEFINE T == Failing(checks)
<1>2. T \subseteq Nat /\ T # {} /\ T \subseteq DOMAIN checks
  BY <1>1 DEF Failing
<1>3. FirstFailure(checks) = checks[CHOOSE i \in T : \A j \in T : i <= j][2]
  BY DEF FirstFailure
<1> HIDE DEF T
<1>4. \E n \in T : \A m \in T : ~(m < n)
  BY <1>2, Least
<1>5. \E i \in T : \A j \in T : i <= j
  BY <1>2, <1>4
<1> QED
  BY <1>1, <1>2, <1>3, <1>5

\* What leads up to the call leaves every call as it is.
LEMMA PrepareMoves ==
  ASSUME RequestInv, NEW q \in Requests, Prepare(q)
  PROVE  RequestInv'
<1> DEFINE Stay == UNCHANGED <<now, setting>>
           Becomes(r) == Stay /\ r \in Preparing \cup Holding \cup Refused /\ req' = [req EXCEPT ![q] = r]
<1>1. ASSUME NEW r, Becomes(r) PROVE RequestInv'
  BY <1>1, Unsettled, OneMoves
<1>2. setting \in Snapshots /\ req \in [Requests -> Stages]
  BY DEF RequestInv
<1>3. ASSUME NEW code \in Nat, Refuse(q, code), Stay PROVE RequestInv'
  <2>1. [at |-> "done", answer |-> code] \in Refused
    BY DEF Refused
  <2> QED
    BY <1>1, <1>3, <2>1 DEF Refuse
<1>4. ASSUME NEW at, Go(q, at), Stay, [req[q] EXCEPT !.at = at] \in Preparing \cup Holding PROVE RequestInv'
  <2>1. req' = [req EXCEPT ![q] = [req[q] EXCEPT !.at = at]]
    BY <1>4 DEF Go
  <2> QED
    BY <1>1, <1>4, <2>1
<1>5. /\ req[q].at \in {"counting", "checking", "uploading", "looking"} => req[q] \in Preparing
      /\ req[q].at \in {"waiting", "decoding", "abandoned"} => req[q] \in Holding
  BY Placed
<1>6. ASSUME NEW e \in BOOLEAN, Arrive(q, e) PROVE RequestInv'
  <2> DEFINE r == [at |-> "counting", enhanced |-> e, ai |-> setting]
  <2>1. CASE setting.on /\ (e => setting.enhanced)
    <3>1. r \in Preparing
      BY <1>2 DEF Preparing
    <3>2. req' = [req EXCEPT ![q] = r] /\ Stay
      BY <1>6, <2>1 DEF Arrive
    <3> HIDE DEF r
    <3> QED
      BY <1>1, <3>1, <3>2
  <2>2. CASE ~(setting.on /\ (e => setting.enhanced))
    <3>1. Refuse(q, 503) /\ Stay
      BY <1>6, <2>2 DEF Arrive
    <3> QED
      BY <1>3, <3>1
  <2> QED
    BY <2>1, <2>2
<1>7. CASE ArriveBlind(q)
  BY <1>3, <1>7 DEF ArriveBlind
<1>8. CASE Count(q)
  <2>1. req[q].at = "counting" /\ Stay /\ (Go(q, "checking") \/ Refuse(q, 429))
    BY <1>8 DEF Count
  <2>2. [req[q] EXCEPT !.at = "checking"] \in Preparing
    BY <1>5, <2>1 DEF Preparing
  <2> QED
    BY <1>3, <1>4, <2>1, <2>2
<1>9. ASSUME NEW p \in Proofs, Check(q, p) PROVE RequestInv'
  <2>1. Admission(p) \in Nat
    BY DEF Admission, TurnstileAnswer
  <2>2. req[q].at = "checking" /\ Stay /\ (Go(q, "uploading") \/ Refuse(q, Admission(p)))
    BY <1>9 DEF Check
  <2>3. [req[q] EXCEPT !.at = "uploading"] \in Preparing
    BY <1>5, <2>2 DEF Preparing
  <2> QED
    BY <1>3, <1>4, <2>1, <2>2, <2>3
<1>10. ASSUME NEW f \in Files, Upload(q, f) PROVE RequestInv'
  <2> DEFINE r == [at |-> "waiting", enhanced |-> req[q].enhanced, ai |-> req[q].ai, file |-> f]
  <2>1. req[q].at = "uploading" /\ Stay
    BY <1>10 DEF Upload
  <2>2. CASE Failing(FileChecks(f)) = {}
    <3>1. r \in Holding
      BY <1>5, <2>1 DEF Preparing, Holding
    <3>2. req' = [req EXCEPT ![q] = r]
      BY <1>10, <2>2 DEF Upload
    <3> HIDE DEF r
    <3> QED
      BY <1>1, <2>1, <3>1, <3>2
  <2>3. CASE Failing(FileChecks(f)) # {}
    BY <1>3, <1>10, <2>1, <2>3, FirstHasCode DEF Upload
  <2> QED
    BY <2>2, <2>3
<1>11. CASE Decode(q)
  <2>1. req[q].at = "waiting" /\ Stay /\ Go(q, "decoding")
    BY <1>11 DEF Decode
  <2>2. [req[q] EXCEPT !.at = "decoding"] \in Holding
    BY <1>5, <2>1 DEF Holding
  <2> QED
    BY <1>4, <2>1, <2>2
<1>12. CASE Decoded(q)
  <2> DEFINE r == [at |-> "looking", enhanced |-> req[q].enhanced, ai |-> req[q].ai]
             checks == ImageChecks(req[q].file)
  <2>1. req[q].at = "decoding" /\ Stay
    BY <1>12 DEF Decoded
  <2>2. CASE Failing(checks) = {}
    <3>1. r \in Preparing
      BY <1>5, <2>1 DEF Preparing, Holding
    <3>2. req' = [req EXCEPT ![q] = r]
      BY <1>12, <2>2 DEF Decoded
    <3> HIDE DEF r
    <3> QED
      BY <1>1, <2>1, <3>1, <3>2
  <2>3. CASE Failing(checks) # {}
    BY <1>3, <1>12, <2>1, <2>3, FirstHasCode DEF Decoded
  <2> QED
    BY <2>2, <2>3
<1>13. CASE Leave(q)
  <2>1. Stay /\ ((req[q].at = "decoding" /\ Go(q, "abandoned")) \/ Refuse(q, 499))
    BY <1>13 DEF Leave
  <2>2. req[q].at = "decoding" => [req[q] EXCEPT !.at = "abandoned"] \in Holding
    BY <1>5 DEF Holding
  <2> QED
    BY <1>3, <1>4, <2>1, <2>2
<1>14. CASE ThreadEnds(q)
  BY <1>3, <1>14 DEF ThreadEnds
<1>15. ASSUME NEW code \in {200, 403}, Repeat(q, code) PROVE RequestInv'
  BY <1>3, <1>15 DEF Repeat
<1>16. ASSUME NEW code \in {403, 429, 503}, NotReserved(q, code) PROVE RequestInv'
  BY <1>3, <1>16 DEF NotReserved
<1>17. CASE Fails(q)
  BY <1>3, <1>17 DEF Fails
<1> QED
  BY <1>6, <1>7, <1>8, <1>9, <1>10, <1>11, <1>12, <1>13, <1>14, <1>15, <1>16, <1>17 DEF Prepare


\* A call that ends within the rules leaves every other as it is.
LEMMA SettlesFine ==
  ASSUME RequestInv, NEW q \in Requests, NEW r \in Ended, Charged(r), Billed(r),
         UNCHANGED <<now, setting>>, req' = [req EXCEPT ![q] = r]
  PROVE  RequestInv'
<1>1. r.at \in {"settled", "done"} /\ r \in Stages
  BY DEF Ended, Stages
<1>2. InTime(r)
  BY <1>1 DEF InTime
<1> QED
  BY <1>1, <1>2, OneMoves

\* What a call that gave no reply settles is within the rules.
LEMMA EndsWithoutReply ==
  ASSUME NEW model \in Models, NEW unit \in {"kept", "back"},
         NEW status \in {"refunded", "timeout", "error"},
         NEW cost \in Nat, NEW answer \in Nat, NEW billed \in {"no", "perhaps"}, NEW r,
         IF unit = "back" THEN answer = 503 ELSE answer \in {499, 500} /\ billed = "perhaps",
         r = [at |-> "settled", answer |-> answer, unit |-> unit, status |-> status, model |-> model,
              cost |-> cost, called |-> model, billed |-> billed, usable |-> FALSE]
  PROVE  /\ r \in Ended
         /\ Charged(r)
         /\ (IF billed = "no" THEN cost = 0 ELSE cost > 0) => Billed(r)
<1>1. r \in Ended
  BY SMTT(30) DEF Ended
<1>2. /\ r.answer = answer /\ r.unit = unit /\ r.status = status /\ r.billed = billed
      /\ r.cost = cost /\ r.model = r.called
  OBVIOUS
<1> QED
  BY <1>1, <1>2 DEF Charged, Told, Billed

\* However it is answered, what was settled stays.
LEMMA AnswerMoves ==
  ASSUME RequestInv, NEW q \in Requests, Respond(q) \/ FailsSettled(q) \/ LeavesSettled(q)
  PROVE  RequestInv'
<1>1. req[q].at = "settled" /\ UNCHANGED <<now, setting>>
  BY DEF Respond, FailsSettled, LeavesSettled, AnswersInstead
<1>2. req[q] \in Ended /\ Charged(req[q]) /\ Billed(req[q])
  BY <1>1, Placed DEF RequestInv, Fine
<1>3. ASSUME NEW answer \in Nat, Told([req[q] EXCEPT !.answer = answer]),
             req' = [req EXCEPT ![q] = [req[q] EXCEPT !.at = "done", !.answer = answer]]
      PROVE  RequestInv'
  <2> DEFINE r == [req[q] EXCEPT !.at = "done", !.answer = answer]
  <2>1. r \in Ended
    BY <1>2, <1>3 DEF Ended
  <2>2. /\ Told(r) /\ r.answer = answer /\ r.unit = req[q].unit /\ r.status = req[q].status /\ r.model = req[q].model
        /\ r.cost = req[q].cost /\ r.called = req[q].called /\ r.billed = req[q].billed
        /\ r.usable = req[q].usable
    BY <1>2, <1>3 DEF Ended, Told
  <2> HIDE DEF r
  <2>3. Charged(r) /\ Billed(r)
    BY <1>2, <2>2 DEF Charged, Billed
  <2> QED
    BY <1>1, <1>3, <2>1, <2>3, SettlesFine DEF r
<1>4. CASE Respond(q)
  <2>1. [req[q] EXCEPT !.at = "done"] = [req[q] EXCEPT !.at = "done", !.answer = req[q].answer]
    BY <1>2 DEF Ended
  <2>2. req[q].answer \in Nat /\ req' = [req EXCEPT ![q] = [req[q] EXCEPT !.at = "done"]]
    BY <1>2, <1>4 DEF Respond, Go, Ended
  <2>3. Told([req[q] EXCEPT !.answer = req[q].answer])
    BY <1>2 DEF Charged, Told, Ended
  <2> QED
    BY <1>3, <2>1, <2>2, <2>3
<1>5. CASE FailsSettled(q) \/ LeavesSettled(q)
  <2>1. ASSUME NEW answer \in Nat, AnswersInstead(q, answer)
        PROVE  req' = [req EXCEPT ![q] = [req[q] EXCEPT !.at = "done", !.answer = answer]]
    BY <2>1 DEF AnswersInstead
  <2>2. CASE FailsSettled(q)
    <3>1. AnswersInstead(q, 500) /\ 500 \in Nat
      BY <2>2 DEF FailsSettled
    <3>2. req[q].answer = 200
      BY <2>2 DEF FailsSettled
    <3>3. Told([req[q] EXCEPT !.answer = 500])
      BY <1>2, <3>2 DEF Charged, Told, Ended
    <3> QED
      BY <1>3, <2>1, <3>1, <3>3
  <2>3. CASE LeavesSettled(q)
    <3>1. AnswersInstead(q, 499) /\ 499 \in Nat
      BY <2>3 DEF LeavesSettled
    <3>2. Told([req[q] EXCEPT !.answer = 499])
      BY <1>2 DEF Told, Ended
    <3> QED
      BY <1>3, <2>1, <3>1, <3>2
  <2> QED
    BY <1>5, <2>2, <2>3
<1> QED
  BY <1>4, <1>5

\* The call, from its lease to what it settles.
LEMMA CallMoves ==
  ASSUME RequestInv, ConstantsOK, NEW q \in Requests, Call(q)
  PROVE  RequestInv'
<1> DEFINE Stay == UNCHANGED <<now, setting>>
           Becomes(r) == Stay /\ r \in Leased \cup Called /\ InTime(r) /\ req' = [req EXCEPT ![q] = r]
<1>1. ASSUME NEW r, Becomes(r) PROVE RequestInv'
  BY <1>1, CallStages, OneMoves
<1>2. /\ setting \in Snapshots /\ now \in Nat
      /\ Timeout \in Nat /\ MaxRetries \in Nat /\ Delays \subseteq Nat /\ Tokens \subseteq Nat
      /\ Estimate \in Nat /\ Estimate > 0 /\ Grace \in Nat /\ Grace > 0 /\ MaxBooks \in Nat \ {0}
      /\ Price \in [Models -> Nat \ {0}] /\ Provider \in [Models -> {"openai", "anthropic"}]
      /\ Replying \subseteq [stop : Stops, form : Forms, items : Seq(Items)]
  BY DEF RequestInv, ConstantsOK
<1>3. /\ req[q].at = "looking" => req[q] \in Preparing
      /\ req[q].at = "starting" => req[q] \in Leased
      /\ req[q].at \in {"calling", "retrying"} => req[q] \in Called
      /\ InTime(req[q])
  BY Placed
<1>4. ASSUME req[q].at \in {"calling", "retrying"}
      PROVE  /\ Named(q) = req[q].called /\ req[q].called \in Models
             /\ req[q].opened \in Nat /\ req[q].attempt \in Nat /\ req[q].sent \in Nat
             /\ req[q].opened < req[q].began + Grace /\ now <= req[q].opened + Timeout
  BY <1>3, <1>4 DEF Called, InTime, Named
<1>5. ASSUME req[q].at \in {"calling", "retrying"}, Unavailable(q) PROVE RequestInv'
  <2> DEFINE r == [at |-> "settled", answer |-> 503, unit |-> "back", status |-> "refunded",
                   model |-> req[q].called, cost |-> 0, called |-> req[q].called,
                   billed |-> "no", usable |-> FALSE]
  <2>1. req' = [req EXCEPT ![q] = r] /\ Stay
    BY <1>4, <1>5 DEF Unavailable, Settle
  <2>2. r \in Ended /\ Charged(r) /\ Billed(r)
    <3>1. req[q].called \in Models /\ 503 \in Nat /\ 0 \in Nat
      BY <1>4, <1>5
    <3> QED
      BY <3>1, EndsWithoutReply
  <2> HIDE DEF r
  <2> QED
    BY <2>1, <2>2, SettlesFine
<1>6. ASSUME req[q].at \in {"calling", "retrying"}, NEW answer \in {499, 500}, EndsUnknown(q, answer)
      PROVE  RequestInv'
  <2> DEFINE r == [at |-> "settled", answer |-> answer, unit |-> "kept", status |-> "error",
                   model |-> req[q].called, cost |-> Estimate, called |-> req[q].called,
                   billed |-> "perhaps", usable |-> FALSE]
  <2>1. req' = [req EXCEPT ![q] = r] /\ Stay
    BY <1>4, <1>6 DEF EndsUnknown, Settle
  <2>2. answer \in Nat /\ answer \in {499, 500}
    BY <1>6
  <2>3. r \in Ended /\ Charged(r) /\ Billed(r)
    <3>1. req[q].called \in Models
      BY <1>4, <1>6
    <3>2. Estimate \in Nat /\ Estimate > 0
      BY <1>2
    <3> QED
      BY <2>2, <3>1, <3>2, EndsWithoutReply
  <2> HIDE DEF r
  <2> QED
    BY <2>1, <2>3, SettlesFine
<1>7. CASE Reserve(q)
  <2> DEFINE r == [at |-> "starting", ai |-> req[q].ai, began |-> now, attempt |-> 0]
  <2>1. req[q].at = "looking" /\ Stay /\ req' = [req EXCEPT ![q] = r]
    BY <1>7 DEF Reserve
  <2>2. r \in Leased
    BY <1>2, <1>3, <2>1 DEF Leased, Preparing
  <2>3. InTime(r)
    BY <1>2 DEF InTime
  <2> HIDE DEF r
  <2> QED
    BY <1>1, <2>1, <2>2, <2>3
<1>8. CASE Send(q)
  <2> DEFINE r == [at |-> "calling", ai |-> req[q].ai, began |-> req[q].began, attempt |-> 0,
                   opened |-> now, sent |-> now, called |-> req[q].ai.model]
  <2>1. req[q].at = "starting" /\ Stay /\ req' = [req EXCEPT ![q] = r]
    BY <1>8 DEF Send, Snapshot
  <2>2. req[q].ai \in Snapshots /\ req[q].began \in Nat
    BY <1>3, <2>1 DEF Leased
  <2>3. r \in Called
    BY <1>2, <2>2 DEF Called, Snapshots
  <2>4. InTime(r)
    BY <1>2, <1>3, <2>1 DEF InTime
  <2> HIDE DEF r
  <2> QED
    BY <1>1, <2>1, <2>3, <2>4
<1>9. CASE NoAnswer(q)
  BY <1>5, <1>9 DEF NoAnswer
<1>10. CASE Broke(q)
  BY <1>6, <1>10 DEF Broke
<1>11. CASE Cancelled(q)
  BY <1>6, <1>11 DEF Cancelled
<1>12. CASE Retry(q)
  <2> DEFINE r == [req[q] EXCEPT !.at = "calling", !.sent = now]
  <2>1. req[q].at = "retrying" /\ Stay /\ req' = [req EXCEPT ![q] = r]
    BY <1>12 DEF Retry
  <2>2. r \in Called
    BY <1>2, <1>3, <2>1 DEF Called
  <2>3. r.at = "calling" /\ r.ai = req[q].ai /\ r.called = req[q].called /\ r.opened = req[q].opened
        /\ r.began = req[q].began
    BY <1>3, <2>1 DEF Called
  <2>4. InTime(r)
    BY <1>3, <2>1, <2>3 DEF InTime
  <2> HIDE DEF r
  <2> QED
    BY <1>1, <2>1, <2>2, <2>4
<1>13. CASE Expire(q)
  <2>1. req[q].at \in {"calling", "retrying"} /\ TimedOut(q)
    BY <1>13 DEF Expire, Overdue
  <2> DEFINE r == [at |-> "settled", answer |-> 503, unit |-> "back", status |-> "timeout",
                   model |-> req[q].called, cost |-> Estimate, called |-> req[q].called,
                   billed |-> "perhaps", usable |-> FALSE]
  <2>2. req' = [req EXCEPT ![q] = r] /\ Stay
    BY <1>4, <2>1 DEF TimedOut, Settle
  <2>3. r \in Ended /\ Charged(r) /\ Billed(r)
    <3>1. req[q].called \in Models
      BY <1>4, <2>1
    <3>2. Estimate \in Nat /\ Estimate > 0 /\ 503 \in Nat
      BY <1>2
    <3> QED
      BY <3>1, <3>2, EndsWithoutReply
  <2> HIDE DEF r
  <2> QED
    BY <2>2, <2>3, SettlesFine
<1>14. ASSUME req[q].at = "calling", NEW said \in ReadReplies[Provider[req[q].called]],
              NEW tokens \in Tokens, Reply(q, said, tokens)
       PROVE  RequestInv'
  <2> DEFINE p == Provider[req[q].called]
             good == said.outcome # "malformed"
             cost == CostOf(req[q].called, tokens)
             unit == IF good THEN "kept" ELSE "back"
             answer == IF good THEN 200 ELSE 503
             billed == IF tokens = 0 THEN "unsaid" ELSE "yes"
  <2>1. p \in {"openai", "anthropic"}
    BY <1>2, <1>4, <1>14
  <2>2. PICK r \in Replying : said = [outcome |-> Reported(Identified(p, r)), usable |-> Usable(p, r)]
    BY <1>14, <2>1 DEF ReadReplies
  <2>3. r \in [stop : Stops, form : Forms, items : Seq(Items)]
    BY <1>2
  <2>4. /\ said.outcome \in {"ok", "refused", "truncated", "malformed"}
        /\ good <=> said.usable
    BY <1>2, <2>1, <2>2, <2>3, RepliesRead
  <2>5. said.usable \in BOOLEAN
    BY <2>2 DEF Usable, Listed
  <2>6. cost \in Nat /\ (tokens # 0 => cost > 0)
    <3> DEFINE price == Price[req[q].called]
    <3>1. price \in Nat /\ price > 0 /\ tokens \in Nat
      BY <1>2, <1>4, <1>14
    <3>2. cost = tokens * price
      BY DEF CostOf
    <3> HIDE DEF price, cost
    <3>3. \A a, b \in Nat : a * b \in Nat /\ (a # 0 /\ b > 0 => a * b > 0)
      OBVIOUS
    <3> QED
      BY <3>1, <3>2, <3>3
  <2> DEFINE model == req[q].called
             outcome == said.outcome
             usable == said.usable
             ended == [at |-> "settled", answer |-> answer, unit |-> unit, status |-> outcome,
                       model |-> model, cost |-> cost, called |-> model,
                       billed |-> billed, usable |-> usable]
  <2>7. req' = [req EXCEPT ![q] = ended] /\ Stay
    BY <1>14 DEF Reply, Settle
  <2>8. /\ unit \in {"kept", "back"} /\ answer \in Nat /\ billed \in {"yes", "unsaid"}
        /\ (unit = "kept" <=> usable)
        /\ (billed = "yes" => tokens # 0) /\ outcome # "error"
    BY <2>4, <2>5
  <2>13. IF unit = "kept" THEN answer = 200 ELSE answer = 503
    OBVIOUS
  <2>9. model \in Models
    BY <1>4, <1>14
  <2>10. outcome \in {"ok", "refused", "truncated", "malformed"} /\ usable \in BOOLEAN
    BY <2>4, <2>5
  <2> HIDE DEF unit, cost, answer, billed, good, model, outcome, usable
  <2>11. ended \in Ended
    BY <2>6, <2>8, <2>9, <2>10, SMTT(30) DEF Ended
  <2>12. Charged(ended) /\ Billed(ended)
    BY <2>6, <2>8, <2>10, <2>13 DEF Charged, Told, Billed
  <2> HIDE DEF ended
  <2> QED
    BY <2>7, <2>11, <2>12, SettlesFine
<1>15. ASSUME NEW delay \in Delays, Overloaded(q, delay) PROVE RequestInv'
  <2>1. req[q].at = "calling"
    BY <1>15 DEF Overloaded
  <2>2. CASE req[q].attempt >= MaxRetries \/ now + delay >= Ends(q)
    BY <1>5, <1>15, <2>1, <2>2 DEF Overloaded
  <2>3. CASE ~(req[q].attempt >= MaxRetries \/ now + delay >= Ends(q))
    <3> DEFINE r == [req[q] EXCEPT !.at = "retrying", !.attempt = @ + 1, !.sent = now + delay]
    <3>1. Stay /\ req' = [req EXCEPT ![q] = r]
      BY <1>15, <2>1, <2>3 DEF Overloaded
    <3>2. r \in Called
      <4>1. req[q] \in Called
        BY <1>3, <2>1
      <4>2. req[q].attempt + 1 \in Nat
        BY <1>4, <2>1
      <4>3. now + delay \in Nat
        BY <1>2, <1>15
      <4> QED
        BY <4>1, <4>2, <4>3 DEF Called
    <3>3. r.at = "retrying" /\ r.ai = req[q].ai /\ r.called = req[q].called /\ r.opened = req[q].opened
          /\ r.began = req[q].began
      BY <1>3, <2>1 DEF Called
    <3>4. InTime(r)
      BY <1>3, <2>1, <3>3 DEF InTime
    <3> HIDE DEF r
    <3> QED
      BY <1>1, <3>1, <3>2, <3>4
  <2> QED
    BY <2>2, <2>3
<1>16. CASE Respond(q) \/ FailsSettled(q) \/ LeavesSettled(q)
  BY <1>16, AnswerMoves
<1> QED
  BY <1>7, <1>8, <1>9, <1>10, <1>11, <1>12, <1>13, <1>14, <1>15, <1>16 DEF Call

\* An operator's switch touches no request's snapshot.
LEMMA SwitchMoves ==
  ASSUME RequestInv, NEW s \in Snapshots, Switch(s)
  PROVE  RequestInv'
<1>1. UNCHANGED <<now, req>> /\ setting' = s
  BY DEF Switch
<1>2. ASSUME NEW q \in Requests PROVE Fine(req[q])'
  BY <1>1, <1>2 DEF RequestInv, Fine, InTime, Charged, Billed
<1> QED
  BY <1>1, <1>2 DEF RequestInv

\* The clock waits for a deadline that is due, and for a call that is to begin.
LEMMA TickMoves ==
  ASSUME RequestInv, ConstantsOK, Tick
  PROVE  RequestInv'
<1>1. UNCHANGED <<setting, req>> /\ now' = now + 1 /\ now \in Nat /\ Timeout \in Nat /\ Grace \in Nat
  BY DEF Tick, RequestInv, ConstantsOK
<1>2. ASSUME NEW q \in Requests PROVE Fine(req[q])'
  <2>1. /\ req[q].at = "starting" => req[q] \in Leased
        /\ req[q].at \in {"calling", "retrying"} => req[q] \in Called
        /\ InTime(req[q])
    BY Placed
  <2>2. ~Overdue(q) /\ (req[q].at = "starting" => now + 1 < req[q].began + Grace)
    BY DEF Tick
  <2>3. InTime(req[q])'
    <3>1. CASE req[q].at = "starting"
      BY <1>1, <2>2, <3>1 DEF InTime
    <3>2. CASE req[q].at \in {"calling", "retrying"}
      <4>1. req[q].opened \in Nat
        BY <2>1, <3>2 DEF Called
      <4>2. ~(now >= req[q].opened + Timeout)
        BY <2>2, <3>2 DEF Overdue, Ends
      <4>3. req[q].called = req[q].ai.model /\ req[q].opened < req[q].began + Grace
        BY <2>1, <3>2 DEF InTime
      <4>4. now + 1 <= req[q].opened + Timeout
        BY <1>1, <4>1, <4>2
      <4> QED
        BY <1>1, <3>2, <4>3, <4>4 DEF InTime
    <3> QED
      BY <1>1, <3>1, <3>2 DEF InTime
  <2>4. Fine(req[q])
    BY DEF RequestInv
  <2>5. /\ req[q]' = req[q] /\ (Charged(req[q])' <=> Charged(req[q])) /\ (Billed(req[q])' <=> Billed(req[q]))
    BY <1>1 DEF Charged, Told, Billed
  <2> QED
    BY <2>3, <2>4, <2>5 DEF Fine
<1> QED
  BY <1>1, <1>2 DEF RequestInv

LEMMA RequestMoves ==
  ASSUME RequestInv, ConstantsOK, [Next]_vars
  PROVE  RequestInv'
<1>1. ASSUME NEW q \in Requests, Prepare(q) \/ Call(q) PROVE RequestInv'
  BY <1>1, PrepareMoves, CallMoves
<1>2. ASSUME NEW s \in [on : BOOLEAN, enhanced : BOOLEAN, model : Models], Switch(s) PROVE RequestInv'
  BY <1>2, SwitchMoves DEF Snapshots
<1>3. CASE Tick
  BY <1>3, TickMoves
<1>4. CASE UNCHANGED vars
  <2>1. UNCHANGED <<now, setting, req>>
    BY <1>4 DEF vars
  <2>2. ASSUME NEW q \in Requests PROVE Fine(req[q])'
    BY <2>1, <2>2 DEF RequestInv, Fine, InTime, Charged, Billed
  <2> QED
    BY <2>1, <2>2 DEF RequestInv
<1> QED
  BY <1>1, <1>2, <1>3, <1>4 DEF Next

LEMMA RequestHolds == Spec => []RequestInv
<1>1. Init => RequestInv
  BY RequestStart
<1>2. RequestInv /\ [Next]_vars => RequestInv'
  BY RequestMoves, RequestOK
<1> QED
  BY <1>1, <1>2, PTL DEF Spec

\* A request that has settled is one whose call has ended.
LEMMA SettledEnded ==
  ASSUME RequestInv, NEW q \in Settled
  PROVE  q \in Requests /\ Charged(req[q]) /\ Billed(req[q])
<1> DEFINE r == req[q]
<1>1. q \in Requests /\ r \in Stages /\ "unit" \in DOMAIN r /\ (r \in Ended => Charged(r) /\ Billed(r))
  BY DEF Settled, RequestInv, Fine
<1>2. r = Idle => "unit" \notin DOMAIN r
  BY DEF Idle
<1>3. r \in Preparing => "unit" \notin DOMAIN r
  BY DEF Preparing
<1>4. r \in Holding => "unit" \notin DOMAIN r
  BY DEF Holding
<1>5. r \in Leased => "unit" \notin DOMAIN r
  BY DEF Leased
<1>6. r \in Called => "unit" \notin DOMAIN r
  BY DEF Called
<1>7. r \in Refused => "unit" \notin DOMAIN r
  BY DEF Refused
<1> HIDE DEF r
<1>8. r \in Ended
  BY <1>1, <1>2, <1>3, <1>4, <1>5, <1>6, <1>7 DEF Stages
<1> QED
  BY <1>1, <1>8 DEF r

\* A scan's unit is kept for a reply that can be used and given back for a call
\* not billed, nobody is told 503 for a scan that was charged, and books come
\* with a charge alone, whatever the replies are, however many calls, retries and
\* switches there are, and whatever fails between the settle and the answer
\* (api/scan.py, _run_provider, _record_and_enrich; gateway.py).
THEOREM RequestCharges == Spec => []ChargedForAnAnswer
<1>1. RequestInv => ChargedForAnAnswer
  BY SettledEnded DEF ChargedForAnAnswer, Charged, Told
<1> QED
  BY <1>1, RequestHolds, PTL

\* What a provider bills or may bill is on the day's spend under the model called
\* (api/scan.py, _run_provider; breaker.py).
THEOREM RequestSpends == Spec => []SpendFollowsTheBill
<1>1. RequestInv => SpendFollowsTheBill
  BY SettledEnded DEF SpendFollowsTheBill, Billed
<1> QED
  BY <1>1, RequestHolds, PTL

\* A call's lease holds as long as it runs, for every timeout, grace and number of
\* retries (gateway.py, run_feature; leases.py, renew_lease).
THEOREM RequestLeased == Spec => []LeaseOutlivesCall
<1>1. RequestInv => LeaseOutlivesCall
  <2> SUFFICES ASSUME RequestInv, NEW q \in Requests, req[q].at \in {"calling", "retrying"}
               PROVE  now < req[q].began + Timeout + Grace
    BY DEF LeaseOutlivesCall
  <2>1. req[q] \in Called /\ InTime(req[q])
    BY Placed
  <2>2. req[q].opened \in Nat /\ req[q].began \in Nat /\ now \in Nat /\ Timeout \in Nat /\ Grace \in Nat
    BY <2>1, RequestOK DEF Called, RequestInv, ConstantsOK
  <2>3. req[q].opened < req[q].began + Grace /\ now <= req[q].opened + Timeout
    BY <2>1 DEF InTime
  <2>4. \A a, b, c, d, e \in Nat : a < b + c /\ d <= a + e => d < b + e + c
    OBVIOUS
  <2> QED
    BY <2>2, <2>3, <2>4
<1> QED
  BY <1>1, RequestHolds, PTL


-----------------------------------------------------------------------------
(* UsageLedger.                                                              *)

(* What a paid call is at, and what it carries there.                         *)
AtRest == [at : {"idle", "end"}]
Settling == [at : {"settle"}, day : U!Days, try : Nat]
FallingBack == [at : {"fallback"}, day : U!Days]
Claiming == [at : {"claim"}, day : U!Days, due : SUBSET Pcts]
Sending == [at : {"send"}, day : U!Days, won : SUBSET Pcts]
PaidStages == AtRest \cup Settling \cup FallingBack \cup Claiming \cup Sending

NightStages == [step : Nat, attempt : Nat, part : {"run", "daily"}, batch : Nat, day : Int]

LedgerTyped ==
  /\ today \in U!Days
  /\ raw \in [Calls -> U!Days \cup {None}] /\ wrote \in [Calls -> U!Days \cup {None}]
  /\ daily \in [U!Days -> Nat] /\ spend \in [U!Days -> Nat \cup {None}]
  /\ mask \in [U!Days -> SUBSET Pcts] /\ sent \in [U!Days \X Pcts -> Nat]
  /\ paid \in [Calls -> PaidStages]
  /\ job \in [Jobs -> NightStages] /\ \A j \in Jobs : job[j].day <= today

(* A row in ai_usage is the one that was committed.                           *)
RowsKept == \A c \in Calls : raw[c] # None => raw[c] = wrote[c]

(* A threshold that was sent, or is about to be by one call alone, stays       *)
(* claimed until its day's row is purged, and no later settle revives that.   *)
Sender(c, d, p) == paid[c].at = "send" /\ paid[c].day = d /\ p \in paid[c].won

Kept(d, p) == p \in mask[d] \/ (spend[d] = None /\ d < today)

OneSender ==
  \A d \in U!Days, p \in Pcts :
    /\ sent[<<d, p>>] <= 1
    /\ sent[<<d, p>>] # 0 => Kept(d, p)
    /\ \A c \in Calls : Sender(c, d, p) =>
         sent[<<d, p>>] = 0 /\ Kept(d, p) /\ \A b \in Calls : Sender(b, d, p) => b = c

(* A threshold the spend has reached is claimed, or some call is to claim it. *)
Owing(c, d, p) == paid[c].at = "claim" /\ paid[c].day = d /\ p \in paid[c].due

Owed ==
  \A d \in U!Days \ faults : \A p \in U!Crossed(spend[d]) \ mask[d] : \E c \in Calls : Owing(c, d, p)

\* The instance's copies of these operators are the ones the library speaks of.
LEMMA SameFinite == \A S : U!IsFiniteSet(S) <=> IsFiniteSet(S)
BY DEF U!IsFiniteSet, IsFiniteSet

LEMMA SameCount == \A S : U!Cardinality(S) = Cardinality(S)
BY DEF U!Cardinality, Cardinality

LEMMA LedgerConstants ==
  ASSUME U!ConstantsOK
  PROVE  IsFiniteSet(Calls) /\ None \notin U!Days /\ U!Days \subseteq Nat
BY SameFinite DEF U!ConstantsOK, U!Days

Written(d) == {c \in Calls : wrote[c] = d}

CountOnce ==
  \A d \in U!Days : d >= today - DailyDays =>
    daily[d] + Cardinality(U!RowsOf(d)) = Cardinality(Written(d))

LEMMA CountsOnce == U!RowsCountOnce <=> CountOnce
BY SameCount DEF U!RowsCountOnce, CountOnce, Written

LEMMA PaidAt ==
  ASSUME LedgerTyped, NEW c \in Calls
  PROVE  /\ paid[c].at = "settle" => paid[c] \in Settling /\ paid[c].day \in U!Days /\ paid[c].try \in Nat
         /\ paid[c].at = "fallback" => paid[c].day \in U!Days
         /\ paid[c].at = "claim" => paid[c].day \in U!Days /\ paid[c].due \subseteq Pcts
         /\ paid[c].at = "send" => paid[c].day \in U!Days /\ paid[c].won \subseteq Pcts
<1> DEFINE r == paid[c]
<1>1. r \in PaidStages
  BY DEF LedgerTyped
<1> HIDE DEF r
<1>2. r \in AtRest => r.at \in {"idle", "end"}
  BY DEF AtRest
<1>3. r \in Settling => r.at = "settle" /\ r.day \in U!Days /\ r.try \in Nat
  BY DEF Settling
<1>4. r \in FallingBack => r.at = "fallback" /\ r.day \in U!Days
  BY DEF FallingBack
<1>5. r \in Claiming => r.at = "claim" /\ r.day \in U!Days /\ r.due \subseteq Pcts
  BY DEF Claiming
<1>6. r \in Sending => r.at = "send" /\ r.day \in U!Days /\ r.won \subseteq Pcts
  BY DEF Sending
<1> QED
  BY <1>1, <1>2, <1>3, <1>4, <1>5, <1>6 DEF PaidStages, r

LEMMA Sums ==
  ASSUME LedgerTyped, U!ConstantsOK, NEW c \in Calls, NEW d \in U!Days
  PROVE  /\ U!Plus(spend[d], Cost[c]) \in Nat \cup {None}
         /\ U!Pending(c, d) \subseteq Pcts
<1>1. spend[d] \in Nat \cup {None} /\ Cost[c] \in Nat
  BY DEF LedgerTyped, U!ConstantsOK
<1> QED
  BY <1>1 DEF U!Plus, U!Pending, U!Crossed

LEMMA WriteTyped ==
  ASSUME LedgerTyped, U!ConstantsOK, NEW c \in Calls, NEW d \in U!Days, U!Write(c, d)
  PROVE  /\ raw' \in [Calls -> U!Days \cup {None}] /\ wrote' \in [Calls -> U!Days \cup {None}]
         /\ spend' \in [U!Days -> Nat \cup {None}]
<1>1. CASE U!Inserted(c)
  <2>1. /\ raw' = [raw EXCEPT ![c] = today] /\ wrote' = [wrote EXCEPT ![c] = today]
        /\ spend' = [spend EXCEPT ![d] = U!Plus(spend[d], Cost[c])]
    BY <1>1 DEF U!Write
  <2> QED
    BY <2>1, Sums DEF LedgerTyped
<1>2. CASE ~U!Inserted(c)
  BY <1>2 DEF U!Write, LedgerTyped
<1> QED
  BY <1>1, <1>2

\* A call that goes on to a stage leaves the others at theirs.
LEMMA GoesTyped ==
  ASSUME LedgerTyped, NEW c \in Calls, NEW r, r \in PaidStages, U!Go(c, r)
  PROVE  paid' \in [Calls -> PaidStages]
BY DEF LedgerTyped, U!Go

LEMMA Stages3 ==
  /\ [at |-> "end"] \in PaidStages
  /\ \A d \in U!Days : [at |-> "settle", day |-> d, try |-> 1] \in PaidStages
  /\ \A d \in U!Days : [at |-> "fallback", day |-> d] \in PaidStages
  /\ \A d \in U!Days : \A s \in SUBSET Pcts : [at |-> "claim", day |-> d, due |-> s] \in PaidStages
  /\ \A d \in U!Days : \A s \in SUBSET Pcts : [at |-> "send", day |-> d, won |-> s] \in PaidStages
<1>1. [at |-> "end"] \in AtRest
  BY DEF AtRest
<1>2. ASSUME NEW d \in U!Days PROVE [at |-> "settle", day |-> d, try |-> 1] \in Settling
  BY DEF Settling
<1>3. ASSUME NEW d \in U!Days PROVE [at |-> "fallback", day |-> d] \in FallingBack
  BY DEF FallingBack
<1>4. ASSUME NEW d \in U!Days, NEW s \in SUBSET Pcts PROVE [at |-> "claim", day |-> d, due |-> s] \in Claiming
  BY DEF Claiming
<1>5. ASSUME NEW d \in U!Days, NEW s \in SUBSET Pcts PROVE [at |-> "send", day |-> d, won |-> s] \in Sending
  BY DEF Sending
<1> QED
  BY <1>1, <1>2, <1>3, <1>4, <1>5 DEF PaidStages

LEMMA SetTyped ==
  ASSUME LedgerTyped, NEW c \in Calls, paid[c].at = "claim"
  PROVE  U!Set(c) \in [U!Days -> SUBSET Pcts] /\ U!Won(c) \subseteq Pcts
<1>1. paid[c].day \in U!Days /\ paid[c].due \subseteq Pcts
  BY PaidAt
<1>2. U!Set(c) \in [U!Days -> SUBSET Pcts]
  BY <1>1 DEF U!Set, LedgerTyped
<1> QED
  BY <1>1, <1>2 DEF U!Won

\* The types of what the settles change.
LEMMA PaidTyped ==
  ASSUME LedgerTyped, U!ConstantsOK, U!Paid
  PROVE  LedgerTyped'
<1>1. PICK c \in Calls :
         \/ U!Answer(c) \/ U!Settle(c) \/ U!SettleFails(c) \/ U!Fallback(c) \/ U!SettleTimesOut(c)
         \/ U!Claim(c) \/ U!ClaimFails(c) \/ U!Send(c)
  BY DEF U!Paid
<1>2. UNCHANGED <<daily, job, today>>
  BY <1>1 DEF U!Answer, U!Settle, U!SettleFails, U!Fallback, U!SettleTimesOut, U!Claim, U!ClaimFails, U!Send
<1> DEFINE Fields == /\ raw' \in [Calls -> U!Days \cup {None}] /\ wrote' \in [Calls -> U!Days \cup {None}]
                     /\ spend' \in [U!Days -> Nat \cup {None}] /\ mask' \in [U!Days -> SUBSET Pcts]
                     /\ sent' \in [U!Days \X Pcts -> Nat]
<1>3. ASSUME Fields, paid' \in [Calls -> PaidStages] PROVE LedgerTyped'
  BY <1>2, <1>3 DEF LedgerTyped
<1>4. ASSUME NEW r, r \in PaidStages, U!Go(c, r), Fields PROVE LedgerTyped'
  BY <1>3, <1>4, GoesTyped
<1>5. ASSUME U!Done(c), Fields PROVE LedgerTyped'
  BY <1>4, <1>5, Stages3 DEF U!Done
<1>6. CASE U!Answer(c)
  <2>1. U!Go(c, [at |-> "settle", day |-> today, try |-> 1]) /\ today \in U!Days
    BY <1>6 DEF U!Answer, LedgerTyped
  <2>2. Fields
    BY <1>6 DEF U!Answer, LedgerTyped
  <2> QED
    BY <1>4, <2>1, <2>2, Stages3
<1>7. ASSUME NEW d \in U!Days,
             IF U!Pending(c, d) = {} THEN U!Done(c)
             ELSE U!Go(c, [at |-> "claim", day |-> d, due |-> U!Pending(c, d)]),
             Fields
      PROVE  LedgerTyped'
  BY <1>4, <1>5, <1>7, Stages3, Sums
<1>8. CASE U!Settle(c)
  <2>1. paid[c].at = "settle" /\ U!Write(c, paid[c].day) /\ UNCHANGED <<mask, sent>>
    BY <1>8 DEF U!Settle
  <2>2. paid[c].day \in U!Days
    BY <2>1, PaidAt
  <2>3. Fields
    BY <2>1, <2>2, WriteTyped DEF LedgerTyped
  <2> QED
    BY <1>7, <1>8, <2>2, <2>3 DEF U!Settle
<1>9. CASE U!SettleFails(c)
  <2>1. paid[c].at = "settle" /\ UNCHANGED <<mask, sent>>
        /\ (UNCHANGED <<raw, spend, wrote>> \/ U!Write(c, paid[c].day))
    BY <1>9 DEF U!SettleFails
  <2>2. paid[c].day \in U!Days /\ paid[c] \in Settling /\ paid[c].try \in Nat
    BY <2>1, PaidAt
  <2>3. Fields
    BY <2>1, <2>2, WriteTyped DEF LedgerTyped
  <2>4. [paid[c] EXCEPT !.try = @ + 1] \in PaidStages
    BY <2>2 DEF Settling, PaidStages
  <2>5. U!Go(c, [paid[c] EXCEPT !.try = @ + 1]) \/ U!Go(c, [at |-> "fallback", day |-> paid[c].day])
    BY <1>9 DEF U!SettleFails, U!Again
  <2> QED
    BY <1>4, <2>2, <2>3, <2>4, <2>5, Stages3
<1>10. CASE U!Fallback(c)
  <2>1. paid[c].at = "fallback" /\ UNCHANGED <<raw, mask, wrote, sent>>
        /\ spend' \in {spend, [spend EXCEPT ![paid[c].day] = U!Plus(spend[paid[c].day], Cost[c])]}
    BY <1>10 DEF U!Fallback
  <2>2. paid[c].day \in U!Days
    BY <2>1, PaidAt
  <2>3. Fields
    BY <2>1, <2>2, Sums DEF LedgerTyped
  <2> QED
    BY <1>7, <1>10, <2>2, <2>3 DEF U!Fallback
<1>11. CASE U!SettleTimesOut(c)
  <2>1. paid[c].at = "settle" /\ UNCHANGED <<mask, sent>> /\ U!Done(c)
        /\ (UNCHANGED <<raw, spend, wrote>> \/ U!Write(c, paid[c].day))
    BY <1>11 DEF U!SettleTimesOut
  <2>2. paid[c].day \in U!Days
    BY <2>1, PaidAt
  <2>3. Fields
    BY <2>1, <2>2, WriteTyped DEF LedgerTyped
  <2> QED
    BY <1>5, <2>1, <2>3
<1>12. CASE U!Claim(c)
  <2>1. paid[c].at = "claim" /\ mask' = U!Set(c) /\ UNCHANGED <<raw, spend, wrote, sent>>
        /\ U!Go(c, [at |-> "send", day |-> paid[c].day, won |-> U!Won(c)])
    BY <1>12 DEF U!Claim
  <2>2. paid[c].day \in U!Days
    BY <2>1, PaidAt
  <2>3. Fields
    BY <2>1, SetTyped DEF LedgerTyped
  <2> QED
    BY <1>4, <2>1, <2>2, <2>3, SetTyped, Stages3
<1>13. CASE U!ClaimFails(c)
  <2>1. paid[c].at = "claim" /\ mask' \in {mask, U!Set(c)} /\ UNCHANGED <<raw, spend, wrote, sent>> /\ U!Done(c)
    BY <1>13 DEF U!ClaimFails
  <2>2. Fields
    BY <2>1, SetTyped DEF LedgerTyped
  <2> QED
    BY <1>5, <2>1, <2>2
<1>14. CASE U!Send(c)
  <2>1. UNCHANGED <<raw, spend, mask, wrote>> /\ U!Done(c)
        /\ sent' = [a \in DOMAIN sent |->
                      sent[a] + (IF a[1] = paid[c].day /\ a[2] \in paid[c].won THEN 1 ELSE 0)]
    BY <1>14 DEF U!Send
  <2>2. sent' \in [U!Days \X Pcts -> Nat]
    BY <2>1 DEF LedgerTyped
  <2>3. Fields
    BY <2>1, <2>2 DEF LedgerTyped
  <2> QED
    BY <1>5, <2>1, <2>3
<1> QED
  BY <1>1, <1>6, <1>8, <1>9, <1>10, <1>11, <1>12, <1>13, <1>14


\* A job that goes on to a stage of a night no later than today leaves the others.
LEMMA JobTyped ==
  ASSUME LedgerTyped, NEW j \in Jobs, NEW r \in NightStages, r.day <= today,
         job' = [job EXCEPT ![j] = r], UNCHANGED today
  PROVE  job' \in [Jobs -> NightStages] /\ \A i \in Jobs : job'[i].day <= today'
<1>1. job \in [Jobs -> NightStages] /\ \A i \in Jobs : job[i].day <= today
  BY DEF LedgerTyped
<1>2. job' \in [Jobs -> NightStages]
  BY <1>1
<1>3. ASSUME NEW i \in Jobs PROVE job'[i].day <= today'
  BY <1>1
<1> QED
  BY <1>2, <1>3

LEMMA AtTyped ==
  ASSUME LedgerTyped, U!ConstantsOK, NEW step \in Nat, NEW try \in Nat
  PROVE  U!At(step, try) \in NightStages /\ U!At(step, try).day <= today
<1>1. today \in Int /\ today <= today
  BY DEF LedgerTyped, U!Days, U!ConstantsOK
<1> QED
  BY <1>1 DEF U!At, NightStages

LEMMA NextStepTyped ==
  ASSUME LedgerTyped, U!ConstantsOK, NEW j \in Jobs, U!NextStep(j), UNCHANGED today
  PROVE  job' \in [Jobs -> NightStages] /\ \A i \in Jobs : job'[i].day <= today'
<1>1. job[j] \in NightStages
  BY DEF LedgerTyped
<1>2. job[j].step \in Nat
  BY <1>1 DEF NightStages
<1>3. job' = [job EXCEPT ![j] = U!At(0, 1)] \/ job' = [job EXCEPT ![j] = U!At(job[j].step + 1, 1)]
  BY DEF U!NextStep
<1>4. 0 \in Nat /\ 1 \in Nat /\ job[j].step + 1 \in Nat
  BY <1>2
<1> QED
  BY <1>3, <1>4, AtTyped, JobTyped

\* Rolling rows up moves each from ai_usage to the total of its day.
LEMMA RollUpMoves ==
  ASSUME LedgerTyped, U!ConstantsOK, NEW moved, moved \subseteq {c \in Calls : raw[c] # None}, U!RollUp(moved)
  PROVE  /\ raw' \in [Calls -> U!Days \cup {None}] /\ daily' \in [U!Days -> Nat]
         /\ \A c \in Calls : raw'[c] # None => raw'[c] = raw[c]
         /\ \A d \in U!Days : daily'[d] + Cardinality(U!RowsOf(d)') = daily[d] + Cardinality(U!RowsOf(d))
<1>1. /\ raw \in [Calls -> U!Days \cup {None}] /\ daily \in [U!Days -> Nat]
      /\ IsFiniteSet(Calls) /\ None \notin U!Days
  BY LedgerConstants DEF LedgerTyped
<1>2. /\ raw' = [c \in Calls |-> IF c \in moved THEN None ELSE raw[c]]
      /\ daily' = [d \in U!Days |-> daily[d] + Cardinality(moved \cap U!RowsOf(d))]
  BY SameCount DEF U!RollUp
<1>3. ASSUME NEW d \in U!Days
      PROVE  /\ Cardinality(moved \cap U!RowsOf(d)) \in Nat
             /\ daily'[d] + Cardinality(U!RowsOf(d)') = daily[d] + Cardinality(U!RowsOf(d))
  <2> DEFINE S == U!RowsOf(d)
             T == U!RowsOf(d)'
  <2>1. S \subseteq Calls /\ S = {c \in Calls : raw[c] = d}
    BY DEF U!RowsOf
  <2>2. T = {c \in Calls : raw'[c] = d}
    BY DEF U!RowsOf
  <2>3. T = S \ moved
    BY <1>1, <1>2, <2>1, <2>2
  <2> HIDE DEF S, T
  <2>4. IsFiniteSet(S)
    BY <1>1, <2>1, FS_Subset
  <2>5. /\ Cardinality(S \ moved) = Cardinality(S) - Cardinality(S \cap moved)
        /\ IsFiniteSet(S \cap moved)
    BY <2>4, FS_Difference, FS_Intersection
  <2>6. Cardinality(S) \in Nat /\ Cardinality(S \cap moved) \in Nat
    BY <2>4, <2>5, FS_CardinalityType
  <2>7. S \cap moved = moved \cap S
    OBVIOUS
  <2>8. daily'[d] = daily[d] + Cardinality(moved \cap S) /\ daily[d] \in Nat
    BY <1>1, <1>2 DEF S
  <2>9. Cardinality(moved \cap S) \in Nat
    BY <2>6, <2>7
  <2>10. PICK k \in Nat : daily'[d] = daily[d] + k /\ Cardinality(T) = Cardinality(S) - k
    BY <2>3, <2>5, <2>7, <2>8, <2>9
  <2>11. \A a, b \in Nat : (a + k) + (b - k) = a + b
    OBVIOUS
  <2>12. daily'[d] + Cardinality(T) = daily[d] + Cardinality(S)
    BY <2>6, <2>8, <2>10, <2>11
  <2> QED
    BY <2>9, <2>12 DEF S, T
<1>4. daily' \in [U!Days -> Nat]
  BY <1>1, <1>2, <1>3
<1> QED
  BY <1>1, <1>2, <1>3, <1>4

LEMMA BatchOfMoves ==
  ASSUME LedgerTyped, U!ConstantsOK, NEW j \in Jobs,
         \/ U!BatchOf(j)
         \/ \E moved \in U!Batch(j, U!Old(j)) : U!RollUp(moved)
  PROVE  /\ raw' \in [Calls -> U!Days \cup {None}] /\ daily' \in [U!Days -> Nat]
         /\ \A c \in Calls : raw'[c] # None => raw'[c] = raw[c]
         /\ \A d \in U!Days : daily'[d] + Cardinality(U!RowsOf(d)') = daily[d] + Cardinality(U!RowsOf(d))
<1>1. CASE UNCHANGED <<raw, daily>>
  <2>1. \A d : U!RowsOf(d)' = U!RowsOf(d)
    BY <1>1 DEF U!RowsOf
  <2> QED
    BY <1>1, <2>1 DEF LedgerTyped
<1>2. ASSUME NEW moved \in U!Batch(j, U!Old(j)), U!RollUp(moved)
      PROVE  moved \subseteq {c \in Calls : raw[c] # None}
  BY <1>2 DEF U!Batch, U!Old
<1> QED
  BY <1>1, <1>2, RollUpMoves DEF U!BatchOf, U!Undone

LEMMA BatchStages ==
  ASSUME NEW r \in NightStages
  PROVE  /\ [r EXCEPT !.batch = @ + 1] \in NightStages
         /\ [r EXCEPT !.batch = @ + 1].day = r.day
         /\ [r EXCEPT !.part = "daily", !.batch = 0] \in NightStages
         /\ [r EXCEPT !.part = "daily", !.batch = 0].day = r.day
<1>1. r.batch + 1 \in Nat /\ r \in [step : Nat, attempt : Nat, part : {"run", "daily"}, batch : Nat, day : Int]
  BY DEF NightStages
<1>2. [r EXCEPT !.batch = @ + 1] \in NightStages /\ [r EXCEPT !.batch = @ + 1].day = r.day
  BY <1>1 DEF NightStages
<1>3. /\ [r EXCEPT !.part = "daily", !.batch = 0] \in NightStages
      /\ [r EXCEPT !.part = "daily", !.batch = 0].day = r.day
  BY <1>1 DEF NightStages
<1> QED
  BY <1>2, <1>3

\* The types of what a night changes.
LEMMA NightTyped ==
  ASSUME LedgerTyped, U!ConstantsOK, U!Night
  PROVE  LedgerTyped'
<1>1. PICK j \in Jobs :
        \/ U!Wake(j) \/ U!RollUpBatch(j) \/ U!PurgeDaily(j) \/ U!PurgeSpend(j)
        \/ U!OtherStep(j) \/ U!Restart(j) \/ \E transient \in BOOLEAN : U!StepFails(j, transient)
  BY DEF U!Night
<1>2. UNCHANGED <<paid, wrote, sent, today>>
  BY <1>1 DEF U!Wake, U!RollUpBatch, U!PurgeDaily, U!PurgeSpend, U!OtherStep, U!Restart, U!StepFails, U!settleVars
<1>3. job[j] \in NightStages /\ job[j].day <= today
  BY DEF LedgerTyped
<1> DEFINE Nights == job' \in [Jobs -> NightStages] /\ \A i \in Jobs : job'[i].day <= today'
           Ledger == raw' \in [Calls -> U!Days \cup {None}] /\ daily' \in [U!Days -> Nat]
           Sums2 == spend' \in [U!Days -> Nat \cup {None}] /\ mask' \in [U!Days -> SUBSET Pcts]
<1>4. ASSUME Nights, Ledger, Sums2 PROVE LedgerTyped'
  BY <1>2, <1>4 DEF LedgerTyped
<1>5. ASSUME UNCHANGED <<spend, mask>> PROVE Sums2
  BY <1>5 DEF LedgerTyped
<1>6. ASSUME UNCHANGED <<raw, daily>> PROVE Ledger
  BY <1>6 DEF LedgerTyped
<1>7. ASSUME NEW step \in Nat, NEW try \in Nat, job' = [job EXCEPT ![j] = U!At(step, try)] PROVE Nights
  BY <1>2, <1>7, AtTyped, JobTyped
<1> HIDE DEF Nights, Ledger, Sums2
<1>8. ASSUME U!NextStep(j) PROVE Nights
  BY <1>2, <1>8, NextStepTyped DEF Nights
<1>9. CASE U!Wake(j)
  BY <1>4, <1>5, <1>6, <1>7, <1>9 DEF U!Wake, U!settleVars
<1>10. CASE U!RollUpBatch(j)
  <2>1. UNCHANGED <<spend, mask>>
    BY <1>10 DEF U!RollUpBatch
  <2>2. PICK moved \in U!Batch(j, U!Old(j)) : U!RollUp(moved) /\ U!AfterBatch(j, moved, "daily")
    BY <1>10 DEF U!RollUpBatch
  <2>3. Ledger
    BY <2>2, BatchOfMoves DEF Ledger
  <2>4. PICK r \in {[job[j] EXCEPT !.batch = @ + 1], [job[j] EXCEPT !.part = "daily", !.batch = 0]} :
          job' = [job EXCEPT ![j] = r]
    BY <2>2 DEF U!AfterBatch
  <2>5. r \in NightStages /\ r.day = job[j].day
    BY <1>3, BatchStages
  <2>6. Nights
    BY <1>2, <1>3, <2>4, <2>5, JobTyped DEF Nights
  <2> QED
    BY <1>4, <1>5, <2>1, <2>3, <2>6
<1>11. CASE U!PurgeDaily(j)
  <2>1. UNCHANGED <<spend, mask, raw>> /\ U!NextStep(j)
        /\ daily' = [d \in U!Days |-> IF d < job[j].day - DailyDays THEN 0 ELSE daily[d]]
    BY <1>11 DEF U!PurgeDaily, U!settleVars
  <2>2. Ledger
    BY <2>1 DEF Ledger, LedgerTyped
  <2> QED
    BY <1>4, <1>5, <1>8, <2>1, <2>2
<1>12. CASE U!PurgeSpend(j)
  <2>1. UNCHANGED <<raw, daily>> /\ U!NextStep(j)
    BY <1>12 DEF U!PurgeSpend
  <2>2. Sums2
    BY <1>12 DEF U!PurgeSpend, Sums2, LedgerTyped
  <2> QED
    BY <1>4, <1>6, <1>8, <2>1, <2>2
<1>13. CASE U!OtherStep(j)
  BY <1>4, <1>5, <1>6, <1>8, <1>13 DEF U!OtherStep, U!settleVars
<1>14. CASE U!Restart(j)
  BY <1>4, <1>5, <1>6, <1>7, <1>14 DEF U!Restart, U!settleVars
<1>15. ASSUME NEW transient \in BOOLEAN, U!StepFails(j, transient) PROVE LedgerTyped'
  <2>1. UNCHANGED <<spend, mask>> /\ U!BatchOf(j)
    BY <1>15 DEF U!StepFails
  <2>2. Ledger
    BY <2>1, BatchOfMoves DEF Ledger
  <2>3. job[j].step \in Nat /\ job[j].attempt + 1 \in Nat
    BY <1>3 DEF NightStages
  <2>4. job' = [job EXCEPT ![j] = U!At(job[j].step, job[j].attempt + 1)] \/ U!NextStep(j)
    BY <1>15 DEF U!StepFails
  <2>5. Nights
    BY <1>7, <1>8, <2>3, <2>4
  <2> QED
    BY <1>4, <1>5, <2>1, <2>2, <2>5
<1> QED
  BY <1>1, <1>9, <1>10, <1>11, <1>12, <1>13, <1>14, <1>15

LEMMA LedgerTypes ==
  ASSUME LedgerTyped, U!ConstantsOK, [U!Next]_ledger
  PROVE  LedgerTyped'
<1>1. CASE U!Tick
  <2>1. UNCHANGED <<raw, spend, mask, paid, wrote, sent, faults, daily, job>> /\ today' = today + 1 /\ today < MaxDay
    BY <1>1 DEF U!Tick, U!settleVars
  <2>2. today' \in U!Days
    BY <2>1 DEF LedgerTyped, U!Days, U!ConstantsOK
  <2>3. ASSUME NEW j \in Jobs PROVE job'[j].day <= today'
    <3>1. job[j].day \in Int /\ job[j].day <= today /\ today \in Int
      BY DEF LedgerTyped, NightStages, U!Days, U!ConstantsOK
    <3> QED
      BY <2>1, <3>1
  <2> QED
    BY <2>1, <2>2, <2>3 DEF LedgerTyped
<1>2. CASE UNCHANGED ledger
  BY <1>2 DEF ledger, LedgerTyped
<1> QED
  BY <1>1, <1>2, PaidTyped, NightTyped DEF U!Next

-----------------------------------------------------------------------------
(* RowsCountOnce. *)
RowsFit == RowsKept /\ CountOnce

\* A row that is written adds one to its day on both sides.
LEMMA WriteCounts ==
  ASSUME LedgerTyped, U!ConstantsOK, RowsFit, NEW c \in Calls, NEW day \in U!Days,
         UNCHANGED <<raw, wrote>> \/ U!Write(c, day), UNCHANGED <<daily, today>>
  PROVE  RowsFit'
<1>1. CASE UNCHANGED <<raw, wrote>>
  BY <1>1 DEF RowsFit, RowsKept, CountOnce, Written, U!RowsOf
<1>2. CASE U!Write(c, day) /\ ~U!Inserted(c)
  BY <1>1, <1>2 DEF U!Write
<1>3. CASE U!Write(c, day) /\ U!Inserted(c)
  <2>1. raw' = [raw EXCEPT ![c] = today] /\ wrote' = [wrote EXCEPT ![c] = today]
    BY <1>3 DEF U!Write
  <2>2. /\ raw \in [Calls -> U!Days \cup {None}] /\ wrote \in [Calls -> U!Days \cup {None}]
        /\ daily \in [U!Days -> Nat] /\ today \in U!Days /\ None \notin U!Days /\ IsFiniteSet(Calls)
    BY LedgerConstants DEF LedgerTyped
  <2>3. wrote[c] = None /\ raw[c] = None
    BY <1>3 DEF U!Inserted, RowsFit, RowsKept
  <2>4. RowsKept'
    BY <2>1, <2>2 DEF RowsFit, RowsKept
  <2>5. ASSUME NEW d \in U!Days, d >= today - DailyDays
        PROVE  daily'[d] + Cardinality(U!RowsOf(d)') = Cardinality(Written(d)')
    <3> DEFINE S == U!RowsOf(d)
               T == Written(d)
    <3>1. daily[d] + Cardinality(S) = Cardinality(T) /\ daily'[d] = daily[d] /\ daily[d] \in Nat
      BY <2>2, <2>5 DEF RowsFit, CountOnce
    <3>2. S = {b \in Calls : raw[b] = d} /\ S' = {b \in Calls : raw'[b] = d}
      BY DEF U!RowsOf
    <3>3. T = {b \in Calls : wrote[b] = d} /\ T' = {b \in Calls : wrote'[b] = d}
      BY DEF Written
    <3> DEFINE S2 == S'
               T2 == T'
    <3>4. CASE d = today
      <4>1. S2 = S \cup {c} /\ c \notin S
        BY <2>1, <2>2, <2>3, <3>2, <3>4
      <4>2. T2 = T \cup {c} /\ c \notin T
        BY <2>1, <2>2, <2>3, <3>3, <3>4
      <4>3. S \subseteq Calls /\ T \subseteq Calls
        BY <3>2, <3>3
      <4> HIDE DEF S, T, S2, T2
      <4>4. IsFiniteSet(S) /\ IsFiniteSet(T)
        BY <2>2, <4>3, FS_Subset
      <4>5. Cardinality(S2) = Cardinality(S) + 1 /\ Cardinality(T2) = Cardinality(T) + 1
        BY <4>1, <4>2, <4>4, FS_AddElement
      <4>6. Cardinality(S) \in Nat /\ Cardinality(T) \in Nat
        BY <4>4, FS_CardinalityType
      <4>7. daily'[d] + Cardinality(S2) = Cardinality(T2)
        BY <3>1, <4>5, <4>6
      <4> QED
        BY <4>7 DEF S2, T2, S, T
    <3>5. CASE d # today
      <4>1. S2 = S /\ T2 = T
        BY <2>1, <2>2, <2>3, <3>2, <3>3, <3>5
      <4> QED
        BY <3>1, <4>1 DEF S2, T2
    <3> QED
      BY <3>4, <3>5
  <2> QED
    BY <2>1, <2>4, <2>5 DEF RowsFit, CountOnce
<1> QED
  BY <1>1, <1>2, <1>3

LEMMA RowsMove ==
  ASSUME LedgerTyped, U!ConstantsOK, RowsFit, [U!Next]_ledger
  PROVE  RowsFit'
<1>1. ASSUME UNCHANGED <<raw, wrote, daily, today>> PROVE RowsFit'
  BY <1>1 DEF RowsFit, RowsKept, CountOnce, Written, U!RowsOf
<1>2. ASSUME NEW c \in Calls, U!Settle(c) \/ U!SettleFails(c) \/ U!SettleTimesOut(c) PROVE RowsFit'
  <2>1. paid[c].at = "settle" /\ UNCHANGED <<daily, today>> /\ (UNCHANGED <<raw, wrote>> \/ U!Write(c, paid[c].day))
    BY <1>2 DEF U!Settle, U!SettleFails, U!SettleTimesOut
  <2>2. paid[c].day \in U!Days
    BY <2>1, PaidAt
  <2> QED
    BY <2>1, <2>2, WriteCounts
<1>3. ASSUME NEW c \in Calls, U!Answer(c) \/ U!Fallback(c) \/ U!Claim(c) \/ U!ClaimFails(c) \/ U!Send(c)
      PROVE  RowsFit'
  BY <1>1, <1>3 DEF U!Answer, U!Fallback, U!Claim, U!ClaimFails, U!Send
<1>4. ASSUME NEW j \in Jobs, U!RollUpBatch(j) \/ \E transient \in BOOLEAN : U!StepFails(j, transient)
      PROVE  RowsFit'
  <2>1. UNCHANGED <<wrote, today>>
    BY <1>4 DEF U!RollUpBatch, U!StepFails
  <2>2. U!BatchOf(j) \/ \E moved \in U!Batch(j, U!Old(j)) : U!RollUp(moved)
    BY <1>4 DEF U!RollUpBatch, U!StepFails
  <2>3. /\ \A c \in Calls : raw'[c] # None => raw'[c] = raw[c]
        /\ \A d \in U!Days : daily'[d] + Cardinality(U!RowsOf(d)') = daily[d] + Cardinality(U!RowsOf(d))
    BY <2>2, BatchOfMoves
  <2>4. RowsKept'
    BY <2>1, <2>3 DEF RowsFit, RowsKept
  <2>5. CountOnce'
    BY <2>1, <2>3 DEF RowsFit, CountOnce, Written
  <2> QED
    BY <2>4, <2>5 DEF RowsFit
<1>5. ASSUME NEW j \in Jobs, U!PurgeDaily(j) PROVE RowsFit'
  <2>1. UNCHANGED <<raw, wrote, today>>
        /\ daily' = [d \in U!Days |-> IF d < job[j].day - DailyDays THEN 0 ELSE daily[d]]
    BY <1>5 DEF U!PurgeDaily, U!settleVars
  <2>2. job[j].day \in Int /\ job[j].day <= today /\ today \in Int /\ DailyDays \in Nat
    BY DEF LedgerTyped, NightStages, U!Days, U!ConstantsOK
  <2>3. ASSUME NEW d \in U!Days, d >= today - DailyDays PROVE daily'[d] = daily[d]
    <3>1. d \in Int
      BY DEF U!Days, U!ConstantsOK
    <3>2. ~(d < job[j].day - DailyDays)
      BY <2>2, <2>3, <3>1
    <3> QED
      BY <2>1, <3>2
  <2> QED
    BY <2>1, <2>3 DEF RowsFit, RowsKept, CountOnce, Written, U!RowsOf
<1>6. ASSUME NEW j \in Jobs, U!Wake(j) \/ U!PurgeSpend(j) \/ U!OtherStep(j) \/ U!Restart(j) PROVE RowsFit'
  BY <1>1, <1>6 DEF U!Wake, U!PurgeSpend, U!OtherStep, U!Restart, U!settleVars
<1>7. CASE U!Tick
  <2>1. UNCHANGED <<raw, wrote, daily>> /\ today' = today + 1 /\ today \in Int /\ DailyDays \in Nat
    BY <1>7 DEF U!Tick, U!settleVars, LedgerTyped, U!Days, U!ConstantsOK
  <2>2. ASSUME NEW d \in U!Days, d >= today' - DailyDays PROVE d >= today - DailyDays
    <3>1. d \in Int
      BY DEF U!Days, U!ConstantsOK
    <3> QED
      BY <2>1, <2>2, <3>1
  <2> QED
    BY <2>1, <2>2 DEF RowsFit, RowsKept, CountOnce, Written, U!RowsOf
<1>8. CASE UNCHANGED ledger
  BY <1>1, <1>8 DEF ledger
<1> QED
  BY <1>2, <1>3, <1>4, <1>5, <1>6, <1>7, <1>8 DEF U!Next, U!Paid, U!Night


-----------------------------------------------------------------------------
(* AlertsOnce. *)

\* A step that sends nothing, adds no sender and forgets no claim of a day whose
\* row may come back.
LEMMA SendersStay ==
  ASSUME OneSender, UNCHANGED sent,
         \A d \in U!Days, p \in Pcts : Kept(d, p) => Kept(d, p)',
         \A c \in Calls, d \in U!Days, p \in Pcts : Sender(c, d, p)' => Sender(c, d, p)
  PROVE  OneSender'
<1> SUFFICES ASSUME NEW d \in U!Days, NEW p \in Pcts
             PROVE  /\ sent'[<<d, p>>] <= 1
                    /\ sent'[<<d, p>>] # 0 => Kept(d, p)'
                    /\ \A c \in Calls : Sender(c, d, p)' =>
                         /\ sent'[<<d, p>>] = 0 /\ Kept(d, p)'
                         /\ \A b \in Calls : Sender(b, d, p)' => b = c
  BY DEF OneSender
<1>1. /\ sent[<<d, p>>] <= 1
      /\ sent[<<d, p>>] # 0 => Kept(d, p)
      /\ \A c \in Calls : Sender(c, d, p) =>
           sent[<<d, p>>] = 0 /\ Kept(d, p) /\ \A b \in Calls : Sender(b, d, p) => b = c
  BY DEF OneSender
<1>2. sent' = sent /\ (Kept(d, p) => Kept(d, p)') /\ \A c \in Calls : Sender(c, d, p)' => Sender(c, d, p)
  OBVIOUS
<1> QED
  BY <1>1, <1>2

\* A call that goes on to a stage other than "send" adds no sender.
LEMMA GoesQuietly ==
  ASSUME LedgerTyped, NEW c \in Calls, NEW r, r.at # "send", U!Go(c, r)
  PROVE  \A b \in Calls, d \in U!Days, p \in Pcts : Sender(b, d, p)' => Sender(b, d, p) /\ b # c
<1>1. paid' = [paid EXCEPT ![c] = r] /\ paid \in [Calls -> PaidStages]
  BY DEF U!Go, LedgerTyped
<1>2. paid'[c] = r /\ \A b \in Calls : b # c => paid'[b] = paid[b]
  BY <1>1
<1> QED
  BY <1>2 DEF Sender

\* A settle changes no day without a row, and so none whose claims were purged.
LEMMA WriteKeeps ==
  ASSUME LedgerTyped, NEW c \in Calls, NEW day \in U!Days,
         \/ UNCHANGED spend
         \/ spend' = [spend EXCEPT ![day] = U!Plus(spend[day], Cost[c])],
         \A d \in U!Days : mask[d] \subseteq mask'[d], UNCHANGED today
  PROVE  \A d \in U!Days, p \in Pcts : Kept(d, p) => Kept(d, p)'
<1>1. ASSUME NEW d \in U!Days, spend[d] = None PROVE spend'[d] = None
  BY <1>1 DEF LedgerTyped, U!Plus
<1> QED
  BY <1>1 DEF Kept

\* What each step of a paid call does to the spend, and to the call.
LEMMA PaidShape ==
  ASSUME LedgerTyped, NEW c \in Calls,
         U!Settle(c) \/ U!SettleFails(c) \/ U!Fallback(c) \/ U!SettleTimesOut(c)
  PROVE  /\ UNCHANGED <<mask, sent, today>> /\ paid[c].at \in {"settle", "fallback"} /\ paid[c].day \in U!Days
         /\ \/ UNCHANGED spend
            \/ spend' = [spend EXCEPT ![paid[c].day] = U!Plus(spend[paid[c].day], Cost[c])]
         /\ \E r : U!Go(c, r) /\ r.at # "send"
<1>1. U!Write(c, paid[c].day) =>
        \/ UNCHANGED spend
        \/ spend' = [spend EXCEPT ![paid[c].day] = U!Plus(spend[paid[c].day], Cost[c])]
  BY DEF U!Write
<1>2. U!Done(c) => \E r : U!Go(c, r) /\ r.at # "send"
  BY DEF U!Done
<1>3. \A d, s : U!Go(c, [at |-> "claim", day |-> d, due |-> s]) => \E r : U!Go(c, r) /\ r.at # "send"
  OBVIOUS
<1>4. CASE U!Settle(c)
  <2>1. paid[c].at = "settle" /\ U!Write(c, paid[c].day) /\ UNCHANGED <<mask, sent, today>>
    BY <1>4 DEF U!Settle
  <2>2. U!Done(c) \/ \E s : U!Go(c, [at |-> "claim", day |-> paid[c].day, due |-> s])
    BY <1>4 DEF U!Settle
  <2> QED
    BY <1>1, <1>2, <1>3, <2>1, <2>2, PaidAt
<1>5. CASE U!SettleFails(c)
  <2>1. /\ paid[c].at = "settle" /\ UNCHANGED <<mask, sent, today>> /\ U!Again(c)
        /\ UNCHANGED spend \/ U!Write(c, paid[c].day)
    BY <1>5 DEF U!SettleFails
  <2>2. paid[c] \in Settling /\ paid[c].day \in U!Days
    BY <2>1, PaidAt
  <2>3. [paid[c] EXCEPT !.try = @ + 1].at # "send"
    BY <2>2 DEF Settling
  <2>4. \E r : U!Go(c, r) /\ r.at # "send"
    BY <2>1, <2>3 DEF U!Again
  <2> QED
    BY <1>1, <2>1, <2>2, <2>4
<1>6. CASE U!Fallback(c)
  <2>1. /\ paid[c].at = "fallback" /\ UNCHANGED <<mask, sent, today>>
        /\ \/ UNCHANGED spend
           \/ spend' = [spend EXCEPT ![paid[c].day] = U!Plus(spend[paid[c].day], Cost[c])]
    BY <1>6 DEF U!Fallback
  <2>2. U!Done(c) \/ \E s : U!Go(c, [at |-> "claim", day |-> paid[c].day, due |-> s])
    BY <1>6 DEF U!Fallback
  <2> QED
    BY <1>2, <1>3, <2>1, <2>2, PaidAt
<1>7. CASE U!SettleTimesOut(c)
  <2>1. /\ paid[c].at = "settle" /\ UNCHANGED <<mask, sent, today>> /\ U!Done(c)
        /\ UNCHANGED spend \/ U!Write(c, paid[c].day)
    BY <1>7 DEF U!SettleTimesOut
  <2> QED
    BY <1>1, <1>2, <2>1, PaidAt
<1> QED
  BY <1>4, <1>5, <1>6, <1>7

LEMMA SetShape ==
  ASSUME LedgerTyped, NEW c \in Calls, paid[c].at = "claim"
  PROVE  /\ \A d \in U!Days : mask[d] \subseteq U!Set(c)[d]
         /\ \A p \in U!Won(c) : p \in Pcts /\ ~Kept(paid[c].day, p) /\ p \in U!Set(c)[paid[c].day]
         /\ spend[paid[c].day] # None => paid[c].due \subseteq U!Set(c)[paid[c].day]
<1>1. paid[c].day \in U!Days /\ paid[c].due \subseteq Pcts /\ mask \in [U!Days -> SUBSET Pcts]
  BY PaidAt DEF LedgerTyped
<1> DEFINE day == paid[c].day
<1>2. CASE spend[day] = None
  BY <1>1, <1>2 DEF U!Set, U!Won
<1>3. CASE spend[day] # None
  <2>1. U!Set(c) = [mask EXCEPT ![day] = mask[day] \cup paid[c].due]
    BY <1>3 DEF U!Set
  <2>2. U!Set(c)[day] = mask[day] \cup paid[c].due /\ \A d \in U!Days \ {day} : U!Set(c)[d] = mask[d]
    BY <1>1, <2>1
  <2>3. U!Won(c) = U!Set(c)[day] \ mask[day]
    BY DEF U!Won
  <2> QED
    BY <1>1, <1>3, <2>2, <2>3 DEF Kept
<1> QED
  BY <1>2, <1>3

LEMMA PurgeShape ==
  ASSUME LedgerTyped, U!ConstantsOK, NEW j \in Jobs, U!PurgeSpend(j), NEW d \in U!Days
  PROVE  \/ spend'[d] = spend[d] /\ mask'[d] = mask[d]
         \/ spend'[d] = None /\ mask'[d] = {} /\ d < today'
<1>1. /\ spend' = [e \in U!Days |-> IF e < job[j].day - SpendDays THEN None ELSE spend[e]]
      /\ mask' = [e \in U!Days |-> IF e < job[j].day - SpendDays THEN {} ELSE mask[e]]
      /\ today' = today
  BY DEF U!PurgeSpend
<1>2. job[j].day \in Int /\ job[j].day <= today /\ today \in Int /\ SpendDays \in Nat /\ d \in Int
  BY DEF LedgerTyped, NightStages, U!Days, U!ConstantsOK
<1> QED
  BY <1>1, <1>2

LEMMA SendersMove ==
  ASSUME LedgerTyped, U!ConstantsOK, OneSender, [U!Next]_ledger
  PROVE  OneSender'
<1>1. ASSUME UNCHANGED <<sent, mask, spend, today, paid>> PROVE OneSender'
  BY <1>1 DEF OneSender, Sender, Kept
<1>2. ASSUME NEW c \in Calls, U!Answer(c) PROVE OneSender'
  <2>1. /\ UNCHANGED <<mask, sent, today>> /\ U!Go(c, [at |-> "settle", day |-> today, try |-> 1])
        /\ spend' = [spend EXCEPT ![today] = IF @ = None THEN 0 ELSE @]
    BY <1>2 DEF U!Answer
  <2>2. ASSUME NEW d \in U!Days, d < today PROVE spend'[d] = spend[d]
    <3>1. d # today
      BY <2>2 DEF U!Days, U!ConstantsOK, LedgerTyped
    <3> QED
      BY <2>1, <3>1 DEF LedgerTyped
  <2>3. \A d \in U!Days, p \in Pcts : Kept(d, p) => Kept(d, p)'
    BY <2>1, <2>2 DEF Kept
  <2>4. [at |-> "settle", day |-> today, try |-> 1].at # "send"
    OBVIOUS
  <2> QED
    BY <2>1, <2>3, <2>4, GoesQuietly, SendersStay
<1>3. ASSUME NEW c \in Calls, U!Settle(c) \/ U!SettleFails(c) \/ U!Fallback(c) \/ U!SettleTimesOut(c)
      PROVE  OneSender'
  <2>1. /\ UNCHANGED <<mask, sent, today>> /\ paid[c].day \in U!Days
        /\ \/ UNCHANGED spend
           \/ spend' = [spend EXCEPT ![paid[c].day] = U!Plus(spend[paid[c].day], Cost[c])]
    BY <1>3, PaidShape
  <2>2. PICK r : U!Go(c, r) /\ r.at # "send"
    BY <1>3, PaidShape
  <2>3. \A d \in U!Days, p \in Pcts : Kept(d, p) => Kept(d, p)'
    BY <2>1, WriteKeeps
  <2>4. \A b \in Calls, d \in U!Days, p \in Pcts : Sender(b, d, p)' => Sender(b, d, p)
    BY <2>2, GoesQuietly
  <2> QED
    BY <2>1, <2>3, <2>4, SendersStay
<1>4. ASSUME NEW c \in Calls, U!ClaimFails(c) PROVE OneSender'
  <2>1. /\ paid[c].at = "claim" /\ UNCHANGED <<sent, spend, today>> /\ mask' \in {mask, U!Set(c)}
        /\ U!Go(c, [at |-> "end"])
    BY <1>4 DEF U!ClaimFails, U!Done
  <2>2. \A d \in U!Days : mask[d] \subseteq mask'[d]
    BY <2>1, SetShape
  <2>3. \A d \in U!Days, p \in Pcts : Kept(d, p) => Kept(d, p)'
    BY <2>1, <2>2 DEF Kept
  <2>4. [at |-> "end"].at # "send"
    OBVIOUS
  <2> QED
    BY <2>1, <2>3, <2>4, GoesQuietly, SendersStay
<1>5. ASSUME NEW c \in Calls, U!Claim(c) PROVE OneSender'
  <2> DEFINE day == paid[c].day
             r == [at |-> "send", day |-> day, won |-> U!Won(c)]
  <2>1. /\ paid[c].at = "claim" /\ UNCHANGED <<sent, spend, today>> /\ mask' = U!Set(c)
        /\ U!Go(c, r)
    BY <1>5 DEF U!Claim
  <2>2. paid'[c] = r /\ \A b \in Calls : b # c => paid'[b] = paid[b]
    BY <2>1 DEF U!Go, LedgerTyped
  <2>3. \A d \in U!Days, p \in Pcts : Kept(d, p) => Kept(d, p)'
    BY <2>1, SetShape DEF Kept
  <2>4. ASSUME NEW d \in U!Days, NEW p \in Pcts
        PROVE  /\ Sender(c, d, p)' <=> d = day /\ p \in U!Won(c)
               /\ ~Sender(c, d, p)
               /\ \A b \in Calls : b # c => (Sender(b, d, p)' <=> Sender(b, d, p))
    BY <2>1, <2>2 DEF Sender
  <2>5. ASSUME NEW d \in U!Days, d = day, NEW p \in U!Won(c) PROVE ~Kept(d, p) /\ Kept(d, p)'
    <3>1. ~Kept(d, p) /\ p \in U!Set(c)[d]
      BY <2>1, <2>5, SetShape
    <3>2. Kept(d, p)'
      BY <2>1, <3>1 DEF Kept
    <3> QED
      BY <3>1, <3>2
  <2> HIDE DEF day, r
  <2>6. ASSUME NEW d \in U!Days, NEW p \in Pcts
        PROVE  /\ sent'[<<d, p>>] <= 1
               /\ sent'[<<d, p>>] # 0 => Kept(d, p)'
               /\ \A a \in Calls : Sender(a, d, p)' =>
                    /\ sent'[<<d, p>>] = 0 /\ Kept(d, p)'
                    /\ \A b \in Calls : Sender(b, d, p)' => b = a
    <3>1. /\ sent[<<d, p>>] <= 1 /\ (sent[<<d, p>>] # 0 => Kept(d, p))
          /\ \A a \in Calls : Sender(a, d, p) =>
               sent[<<d, p>>] = 0 /\ Kept(d, p) /\ \A b \in Calls : Sender(b, d, p) => b = a
      BY DEF OneSender
    <3>2. sent' = sent
      BY <2>1
    <3> QED
      BY <2>3, <2>4, <2>5, <3>1, <3>2
  <2> QED
    BY <2>6 DEF OneSender
<1>6. ASSUME NEW c \in Calls, U!Send(c) PROVE OneSender'
  <2>1. /\ paid[c].at = "send" /\ UNCHANGED <<mask, spend, today>> /\ U!Go(c, [at |-> "end"])
        /\ sent' = [a \in DOMAIN sent |->
                      sent[a] + (IF a[1] = paid[c].day /\ a[2] \in paid[c].won THEN 1 ELSE 0)]
    BY <1>6 DEF U!Send, U!Done
  <2>2. ASSUME NEW d \in U!Days, NEW p \in Pcts
        PROVE  sent'[<<d, p>>] = IF Sender(c, d, p) THEN sent[<<d, p>>] + 1 ELSE sent[<<d, p>>]
    <3>1. <<d, p>> \in DOMAIN sent /\ sent[<<d, p>>] \in Nat
      BY DEF LedgerTyped
    <3>2. Sender(c, d, p) <=> paid[c].day = d /\ p \in paid[c].won
      BY <2>1 DEF Sender
    <3> QED
      BY <2>1, <3>1, <3>2
  <2>3. [at |-> "end"].at # "send"
    OBVIOUS
  <2>4. \A b \in Calls, d \in U!Days, p \in Pcts : Sender(b, d, p)' => Sender(b, d, p) /\ b # c
    BY <2>1, <2>3, GoesQuietly
  <2>5. ASSUME NEW d \in U!Days, NEW p \in Pcts
        PROVE  /\ sent'[<<d, p>>] <= 1
               /\ sent'[<<d, p>>] # 0 => Kept(d, p)'
               /\ \A a \in Calls : Sender(a, d, p)' =>
                    /\ sent'[<<d, p>>] = 0 /\ Kept(d, p)'
                    /\ \A b \in Calls : Sender(b, d, p)' => b = a
    <3>1. /\ sent[<<d, p>>] <= 1 /\ (sent[<<d, p>>] # 0 => Kept(d, p))
          /\ \A a \in Calls : Sender(a, d, p) =>
               sent[<<d, p>>] = 0 /\ Kept(d, p) /\ \A b \in Calls : Sender(b, d, p) => b = a
      BY DEF OneSender
    <3>2. Kept(d, p)' <=> Kept(d, p)
      BY <2>1 DEF Kept
    <3> QED
      BY <2>2, <2>4, <3>1, <3>2
  <2> QED
    BY <2>5 DEF OneSender
<1>7. ASSUME NEW j \in Jobs, U!PurgeSpend(j) PROVE OneSender'
  <2>1. UNCHANGED <<sent, paid, today>>
    BY <1>7 DEF U!PurgeSpend
  <2>2. \A d \in U!Days, p \in Pcts : Kept(d, p) => Kept(d, p)'
    BY <1>7, <2>1, PurgeShape DEF Kept
  <2>3. \A c \in Calls, d \in U!Days, p \in Pcts : Sender(c, d, p)' => Sender(c, d, p)
    BY <2>1 DEF Sender
  <2> QED
    BY <2>1, <2>2, <2>3, SendersStay
<1>8. ASSUME NEW j \in Jobs,
             \/ U!Wake(j) \/ U!RollUpBatch(j) \/ U!PurgeDaily(j) \/ U!OtherStep(j) \/ U!Restart(j)
             \/ \E transient \in BOOLEAN : U!StepFails(j, transient)
      PROVE  OneSender'
  BY <1>1, <1>8 DEF U!Wake, U!RollUpBatch, U!PurgeDaily, U!OtherStep, U!Restart, U!StepFails, U!settleVars
<1>9. CASE U!Tick
  <2>1. UNCHANGED <<sent, mask, spend, paid>> /\ today' = today + 1
    BY <1>9 DEF U!Tick, U!settleVars
  <2>2. \A d \in U!Days : d < today => d < today'
    BY <2>1 DEF U!Days, U!ConstantsOK, LedgerTyped
  <2>3. \A d \in U!Days, p \in Pcts : Kept(d, p) => Kept(d, p)'
    BY <2>1, <2>2 DEF Kept
  <2>4. \A c \in Calls, d \in U!Days, p \in Pcts : Sender(c, d, p)' => Sender(c, d, p)
    BY <2>1 DEF Sender
  <2> QED
    BY <2>1, <2>3, <2>4, SendersStay
<1>10. CASE UNCHANGED ledger
  BY <1>1, <1>10 DEF ledger
<1> QED
  BY <1>2, <1>3, <1>4, <1>5, <1>6, <1>7, <1>8, <1>9, <1>10 DEF U!Next, U!Paid, U!Night


-----------------------------------------------------------------------------
(* CrossedIsClaimed. *)

LEMMA GoesOn ==
  ASSUME LedgerTyped, NEW c \in Calls, NEW r, U!Go(c, r)
  PROVE  paid'[c] = r /\ \A b \in Calls : b # c => paid'[b] = paid[b]
BY DEF U!Go, LedgerTyped

LEMMA NoneCrossed ==
  ASSUME U!ConstantsOK
  PROVE  U!Crossed(None) = {} /\ U!Crossed(0) = {} /\ \A total : U!Crossed(total) \subseteq Pcts
<1>1. Pcts \subseteq Nat \ {0} /\ Ceiling \in Int
  BY DEF U!ConstantsOK
<1>2. U!Crossed(0) = {}
  <2>1. CASE Ceiling <= 0
    BY <2>1 DEF U!Crossed
  <2>2. CASE Ceiling > 0
    <3>1. \A p \in Pcts : ~(0 * 100 >= p * Ceiling)
      <4> SUFFICES ASSUME NEW p \in Pcts PROVE p * Ceiling > 0
        BY <1>1
      <4>1. p \in Nat /\ p > 0
        BY <1>1
      <4>2. \A a, b \in Int : a > 0 /\ b > 0 => a * b > 0
        OBVIOUS
      <4> QED
        BY <1>1, <2>2, <4>1, <4>2
    <3> QED
      BY <3>1 DEF U!Crossed
  <2> QED
    BY <1>1, <2>1, <2>2
<1> QED
  BY <1>2 DEF U!Crossed

\* A step whose thresholds were all owed before, and are still by the same calls.
LEMMA OwedStays ==
  ASSUME Owed, faults \subseteq faults',
         \A d \in U!Days \ faults' : \A p \in U!Crossed(spend'[d]) \ mask'[d] :
            /\ p \in U!Crossed(spend[d]) \ mask[d]
            /\ \A b \in Calls : Owing(b, d, p) => Owing(b, d, p)'
  PROVE  Owed'
<1> SUFFICES ASSUME NEW d \in U!Days \ faults', NEW p \in U!Crossed(spend'[d]) \ mask'[d]
             PROVE  \E b \in Calls : Owing(b, d, p)'
  BY DEF Owed, U!Crossed
<1>1. p \in U!Crossed(spend[d]) \ mask[d] /\ d \in U!Days \ faults
  OBVIOUS
<1>2. PICK b \in Calls : Owing(b, d, p)
  BY <1>1 DEF Owed
<1> QED
  BY <1>2

\* A settle whose totals reach a threshold no one has claimed goes on to claim it.
LEMMA SettleOwes ==
  ASSUME LedgerTyped, U!ConstantsOK, Owed, NEW c \in Calls, UNCHANGED <<mask, faults>>,
         paid[c].at \in {"settle", "fallback"}, paid[c].day \in U!Days,
         spend' = IF U!Inserted(c) THEN [spend EXCEPT ![paid[c].day] = U!Plus(spend[paid[c].day], Cost[c])]
                  ELSE spend,
         IF U!Pending(c, paid[c].day) = {} THEN U!Done(c)
         ELSE U!Go(c, [at |-> "claim", day |-> paid[c].day, due |-> U!Pending(c, paid[c].day)])
  PROVE  Owed'
<1> DEFINE day == paid[c].day
           due == U!Pending(c, day)
<1>1. \A b \in Calls : b # c => paid'[b] = paid[b]
  BY GoesOn DEF U!Done
<1>2. \A b \in Calls : \A d, p : Owing(b, d, p) => Owing(b, d, p)'
  BY <1>1 DEF Owing
<1> SUFFICES ASSUME NEW d \in U!Days \ faults', NEW p \in U!Crossed(spend'[d]) \ mask'[d]
             PROVE  \E b \in Calls : Owing(b, d, p)'
  BY DEF Owed, U!Crossed
<1>3. CASE spend'[d] = spend[d]
  <2>1. PICK b \in Calls : Owing(b, d, p)
    BY <1>3 DEF Owed
  <2> QED
    BY <1>2, <2>1
<1>4. CASE spend'[d] # spend[d]
  <2>1. d = day /\ U!Inserted(c) /\ spend'[d] = U!Plus(spend[day], Cost[c])
    BY <1>4 DEF LedgerTyped
  <2>2. p \in due
    BY <2>1 DEF U!Pending
  <2>3. U!Go(c, [at |-> "claim", day |-> day, due |-> due])
    BY <2>2
  <2>4. paid'[c] = [at |-> "claim", day |-> day, due |-> due]
    BY <2>3, GoesOn
  <2>5. Owing(c, d, p)'
    BY <2>1, <2>2, <2>4 DEF Owing
  <2> QED
    BY <2>5
<1> QED
  BY <1>3, <1>4

LEMMA OwedMoves ==
  ASSUME LedgerTyped, U!ConstantsOK, Owed, [U!Next]_ledger
  PROVE  Owed'
<1>1. ASSUME UNCHANGED <<mask, spend, paid, faults>> PROVE Owed'
  BY <1>1 DEF Owed, Owing, U!Crossed
<1>2. ASSUME NEW c \in Calls, U!Answer(c) PROVE Owed'
  <2>1. /\ UNCHANGED <<mask, faults>> /\ paid[c].at = "idle"
        /\ U!Go(c, [at |-> "settle", day |-> today, try |-> 1])
        /\ spend' = [spend EXCEPT ![today] = IF @ = None THEN 0 ELSE @]
    BY <1>2 DEF U!Answer
  <2>2. \A b \in Calls : b # c => paid'[b] = paid[b]
    BY <2>1, GoesOn
  <2>3. \A b \in Calls : \A d, p : Owing(b, d, p) => Owing(b, d, p)'
    BY <2>1, <2>2 DEF Owing
  <2>4. ASSUME NEW d \in U!Days, U!Crossed(spend'[d]) # {} PROVE spend'[d] = spend[d]
    <3>1. spend'[d] = spend[d] \/ spend'[d] = 0
      BY <2>1 DEF LedgerTyped
    <3> QED
      BY <2>4, <3>1, NoneCrossed
  <2>5. ASSUME NEW d \in U!Days \ faults', NEW p \in U!Crossed(spend'[d]) \ mask'[d]
        PROVE  p \in U!Crossed(spend[d]) \ mask[d]
    BY <2>1, <2>4, <2>5
  <2> QED
    BY <2>1, <2>3, <2>5, OwedStays
<1>3. ASSUME NEW c \in Calls, U!Settle(c) PROVE Owed'
  <2>1. /\ UNCHANGED <<mask, faults>> /\ paid[c].at = "settle" /\ U!Write(c, paid[c].day)
        /\ IF U!Pending(c, paid[c].day) = {} THEN U!Done(c)
           ELSE U!Go(c, [at |-> "claim", day |-> paid[c].day, due |-> U!Pending(c, paid[c].day)])
    BY <1>3 DEF U!Settle
  <2>2. spend' = IF U!Inserted(c) THEN [spend EXCEPT ![paid[c].day] = U!Plus(spend[paid[c].day], Cost[c])]
                 ELSE spend
    BY <2>1 DEF U!Write
  <2>3. paid[c].day \in U!Days
    BY <2>1, PaidAt
  <2> QED
    BY <2>1, <2>2, <2>3, SettleOwes
<1>4. ASSUME NEW c \in Calls, U!Fallback(c) PROVE Owed'
  <2>1. /\ UNCHANGED <<mask, faults>> /\ paid[c].at = "fallback"
        /\ spend' = IF U!Inserted(c) THEN [spend EXCEPT ![paid[c].day] = U!Plus(spend[paid[c].day], Cost[c])]
                    ELSE spend
        /\ IF U!Pending(c, paid[c].day) = {} THEN U!Done(c)
           ELSE U!Go(c, [at |-> "claim", day |-> paid[c].day, due |-> U!Pending(c, paid[c].day)])
    BY <1>4 DEF U!Fallback
  <2>2. paid[c].day \in U!Days
    BY <2>1, PaidAt
  <2> QED
    BY <2>1, <2>2, SettleOwes
<1>5. ASSUME NEW c \in Calls, U!SettleFails(c) \/ U!SettleTimesOut(c) PROVE Owed'
  <2>1. UNCHANGED mask /\ faults' = faults \cup {paid[c].day} /\ paid[c].at = "settle"
    BY <1>5 DEF U!SettleFails, U!SettleTimesOut
  <2>2. /\ paid[c].day \in U!Days
        /\ \/ UNCHANGED spend
           \/ spend' = [spend EXCEPT ![paid[c].day] = U!Plus(spend[paid[c].day], Cost[c])]
    BY <1>5, PaidShape
  <2>3. PICK r : U!Go(c, r)
    BY <1>5, PaidShape
  <2>4. \A b \in Calls : \A d, p : Owing(b, d, p) => Owing(b, d, p)'
    BY <2>1, <2>3, GoesOn DEF Owing
  <2>5. \A d \in U!Days \ faults' : spend'[d] = spend[d]
    BY <2>1, <2>2 DEF LedgerTyped
  <2> QED
    BY <2>1, <2>4, <2>5, OwedStays
<1>6. ASSUME NEW c \in Calls, U!Claim(c) PROVE Owed'
  <2>1. /\ paid[c].at = "claim" /\ UNCHANGED <<spend, faults>> /\ mask' = U!Set(c)
        /\ U!Go(c, [at |-> "send", day |-> paid[c].day, won |-> U!Won(c)])
    BY <1>6 DEF U!Claim
  <2>2. \A b \in Calls : b # c => paid'[b] = paid[b]
    BY <2>1, GoesOn
  <2>3. ASSUME NEW d \in U!Days \ faults', NEW p \in U!Crossed(spend'[d]) \ mask'[d]
        PROVE  /\ p \in U!Crossed(spend[d]) \ mask[d]
               /\ \A b \in Calls : Owing(b, d, p) => Owing(b, d, p)'
    <3>1. p \in U!Crossed(spend[d]) \ mask[d]
      BY <2>1, SetShape
    <3>2. spend[d] # None
      BY <3>1, NoneCrossed
    <3>3. ~Owing(c, d, p)
      BY <2>1, <3>2, SetShape DEF Owing
    <3>4. \A b \in Calls : Owing(b, d, p) => Owing(b, d, p)'
      BY <2>2, <3>3 DEF Owing
    <3> QED
      BY <3>1, <3>4
  <2> QED
    BY <2>1, <2>3, OwedStays
<1>7. ASSUME NEW c \in Calls, U!ClaimFails(c) PROVE Owed'
  <2>1. /\ paid[c].at = "claim" /\ UNCHANGED spend /\ mask' \in {mask, U!Set(c)}
        /\ U!Go(c, [at |-> "end"]) /\ faults' = faults \cup {paid[c].day}
    BY <1>7 DEF U!ClaimFails, U!Done
  <2>2. \A b \in Calls : b # c => paid'[b] = paid[b]
    BY <2>1, GoesOn
  <2>3. ASSUME NEW d \in U!Days \ faults', NEW p \in U!Crossed(spend'[d]) \ mask'[d]
        PROVE  /\ p \in U!Crossed(spend[d]) \ mask[d]
               /\ \A b \in Calls : Owing(b, d, p) => Owing(b, d, p)'
    <3>1. p \in U!Crossed(spend[d]) \ mask[d]
      BY <2>1, SetShape
    <3>2. ~Owing(c, d, p)
      BY <2>1 DEF Owing
    <3> QED
      BY <2>2, <3>1, <3>2 DEF Owing
  <2> QED
    BY <2>1, <2>3, OwedStays
<1>8. ASSUME NEW c \in Calls, U!Send(c) PROVE Owed'
  <2>1. /\ paid[c].at = "send" /\ UNCHANGED <<mask, spend, faults>> /\ U!Go(c, [at |-> "end"])
    BY <1>8 DEF U!Send, U!Done
  <2>2. \A b \in Calls : \A d, p : Owing(b, d, p) => Owing(b, d, p)'
    BY <2>1, GoesOn DEF Owing
  <2> QED
    BY <2>1, <2>2, OwedStays
<1>9. ASSUME NEW j \in Jobs, U!PurgeSpend(j) PROVE Owed'
  <2>1. UNCHANGED <<paid, faults>>
    BY <1>9 DEF U!PurgeSpend
  <2>2. ASSUME NEW d \in U!Days \ faults', NEW p \in U!Crossed(spend'[d]) \ mask'[d]
        PROVE  p \in U!Crossed(spend[d]) \ mask[d]
    BY <1>9, PurgeShape, NoneCrossed
  <2>3. \A b \in Calls : \A d, p : Owing(b, d, p) => Owing(b, d, p)'
    BY <2>1 DEF Owing
  <2> QED
    BY <2>1, <2>2, <2>3, OwedStays
<1>10. ASSUME NEW j \in Jobs,
              \/ U!Wake(j) \/ U!RollUpBatch(j) \/ U!PurgeDaily(j) \/ U!OtherStep(j) \/ U!Restart(j)
              \/ \E transient \in BOOLEAN : U!StepFails(j, transient)
       PROVE  Owed'
  BY <1>1, <1>10 DEF U!Wake, U!RollUpBatch, U!PurgeDaily, U!OtherStep, U!Restart, U!StepFails, U!settleVars
<1>11. CASE U!Tick \/ UNCHANGED ledger
  BY <1>1, <1>11 DEF U!Tick, U!settleVars, ledger
<1> QED
  BY <1>2, <1>3, <1>4, <1>5, <1>6, <1>7, <1>8, <1>9, <1>10, <1>11 DEF U!Next, U!Paid, U!Night

-----------------------------------------------------------------------------
LedgerInv == LedgerTyped /\ RowsFit /\ OneSender /\ Owed

LEMMA LedgerStart ==
  ASSUME U!Init, U!ConstantsOK
  PROVE  LedgerInv
<1>1. /\ raw = [c \in Calls |-> None] /\ wrote = raw /\ daily = [d \in U!Days |-> 0]
      /\ spend = [d \in U!Days |-> None] /\ mask = [d \in U!Days |-> {}]
      /\ sent = [a \in U!Days \X Pcts |-> 0] /\ paid = [c \in Calls |-> [at |-> "idle"]]
      /\ today = 0 /\ faults = {}
      /\ job = [j \in Jobs |-> [step |-> 0, attempt |-> 1, part |-> "run", batch |-> 0, day |-> -1]]
  BY DEF U!Init
<1>2. [at |-> "idle"] \in PaidStages
  BY DEF PaidStages, AtRest
<1>3. 0 \in U!Days /\ None \notin U!Days
  BY DEF U!Days, U!ConstantsOK
<1>4. [step |-> 0, attempt |-> 1, part |-> "run", batch |-> 0, day |-> -1] \in NightStages
  BY DEF NightStages
<1>5. job \in [Jobs -> NightStages] /\ \A j \in Jobs : job[j].day <= today
  BY <1>1, <1>4
<1>6. paid \in [Calls -> PaidStages]
  BY <1>1, <1>2
<1>7. LedgerTyped
  BY <1>1, <1>3, <1>5, <1>6 DEF LedgerTyped
<1>8. RowsFit
  <2>1. RowsKept
    BY <1>1 DEF RowsKept
  <2>2. ASSUME NEW d \in U!Days
        PROVE  daily[d] + Cardinality(U!RowsOf(d)) = Cardinality({c \in Calls : wrote[c] = d})
    <3>1. U!RowsOf(d) = {} /\ {c \in Calls : wrote[c] = d} = {} /\ daily[d] = 0
      BY <1>1, <1>3 DEF U!RowsOf
    <3> QED
      BY <3>1, FS_EmptySet
  <2> QED
    BY <2>1, <2>2 DEF RowsFit, CountOnce, Written
<1>9. OneSender
  <2>1. \A c \in Calls : paid[c].at # "send"
    BY <1>1
  <2>2. \A d \in U!Days, p \in Pcts : sent[<<d, p>>] = 0
    BY <1>1
  <2> QED
    <3> SUFFICES ASSUME NEW d \in U!Days, NEW p \in Pcts
                 PROVE  /\ sent[<<d, p>>] <= 1
                        /\ sent[<<d, p>>] # 0 => Kept(d, p)
                        /\ \A c \in Calls : Sender(c, d, p) =>
                             sent[<<d, p>>] = 0 /\ Kept(d, p) /\ \A b \in Calls : Sender(b, d, p) => b = c
      BY DEF OneSender
    <3>1. sent[<<d, p>>] = 0 /\ \A c \in Calls : ~Sender(c, d, p)
      BY <2>1, <2>2 DEF Sender
    <3> QED
      BY <3>1
<1>10. Owed
  <2>1. \A d \in U!Days : U!Crossed(spend[d]) = {}
    BY <1>1, NoneCrossed
  <2> QED
    BY <2>1 DEF Owed
<1> QED
  BY <1>7, <1>8, <1>9, <1>10 DEF LedgerInv

LEMMA LedgerStep ==
  ASSUME LedgerInv, U!ConstantsOK, [U!Next]_ledger
  PROVE  LedgerInv'
BY LedgerTypes, RowsMove, SendersMove, OwedMoves DEF LedgerInv

\* The parts share no state: while the ledger moves, the others do not.
LEMMA PartsMoveLedger == [Moving]_<<part, enrichment, settings, ledger, vars>> => [U!Next]_ledger
BY DEF Moving, ledger

LEMMA LedgerHolds == PartsSpec => []LedgerInv
<1>1. Parts => LedgerInv
  BY LedgerStart, LedgerOK DEF Parts
<1>2. LedgerInv /\ [Moving]_<<part, enrichment, settings, ledger, vars>> => LedgerInv'
  BY LedgerStep, PartsMoveLedger, LedgerOK
<1> QED
  BY <1>1, <1>2, PTL DEF PartsSpec

\* Every row ever committed counts once, in ai_usage or in its day's total, for any
\* calls, instances, batches and retentions (ledger.py).
THEOREM LedgerCounts == PartsSpec => []RowsCountOnce
<1>1. LedgerInv => RowsCountOnce
  BY CountsOnce DEF LedgerInv, RowsFit, RowsCountOnce
<1> QED
  BY <1>1, LedgerHolds, PTL

\* A threshold is announced at most once a day, whoever settles and whatever is lost
\* (breaker.py, settle.py).
THEOREM LedgerAlertsOnce == PartsSpec => []AlertsOnce
<1>1. LedgerInv => AlertsOnce
  <2> SUFFICES ASSUME LedgerInv, NEW a \in DOMAIN sent PROVE sent[a] <= 1
    BY DEF AlertsOnce, U!AlertsOnce
  <2>1. PICK d \in U!Days, p \in Pcts : a = <<d, p>>
    BY DEF LedgerInv, LedgerTyped
  <2> QED
    BY <2>1 DEF LedgerInv, OneSender
<1> QED
  BY <1>1, LedgerHolds, PTL

\* On a day on which no settle or claim was lost, what the spend has reached is
\* claimed as soon as no settle is under way (breaker.py, settle.py).
THEOREM LedgerClaims == PartsSpec => []CrossedIsClaimed
<1>1. LedgerInv => CrossedIsClaimed
  <2> SUFFICES ASSUME LedgerInv, NEW d \in U!Days \ faults,
                      \A c \in Calls : paid[c].at \in {"idle", "send", "end"}
               PROVE  U!Crossed(spend[d]) \subseteq mask[d]
    BY DEF CrossedIsClaimed, U!CrossedIsClaimed
  <2>1. \A c \in Calls : \A p : ~Owing(c, d, p)
    BY DEF Owing
  <2> QED
    BY <2>1 DEF LedgerInv, Owed
<1> QED
  BY <1>1, LedgerHolds, PTL


-----------------------------------------------------------------------------
(* AiSettings. *)

(* A view was the table's at some moment no earlier than t.                   *)
Source(view, t) == \E table \in past \cup {A!Current} : table.view = view /\ table.until >= t

Timely(view, t) == t <= clock /\ Source(view, t)

EntryFits(e) == e.at \in Nat /\ Timely(A!View(e.rows), e.at) /\ A!PairAllowed(e.rows)

(* A read keeps the time it began and what it met then.                       *)
ReaderFits(r) ==
  /\ r.at = "load" => r.start \in Nat /\ r.start <= clock /\ (r.entry # None => EntryFits(r.entry))
  /\ r.at = "loaded" => r.start \in Nat /\ Timely(A!View(A!Sanitised(r.raw)), r.start)
  /\ r.at = "answered" => /\ r.since \in Int /\ Timely(r.view, r.since)
                          /\ r.view["model"] \in Allowed[r.view["provider"]]

SettingsInv ==
  /\ clock \in Nat /\ clock <= MaxSeconds
  /\ \A table \in past : table.until \in Nat
  /\ cache # None => EntryFits(cache)
  /\ DOMAIN reader = Calls /\ \A c \in Calls : ReaderFits(reader[c])

\* However hand-edited the rows are, what is left of them is a pair the provider
\* serves (validation.py).
THEOREM PairSanitised ==
  ASSUME A!ConstantsOK, NEW raw_
  PROVE  A!PairAllowed(A!Sanitised(raw_))
<1> DEFINE valid == [k \in A!Keys |-> IF raw_[k] \in A!Accepted[k] THEN raw_[k]
                                      ELSE IF k = "enabled" /\ raw_[k] # None THEN "off"
                                      ELSE None]
           noModel == [valid EXCEPT !["model"] = None]
           neither == [noModel EXCEPT !["provider"] = None]
<1>1. A!Sanitised(raw_) = IF A!PairAllowed(valid) THEN valid
                          ELSE IF A!PairAllowed(noModel) THEN noModel ELSE neither
  BY DEF A!Sanitised
<1>2. DOMAIN valid = A!Keys /\ "model" \in A!Keys /\ "provider" \in A!Keys
  BY DEF A!Keys
<1> HIDE DEF valid
<1>3. neither["model"] = None /\ neither["provider"] = None
  BY <1>2
<1>4. A!PairAllowed(neither)
  BY <1>3 DEF A!PairAllowed, A!Get, A!ConstantsOK
<1> HIDE DEF noModel, neither
<1> QED
  BY <1>1, <1>4

LEMMA SameTable ==
  ASSUME UNCHANGED rows
  PROVE  A!Current' = A!Current
BY DEF A!Current, A!Effective, A!View, A!Sanitised, A!WithCarryOver, A!CarriedOver, A!Values

\* What was the table's content stays so: a table that is replaced is put in the
\* past, with the time.
LEMMA TimelyStays ==
  ASSUME SettingsInv, A!ConstantsOK, clock' \in Nat, clock <= clock',
         UNCHANGED <<rows, past>> \/ \E table : A!Replace(table),
         NEW view, NEW t \in Int, Timely(view, t)
  PROVE  Timely(view, t)'
<1>1. t <= clock' /\ clock \in Nat
  BY DEF SettingsInv, Timely
<1>2. PICK table \in past \cup {A!Current} : table.view = view /\ table.until >= t
  BY DEF Timely, Source
<1>3. A!Current = [view |-> A!Effective(rows), until |-> MaxSeconds]
  BY DEF A!Current
<1>4. CASE UNCHANGED <<rows, past>>
  <2>1. A!Current' = A!Current
    BY <1>4, SameTable
  <2> QED
    BY <1>1, <1>2, <1>4, <2>1 DEF Timely, Source
<1>5. ASSUME NEW new, A!Replace(new) PROVE Timely(view, t)'
  <2>1. past' = past \cup {[view |-> A!Effective(rows), until |-> clock]}
    BY <1>5 DEF A!Replace
  <2>2. CASE table \in past
    BY <1>1, <1>2, <2>1, <2>2 DEF Timely, Source
  <2>3. CASE table = A!Current
    <3> DEFINE last == [view |-> A!Effective(rows), until |-> clock]
    <3>1. last \in past' /\ last.view = view /\ last.until >= t
      BY <1>2, <1>3, <2>1, <2>3 DEF Timely
    <3> HIDE DEF last
    <3> QED
      BY <1>1, <3>1 DEF Timely, Source
  <2> QED
    BY <1>2, <2>2, <2>3
<1> QED
  BY <1>4, <1>5

LEMMA EntryStays ==
  ASSUME SettingsInv, A!ConstantsOK, clock' \in Nat, clock <= clock',
         UNCHANGED <<rows, past>> \/ \E table : A!Replace(table),
         NEW e, EntryFits(e)
  PROVE  e.at \in Nat /\ Timely(A!View(e.rows), e.at)' /\ A!PairAllowed(e.rows)
BY TimelyStays DEF EntryFits

\* Writers and the clock leave what the readers hold in time.
LEMMA WritersKeep ==
  ASSUME SettingsInv, A!ConstantsOK, UNCHANGED <<cache, reader>>,
         clock' \in Nat, clock <= clock', clock' <= MaxSeconds,
         UNCHANGED <<rows, past>> \/ \E table : A!Replace(table)
  PROVE  SettingsInv'
<1>1. \A table \in past' : table.until \in Nat
  BY DEF SettingsInv, A!Replace
<1>2. ASSUME NEW e, EntryFits(e) PROVE e.at \in Nat /\ Timely(A!View(e.rows), e.at)' /\ A!PairAllowed(e.rows)
  BY <1>2, EntryStays
<1>3. cache' = cache /\ reader' = reader /\ clock \in Nat
  BY DEF SettingsInv
<1>4. cache' # None => EntryFits(cache)'
  <2>1. ASSUME cache # None PROVE cache.at \in Nat /\ Timely(A!View(cache.rows), cache.at)' /\ A!PairAllowed(cache.rows)
    BY <1>2, <2>1 DEF SettingsInv
  <2>2. A!PairAllowed(cache.rows)' <=> A!PairAllowed(cache.rows)
    BY <1>3 DEF A!PairAllowed, A!Get
  <2> QED
    BY <1>3, <2>1, <2>2 DEF EntryFits
<1>5. ASSUME NEW c \in Calls PROVE ReaderFits(reader[c])'
  <2> DEFINE r == reader[c]
  <2>1. ReaderFits(r) /\ r' = r
    BY <1>3 DEF SettingsInv
  <2>2. ASSUME r.at = "load" PROVE r.start <= clock' /\ r.start \in Nat /\ (r.entry # None => EntryFits(r.entry)')
    <3>1. r.start \in Nat /\ r.start <= clock /\ (r.entry # None => EntryFits(r.entry))
      BY <2>1, <2>2 DEF ReaderFits
    <3>2. r.start <= clock'
      BY <1>3, <3>1
    <3>3. ASSUME r.entry # None PROVE EntryFits(r.entry)'
      <4>1. r.entry.at \in Nat /\ Timely(A!View(r.entry.rows), r.entry.at)' /\ A!PairAllowed(r.entry.rows)
        BY <1>2, <3>1, <3>3
      <4>2. A!PairAllowed(r.entry.rows)' <=> A!PairAllowed(r.entry.rows)
        BY <1>3 DEF A!PairAllowed, A!Get
      <4> QED
        BY <1>3, <4>1, <4>2 DEF EntryFits
    <3> QED
      BY <3>1, <3>2, <3>3
  <2>3. ASSUME r.at = "loaded" PROVE r.start \in Nat /\ Timely(A!View(A!Sanitised(r.raw)), r.start)'
    <3>1. r.start \in Nat /\ Timely(A!View(A!Sanitised(r.raw)), r.start)
      BY <2>1, <2>3 DEF ReaderFits
    <3> QED
      BY <3>1, TimelyStays
  <2>4. ASSUME r.at = "answered" PROVE r.since \in Int /\ Timely(r.view, r.since)'
    <3>1. r.since \in Int /\ Timely(r.view, r.since)
      BY <2>1, <2>4 DEF ReaderFits
    <3> QED
      BY <3>1, TimelyStays
  <2> QED
    BY <1>3, <2>1, <2>2, <2>3, <2>4 DEF ReaderFits
<1> QED
  BY <1>1, <1>3, <1>4, <1>5 DEF SettingsInv

\* A reader's step at one time, and what the cache becomes.
LEMMA ReaderGoes ==
  ASSUME SettingsInv, UNCHANGED <<rows, past, clock>>, NEW c \in Calls, NEW r, ReaderFits(r),
         reader' = [reader EXCEPT ![c] = r],
         cache' = cache \/ EntryFits(cache')
  PROVE  SettingsInv'
<1>1. A!Current' = A!Current
  BY SameTable
<1>2. past' = past /\ clock' = clock
  OBVIOUS
<1>3. \A view, t : Source(view, t)' <=> Source(view, t)
  BY <1>1, <1>2 DEF Source
<1>4. DOMAIN reader' = Calls /\ reader'[c] = r /\ \A b \in Calls : b # c => reader'[b] = reader[b]
  BY DEF SettingsInv
<1>5. ASSUME NEW b \in Calls PROVE ReaderFits(reader'[b])
  BY <1>4 DEF SettingsInv
<1>6. cache' # None => EntryFits(cache')
  BY DEF SettingsInv
<1>7. \A b \in Calls : ReaderFits(reader[b])' <=> ReaderFits(reader'[b])
  BY <1>2, <1>3 DEF ReaderFits, EntryFits, Timely
<1>8. EntryFits(cache)' <=> EntryFits(cache')
  BY <1>2, <1>3 DEF EntryFits, Timely
<1> QED
  BY <1>2, <1>4, <1>5, <1>6, <1>7, <1>8 DEF SettingsInv

LEMMA Sooner ==
  ASSUME SettingsInv, A!ConstantsOK, NEW view, NEW t \in Int, NEW s \in Int, s <= t, Timely(view, t)
  PROVE  Timely(view, s)
<1>1. clock \in Nat /\ s <= clock
  BY DEF SettingsInv, Timely
<1>2. PICK table \in past \cup {A!Current} : table.view = view /\ table.until >= t
  BY DEF Timely, Source
<1>3. table.until \in Nat
  BY <1>2 DEF SettingsInv, A!Current, A!ConstantsOK
<1> QED
  BY <1>1, <1>2, <1>3 DEF Timely, Source

\* The answer made of fitting values.
LEMMA AnswerFits ==
  ASSUME SettingsInv, NEW values, NEW start, NEW since \in Int, A!PairAllowed(values),
         Timely(A!View(values), since)
  PROVE  ReaderFits(A!Answer(values, start, since))
<1> DEFINE r == A!Answer(values, start, since)
<1>1. r.at = "answered" /\ r.view = A!View(values) /\ r.since = since
  BY DEF A!Answer
<1>2. A!View(values)["model"] = A!Get(values, "model") /\ A!View(values)["provider"] = A!Get(values, "provider")
  BY DEF A!View, A!Keys
<1> HIDE DEF r
<1> QED
  BY <1>1, <1>2 DEF ReaderFits, A!PairAllowed, r

LEMMA ReadsFit ==
  ASSUME SettingsInv, A!ConstantsOK, A!Read
  PROVE  SettingsInv'
<1>1. clock \in Nat /\ clock <= MaxSeconds /\ MaxSeconds \in Nat /\ MaxStale \in Nat /\ Ttl \in Nat
  BY DEF SettingsInv, A!ConstantsOK
<1>2. \A c \in Calls : ReaderFits(reader[c])
  BY DEF SettingsInv
<1>3. ASSUME NEW c \in Calls, A!Begin(c) PROVE SettingsInv'
  <2>1. UNCHANGED <<rows, cache, past, clock>>
    BY <1>3 DEF A!Begin
  <2>2. CASE A!Fresh(clock)
    <3>1. reader' = [reader EXCEPT ![c] = A!Answer(cache.rows, clock, clock + 1 - Ttl)]
      BY <1>3, <2>2 DEF A!Begin
    <3>2. EntryFits(cache) /\ clock - cache.at < Ttl
      BY <2>2 DEF A!Fresh, SettingsInv
    <3>3. cache.at \in Nat /\ Timely(A!View(cache.rows), cache.at) /\ A!PairAllowed(cache.rows)
      BY <3>2 DEF EntryFits
    <3>4. clock + 1 - Ttl \in Int /\ clock + 1 - Ttl <= cache.at
      BY <1>1, <3>2, <3>3
    <3>5. Timely(A!View(cache.rows), clock + 1 - Ttl)
      BY <3>3, <3>4, Sooner
    <3> QED
      BY <2>1, <3>1, <3>3, <3>4, <3>5, AnswerFits, ReaderGoes
  <2>3. CASE ~A!Fresh(clock)
    <3> DEFINE r == [at |-> "load", start |-> clock, entry |-> cache]
    <3>1. reader' = [reader EXCEPT ![c] = r]
      BY <1>3, <2>3 DEF A!Begin
    <3>2. r.at = "load" /\ r.start = clock /\ r.entry = cache
      OBVIOUS
    <3> HIDE DEF r
    <3>3. ReaderFits(r)
      BY <1>1, <3>2 DEF ReaderFits, SettingsInv
    <3> QED
      BY <2>1, <3>1, <3>3, ReaderGoes
  <2> QED
    BY <2>2, <2>3
<1>4. ASSUME NEW c \in Calls, A!Load(c) PROVE SettingsInv'
  <2> DEFINE r == [at |-> "loaded", start |-> reader[c].start, raw |-> A!WithCarryOver(rows)]
  <2>1. UNCHANGED <<rows, cache, past, clock>> /\ reader[c].at = "load" /\ reader' = [reader EXCEPT ![c] = r]
    BY <1>4 DEF A!Load
  <2>2. reader[c].start \in Nat /\ reader[c].start <= clock
    BY <1>2, <2>1 DEF ReaderFits
  <2>3. A!Current.view = A!View(A!Sanitised(A!WithCarryOver(rows))) /\ A!Current.until = MaxSeconds
    BY DEF A!Current, A!Effective
  <2>4. Timely(A!View(A!Sanitised(A!WithCarryOver(rows))), reader[c].start)
    <3>1. MaxSeconds >= reader[c].start
      BY <1>1, <2>2
    <3> QED
      BY <2>2, <2>3, <3>1 DEF Timely, Source
  <2>5. r.at = "loaded" /\ r.start = reader[c].start /\ r.raw = A!WithCarryOver(rows)
    OBVIOUS
  <2> HIDE DEF r
  <2>6. ReaderFits(r)
    BY <2>2, <2>4, <2>5 DEF ReaderFits
  <2> QED
    BY <2>1, <2>6, ReaderGoes
<1>5. ASSUME NEW c \in Calls, A!Store(c) PROVE SettingsInv'
  <2> DEFINE values == A!Sanitised(reader[c].raw)
             start == reader[c].start
             e == [rows |-> values, at |-> start]
  <2>1. /\ UNCHANGED <<rows, past, clock>> /\ reader[c].at = "loaded" /\ cache' = e
        /\ reader' = [reader EXCEPT ![c] = A!Answer(values, start, start)]
    BY <1>5 DEF A!Store, A!StampOf
  <2>2. start \in Nat /\ Timely(A!View(values), start)
    BY <1>2, <2>1 DEF ReaderFits
  <2>3. A!PairAllowed(values)
    BY PairSanitised
  <2> HIDE DEF values, start
  <2>4. EntryFits(e)
    BY <2>2, <2>3 DEF EntryFits
  <2>6. ReaderFits(A!Answer(values, start, start))
    BY <2>2, <2>3, AnswerFits
  <2> HIDE DEF e
  <2> QED
    BY <2>1, <2>4, <2>6, ReaderGoes
<1>6. ASSUME NEW c \in Calls, A!FailLoad(c) PROVE SettingsInv'
  <2> DEFINE e == reader[c].entry
  <2>1. /\ UNCHANGED <<rows, cache, past, clock>> /\ reader[c].at = "load"
        /\ reader' = [reader EXCEPT ![c] =
                        IF e # None /\ clock - e.at <= MaxStale
                        THEN A!Answer(e.rows, reader[c].start, clock - MaxStale)
                        ELSE A!Unavailable]
    BY <1>6 DEF A!FailLoad, A!Age
  <2>2. CASE e # None /\ clock - e.at <= MaxStale
    <3>1. e.at \in Nat /\ Timely(A!View(e.rows), e.at) /\ A!PairAllowed(e.rows)
      BY <1>2, <2>1, <2>2 DEF ReaderFits, EntryFits
    <3>2. clock - MaxStale \in Int /\ clock - MaxStale <= e.at
      BY <1>1, <2>2, <3>1
    <3>3. Timely(A!View(e.rows), clock - MaxStale)
      BY <3>1, <3>2, Sooner
    <3>4. ReaderFits(A!Answer(e.rows, reader[c].start, clock - MaxStale))
      BY <3>1, <3>2, <3>3, AnswerFits
    <3>5. reader' = [reader EXCEPT ![c] = A!Answer(e.rows, reader[c].start, clock - MaxStale)]
      BY <2>1, <2>2
    <3> HIDE DEF e
    <3> QED
      BY <2>1, <3>4, <3>5, ReaderGoes
  <2>3. CASE ~(e # None /\ clock - e.at <= MaxStale)
    <3>1. reader' = [reader EXCEPT ![c] = A!Unavailable]
      BY <2>1, <2>3
    <3>2. ReaderFits(A!Unavailable)
      BY DEF ReaderFits, A!Unavailable
    <3> QED
      BY <2>1, <3>1, <3>2, ReaderGoes
  <2> QED
    BY <2>2, <2>3
<1> QED
  BY <1>3, <1>4, <1>5, <1>6 DEF A!Read

LEMMA SettingsStep ==
  ASSUME SettingsInv, A!ConstantsOK, [A!Next]_settings
  PROVE  SettingsInv'
<1>1. clock \in Nat /\ clock <= MaxSeconds /\ MaxSeconds \in Nat
  BY DEF SettingsInv, A!ConstantsOK
<1>2. ASSUME UNCHANGED <<cache, reader, clock>>, UNCHANGED <<rows, past>> \/ \E table : A!Replace(table)
      PROVE  SettingsInv'
  <2>1. clock' \in Nat /\ clock <= clock' /\ clock' <= MaxSeconds
    BY <1>1, <1>2
  <2> QED
    BY <1>2, <2>1, WritersKeep
<1>3. CASE A!Write
  <2>1. UNCHANGED <<cache, reader, clock>>
    BY <1>3 DEF A!Write, A!SetRead, A!SetWrite, A!Switch
  <2>2. ASSUME NEW o, NEW key, NEW value, A!SetRead(o, key, value) PROVE UNCHANGED <<rows, past>>
    BY <2>2 DEF A!SetRead
  <2>3. ASSUME NEW o, A!SetWrite(o) PROVE \E table : A!Replace(table)
    BY <2>3 DEF A!SetWrite
  <2>4. ASSUME NEW o, NEW p, NEW named, A!Switch(o, p, named) PROVE \E table : A!Replace(table)
    BY <2>4 DEF A!Switch
  <2>5. UNCHANGED <<rows, past>> \/ \E table : A!Replace(table)
    BY <1>3, <2>2, <2>3, <2>4 DEF A!Write
  <2> QED
    BY <1>2, <2>1, <2>5
<1>4. CASE A!Seed
  <2>1. UNCHANGED <<cache, reader, clock>>
    BY <1>4 DEF A!Seed, A!SeedRead, A!SeedInsert, A!SeedSkipped
  <2>2. A!SeedInsert => \E table : A!Replace(table)
    BY DEF A!SeedInsert
  <2>3. A!SeedRead \/ A!SeedSkipped => UNCHANGED <<rows, past>>
    BY DEF A!SeedRead, A!SeedSkipped
  <2> QED
    BY <1>2, <1>4, <2>1, <2>2, <2>3 DEF A!Seed
<1>5. CASE A!Tick
  <2>1. UNCHANGED <<cache, reader, rows, past>> /\ clock < MaxSeconds /\ clock' = clock + 1
    BY <1>5 DEF A!Tick
  <2>2. clock' \in Nat /\ clock <= clock' /\ clock' <= MaxSeconds
    BY <1>1, <2>1
  <2> QED
    BY <2>1, <2>2, WritersKeep
<1>6. CASE UNCHANGED settings
  BY <1>2, <1>6 DEF settings
<1> QED
  BY <1>3, <1>4, <1>5, <1>6, ReadsFit DEF A!Next

LEMMA SettingsStart ==
  ASSUME A!Init, A!ConstantsOK
  PROVE  SettingsInv
<1>1. /\ cache = None /\ reader = [c \in Calls |-> A!Idle] /\ clock = 0 /\ past = {}
      /\ MaxSeconds \in Nat
  BY DEF A!Init, A!ConstantsOK
<1>2. ReaderFits(A!Idle)
  BY DEF ReaderFits, A!Idle
<1> QED
  BY <1>1, <1>2 DEF SettingsInv

\* The parts share no state: while the settings move, the others do not.
LEMMA PartsMoveSettings == [Moving]_<<part, enrichment, settings, ledger, vars>> => [A!Next]_settings
BY DEF Moving, settings

LEMMA SettingsHold == PartsSpec => []SettingsInv
<1>1. Parts => SettingsInv
  BY SettingsStart, SettingsOK DEF Parts
<1>2. SettingsInv /\ [Moving]_<<part, enrichment, settings, ledger, vars>> => SettingsInv'
  BY SettingsStep, PartsMoveSettings, SettingsOK
<1> QED
  BY <1>1, <1>2, PTL DEF PartsSpec

\* No answer is older than the cache's lifetime, or than the stale limit when the
\* read failed, for any calls, writers, tables and durations (settings/cache.py).
THEOREM SettingsInTime == PartsSpec => []TakesEffectInTime
<1>1. SettingsInv => TakesEffectInTime
  BY DEF SettingsInv, ReaderFits, Timely, Source, TakesEffectInTime, A!TakesEffectInTime
<1> QED
  BY <1>1, SettingsHold, PTL

\* A scan is sent to a provider with a model of its own, whatever operators write and
\* however the table was edited (settings/validation.py, view.py).
THEOREM SettingsPaired == PartsSpec => []PairAnswered
<1>1. SettingsInv => PairAnswered
  BY DEF SettingsInv, ReaderFits, PairAnswered, A!PairAnswered
<1> QED
  BY <1>1, SettingsHold, PTL

-----------------------------------------------------------------------------
(* Enrichment.                                                               *)

(* A record fits a reading when the reading names its book: the clause of     *)
(* NeverAnotherBook, for one record.                                          *)
RecordFits(r, record) ==
  \/ ~E!HasTitle(r.title) /\ r.isbn_13 \in record.isbns
  \/ /\ ~E!Contradicted(r, record.authors)
     /\ E!IsVolume(E!Sub(record.title)) =>
          \/ E!Sub(r.title) = E!Sub(record.title)
          \/ E!Sub(r.title) = "" /\ r.isbn_13 \in record.isbns

(* What a result was built of fits, and so does what a chain of requests has. *)
BuiltOf(r, result) ==
  \E ol, gb :
    /\ result = E!BuildResult(r, ol, gb)
    /\ ol # None => RecordFits(r, ol)
    /\ gb # None => RecordFits(r, gb)

ChainFits(r, link) ==
  /\ link.got # None => RecordFits(r, link.got)
  /\ link.weak # None => RecordFits(r, link.weak)

LookupInv ==
  /\ DOMAIN chain = Candidates /\ DOMAIN shown = Candidates
  /\ \A c \in Candidates : DOMAIN chain[c] = E!Providers
  /\ \A c \in Candidates : \A p \in E!Providers : ChainFits(reading[c], chain[c][p])
  /\ \A c \in Candidates : shown[c] # None => BuiltOf(reading[c], shown[c])

\* Bounds of two numbers.
LEMMA Largest == E!Max({0, E!Min({2, 0})}) = 0
<1>1. E!Min({2, 0}) = 0
  <2>1. \E n \in {2, 0} : \A m \in {2, 0} : n <= m
    OBVIOUS
  <2>2. E!Min({2, 0}) \in {2, 0} /\ \A m \in {2, 0} : E!Min({2, 0}) <= m
    BY <2>1 DEF E!Min
  <2> QED
    BY <2>2
<1>2. E!Max({0, 0}) = 0
  <2>1. \E n \in {0, 0} : \A m \in {0, 0} : n >= m
    OBVIOUS
  <2>2. E!Max({0, 0}) \in {0, 0}
    BY <2>1 DEF E!Max
  <2> QED
    BY <2>2
<1> QED
  BY <1>1, <1>2

\* A title that scores is of the same volume, by an author nothing contradicts
\* (titles.py, scoring.py).
LEMMA MatchFits ==
  ASSUME NEW r, NEW title, NEW authors, E!MatchScore(r, title, authors) # 0
  PROVE  /\ ~E!Contradicted(r, authors)
         /\ E!IsVolume(E!Sub(title)) => E!Sub(r.title) = E!Sub(title)
<1>1. ~E!Contradicted(r, authors)
  BY DEF E!MatchScore
<1>2. CASE E!TitlesAgree(r.title, title)
  BY <1>1, <1>2 DEF E!TitlesAgree, E!IsVolume, E!Volumes
<1>3. CASE ~E!TitlesAgree(r.title, title) /\ title.rest \in {"dates", "note"}
  BY <1>1, <1>3 DEF E!Sub, E!IsVolume, E!Volumes
<1>4. CASE ~E!TitlesAgree(r.title, title) /\ E!OneSidedSubtitle(r.title, title)
  BY <1>1, <1>4 DEF E!OneSidedSubtitle
<1> QED
  BY <1>2, <1>3, <1>4 DEF E!MatchScore

LEMMA ScoreFits ==
  ASSUME NEW r, NEW record, E!Score(r, record) > 0
  PROVE  RecordFits(r, record)
<1> DEFINE full == E!MatchScore(r, record.title, record.authors)
           bare == E!MatchScore(r, E!Bare(record), record.authors)
           loose == /\ record.split /\ E!Sub(r.title) = ""
                    /\ E!Sub(record.title) # "" /\ ~E!IsVolume(E!Sub(record.title))
<1>1. E!Score(r, record) = IF loose THEN E!Max({full, E!Min({2, bare})}) ELSE full
  BY DEF E!Score
<1>2. full # 0 => /\ ~E!Contradicted(r, record.authors)
                  /\ E!IsVolume(E!Sub(record.title)) => E!Sub(r.title) = E!Sub(record.title)
  BY MatchFits
<1>3. bare # 0 => ~E!Contradicted(r, record.authors)
  BY MatchFits
<1>4. loose => ~E!IsVolume(E!Sub(record.title))
  OBVIOUS
<1> HIDE DEF full, bare, loose
<1>5. CASE full # 0
  BY <1>2, <1>5 DEF RecordFits
<1>6. CASE full = 0 /\ loose /\ bare # 0
  BY <1>3, <1>4, <1>6 DEF RecordFits
<1>7. full = 0 /\ (loose => bare = 0) => E!Score(r, record) = 0
  BY <1>1, Largest
<1> QED
  BY <1>5, <1>6, <1>7

LEMMA IsbnFits ==
  ASSUME NEW r, NEW record, E!IsbnRecord(r, record) # None
  PROVE  E!IsbnRecord(r, record) = record /\ RecordFits(r, record)
<1>1. E!IsbnRecord(r, record) = record
  BY DEF E!IsbnRecord
<1>2. CASE E!Score(r, record) > 0
  BY <1>1, <1>2, ScoreFits
<1>3. CASE ~E!HasTitle(r.title) /\ r.isbn_13 \in record.isbns
  BY <1>1, <1>3 DEF RecordFits
<1>4. CASE /\ r.isbn_13 \in record.isbns /\ E!ListedSameBook(r.title, record.title)
           /\ ~E!Contradicted(r, record.authors)
  <2>1. E!IsVolume(E!Sub(record.title)) => E!Sub(r.title) \in {"", E!Sub(record.title)}
    BY <1>4 DEF E!ListedSameBook
  <2> QED
    BY <1>1, <1>4, <2>1 DEF RecordFits
<1> QED
  BY <1>2, <1>3, <1>4 DEF E!IsbnRecord

LEMMA KeepFits ==
  ASSUME NEW r, NEW weak, NEW best, weak # None => RecordFits(r, weak), best # None => RecordFits(r, best)
  PROVE  E!Keep(r, weak, best) # None => RecordFits(r, E!Keep(r, weak, best))
<1>1. E!Keep(r, weak, best) \in {weak, best}
  BY DEF E!Keep
<1> QED
  BY <1>1

LEMMA LinkShape ==
  /\ \A pc : E!At(pc).got = None /\ E!At(pc).weak = None
  /\ \A record : E!Ended(record).got = record /\ E!Ended(record).weak = None
  /\ \A record : LET link == [E!At("title") EXCEPT !.weak = record] IN link.got = None /\ link.weak = record
  /\ \A record : LET link == [E!At("broken") EXCEPT !.got = record] IN link.got = record /\ link.weak = None
  /\ E!Off.got = None /\ E!Off.weak = None
BY DEF E!At, E!Off, E!Ended

LEMMA AfterIsbnFits ==
  ASSUME NEW r, NEW found
  PROVE  ChainFits(r, E!AfterIsbn(r, found))
<1> DEFINE record == IF found \in {None, Failed} THEN None ELSE E!IsbnRecord(r, found)
<1>1. record # None => RecordFits(r, record)
  BY IsbnFits
<1>2. E!AfterIsbn(r, found) \in {E!At("broken"), E!Ended(record), [E!At("title") EXCEPT !.weak = record]}
  BY DEF E!AfterIsbn
<1> HIDE DEF record
<1>3. ChainFits(r, E!At("broken"))
  BY LinkShape DEF ChainFits
<1>4. ChainFits(r, E!Ended(record))
  BY <1>1, LinkShape DEF ChainFits
<1>5. ChainFits(r, [E!At("title") EXCEPT !.weak = record])
  BY <1>1, LinkShape DEF ChainFits
<1> QED
  BY <1>2, <1>3, <1>4, <1>5

LEMMA AfterTitleFits ==
  ASSUME NEW r, NEW weak, NEW found, weak # None => RecordFits(r, weak)
  PROVE  ChainFits(r, E!AfterTitle(r, weak, found))
<1> DEFINE best == IF found # None /\ E!Score(r, found) > 0 THEN found ELSE None
<1>1. best # None => RecordFits(r, best)
  BY ScoreFits
<1>2. E!AfterTitle(r, weak, found) \in {[E!At("broken") EXCEPT !.got = weak], E!Ended(E!Keep(r, weak, best))}
  BY DEF E!AfterTitle
<1> HIDE DEF best
<1>3. ChainFits(r, [E!At("broken") EXCEPT !.got = weak])
  BY LinkShape DEF ChainFits
<1>4. ChainFits(r, E!Ended(E!Keep(r, weak, best)))
  BY <1>1, KeepFits, LinkShape DEF ChainFits
<1> QED
  BY <1>2, <1>3, <1>4

\* What a step leaves of the chains and results.
LEMMA LinkGoes ==
  ASSUME LookupInv, UNCHANGED <<reading, shown>>, NEW c \in Candidates, NEW p \in E!Providers,
         NEW link, ChainFits(reading[c], link), chain' = [chain EXCEPT ![c][p] = link]
  PROVE  LookupInv'
<1>1. /\ DOMAIN chain' = Candidates /\ \A b \in Candidates : DOMAIN chain'[b] = E!Providers
      /\ \A b \in Candidates : \A q \in E!Providers :
           chain'[b][q] = IF b = c /\ q = p THEN link ELSE chain[b][q]
  BY DEF LookupInv
<1>2. reading' = reading /\ shown' = shown
  OBVIOUS
<1>3. \A b \in Candidates : \A q \in E!Providers : ChainFits(reading[b], chain'[b][q])
  BY <1>1 DEF LookupInv
<1> QED
  BY <1>1, <1>2, <1>3 DEF LookupInv, ChainFits, BuiltOf

LEMMA LinksEnd ==
  ASSUME LookupInv, UNCHANGED <<reading, shown>>, NEW cs, chain' = E!Stopped(cs)
  PROVE  LookupInv'
<1>1. /\ DOMAIN chain' = Candidates /\ \A b \in Candidates : DOMAIN chain'[b] = E!Providers
      /\ \A b \in Candidates : \A q \in E!Providers : chain'[b][q] \in {E!Off, chain[b][q]}
  BY DEF LookupInv, E!Stopped
<1>2. reading' = reading /\ shown' = shown
  OBVIOUS
<1>3. \A b \in Candidates : \A q \in E!Providers : ChainFits(reading[b], chain'[b][q])
  BY <1>1, LinkShape DEF LookupInv, ChainFits
<1> QED
  BY <1>1, <1>2, <1>3 DEF LookupInv, ChainFits, BuiltOf

LEMMA LookupStep ==
  ASSUME LookupInv, [E!Next]_enrichment
  PROVE  LookupInv'
<1>1. ASSUME UNCHANGED <<reading, shown, chain>> PROVE LookupInv'
  BY <1>1 DEF LookupInv, ChainFits, BuiltOf
<1>2. ASSUME NEW c \in Candidates, E!Begin(c) PROVE LookupInv'
  <2>1. PICK pc : chain' = [chain EXCEPT ![c] = [p \in E!Providers |-> E!At(pc)]]
    BY <1>2 DEF E!Begin
  <2>2. UNCHANGED <<reading, shown>>
    BY <1>2 DEF E!Begin
  <2>3. /\ DOMAIN chain' = Candidates /\ \A b \in Candidates : DOMAIN chain'[b] = E!Providers
        /\ \A b \in Candidates : \A q \in E!Providers : chain'[b][q] \in {E!At(pc), chain[b][q]}
    BY <2>1 DEF LookupInv
  <2>4. reading' = reading /\ shown' = shown
    BY <2>2
  <2>5. \A b \in Candidates : \A q \in E!Providers : ChainFits(reading[b], chain'[b][q])
    BY <2>3, LinkShape DEF LookupInv, ChainFits
  <2> QED
    BY <2>3, <2>4, <2>5 DEF LookupInv, ChainFits, BuiltOf
<1>3. ASSUME NEW c \in Candidates, NEW p \in E!Providers, E!ByIsbn(c, p) PROVE LookupInv'
  <2>1. PICK found : chain' = [chain EXCEPT ![c][p] = E!AfterIsbn(reading[c], found)]
    BY <1>3 DEF E!ByIsbn
  <2>2. UNCHANGED <<reading, shown>>
    BY <1>3 DEF E!ByIsbn
  <2> QED
    BY <2>1, <2>2, AfterIsbnFits, LinkGoes
<1>4. ASSUME NEW c \in Candidates, NEW p \in E!Providers, E!ByTitle(c, p) PROVE LookupInv'
  <2>1. PICK found : chain' = [chain EXCEPT ![c][p] = E!AfterTitle(reading[c], chain[c][p].weak, found)]
    BY <1>4 DEF E!ByTitle
  <2>2. UNCHANGED <<reading, shown>>
    BY <1>4 DEF E!ByTitle
  <2>3. chain[c][p].weak # None => RecordFits(reading[c], chain[c][p].weak)
    BY DEF LookupInv, ChainFits
  <2> QED
    BY <2>1, <2>2, <2>3, AfterTitleFits, LinkGoes
<1>5. ASSUME NEW c \in Candidates, NEW p \in E!Providers, E!Malformed(c, p) PROVE LookupInv'
  <2>1. chain' = [chain EXCEPT ![c][p] = E!At("broken")] /\ UNCHANGED <<reading, shown>>
    BY <1>5 DEF E!Malformed
  <2>2. ChainFits(reading[c], E!At("broken"))
    BY LinkShape DEF ChainFits
  <2> QED
    BY <2>1, <2>2, LinkGoes
<1>6. ASSUME NEW c \in Candidates, E!Cancelled(c) PROVE LookupInv'
  BY <1>6, LinksEnd DEF E!Cancelled
<1>7. ASSUME NEW c \in Candidates, E!Build(c) PROVE LookupInv'
  <2>1. UNCHANGED <<reading, chain>>
    BY <1>7 DEF E!Build
  <2>2. CASE UNCHANGED shown
    BY <1>1, <2>1, <2>2
  <2> DEFINE ol == chain[c]["open_library"].got
             gb == chain[c]["google_books"].got
  <2>3. CASE shown' = [shown EXCEPT ![c] = E!BuildResult(reading[c], ol, gb)]
    <3>1. (ol # None => RecordFits(reading[c], ol)) /\ (gb # None => RecordFits(reading[c], gb))
      BY DEF LookupInv, ChainFits, E!Providers
    <3> HIDE DEF ol, gb
    <3>2. BuiltOf(reading[c], E!BuildResult(reading[c], ol, gb))
      BY <3>1 DEF BuiltOf
    <3>3. DOMAIN shown' = Candidates /\ shown'[c] = E!BuildResult(reading[c], ol, gb)
          /\ \A b \in Candidates \ {c} : shown'[b] = shown[b]
      BY <2>3 DEF LookupInv
    <3>4. \A b \in Candidates : shown'[b] # None => BuiltOf(reading[b], shown'[b])
      BY <3>2, <3>3 DEF LookupInv
    <3>5. reading' = reading /\ chain' = chain
      BY <2>1
    <3> QED
      BY <3>3, <3>4, <3>5 DEF LookupInv, ChainFits, BuiltOf
  <2> QED
    BY <1>7, <2>2, <2>3 DEF E!Build
<1>8. CASE E!Deadline \/ E!Abandon
  BY <1>8, LinksEnd DEF E!Deadline, E!Abandon
<1>9. CASE E!Return \/ UNCHANGED enrichment
  BY <1>1, <1>9 DEF E!Return, enrichment
<1> QED
  BY <1>2, <1>3, <1>4, <1>5, <1>6, <1>7, <1>8, <1>9 DEF E!Next, E!Lookup

LEMMA LookupStart == E!Init => LookupInv
<1> SUFFICES ASSUME E!Init PROVE LookupInv
  OBVIOUS
<1>1. /\ chain = [c \in Candidates |-> [p \in E!Providers |-> E!Off]]
      /\ shown = [c \in Candidates |-> None]
  BY DEF E!Init
<1>2. \A c \in Candidates : \A p \in E!Providers : ChainFits(reading[c], chain[c][p])
  BY <1>1, LinkShape DEF ChainFits
<1> QED
  BY <1>1, <1>2 DEF LookupInv

\* The parts share no state: while the look-up moves, the others do not.
LEMMA PartsMoveLookup ==
  [Moving]_<<part, enrichment, settings, ledger, vars>> => [E!Next]_enrichment
BY DEF Moving, enrichment

LEMMA LookupHolds == PartsSpec => []LookupInv
<1>1. Parts => LookupInv
  BY LookupStart DEF Parts
<1>2. LookupInv /\ [Moving]_<<part, enrichment, settings, ledger, vars>> => LookupInv'
  BY LookupStep, PartsMoveLookup
<1> QED
  BY <1>1, <1>2, PTL DEF PartsSpec

\* Whichever way a record was found, and in whatever order answers, failures and the
\* deadline come, no reading is shown as another volume or another author's book
\* (titles.py, scoring.py, isbn.py).
THEOREM NoOtherBook == PartsSpec => []NeverAnotherBook
<1>1. LookupInv => NeverAnotherBook
  <2> SUFFICES ASSUME LookupInv, NEW c \in Candidates, NEW record \in E!Used(c)
               PROVE  RecordFits(reading[c], record)
    BY DEF NeverAnotherBook, E!NeverAnotherBook, RecordFits
  <2>1. shown[c] # None /\ record \in {shown[c].work, shown[c].volume} \ {None}
    BY DEF E!Used
  <2>2. PICK ol, gb : /\ shown[c] = E!BuildResult(reading[c], ol, gb)
                      /\ ol # None => RecordFits(reading[c], ol)
                      /\ gb # None => RecordFits(reading[c], gb)
    BY <2>1 DEF LookupInv, BuiltOf
  <2>3. shown[c].work \in {None, ol} /\ shown[c].volume \in {None, gb}
    BY <2>2 DEF E!BuildResult
  <2> QED
    BY <2>1, <2>2, <2>3
<1> QED
  BY <1>1, LookupHolds, PTL

\* What is shown together is of one book, and its ISBNs are confirmed by a record
\* that is shown (service.py, _build).
THEOREM ShownTogether == PartsSpec => []ShownAgrees
<1>1. ASSUME NEW c \in Candidates, NEW r, NEW ol, NEW gb, shown[c] = E!BuildResult(r, ol, gb), shown[c] # None
      PROVE  LET s == shown[c]
                 listed == UNION {record.isbns : record \in E!Used(c)}
             IN  /\ s.work # None /\ s.volume # None => E!RecordsAgree(s.work, s.volume)
                 /\ s.isbns.isbn_13 # None => s.isbns.isbn_13 \in listed \cap Valid
                 /\ s.isbns.isbn_10 # None =>
                      IF s.isbns.isbn_13 = None THEN s.isbns.isbn_10 \in listed
                      ELSE s.isbns.isbn_10 = Ten[s.isbns.isbn_13]
  <2> DEFINE work == shown[c].work
             volume == shown[c].volume
             given == E!Listed(work) \cup E!Listed(volume)
             listed == UNION {record.isbns : record \in E!Used(c)}
  <2>1. work # None /\ volume # None => E!RecordsAgree(work, volume)
    BY <1>1 DEF E!BuildResult
  <2>2. shown[c].isbns = E!EditionIsbns(r, given)
    BY <1>1 DEF E!BuildResult
  <2>3. given = listed
    <3>1. E!Used(c) = {work, volume} \ {None}
      BY <1>1 DEF E!Used
    <3>2. \A i : i \in listed <=> (work # None /\ i \in work.isbns) \/ (volume # None /\ i \in volume.isbns)
      BY <3>1
    <3>3. \A i : i \in given <=> (work # None /\ i \in work.isbns) \/ (volume # None /\ i \in volume.isbns)
      BY DEF E!Listed
    <3> QED
      BY <3>2, <3>3
  <2> HIDE DEF given, listed
  <2>4. LET s == shown[c].isbns IN
          /\ s.isbn_13 # None => s.isbn_13 \in given \cap Valid
          /\ s.isbn_10 # None => IF s.isbn_13 = None THEN s.isbn_10 \in given
                                 ELSE s.isbn_10 = Ten[s.isbn_13]
    BY <2>2 DEF E!EditionIsbns
  <2> QED
    BY <2>1, <2>3, <2>4 DEF listed
<1>2. LookupInv => ShownAgrees
  <2> SUFFICES ASSUME LookupInv, NEW c \in Candidates, shown[c] # None
               PROVE  \E r, ol, gb : shown[c] = E!BuildResult(r, ol, gb)
    BY <1>1 DEF ShownAgrees, E!ShownAgrees
  <2> QED
    BY DEF LookupInv, BuiltOf
<1> QED
  BY <1>2, LookupHolds, PTL

=============================================================================
