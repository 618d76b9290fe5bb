----------------------------- MODULE ScanRequest -----------------------------
(* POST /scan from its arrival to its answer: the kill switches, the count of *)
(* requests, the bot check, the file's checks, the pool of image workers, the *)
(* saved answer, the reservation, the provider call with its retries and its  *)
(* deadline, and what the call settles.  What the quota tables do with a      *)
(* reservation is ScanQuota, what a saved answer holds is ScanRecords; here   *)
(* they are choices.  `now` counts in steps shorter than the timeout.         *)
EXTENDS Naturals, FiniteSets, Replies

CONSTANTS Requests,      \* requests of one user
          Models,        \* the models an operator may choose
          Provider,      \* [Models -> {"openai", "anthropic"}]
          Price,         \* [Models -> Nat]: micros a token
          Files,         \* uploads: see Refusal
          Proofs,        \* what a client shows the bot check: see Admission
          Replying,      \* the replies a provider gives
          Tokens,        \* billed tokens a reply may report, 0 when it reports none
          MaxBytes, MaxPixels,
          RequestCap,    \* scan.requests_per_user_daily
          Slots,         \* SCAN_NORMALISE_CONCURRENCY
          Estimate,      \* est_cost_ceiling_micros
          Timeout,       \* timeout_s of the feature
          Grace,         \* the 30 s a lease outlives it
          MaxRetries, Delays,
          TurnstileRequired, AttestationRequired, NonceTtl,
          MaxTime, MaxSwitches

\* The registry checks that an estimate is positive, the price table that a price
\* is (ai/registry.py, ai/prices.py); a scan reads at least one book.
ConstantsOK ==
    /\ {Timeout, MaxRetries, MaxTime} \cup Delays \cup Tokens \subseteq Nat
    /\ {Estimate, Grace, MaxBooks} \subseteq Nat \ {0}
    /\ Price \in [Models -> Nat \ {0}] /\ Provider \in [Models -> {"openai", "anthropic"}]
    /\ Replying \subseteq [stop : Stops, form : Forms, items : Seq(Items)]

VARIABLES now,
          setting,    \* the ai_settings rows: [on, enhanced, model]
          switches,   \* changes of them so far
          counted,    \* scan_requests: this user's requests of the day
          req         \* per request, where it is and what it did

vars == <<now, setting, switches, counted, req>>

Idle == [at |-> "idle"]

Go(q, at) == req' = [req EXCEPT ![q].at = at]

\* The request ends with `code` and without a call: nothing is taken, or given
\* back as ScanQuota has it.
Refuse(q, code) == req' = [req EXCEPT ![q] = [at |-> "done", answer |-> code]]

-----------------------------------------------------------------------------
\* _load_scan_settings: one snapshot of the settings serves the whole request.
Arrive(q, enhanced) ==
    /\ req[q].at = "idle"
    /\ IF setting.on /\ (enhanced => setting.enhanced)
       THEN req' = [req EXCEPT ![q] =
                       [at |-> "counting", enhanced |-> enhanced, ai |-> setting]]
       ELSE Refuse(q, 503)
    /\ UNCHANGED <<now, setting, switches, counted>>

\* The settings cannot be read and none are cached.
ArriveBlind(q) == req[q].at = "idle" /\ Refuse(q, 503) /\ UNCHANGED <<now, setting, switches, counted>>

\* count_scan_request: whatever becomes of it later, the request is counted.
Count(q) ==
    /\ req[q].at = "counting"
    /\ IF counted < RequestCap
       THEN counted' = counted + 1 /\ Go(q, "checking")
       ELSE Refuse(q, 429) /\ UNCHANGED counted
    /\ UNCHANGED <<now, setting, switches>>

-----------------------------------------------------------------------------
\* A proof is [platform, mine, issued, vouched, turnstile]: the platform that
\* attests ("none" without a nonce), whether the nonce is signed for this user,
\* when it was issued, whether Play Integrity vouches for it, and the Turnstile
\* token ("none", "bad" or "good"; one that cannot be verified is bad).
NonceHolds(p) == p.mine /\ now - p.issued <= NonceTtl

\* No App Attest verifier is configured: an iOS assertion is always rejected.
Attested(p) == NonceHolds(p) /\ p.platform = "android" /\ p.vouched

TurnstileAnswer(p) ==
    IF ~TurnstileRequired \/ p.turnstile = "good" THEN 200
    ELSE IF p.turnstile = "none" THEN 400 ELSE 403

Admission(p) ==
    IF p.platform = "none" THEN TurnstileAnswer(p)
    ELSE IF Attested(p) THEN 200
    ELSE IF AttestationRequired THEN 403 ELSE TurnstileAnswer(p)

\* get_nonce signs the current time; the app sends it at once or later.
Check(q, p) ==
    /\ req[q].at = "checking"
    /\ p.issued <= now
    /\ IF Admission(p) = 200 THEN Go(q, "uploading") ELSE Refuse(q, Admission(p))
    /\ UNCHANGED <<now, setting, switches, counted>>

\* A file is [known, image, size, magic, clean, pixels, whole]: its extension
\* and Content-Type, its bytes, the antivirus verdict, the declared pixels and
\* whether it decodes.  Each check runs when those before it passed.
FileChecks(f) ==
    << <<f.known, 415>>, <<f.image, 415>>, <<f.size <= MaxBytes, 413>>, <<f.magic, 415>>,
       <<f.clean # "unknown", 503>>, <<f.clean # "found", 422>> >>

\* The declared size is checked before any pixel is decoded.
ImageChecks(f) == << <<f.pixels <= MaxPixels, 413>>, <<f.whole, 415>> >>

Failing(checks) == {i \in DOMAIN checks : ~checks[i][1]}

FirstFailure(checks) == checks[CHOOSE i \in Failing(checks) : \A j \in Failing(checks) : i <= j][2]

Upload(q, f) ==
    /\ req[q].at = "uploading"
    /\ IF Failing(FileChecks(f)) = {}
       THEN req' = [req EXCEPT ![q] =
                       [at |-> "waiting", enhanced |-> @.enhanced, ai |-> @.ai, file |-> f]]
       ELSE Refuse(q, FirstFailure(FileChecks(f)))
    /\ UNCHANGED <<now, setting, switches, counted>>

Decoding == {q \in Requests : req[q].at \in {"decoding", "abandoned"}}

Decode(q) ==
    /\ req[q].at = "waiting" /\ Cardinality(Decoding) < Slots
    /\ Go(q, "decoding")
    /\ UNCHANGED <<now, setting, switches, counted>>

Decoded(q) ==
    /\ req[q].at = "decoding"
    /\ IF Failing(ImageChecks(req[q].file)) = {}
       THEN req' = [req EXCEPT ![q] =
                       [at |-> "looking", enhanced |-> @.enhanced, ai |-> @.ai]]
       ELSE Refuse(q, FirstFailure(ImageChecks(req[q].file)))
    /\ UNCHANGED <<now, setting, switches, counted>>

\* The client goes away: a worker's thread runs on and holds its slot.
Leave(q) ==
    /\ req[q].at \in {"counting", "checking", "uploading", "waiting", "decoding", "looking"}
    /\ IF req[q].at = "decoding" THEN Go(q, "abandoned") ELSE Refuse(q, 499)
    /\ UNCHANGED <<now, setting, switches, counted>>

\* The database fails under the count (whose commit may have gone through), under
\* the reservation, or under the library check of a saved answer.
Fails(q) ==
    /\ req[q].at \in {"counting", "looking"}
    /\ Refuse(q, 500)
    /\ \/ UNCHANGED counted
       \/ req[q].at = "counting" /\ counted < RequestCap /\ counted' = counted + 1
    /\ UNCHANGED <<now, setting, switches>>

ThreadEnds(q) == req[q].at = "abandoned" /\ Refuse(q, 499) /\ UNCHANGED <<now, setting, switches, counted>>

-----------------------------------------------------------------------------
\* A saved answer is served (or refused: enhanced is for Premium) and takes
\* nothing; otherwise the reservation is refused or the unit and the estimate
\* are taken and the call begins with a lease of Timeout + Grace.
Repeat(q, code) == req[q].at = "looking" /\ Refuse(q, code) /\ UNCHANGED <<now, setting, switches, counted>>

NotReserved(q, code) == req[q].at = "looking" /\ Refuse(q, code) /\ UNCHANGED <<now, setting, switches, counted>>

Snapshot(q) == req[q].ai

\* `called` is the model called and `billed` whether the provider bills the
\* call, which the server learns only from a reply.
Reserve(q) ==
    /\ req[q].at = "looking"
    /\ req' = [req EXCEPT ![q] = [at |-> "starting", ai |-> @.ai, began |-> now, attempt |-> 0]]
    /\ UNCHANGED <<now, setting, switches, counted>>

\* run_feature: the tier is read, then the adapter sends the request.
Send(q) ==
    /\ req[q].at = "starting"
    /\ req' = [req EXCEPT ![q] = [at |-> "calling", ai |-> @.ai, began |-> @.began,
                                  attempt |-> 0, opened |-> now, sent |-> now,
                                  called |-> Snapshot(q).model]]
    /\ UNCHANGED <<now, setting, switches, counted>>

CostOf(model, tokens) == tokens * Price[model]

\* What the `finally` of _run_provider commits: the unit kept or given back, the
\* ledger row [status, model] (or None), the cost; and the answer on its way.
Settle(q, unit, status, model, cost, answer, billed, usable) ==
    /\ req' = [req EXCEPT ![q] =
                  [at |-> "settled", answer |-> answer, unit |-> unit, status |-> status,
                   model |-> model, cost |-> cost, called |-> @.called,
                   billed |-> billed, usable |-> usable]]
    /\ UNCHANGED <<now, setting, switches, counted>>

\* The model a call that raised is recorded under: resolve_spec on the snapshot.
Named(q) == req[q].ai.model

Unavailable(q) == Settle(q, "back", "refunded", Named(q), 0, 503, "no", FALSE)

\* Mutant: a timeout is settled like any other unavailability.
TimeoutFree(q) == Settle(q, "back", "timeout", Named(q), 0, 503, "perhaps", FALSE)

TimedOut(q) == Settle(q, "back", "timeout", Named(q), Estimate, 503, "perhaps", FALSE)

\* Any other exception, and a cancelled request.
EndsUnknown(q, answer) == Settle(q, "kept", "error", Named(q), Estimate, answer, "perhaps", FALSE)

\* What becomes of the replies: the outcome the gateway reports and whether the
\* reply could be used.
ReadReplies ==
    [p \in {"openai", "anthropic"} |->
        {[outcome |-> Reported(Identified(p, r)), usable |-> Usable(p, r)] : r \in Replying}]

Reply(q, reading, tokens) ==
    LET good == reading.outcome # "malformed"
    IN  /\ req[q].at = "calling"
        /\ Settle(q, IF good THEN "kept" ELSE "back", reading.outcome, req[q].called,
                  CostOf(req[q].called, tokens), IF good THEN 200 ELSE 503,
                  IF tokens = 0 THEN "unsaid" ELSE "yes", reading.usable)

\* No connection was made; or the server answered with a status that is not
\* tried again.
NoAnswer(q) == req[q].at = "calling" /\ Unavailable(q)

\* The connection dropped with the request sent, or the task was cancelled.
Broke(q) == req[q].at = "calling" /\ EndsUnknown(q, 500)

Cancelled(q) == req[q].at \in {"calling", "retrying"} /\ EndsUnknown(q, 499)

Ends(q) == req[q].opened + Timeout

\* 429, 500, 503 or 529: Claude's adapter waits and tries again, never past the
\* deadline; a retry-after is a longer delay.
Overloaded(q, delay) ==
    /\ req[q].at = "calling"
    /\ Provider[req[q].called] = "anthropic"
    /\ IF req[q].attempt >= MaxRetries \/ now + delay >= Ends(q)
       THEN Unavailable(q)
       ELSE /\ req' = [req EXCEPT ![q].at = "retrying", ![q].attempt = @ + 1,
                                  ![q].sent = now + delay]
            /\ UNCHANGED <<now, setting, switches, counted>>

Retry(q) ==
    /\ req[q].at = "retrying" /\ now >= req[q].sent
    /\ req' = [req EXCEPT ![q].at = "calling", ![q].sent = now]
    /\ UNCHANGED <<now, setting, switches, counted>>

\* Mutant: no overall deadline, only the client's own timeout of each attempt.
OwnTimeout(q) == req[q].at = "calling" /\ now >= req[q].sent + Timeout

\* The gateway's deadline over all attempts; an attempt's own timeout is never
\* sooner.
Overdue(q) == req[q].at \in {"calling", "retrying"} /\ now >= Ends(q)

Expire(q) == Overdue(q) /\ TimedOut(q)

-----------------------------------------------------------------------------
\* The answer leaves; a 200 after the record's steps, the lookups of the books,
\* the library check and the signing, none of which touches what was settled.
Respond(q) ==
    /\ req[q].at = "settled"
    /\ Go(q, "done")
    /\ UNCHANGED <<now, setting, switches, counted>>

AnswersInstead(q, answer) ==
    /\ req' = [req EXCEPT ![q].at = "done", ![q].answer = answer]
    /\ UNCHANGED <<now, setting, switches, counted>>

\* Nothing catches a failure of the library check: books were read and paid for,
\* and the answer is 500.
FailsSettled(q) == req[q].at = "settled" /\ req[q].answer = 200 /\ AnswersInstead(q, 500)

\* The client goes away while its settle runs, which is shielded, or after it.
LeavesSettled(q) == req[q].at = "settled" /\ AnswersInstead(q, 499)

-----------------------------------------------------------------------------
\* An operator's write, as the next request reads it (AiSettings has the delay).
Switch(s) ==
    /\ switches < MaxSwitches /\ s # setting
    /\ setting' = s /\ switches' = switches + 1
    /\ UNCHANGED <<now, counted, req>>

\* A timer that is due fires before the clock moves on, and the reads between
\* the lease and the call take less than the Grace.
Tick ==
    /\ now < MaxTime
    /\ \A q \in Requests :
          /\ ~Overdue(q)
          /\ ~(req[q].at = "retrying" /\ now >= req[q].sent)
          /\ req[q].at = "starting" => now + 1 < req[q].began + Grace
    /\ now' = now + 1
    /\ UNCHANGED <<setting, switches, counted, req>>

Init ==
    /\ now = 0 /\ switches = 0 /\ counted \in 0..1
    /\ setting \in [on : {TRUE}, enhanced : {TRUE}, model : Models]
    /\ req = [q \in Requests |-> Idle]

Prepare(q) ==
    \/ \E e \in BOOLEAN : Arrive(q, e)
    \/ ArriveBlind(q) \/ Count(q)
    \/ \E p \in Proofs : Check(q, p)
    \/ \E f \in Files : Upload(q, f)
    \/ Decode(q) \/ Decoded(q) \/ Leave(q) \/ Fails(q) \/ ThreadEnds(q)
    \/ \E code \in {200, 403} : Repeat(q, code)
    \/ \E code \in {403, 429, 503} : NotReserved(q, code)

Call(q) ==
    \/ Reserve(q) \/ Send(q) \/ NoAnswer(q) \/ Broke(q) \/ Cancelled(q) \/ Retry(q) \/ Expire(q)
    \/ /\ req[q].at = "calling"
       /\ \E reading \in ReadReplies[Provider[req[q].called]], tokens \in Tokens :
             Reply(q, reading, tokens)
    \/ \E delay \in Delays : Overloaded(q, delay)
    \/ Respond(q) \/ FailsSettled(q) \/ LeavesSettled(q)

Next ==
    \/ \E q \in Requests : Prepare(q) \/ Call(q)
    \/ \E s \in [on : BOOLEAN, enhanced : BOOLEAN, model : Models] : Switch(s)
    \/ Tick

Spec == Init /\ [][Next]_vars

-----------------------------------------------------------------------------
Settled == {q \in Requests : "unit" \in DOMAIN req[q]}

\* A scan's unit is kept for a reply that can be used, and for a call that may
\* have been answered but whose reply was lost; for every other end of the call
\* it is given back.  However the request goes on after the settle, nobody is
\* told 503, which the app tries again, for a scan that was charged, and books
\* come with a charge alone; a 500 or a client gone may hide a charged answer.
ChargedForAnAnswer ==
    \A q \in Settled :
        /\ req[q].billed \in {"yes", "unsaid"} => (req[q].unit = "kept" <=> req[q].usable)
        /\ req[q].billed = "no" => req[q].unit = "back"
        /\ req[q].answer = 503 => req[q].unit = "back"
        /\ req[q].answer = 500 => req[q].unit = "kept"
        /\ req[q].answer = 200 => req[q].unit = "kept" /\ req[q].status # "error"

\* A call the provider bills, or may bill, adds to the day's spend, whatever the
\* user is charged; one it does not bill adds nothing; and its row names the model
\* called, however the settings change while the request runs.
SpendFollowsTheBill ==
    \A q \in Settled :
        /\ req[q].model = req[q].called
        /\ req[q].billed \in {"yes", "perhaps"} => req[q].cost > 0
        /\ req[q].billed = "no" => req[q].cost = 0

\* No call outlives the lease of its reservation, so nobody takes the lease of a
\* call that still runs.
LeaseOutlivesCall ==
    \A q \in Requests :
        req[q].at \in {"calling", "retrying"} => now < req[q].began + Timeout + Grace
=============================================================================
