----------------------------- MODULE ScanQueue -----------------------------
(* The queue of photos on the phone (frontend: hooks/useScanQueue.ts,       *)
(* lib/scan/executeScan.ts, lib/scan/scanOutcomes.ts,                       *)
(* contexts/ScanJobContext.tsx).  JavaScript runs to completion, so a step  *)
(* is the code between two awaits: the connectivity check, the Turnstile    *)
(* token, the upload.  Several uploads can be under way: the one of the     *)
(* drain and those the user starts by hand.                                 *)
(*                                                                          *)
(* Left out: text searches, the texts of notices and banners, the order of  *)
(* photos within a pass (due ones go first), the 50-photo cap and the       *)
(* expiry of failed photos after seven days.                                *)
EXTENDS Naturals, FiniteSets

CONSTANTS
    Photos,       \* captures; each is queued once
    Hands,        \* uploads the user can have under way at once
    NoPhoto,
    MaxAttempts,  \* MAX_SCAN_ATTEMPTS, 5 in the code
    MaxBusy,      \* MAX_IN_PROGRESS_RETRIES, 3 in the code
    MaxPasses,    \* MAX_DRAIN_PASSES, 3 in the code
    Drops,        \* switch: the connection drops
    Relaunches,   \* switch: the app is killed and started again
    StaleBanners  \* switch: a banner's action is used after its photo moved on

ASSUME QueueAssumption ==
    /\ NoPhoto \notin Photos /\ "drain" \notin Hands
    /\ MaxAttempts \in Nat \ {0, 1} /\ MaxBusy \in Nat /\ MaxPasses \in Nat \ {0}
    /\ Drops \in BOOLEAN /\ Relaunches \in BOOLEAN /\ StaleBanners \in BOOLEAN

Sends == Hands \cup {"drain"}

VARIABLES
    job,         \* per photo: its ScanJob
    run,         \* per upload: the executeScan that holds it
    inFlight,    \* inFlightRef
    drain,       \* drainQueue: where it is and what is left of its pass
    stop,        \* stopDrainRef
    drainAgain,  \* drainAgainRef
    banner,      \* the banner on screen that offers an action, and its photo
    online,      \* NetInfo.isConnected
    left,        \* photos put back until the next drain, whenever that is
    late         \* photos whose banner was used late since the app was started

workVars == <<job, run, inFlight>>
drainVars == <<drain, stop, drainAgain>>
vars == <<workVars, drainVars, banner, online, left, late>>

Statuses == {"none", "pending", "searching", "queued", "complete", "failed", "gone"}
Jobs == [status : Statuses, attempts : 0..MaxAttempts,
         wait : {"none", "future", "due"}, enhanced : BOOLEAN, found : BOOLEAN]
(* An upload keeps the job it was given: updates made since are not seen.   *)
Runs == [photo : Photos \cup {NoPhoto}, phase : {"idle", "check", "token", "posted"},
         tried : 0..MaxAttempts, enhanced : BOOLEAN, found : BOOLEAN,
         stale : BOOLEAN, busy : 0..MaxBusy]
Offers == {"none", "failed", "final", "empty"}

NewJob == [status |-> "none", attempts |-> 0, wait |-> "none",
           enhanced |-> FALSE, found |-> FALSE]
Idle == [photo |-> NoPhoto, phase |-> "idle", tried |-> 0, enhanced |-> FALSE,
         found |-> FALSE, stale |-> FALSE, busy |-> 0]
NoBanner == <<"none", NoPhoto>>
Off == [pc |-> "off", due |-> {}, rest |-> {}, pass |-> 0, skipped |-> FALSE]

Init ==
    /\ job = [p \in Photos |-> NewJob]
    /\ run = [s \in Sends |-> Idle]
    /\ inFlight = {}
    /\ drain = Off /\ stop = "none" /\ drainAgain = FALSE
    /\ banner = NoBanner
    /\ online \in {TRUE, ~Drops}
    /\ left = {} /\ late = {}

Present(p) == job[p].status \notin {"none", "gone"}
Pending(p) == job[p].status \in {"pending", "queued"}
Awaiting(p) == Pending(p) /\ job[p].wait # "none"
Active(s) == run[s].phase # "idle"
ImageInFlight == \E p \in inFlight : Present(p)
Uploading == \E p \in inFlight : job[p].status = "searching"
WaitingForRetry == \E p \in Photos \ inFlight : Awaiting(p) /\ job[p].wait = "future"

(* updateJob: a photo no longer listed is not brought back.                 *)
Put(p, j) == IF Present(p) THEN [job EXCEPT ![p] = j] ELSE job
Requeued(j) == [j EXCEPT !.status = "queued", !.attempts = 0, !.wait = "none"]
Restored(j, enhanced) == [j EXCEPT !.status = "complete", !.enhanced = enhanced]

-----------------------------------------------------------------------------
(* The drain.                                                               *)

(* drainPass lists the waiting photos once, those due on their schedule
   first, and forgets the refusals of the pass before.                      *)
Pass(n) ==
    [pc |-> "next", pass |-> n, skipped |-> FALSE,
     due |-> {p \in Photos : Awaiting(p)' /\ job'[p].wait = "due"},
     rest |-> {p \in Photos : Pending(p)' /\ job'[p].wait # "due"}]
PassOrOff(n) == IF \E p \in Photos : Pending(p)' THEN Pass(n) ELSE Off

(* drainQueue, called while no drain runs.                                  *)
StartDrain ==
    /\ drain' = PassOrOff(1)
    /\ stop' = "none" /\ drainAgain' = FALSE

(* The record of the photos that wait for another event: `put', and all of
   them when a drain that met a refusal ends with none on a schedule.  One
   that a drain lists or that is being sent is off the record.              *)
Listed == drain.due \cup drain.rest
EndsRefused == drain.pc = "off" /\ stop # "none" /\ ~\E q \in Photos : Awaiting(q)
PutBack(put) ==
    LET refused == IF drain.pc # "off" /\ EndsRefused' THEN Photos ELSE {}
    IN left' = {q \in left \cup put \cup refused :
                   Pending(q)' /\ q \notin Listed' \cup inFlight'}

(* Mutated form: the queue is looked through once.                          *)
OnePass(skipped, st) == FALSE
(* A photo skipped for another one's wait is looked at again if that wait
   ended during the pass.                                                   *)
AnotherPass(skipped, st) ==
    /\ skipped /\ st = "none" /\ ~WaitingForRetry'
    /\ drain.pass < MaxPasses /\ \E p \in Photos : Pending(p)'

(* The photos of a pass are done: another pass, another drain, or neither.  *)
Finish(skipped, st, again) ==
    LET more == AnotherPass(skipped, st)
    IN \/ /\ more
          /\ drain' = Pass(drain.pass + 1) /\ stop' = "none" /\ drainAgain' = again
       \/ /\ ~more /\ again /\ ~Uploading'
          /\ StartDrain
       \/ /\ ~more /\ (again => Uploading')
          /\ drain' = Off /\ stop' = st /\ drainAgain' = again

(* On to the next photo of the pass, or to the pass's end.                  *)
GoOn(due, rest, skipped, st, again) ==
    IF due \cup rest = {} THEN Finish(skipped, st, again)
    ELSE /\ drain' = [drain EXCEPT !.pc = "next", !.due = due, !.rest = rest,
                                   !.skipped = skipped]
         /\ stop' = st /\ drainAgain' = again

(* executeScan: the photo is in flight and marked as being sent before the
   first await.                                                             *)
Begin(s, p, j) ==
    /\ job' = [job EXCEPT ![p] = [j EXCEPT !.status = "searching"]]
    /\ run' = [run EXCEPT ![s] = [Idle EXCEPT
                  !.photo = p, !.phase = "token", !.tried = j.attempts,
                  !.enhanced = j.enhanced, !.found = j.found]]
    /\ inFlight' = inFlight \cup {p}

HeldByWait(p) ==
    Present(p) /\ stop = "none" /\ ~Awaiting(p) /\ WaitingForRetry
AnotherUploads(p) == Present(p) /\ p \notin inFlight /\ Uploading
(* Mutated form: inFlightRef is not looked at.                              *)
SentThoughInFlight(p) ==
    /\ Pending(p)
    /\ stop # "images" /\ (stop = "enhanced" => ~job[p].enhanced)
    /\ IF Awaiting(p) THEN job[p].wait = "due" ELSE ~HeldByWait(p)
MaySend(p) ==
    /\ Pending(p) /\ p \notin inFlight
    /\ stop # "images" /\ (stop = "enhanced" => ~job[p].enhanced)
    /\ IF Awaiting(p) THEN job[p].wait = "due" ELSE ~HeldByWait(p)

(* One photo of the pass, after its connectivity check.                     *)
DrainNext(p) ==
    /\ drain.pc = "next" /\ online
    /\ p \in IF drain.due # {} THEN drain.due ELSE drain.rest
    /\ LET due == drain.due \ {p}
           rest == drain.rest \ {p}
           skipped == drain.skipped \/ HeldByWait(p)
       IN \/ /\ ~AnotherUploads(p) /\ MaySend(p)
             /\ Begin("drain", p, job[p])
             /\ drain' = [drain EXCEPT !.pc = "sending", !.due = due, !.rest = rest,
                                       !.skipped = skipped]
             /\ UNCHANGED <<stop, drainAgain>>
          \/ /\ AnotherUploads(p) \/ ~MaySend(p)
             /\ UNCHANGED workVars
             /\ GoOn(due, rest, skipped, stop, drainAgain \/ AnotherUploads(p))
    /\ UNCHANGED <<banner, online, late>>
    /\ PutBack({})

(* Known to be offline: the pass ends.                                      *)
DrainOffline ==
    /\ drain.pc = "next" /\ ~online
    /\ UNCHANGED workVars
    /\ Finish(drain.skipped, stop, drainAgain)
    /\ UNCHANGED <<banner, online, late>>
    /\ PutBack(Listed)

(* drainQueue from a place that checks drainingRef first.                   *)
DrainUnlessDraining ==
    IF drain.pc = "off" THEN StartDrain ELSE UNCHANGED drainVars

(* The retry timer: armed for the earliest scheduled attempt, again later
   while a drain runs or the phone is offline.                              *)
RetryTimer ==
    /\ \E p \in Photos : Awaiting(p) /\ job[p].wait = "due"
    /\ drain.pc = "off" /\ online
    /\ UNCHANGED workVars
    /\ StartDrain
    /\ UNCHANGED <<banner, online, late>>
    /\ PutBack({})

(* The time of a scheduled attempt comes.                                   *)
FallsDue(p) ==
    /\ Awaiting(p) /\ job[p].wait = "future"
    /\ job' = [job EXCEPT ![p].wait = "due"]
    /\ UNCHANGED <<run, inFlight, drainVars, banner, online, late, left>>

-----------------------------------------------------------------------------
(* How an upload ends.                                                      *)

Released(p) == inFlight \ {p}

(* executeScan's finally: a drain goes on with its pass; after any other
   upload a drain starts if one was asked for and no photo is in flight.
   `wanted' says that the outcome itself starts one.                        *)
Ends(s, st, wanted) ==
    /\ run' = [run EXCEPT ![s] = Idle]
    /\ inFlight' = Released(run[s].photo)
    /\ \/ /\ s = "drain"
          /\ GoOn(drain.due, drain.rest, drain.skipped, st, drainAgain)
       \/ /\ s # "drain" /\ drain.pc = "off"
          /\ wanted \/ (drainAgain /\ ~ImageInFlight')
          /\ StartDrain
       \/ /\ s # "drain"
          /\ drain.pc # "off" \/ ~(wanted \/ (drainAgain /\ ~ImageInFlight'))
          /\ stop' = st /\ UNCHANGED <<drain, drainAgain>>

(* Mutated form: the session is not compared.                               *)
ConcludesLate(s) == run[s].phase = "posted"
(* An outcome of the server or the network, for an upload of this account.  *)
Concludes(s) == run[s].phase = "posted" /\ ~run[s].stale
(* Mutated form: no result is restored.                                     *)
NothingKept(s) == FALSE
(* A re-scan of a photo whose books the standard scan found.                *)
Kept(s) == run[s].enhanced /\ run[s].found
Others(p) == {q \in Photos \ {p} : Pending(q) /\ q \notin inFlight}
Shows(kind, p) == banner' = IF kind = "none" THEN NoBanner ELSE <<kind, p>>

(* The server answered: every scheduled photo is due now, and the queue is
   drained if anything waits.                                               *)
Answered(s, books, repeat) ==
    LET p == run[s].photo
        after == [q \in Photos |->
            IF q = p /\ run[s].tried > 0 THEN [job[q] EXCEPT !.attempts = 0, !.wait = "none"]
            ELSE IF q # p /\ Awaiting(q) THEN [job[q] EXCEPT !.wait = "due"]
            ELSE job[q]]
        result ==
            IF ~books /\ Kept(s) THEN Restored(after[p], TRUE)
            ELSE IF ~books THEN [after[p] EXCEPT !.status = "failed"]
            ELSE IF repeat THEN [after[p] EXCEPT !.status = "gone"]
            ELSE [after[p] EXCEPT !.status = "complete", !.found = TRUE]
    IN /\ Concludes(s)
       /\ job' = IF Present(p) THEN [after EXCEPT ![p] = result] ELSE after
       /\ Ends(s, stop, Others(p) # {})
       /\ \E offer \in IF ~books /\ ~run[s].enhanced THEN {"none", "empty"} ELSE {"none"} :
             Shows(offer, p)
       /\ UNCHANGED <<online, late>>
       /\ PutBack({})

RepeatsLeft(s) == run[s].busy < MaxBusy
(* 429 scan_in_progress, silently sent again.                               *)
Busy(s) ==
    /\ Concludes(s) /\ RepeatsLeft(s)
    /\ run' = [run EXCEPT ![s].phase = "token", ![s].busy = @ + 1]
    /\ UNCHANGED <<job, inFlight, drainVars, banner, online, late, left>>

(* handleScanRefusal: a limit, "still processing" or paused.  The photo goes
   back into the queue and the drain sends no more of its kind; an enhanced
   re-scan falls back to the books it had.                                  *)
Refused(s, scope) ==
    LET p == run[s].photo
        result == IF Kept(s) THEN Restored(job[p], FALSE) ELSE Requeued(job[p])
    IN /\ Concludes(s)
       /\ scope = "enhanced" => run[s].enhanced
       /\ job' = Put(p, result)
       /\ Ends(s, IF stop = "images" THEN stop ELSE scope, FALSE)
       /\ UNCHANGED <<banner, online, late>>
       /\ PutBack(IF Kept(s) THEN {} ELSE {p})

LastAttempt(n) == n = MaxAttempts

(* handleUnavailable: 503 scan_unavailable on a standard photo.             *)
Unavailable(s) ==
    LET p == run[s].photo
        attempt == IF run[s].tried < MaxAttempts THEN run[s].tried + 1 ELSE MaxAttempts
        final == LastAttempt(attempt)
        result == [job[p] EXCEPT !.attempts = attempt,
                      !.status = IF final THEN "failed" ELSE "queued",
                      !.wait = IF final THEN "none" ELSE "future"]
    IN /\ Concludes(s) /\ ~run[s].enhanced
       /\ job' = Put(p, result)
       /\ Ends(s, IF final THEN stop ELSE "images", final /\ Others(p) # {})
       /\ IF final THEN Shows("final", p) ELSE UNCHANGED banner
       /\ UNCHANGED <<online, late>>
       /\ PutBack({})

(* handleEnhancedRefusal: not Premium, or throttled.                        *)
EnhancedRefused(s) ==
    LET p == run[s].photo
    IN /\ Concludes(s) /\ run[s].enhanced
       /\ job' = Put(p, IF run[s].found THEN Restored(job[p], FALSE)
                        ELSE [job[p] EXCEPT !.status = "failed", !.enhanced = FALSE])
       /\ Ends(s, IF stop = "none" THEN "enhanced" ELSE stop, FALSE)
       /\ Shows("none", p)
       /\ UNCHANGED <<online, late>>
       /\ PutBack({})

(* Anything else the server answers.                                        *)
Fails(s) ==
    LET p == run[s].photo
    IN /\ Concludes(s)
       /\ job' = Put(p, IF Kept(s) THEN Restored(job[p], FALSE)
                        ELSE [job[p] EXCEPT !.status = "failed", !.attempts = 0,
                                            !.wait = "none"])
       /\ Ends(s, stop, FALSE)
       /\ Shows(IF Kept(s) THEN "none" ELSE "failed", p)
       /\ UNCHANGED <<online, late>>
       /\ PutBack({})

(* No response: the photo waits for the next drain, or at least the first
   step of its schedule if it is on one.                                    *)
Lost(s) ==
    LET p == run[s].photo
    IN /\ Concludes(s)
       /\ job' = Put(p, [job[p] EXCEPT !.status = "queued",
                            !.wait = IF run[s].tried > 0 THEN "future" ELSE @])
       /\ Ends(s, stop, FALSE)
       /\ Shows("none", p)
       /\ UNCHANGED <<online, late>>
       /\ PutBack(IF run[s].tried > 0 THEN {} ELSE {p})

(* Signed out since: nothing is sent, and what came back is dropped.        *)
DropsOut(s) ==
    /\ run[s].phase \in {"token", "posted"} /\ run[s].stale
    /\ UNCHANGED job
    /\ Ends(s, stop, FALSE)
    /\ UNCHANGED <<banner, online, late>>
    /\ PutBack({})

(* Mutated form: the session is not compared after the wait.                *)
PostUnchecked(s) ==
    /\ run[s].phase = "token"
    /\ run' = [run EXCEPT ![s].phase = "posted"]
    /\ UNCHANGED <<job, inFlight, drainVars, banner, online, late, left>>
(* The token has come; the photo is posted.                                 *)
Post(s) ==
    /\ run[s].phase = "token" /\ ~run[s].stale
    /\ run' = [run EXCEPT ![s].phase = "posted"]
    /\ UNCHANGED <<job, inFlight, drainVars, banner, online, late, left>>

Outcome(s) ==
    \/ \E books, repeat \in BOOLEAN : Answered(s, books, repeat)
    \/ Busy(s)
    \/ \E scope \in {"enhanced", "images"} : Refused(s, scope)
    \/ Unavailable(s) \/ EnhancedRefused(s) \/ Fails(s) \/ Lost(s) \/ DropsOut(s)

-----------------------------------------------------------------------------
(* What the user does.                                                      *)

(* startScan: the new photo is in flight from its connectivity check on.    *)
StartScan(s, p) ==
    /\ ~Active(s) /\ job[p].status = "none"
    /\ job' = [job EXCEPT ![p].status = "pending"]
    /\ run' = [run EXCEPT ![s] = [Idle EXCEPT !.photo = p, !.phase = "check"]]
    /\ inFlight' = inFlight \cup {p}
    /\ UNCHANGED <<drainVars, banner, online, late, left>>

(* The connectivity check of startScan.  Offline or signed out, it ends
   without executeScan's finally.                                           *)
Checked(s) ==
    LET p == run[s].photo
    IN /\ run[s].phase = "check"
       /\ \/ /\ ~run[s].stale /\ online
             /\ Begin(s, p, job[p])
             /\ UNCHANGED banner
          \/ /\ run[s].stale \/ ~online
             /\ job' = IF run[s].stale THEN job
                       ELSE Put(p, [job[p] EXCEPT !.status = "queued"])
             /\ run' = [run EXCEPT ![s] = Idle]
             /\ inFlight' = Released(p)
             /\ IF run[s].stale THEN UNCHANGED banner ELSE Shows("none", p)
       /\ UNCHANGED <<drainVars, online, late>>
       /\ PutBack(IF online \/ run[s].stale THEN {} ELSE {p})

(* A banner with an action stays until it is used or replaced, whatever the
   queue screen does meanwhile, and its actions do not look.                *)
MovedOn(p) == job[p].status # "failed"
Offered(kind, p) ==
    /\ banner = <<kind, p>> /\ (MovedOn(p) => StaleBanners)
    /\ late' = late \cup {q \in {p} : MovedOn(q)}

(* retryScan, "Retry now" of a failure's banner.  After MAX_RETRIES it only goes back into the queue.    *)
RetryScan(s, p) ==
    /\ ~Active(s) /\ Offered("failed", p)
    /\ \/ Present(p) /\ Begin(s, p, job[p])
       \/ /\ job' = Put(p, [job[p] EXCEPT !.status = "queued"])
          /\ UNCHANGED <<run, inFlight>>
    /\ banner' = NoBanner
    /\ UNCHANGED <<drainVars, online>>
    /\ PutBack({p})

(* queueForLater, "Save for later" of the same banner.                      *)
QueueForLater(p) ==
    /\ Offered("failed", p)
    /\ job' = Put(p, [job[p] EXCEPT !.status = "queued"])
    /\ banner' = NoBanner
    /\ UNCHANGED <<run, inFlight, drainVars, online>>
    /\ PutBack({p})

(* restartScanSchedule, from the final failure's banner or the queue screen:
   sent now, or handed to the drain while another photo is sent or waits.   *)
RestartSchedule(s, p) ==
    LET handOver == \/ ImageInFlight \/ drain.pc # "off"
                    \/ \E q \in Photos \ {p} : Awaiting(q) /\ job[q].wait = "future"
    IN /\ ~Active(s) /\ job[p].status = "failed" /\ p \notin inFlight
       /\ \/ /\ ~handOver
             /\ Begin(s, p, Requeued(job[p]))
             /\ UNCHANGED drainVars
          \/ /\ handOver
             /\ job' = [job EXCEPT ![p] = Requeued(@)]
             /\ UNCHANGED <<run, inFlight>>
             /\ IF ImageInFlight \/ drain.pc # "off"
                THEN drainAgain' = TRUE /\ UNCHANGED <<drain, stop>>
                ELSE StartDrain
       /\ banner' = IF banner = <<"final", p>> THEN NoBanner ELSE banner
       /\ UNCHANGED <<online, late>>
       /\ PutBack({})

(* requestEnhancedScan, from the review sheet or the banner of a photo in
   which nothing was found.                                                 *)
RequestEnhanced(s, p) ==
    /\ ~Active(s) /\ Present(p)
    /\ \/ job[p].status = "complete" /\ ~job[p].enhanced /\ UNCHANGED late
       \/ Offered("empty", p)
    /\ Begin(s, p, [job[p] EXCEPT !.enhanced = TRUE])
    /\ banner' = IF banner = <<"empty", p>> THEN NoBanner ELSE banner
    /\ UNCHANGED <<drainVars, online>>
    /\ PutBack({})

(* dismissJob: a review closed, or a failed photo deleted.                  *)
DismissJob(p) ==
    /\ job[p].status \in {"complete", "failed"}
    /\ job' = [job EXCEPT ![p].status = "gone"]
    /\ UNCHANGED <<run, inFlight, drainVars, banner, online, late, left>>

(* resumeQueue: "Try again" of a refusal's notice, "Send now" of the badge.  *)
ResumeQueue ==
    /\ online /\ \E p \in Photos : Pending(p)
    /\ UNCHANGED workVars
    /\ DrainUnlessDraining
    /\ UNCHANGED <<banner, online, late>>
    /\ PutBack({})

(* Sign-out: the queue is dropped and every upload belongs to the past.     *)
SignOut ==
    /\ \E p \in Photos : Present(p)
    /\ job' = [p \in Photos |-> IF Present(p) THEN [NewJob EXCEPT !.status = "gone"] ELSE job[p]]
    /\ run' = [s \in Sends |-> [run[s] EXCEPT !.stale = Active(s)]]
    /\ drainAgain' = FALSE
    /\ UNCHANGED <<inFlight, drain, stop, banner, online, late>>
    /\ PutBack({})

-----------------------------------------------------------------------------
(* The environment.                                                         *)

(* NetInfo reports a connection; also while there was one.                  *)
Connected ==
    /\ online' = TRUE
    /\ UNCHANGED workVars
    /\ DrainUnlessDraining
    /\ UNCHANGED <<banner, late>>
    /\ PutBack({})

Disconnected ==
    /\ Drops /\ online
    /\ online' = FALSE
    /\ UNCHANGED <<workVars, drainVars, banner, late, left>>

(* The app is killed and started again: completed photos are dropped,
   results are not saved, and the listener's first event drains.            *)
Relaunch ==
    /\ Relaunches
    /\ job' = [p \in Photos |-> [job[p] EXCEPT !.found = FALSE,
                  !.status = IF @ = "searching" THEN "pending"
                             ELSE IF @ = "complete" THEN "gone" ELSE @]]
    /\ run' = [s \in Sends |-> Idle] /\ inFlight' = {}
    /\ IF online THEN StartDrain
       ELSE drain' = Off /\ stop' = "none" /\ drainAgain' = FALSE
    /\ banner' = NoBanner /\ late' = {}
    /\ UNCHANGED online
    /\ PutBack(Photos)

ByHand(s) ==
    \E p \in Photos : \/ StartScan(s, p) \/ RetryScan(s, p)
                      \/ RestartSchedule(s, p) \/ RequestEnhanced(s, p)

Next ==
    \/ \E p \in Photos : DrainNext(p) \/ FallsDue(p) \/ QueueForLater(p) \/ DismissJob(p)
    \/ DrainOffline \/ RetryTimer
    \/ \E s \in Sends : Post(s) \/ Outcome(s) \/ Checked(s)
    \/ \E s \in Hands : ByHand(s)
    \/ ResumeQueue \/ SignOut
    \/ Connected \/ Disconnected \/ Relaunch

Spec == Init /\ [][Next]_vars

(* The event loop runs what is ready, timers fire, and an upload ends (its
   timeout is 60 s).  Nothing is assumed of the user or the connection.     *)
Fairness ==
    /\ WF_vars(\E p \in Photos : DrainNext(p)) /\ WF_vars(DrainOffline)
    /\ WF_vars(RetryTimer) /\ \A p \in Photos : WF_vars(FallsDue(p))
    /\ \A s \in Sends : WF_vars(Post(s)) /\ WF_vars(Outcome(s)) /\ WF_vars(Checked(s))

FairSpec == Spec /\ Fairness

-----------------------------------------------------------------------------
(* Properties.                                                              *)

(* The type of the state.                                                   *)
TypeOK ==
    /\ job \in [Photos -> Jobs] /\ run \in [Sends -> Runs]
    /\ inFlight \subseteq Photos
    /\ drain \in [pc : {"off", "next", "sending"}, due : SUBSET Photos,
                  rest : SUBSET Photos, pass : 0..MaxPasses, skipped : BOOLEAN]
    /\ stop \in {"none", "enhanced", "images"} /\ drainAgain \in BOOLEAN
    /\ banner \in Offers \X (Photos \cup {NoPhoto}) /\ online \in BOOLEAN
    /\ left \subseteq Photos /\ late \subseteq Photos

(* A photo is never uploaded twice at once, whatever starts the uploads: the
   drain, its timer, the reconnect and the user's own retries, and whatever
   is done to other photos by banners they have left behind (to its own, it
   is no more: nothing in the app keeps a late banner from a second upload). *)
OneRunPerPhoto ==
    \A p \in Photos \ late, s, u \in Sends :
        run[s].photo = p /\ run[u].photo = p => s = u

(* What the drain and the restart read to keep to one upload at a time is
   what is being uploaded: no id stays behind, none goes missing, but by a
   banner's late use on the photo itself.                                   *)
InFlightExact ==
    \A p \in Photos \ late : p \in inFlight <=> \E s \in Sends : run[s].photo = p

(* Books a standard scan found are never lost to a failed enhanced re-scan of
   the same photo: a failed photo has no review sheet.  (Two uploads of one
   photo, after its late banner, can fail it with the books of one of them.) *)
BooksNotStranded == \A p \in Photos \ late : job[p].status = "failed" => ~job[p].found

(* An answer to an upload of the account signed out changes nothing in the
   queue of the next one: no status, no schedule, no drain started.         *)
LateAnswersDropped ==
    [][\A s \in Hands :
          Active(s) /\ run[s].stale /\ ~Active(s)' /\ ~Relaunch
              => job' = job /\ (drain' = drain \/ drainAgain)]_vars

(* Nothing of the account signed out is posted: neither after the wait for a
   Turnstile token nor at a silent repeat.  (The second upload that a photo's
   late banner starts may outlive the photo without a sign-out.)            *)
NothingPostedSignedOut ==
    [][\A s \in Sends :
          run[s].phase = "token" /\ run'[s].phase = "posted"
              => Present(run[s].photo) \/ run[s].photo \in late]_vars

(* From some time on the phone is left alone: online, no upload lost on the
   way or refused, nothing sent by hand, no restart.                        *)
Disturbed ==
    \/ Relaunch
    \/ \E s \in Hands : ByHand(s)
    \/ \E s \in Sends : Lost(s) \/ \E scope \in {"enhanced", "images"} : Refused(s, scope)
LeftAlone == <>[]online /\ <>[][~Disturbed]_vars

(* Left alone, every photo in the queue is sent, unless a refusal, a lost
   connection or the user had put it back: no photo waits for a schedule, an
   upload or a drain that is over.                                          *)
QueueMoves == LeftAlone => \A p \in Photos : []<>(~Pending(p) \/ p \in left)

(* docs/features.md: "When the app comes online, drainQueue() picks up any
   queued jobs and retries them."  A photo that waits while the phone is
   offline is sent, or its drain meets a refusal.                           *)
ReconnectDrains ==
    LeftAlone => \A p \in Photos :
        [](Pending(p) /\ ~online => <>(~Pending(p) \/ stop # "none"))
=============================================================================
