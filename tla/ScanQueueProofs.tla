-------------------------- MODULE ScanQueueProofs --------------------------
(* Proofs about ScanQueue for any sets of photos and uploads and any bounds: *)
(* types; that a photo is never uploaded twice at once and the in-flight set *)
(* is exact; that books once found stay; and that nothing of a signed-out    *)
(* account is posted or applied.  What is said of a photo ends when its own  *)
(* banner is used late, until the app is started again (`late').             *)
EXTENDS ScanQueue, TLAPS

(* An upload is at work exactly while it holds a photo.                      *)
RunsFit == \A s \in Sends : Active(s) <=> run[s].photo \in Photos

(* A photo in flight is listed as waiting or being sent, or is gone.         *)
StatusFits == \A p \in inFlight \ late : job[p].status \in {"pending", "searching", "gone"}

(* The drain's upload is at work exactly while the drain waits for it.       *)
DrainFits ==
    /\ Active("drain") <=> drain.pc = "sending"
    /\ run["drain"].phase # "check"

FlightInv == RunsFit /\ OneRunPerPhoto /\ InFlightExact
IInv == TypeOK /\ FlightInv /\ StatusFits /\ DrainFits

DrainTyped ==
    /\ drain \in [pc : {"off", "next", "sending"}, due : SUBSET Photos,
                  rest : SUBSET Photos, pass : 0..MaxPasses, skipped : BOOLEAN]
    /\ stop \in {"none", "enhanced", "images"} /\ drainAgain \in BOOLEAN
WorkTyped ==
    /\ job \in [Photos -> Jobs] /\ run \in [Sends -> Runs] /\ inFlight \subseteq Photos
EndTyped == /\ banner \in Offers \X (Photos \cup {NoPhoto}) /\ online \in BOOLEAN
            /\ left \subseteq Photos /\ late \subseteq Photos

(* The type invariant in three parts.                                        *)
LEMMA Types == TypeOK <=> WorkTyped /\ DrainTyped /\ EndTyped
BY DEF TypeOK, WorkTyped, DrainTyped, EndTyped

-----------------------------------------------------------------------------
(* The drain.                                                                *)

(* A pass that starts is typed.                                              *)
LEMMA PassTyped ==
    ASSUME NEW n \in 1..MaxPasses
    PROVE  /\ Pass(n) \in [pc : {"off", "next", "sending"}, due : SUBSET Photos,
                  rest : SUBSET Photos, pass : 0..MaxPasses, skipped : BOOLEAN]
           /\ Pass(n).pc = "next"
  <1>1. /\ {p \in Photos : Awaiting(p)' /\ job'[p].wait = "due"} \subseteq Photos
        /\ {p \in Photos : Pending(p)' /\ job'[p].wait # "due"} \subseteq Photos
    OBVIOUS
  <1>2. n \in 0..MaxPasses
    BY QueueAssumption
  <1> QED
    BY <1>1, <1>2 DEF Pass

(* A drain that starts is typed and does not send yet.                       *)
LEMMA StartDrainTyped ==
    ASSUME StartDrain
    PROVE  DrainTyped' /\ drain'.pc \in {"off", "next"}
  <1>1. 1 \in 1..MaxPasses /\ 0 \in 0..MaxPasses
    BY QueueAssumption
  <1>2. drain' \in {Pass(1), Off}
    BY DEF StartDrain, PassOrOff
  <1>3. /\ Off \in [pc : {"off", "next", "sending"}, due : SUBSET Photos,
                  rest : SUBSET Photos, pass : 0..MaxPasses, skipped : BOOLEAN]
        /\ Off.pc = "off"
    BY <1>1 DEF Off
  <1>4. stop' = "none" /\ drainAgain' = FALSE
    BY DEF StartDrain
  <1>5. /\ Pass(1) \in [pc : {"off", "next", "sending"}, due : SUBSET Photos,
                  rest : SUBSET Photos, pass : 0..MaxPasses, skipped : BOOLEAN]
        /\ Pass(1).pc = "next"
    BY <1>1, PassTyped
  <1> QED
    BY <1>2, <1>3, <1>4, <1>5 DEF DrainTyped

(* So is the end of a pass.                                                  *)
LEMMA FinishTyped ==
    ASSUME DrainTyped, NEW skipped \in BOOLEAN,
           NEW st \in {"none", "enhanced", "images"}, NEW again \in BOOLEAN,
           Finish(skipped, st, again)
    PROVE  DrainTyped' /\ drain'.pc \in {"off", "next"}
  <1> DEFINE more == AnotherPass(skipped, st)
  <1>1. CASE more /\ drain' = Pass(drain.pass + 1) /\ stop' = "none" /\ drainAgain' = again
    <2>1. drain.pass \in 0..MaxPasses /\ drain.pass < MaxPasses
      BY <1>1 DEF DrainTyped, AnotherPass
    <2>2. drain.pass + 1 \in 1..MaxPasses
      BY <2>1, QueueAssumption
    <2>3. /\ Pass(drain.pass + 1) \in [pc : {"off", "next", "sending"}, due : SUBSET Photos,
                  rest : SUBSET Photos, pass : 0..MaxPasses, skipped : BOOLEAN]
          /\ Pass(drain.pass + 1).pc = "next"
      BY <2>2, PassTyped
    <2> QED
      BY <1>1, <2>3 DEF DrainTyped
  <1>2. CASE StartDrain
    BY <1>2, StartDrainTyped
  <1>3. CASE drain' = Off /\ stop' = st /\ drainAgain' = again
    <2>1. 0 \in 0..MaxPasses
      BY QueueAssumption
    <2> QED
      BY <1>3, <2>1 DEF DrainTyped, Off
  <1> QED
    BY <1>1, <1>2, <1>3 DEF Finish

(* And the step to the next photo.                                           *)
LEMMA GoOnTyped ==
    ASSUME DrainTyped, NEW due \in SUBSET Photos, NEW rest \in SUBSET Photos,
           NEW skipped \in BOOLEAN,
           NEW st \in {"none", "enhanced", "images"}, NEW again \in BOOLEAN,
           GoOn(due, rest, skipped, st, again)
    PROVE  DrainTyped' /\ drain'.pc \in {"off", "next"}
  <1>1. CASE due \cup rest = {}
    BY <1>1, FinishTyped DEF GoOn
  <1>2. CASE due \cup rest # {}
    <2>1. /\ drain' = [drain EXCEPT !.pc = "next", !.due = due, !.rest = rest, !.skipped = skipped]
          /\ stop' = st /\ drainAgain' = again
      BY <1>2 DEF GoOn
    <2>2. drain \in [pc : {"off", "next", "sending"}, due : SUBSET Photos,
                  rest : SUBSET Photos, pass : 0..MaxPasses, skipped : BOOLEAN]
      BY DEF DrainTyped
    <2>3. /\ drain' \in [pc : {"off", "next", "sending"}, due : SUBSET Photos,
                  rest : SUBSET Photos, pass : 0..MaxPasses, skipped : BOOLEAN]
          /\ drain'.pc = "next"
      BY <2>1, <2>2
    <2> QED
      BY <2>1, <2>3 DEF DrainTyped
  <1> QED
    BY <1>1, <1>2

-----------------------------------------------------------------------------
(* The uploads.                                                              *)

(* An upload that holds nothing is typed.                                    *)
LEMMA IdleTyped == Idle \in Runs /\ Idle.photo \notin Photos /\ Idle.phase = "idle"
  <1>1. 0 \in 0..MaxAttempts /\ 0 \in 0..MaxBusy
    BY QueueAssumption
  <1> QED
    BY <1>1, QueueAssumption DEF Idle, Runs

(* A photo that begins to be sent is typed.                                  *)
LEMMA BeginTyped ==
    ASSUME WorkTyped, NEW s \in Sends, NEW p \in Photos, NEW j \in Jobs, Begin(s, p, j)
    PROVE  WorkTyped'
  <1>1. [j EXCEPT !.status = "searching"] \in Jobs
    BY DEF Jobs, Statuses
  <1>2. job' \in [Photos -> Jobs]
    BY <1>1 DEF WorkTyped, Begin
  <1>3. j.attempts \in 0..MaxAttempts /\ j.enhanced \in BOOLEAN /\ j.found \in BOOLEAN
    BY DEF Jobs
  <1>4. 0 \in 0..MaxBusy
    BY QueueAssumption
  <1>5. [Idle EXCEPT !.photo = p, !.phase = "token", !.tried = j.attempts,
                     !.enhanced = j.enhanced, !.found = j.found] \in Runs
    BY <1>3, <1>4 DEF Idle, Runs
  <1>6. run' \in [Sends -> Runs]
    BY <1>5 DEF WorkTyped, Begin
  <1>7. inFlight' \subseteq Photos
    BY DEF WorkTyped, Begin
  <1> QED
    BY <1>2, <1>6, <1>7 DEF WorkTyped

(* An upload that takes a photo nobody else holds.                           *)
LEMMA TakeRuns ==
    ASSUME WorkTyped, FlightInv, NEW s \in Sends, NEW p \in Photos, NEW r \in Runs,
           r.photo = p, r.phase # "idle",
           run' = [run EXCEPT ![s] = r], inFlight' = inFlight \cup {p},
           late \subseteq late',
           run[s].photo = p \/ (~Active(s) /\ (p \notin inFlight \/ p \in late'))
    PROVE  FlightInv'
  <1>1. /\ run'[s].photo = p /\ run'[s].phase # "idle"
        /\ \A u \in Sends \ {s} : run'[u] = run[u]
    BY DEF WorkTyped
  <1>2. p \notin late' => \A u \in Sends \ {s} : run[u].photo # p
    BY DEF FlightInv, OneRunPerPhoto, InFlightExact
  <1>3. RunsFit'
    BY <1>1 DEF FlightInv, RunsFit, Active
  <1>4. OneRunPerPhoto'
    <2> SUFFICES ASSUME NEW q \in Photos \ late', NEW u \in Sends, NEW v \in Sends,
                        run'[u].photo = q, run'[v].photo = q
                 PROVE  u = v
      BY DEF OneRunPerPhoto
    <2>1. CASE u = s \/ v = s
      BY <1>1, <1>2, <2>1
    <2>2. CASE u # s /\ v # s
      BY <1>1, <2>2 DEF FlightInv, OneRunPerPhoto
    <2> QED
      BY <2>1, <2>2
  <1>5. InFlightExact'
    <2> SUFFICES ASSUME NEW q \in Photos \ late'
                 PROVE  q \in inFlight' <=> \E u \in Sends : run'[u].photo = q
      BY DEF InFlightExact
    <2>1. CASE q = p
      BY <1>1, <2>1
    <2>2. CASE q # p
      <3>1. run[s].photo # q
        BY <2>2 DEF FlightInv, RunsFit
      <3>2. q \in inFlight <=> \E u \in Sends : run[u].photo = q
        BY DEF FlightInv, InFlightExact
      <3> QED
        BY <1>1, <2>2, <3>1, <3>2
    <2> QED
      BY <2>1, <2>2
  <1> QED
    BY <1>3, <1>4, <1>5 DEF FlightInv

(* So does Begin.                                                            *)
LEMMA BeginRuns ==
    ASSUME WorkTyped, FlightInv, NEW s \in Sends, NEW p \in Photos, NEW j \in Jobs,
           Begin(s, p, j), late \subseteq late',
           run[s].photo = p \/ (~Active(s) /\ (p \notin inFlight \/ p \in late'))
    PROVE  FlightInv' /\ run'[s].phase # "idle" /\ \A u \in Sends \ {s} : run'[u] = run[u]
  <1> DEFINE r == [Idle EXCEPT !.photo = p, !.phase = "token", !.tried = j.attempts,
                               !.enhanced = j.enhanced, !.found = j.found]
  <1>1. j.attempts \in 0..MaxAttempts /\ j.enhanced \in BOOLEAN /\ j.found \in BOOLEAN
    BY DEF Jobs
  <1>2. r \in Runs /\ r.photo = p /\ r.phase # "idle"
    BY <1>1, IdleTyped DEF Idle, Runs
  <1>3. run' = [run EXCEPT ![s] = r] /\ inFlight' = inFlight \cup {p}
    BY DEF Begin
  <1>4. FlightInv'
    BY <1>2, <1>3, TakeRuns
  <1>5. run'[s].phase # "idle" /\ \A u \in Sends \ {s} : run'[u] = run[u]
    BY <1>2, <1>3 DEF WorkTyped
  <1> QED
    BY <1>4, <1>5

(* An upload that ends frees its photo.                                      *)
LEMMA EndRuns ==
    ASSUME WorkTyped, FlightInv, NEW s \in Sends, Active(s), late' = late,
           run' = [run EXCEPT ![s] = Idle], inFlight' = Released(run[s].photo)
    PROVE  /\ FlightInv' /\ run' \in [Sends -> Runs] /\ inFlight' \subseteq Photos
           /\ run'[s].phase = "idle" /\ \A u \in Sends \ {s} : run'[u] = run[u]
  <1>1. /\ run'[s] = Idle /\ \A u \in Sends \ {s} : run'[u] = run[u]
        /\ run' \in [Sends -> Runs] /\ inFlight' \subseteq Photos
    BY IdleTyped DEF WorkTyped, Released
  <1>2. run'[s].phase = "idle" /\ run'[s].photo \notin Photos
    BY <1>1, IdleTyped
  <1>3. RunsFit'
    BY <1>1, <1>2 DEF FlightInv, RunsFit, Active
  <1>4. OneRunPerPhoto'
    BY <1>1, <1>2 DEF FlightInv, OneRunPerPhoto
  <1>5. run[s].photo \in Photos
    BY DEF FlightInv, RunsFit
  <1>6. InFlightExact'
    <2> SUFFICES ASSUME NEW q \in Photos \ late
                 PROVE  q \in inFlight' <=> \E u \in Sends : run'[u].photo = q
      BY DEF InFlightExact
    <2>1. q \in inFlight <=> \E u \in Sends : run[u].photo = q
      BY DEF FlightInv, InFlightExact
    <2>2. ASSUME NEW u \in Sends, run'[u].photo = q
          PROVE  q \in inFlight'
      <3>1. u # s /\ run[u].photo = q
        BY <1>1, <1>2, <2>2
      <3>2. q # run[s].photo
        BY <3>1 DEF FlightInv, OneRunPerPhoto
      <3> QED
        BY <2>1, <3>1, <3>2 DEF Released
    <2>3. ASSUME q \in inFlight'
          PROVE  \E u \in Sends : run'[u].photo = q
      <3>1. q \in inFlight /\ q # run[s].photo
        BY <2>3 DEF Released
      <3> QED
        BY <1>1, <2>1, <3>1
    <2> QED
      BY <2>2, <2>3
  <1> QED
    BY <1>1, <1>2, <1>3, <1>4, <1>6 DEF FlightInv

(* An upload that goes on keeps its photo.                                   *)
LEMMA KeepRuns ==
    ASSUME FlightInv, inFlight' = inFlight, late \subseteq late',
           \A u \in Sends : /\ run'[u].photo = run[u].photo
                            /\ run'[u].phase = "idle" <=> run[u].phase = "idle"
    PROVE  FlightInv'
  <1>1. RunsFit' /\ OneRunPerPhoto'
    BY DEF FlightInv, RunsFit, OneRunPerPhoto, Active
  <1>2. InFlightExact'
    BY DEF FlightInv, InFlightExact, Active
  <1> QED
    BY <1>1, <1>2 DEF FlightInv

(* Updates of one job.                                                       *)
LEMMA PutTyped ==
    ASSUME WorkTyped, NEW p \in Photos, NEW j \in Jobs
    PROVE  /\ Put(p, j) \in [Photos -> Jobs]
           /\ \A q \in Photos \ {p} : Put(p, j)[q].status = job[q].status
BY DEF Put, WorkTyped

(* The record of photos put back.                                            *)
LEMMA LeftTyped ==
    ASSUME left \subseteq Photos, NEW put \in SUBSET Photos, PutBack(put)
    PROVE  left' \subseteq Photos
  <1> DEFINE refused == IF drain.pc # "off" /\ EndsRefused' THEN Photos ELSE {}
  <1>1. refused \subseteq Photos
    OBVIOUS
  <1>2. left' = {q \in left \cup put \cup refused :
                   Pending(q)' /\ q \notin Listed' \cup inFlight'}
    BY DEF PutBack
  <1> HIDE DEF refused
  <1> QED
    BY <1>1, <1>2

(* What a banner may show.                                                   *)
LEMMA BannerTyped ==
    ASSUME NEW kind \in Offers, NEW p \in Photos, Shows(kind, p)
    PROVE  banner' \in Offers \X (Photos \cup {NoPhoto})
BY DEF Shows, NoBanner, Offers

(* No banner, which is what a banner that is used leaves.                    *)
LEMMA NoBannerTyped == NoBanner \in Offers \X (Photos \cup {NoPhoto})
BY DEF NoBanner, Offers

(* executeScan's finally keeps all that is known of the uploads and the
   drain.                                                                    *)
LEMMA EndsStep ==
    ASSUME IInv, NEW s \in Sends, Active(s), NEW st \in {"none", "enhanced", "images"},
           NEW wanted \in BOOLEAN, Ends(s, st, wanted), late' = late
    PROVE  /\ FlightInv' /\ run' \in [Sends -> Runs] /\ inFlight' \subseteq Photos
           /\ inFlight' = inFlight \ {run[s].photo}
           /\ DrainTyped' /\ DrainFits'
  <1>t. WorkTyped /\ DrainTyped /\ FlightInv /\ DrainFits
    BY Types DEF IInv
  <1>1. run' = [run EXCEPT ![s] = Idle] /\ inFlight' = Released(run[s].photo)
    BY DEF Ends
  <1>2. /\ FlightInv' /\ run' \in [Sends -> Runs] /\ inFlight' \subseteq Photos
        /\ run'[s].phase = "idle" /\ \A u \in Sends \ {s} : run'[u] = run[u]
    BY <1>t, <1>1, EndRuns
  <1>3. "drain" \in Sends
    BY DEF Sends
  <1>4. CASE s = "drain"
    <2>1. GoOn(drain.due, drain.rest, drain.skipped, st, drainAgain)
      BY <1>4 DEF Ends
    <2>2. /\ drain.due \in SUBSET Photos /\ drain.rest \in SUBSET Photos
          /\ drain.skipped \in BOOLEAN /\ drainAgain \in BOOLEAN
      BY <1>t DEF DrainTyped
    <2>3. DrainTyped' /\ drain'.pc \in {"off", "next"}
      BY <1>t, <2>1, <2>2, GoOnTyped
    <2> QED
      BY <1>1, <1>2, <1>4, <2>3 DEF DrainFits, Active, Released
  <1>5. CASE s # "drain"
    <2>1. run'["drain"] = run["drain"]
      BY <1>2, <1>3, <1>5
    <2>2. CASE drain.pc = "off" /\ StartDrain
      <3>1. DrainTyped' /\ drain'.pc \in {"off", "next"}
        BY <2>2, StartDrainTyped
      <3> QED
        BY <1>t, <1>1, <1>2, <2>1, <2>2, <3>1 DEF DrainFits, Active, Released
    <2>3. CASE stop' = st /\ drain' = drain /\ drainAgain' = drainAgain
      <3>1. DrainTyped'
        BY <1>t, <2>3 DEF DrainTyped
      <3> QED
        BY <1>t, <1>1, <1>2, <2>1, <2>3, <3>1 DEF DrainFits, Active, Released
    <2> QED
      BY <1>5, <2>2, <2>3 DEF Ends
  <1> QED
    BY <1>4, <1>5

(* An outcome that leaves the other photos' status alone keeps the
   invariant.                                                                *)
LEMMA OutcomeStep ==
    ASSUME IInv, NEW s \in Sends, Active(s), NEW st \in {"none", "enhanced", "images"},
           NEW wanted \in BOOLEAN, Ends(s, st, wanted),
           job' \in [Photos -> Jobs],
           \A q \in Photos \ {run[s].photo} : job'[q].status = job[q].status,
           banner' \in Offers \X (Photos \cup {NoPhoto}), online' = online, late' = late,
           NEW put \in SUBSET Photos, PutBack(put)
    PROVE  IInv'
  <1>t. WorkTyped /\ DrainTyped /\ EndTyped /\ StatusFits
    BY Types DEF IInv
  <1>1. /\ FlightInv' /\ run' \in [Sends -> Runs] /\ inFlight' \subseteq Photos
        /\ inFlight' = inFlight \ {run[s].photo}
        /\ DrainTyped' /\ DrainFits'
    BY EndsStep
  <1>2. WorkTyped'
    BY <1>1 DEF WorkTyped
  <1>3. EndTyped'
    BY <1>t, LeftTyped DEF EndTyped
  <1>4. StatusFits'
    BY <1>t, <1>1 DEF StatusFits, WorkTyped
  <1> QED
    BY <1>1, <1>2, <1>3, <1>4, Types DEF IInv, TypeOK, WorkTyped, DrainTyped, EndTyped

(* An upload that is at work, and its job.                                   *)
LEMMA AtWork ==
    ASSUME IInv, NEW s \in Sends, Active(s)
    PROVE  /\ run[s].photo \in Photos /\ job[run[s].photo] \in Jobs
           /\ run[s].tried \in 0..MaxAttempts /\ run[s].enhanced \in BOOLEAN
           /\ run[s].found \in BOOLEAN /\ WorkTyped
           /\ stop \in {"none", "enhanced", "images"}
           /\ banner \in Offers \X (Photos \cup {NoPhoto})
BY DEF IInv, TypeOK, FlightInv, RunsFit, Runs, WorkTyped

(* Its job as a result of the upload.                                        *)
LEMMA Results ==
    ASSUME NEW j \in Jobs, NEW b \in BOOLEAN
    PROVE  /\ Requeued(j) \in Jobs /\ Restored(j, b) \in Jobs
           /\ [j EXCEPT !.status = "queued"] \in Jobs
           /\ [j EXCEPT !.status = "failed", !.enhanced = FALSE] \in Jobs
           /\ [j EXCEPT !.status = "failed", !.attempts = 0, !.wait = "none"] \in Jobs
  <1>1. 0 \in 0..MaxAttempts
    BY QueueAssumption
  <1> QED
    BY <1>1 DEF Jobs, Statuses, Requeued, Restored

(* The outcomes of an upload keep the invariant.                             *)
LEMMA AnsweredStep ==
    ASSUME IInv, NEW s \in Sends, NEW books \in BOOLEAN, NEW repeat \in BOOLEAN,
           Answered(s, books, repeat)
    PROVE  IInv'
  <1> DEFINE p == run[s].photo
             after == [q \in Photos |->
                IF q = p /\ run[s].tried > 0 THEN [job[q] EXCEPT !.attempts = 0, !.wait = "none"]
                ELSE IF q # p /\ Awaiting(q) THEN [job[q] EXCEPT !.wait = "due"]
                ELSE job[q]]
             result ==
                IF ~books /\ Kept(s) THEN Restored(after[p], TRUE)
                ELSE IF ~books THEN [after[p] EXCEPT !.status = "failed"]
                ELSE IF repeat THEN [after[p] EXCEPT !.status = "gone"]
                ELSE [after[p] EXCEPT !.status = "complete", !.found = TRUE]
  <1>1. Active(s)
    BY DEF Answered, Concludes, Active
  <1>t. /\ p \in Photos /\ job \in [Photos -> Jobs]
        /\ stop \in {"none", "enhanced", "images"}
    BY <1>1, AtWork DEF WorkTyped
  <1>2. \A q \in Photos : after[q] \in Jobs /\ after[q].status = job[q].status
    <2> TAKE q \in Photos
    <2>1. job[q] \in Jobs /\ 0 \in 0..MaxAttempts
      BY <1>t, QueueAssumption
    <2>2. /\ [job[q] EXCEPT !.attempts = 0, !.wait = "none"] \in Jobs
          /\ [job[q] EXCEPT !.wait = "due"] \in Jobs
          /\ [job[q] EXCEPT !.attempts = 0, !.wait = "none"].status = job[q].status
          /\ [job[q] EXCEPT !.wait = "due"].status = job[q].status
      BY <2>1 DEF Jobs
    <2> QED
      BY <2>1, <2>2
  <1>3. result \in Jobs
    <2>1. after[p] \in Jobs
      BY <1>t, <1>2
    <2> HIDE DEF after
    <2>2. /\ Restored(after[p], TRUE) \in Jobs
          /\ [after[p] EXCEPT !.status = "failed"] \in Jobs
          /\ [after[p] EXCEPT !.status = "gone"] \in Jobs
          /\ [after[p] EXCEPT !.status = "complete", !.found = TRUE] \in Jobs
      BY <2>1 DEF Jobs, Statuses, Restored
    <2> QED
      BY <2>2
  <1>4. job' = IF Present(p) THEN [after EXCEPT ![p] = result] ELSE after
    BY DEF Answered
  <1>5. after \in [Photos -> Jobs]
    BY <1>2
  <1> HIDE DEF after, result
  <1>6. job' \in [Photos -> Jobs]
    BY <1>3, <1>4, <1>5
  <1>7. \A q \in Photos \ {p} : job'[q].status = job[q].status
    BY <1>2, <1>4, <1>5
  <1>8. banner' \in Offers \X (Photos \cup {NoPhoto})
    <2>1. PICK offer \in {"none", "empty"} : Shows(offer, p)
      BY DEF Answered
    <2> QED
      BY <1>t, <2>1, BannerTyped DEF Offers
  <1>9. /\ Ends(s, stop, Others(p) # {}) /\ online' = online /\ late' = late /\ PutBack({})
        /\ (Others(p) # {}) \in BOOLEAN /\ {} \in SUBSET Photos
    BY DEF Answered
  <1> QED
    BY <1>1, <1>t, <1>6, <1>7, <1>8, <1>9, OutcomeStep

(* A refusal.                                                                *)
LEMMA RefusedStep ==
    ASSUME IInv, NEW s \in Sends, NEW scope \in {"enhanced", "images"}, Refused(s, scope)
    PROVE  IInv'
  <1> DEFINE p == run[s].photo
             result == IF Kept(s) THEN Restored(job[p], FALSE) ELSE Requeued(job[p])
             put == IF Kept(s) THEN {} ELSE {p}
             st == IF stop = "images" THEN stop ELSE scope
  <1>1. Active(s)
    BY DEF Refused, Concludes, Active
  <1>t. p \in Photos /\ job[p] \in Jobs /\ WorkTyped /\ banner \in Offers \X (Photos \cup {NoPhoto})
    BY <1>1, AtWork
  <1>2. result \in Jobs
    BY <1>t, Results
  <1>3. job' = Put(p, result)
    BY DEF Refused
  <1> HIDE DEF result
  <1>4. /\ job' \in [Photos -> Jobs]
        /\ \A q \in Photos \ {p} : job'[q].status = job[q].status
    BY <1>t, <1>2, <1>3, PutTyped
  <1>5. Ends(s, st, FALSE) /\ banner' = banner /\ online' = online /\ late' = late /\ PutBack(put)
    BY DEF Refused
  <1>6. st \in {"none", "enhanced", "images"} /\ put \in SUBSET Photos
    BY <1>t
  <1> HIDE DEF st, put
  <1> QED
    BY <1>1, <1>t, <1>4, <1>5, <1>6, OutcomeStep

(* The server is unavailable.                                                *)
LEMMA UnavailableStep ==
    ASSUME IInv, NEW s \in Sends, Unavailable(s)
    PROVE  IInv'
  <1> DEFINE p == run[s].photo
             attempt == IF run[s].tried < MaxAttempts THEN run[s].tried + 1 ELSE MaxAttempts
             final == LastAttempt(attempt)
             result == [job[p] EXCEPT !.attempts = attempt,
                          !.status = IF final THEN "failed" ELSE "queued",
                          !.wait = IF final THEN "none" ELSE "future"]
             st == IF final THEN stop ELSE "images"
             wanted == final /\ Others(p) # {}
  <1>1. Active(s)
    BY DEF Unavailable, Concludes, Active
  <1>t. /\ p \in Photos /\ job[p] \in Jobs /\ WorkTyped
        /\ run[s].tried \in 0..MaxAttempts
        /\ stop \in {"none", "enhanced", "images"}
        /\ banner \in Offers \X (Photos \cup {NoPhoto})
    BY <1>1, AtWork
  <1>2. attempt \in 0..MaxAttempts
    BY <1>t, QueueAssumption
  <1>3. job' = Put(p, result)
    BY DEF Unavailable
  <1>4. Ends(s, st, wanted) /\ online' = online /\ late' = late /\ PutBack({}) /\ {} \in SUBSET Photos
    BY DEF Unavailable
  <1>5. banner' \in Offers \X (Photos \cup {NoPhoto})
    <2>1. Shows("final", p) \/ banner' = banner
      BY DEF Unavailable
    <2> QED
      BY <1>t, <2>1, BannerTyped DEF Offers
  <1>6. st \in {"none", "enhanced", "images"} /\ wanted \in BOOLEAN
    BY <1>t
  <1> HIDE DEF attempt, final, st, wanted
  <1>7. result \in Jobs
    <2>1. IF final THEN result = [job[p] EXCEPT !.attempts = attempt, !.status = "failed", !.wait = "none"]
          ELSE result = [job[p] EXCEPT !.attempts = attempt, !.status = "queued", !.wait = "future"]
      OBVIOUS
    <2> QED
      BY <1>t, <1>2, <2>1 DEF Jobs, Statuses
  <1> HIDE DEF result
  <1>8. /\ job' \in [Photos -> Jobs]
        /\ \A q \in Photos \ {p} : job'[q].status = job[q].status
    BY <1>t, <1>3, <1>7, PutTyped
  <1> QED
    BY <1>1, <1>t, <1>4, <1>5, <1>6, <1>8, OutcomeStep

(* An enhanced scan is refused.                                              *)
LEMMA EnhancedRefusedStep ==
    ASSUME IInv, NEW s \in Sends, EnhancedRefused(s)
    PROVE  IInv'
  <1> DEFINE p == run[s].photo
             result == IF run[s].found THEN Restored(job[p], FALSE)
                       ELSE [job[p] EXCEPT !.status = "failed", !.enhanced = FALSE]
             st == IF stop = "none" THEN "enhanced" ELSE stop
  <1>1. Active(s)
    BY DEF EnhancedRefused, Concludes, Active
  <1>t. /\ p \in Photos /\ job[p] \in Jobs /\ WorkTyped
        /\ stop \in {"none", "enhanced", "images"}
    BY <1>1, AtWork
  <1>2. result \in Jobs
    BY <1>t, Results
  <1>3. job' = Put(p, result)
    BY DEF EnhancedRefused
  <1> HIDE DEF result
  <1>4. /\ job' \in [Photos -> Jobs]
        /\ \A q \in Photos \ {p} : job'[q].status = job[q].status
    BY <1>t, <1>2, <1>3, PutTyped
  <1>5. Ends(s, st, FALSE) /\ Shows("none", p) /\ online' = online /\ late' = late /\ PutBack({})
    BY DEF EnhancedRefused
  <1>6. st \in {"none", "enhanced", "images"} /\ {} \in SUBSET Photos
    BY <1>t
  <1>7. banner' \in Offers \X (Photos \cup {NoPhoto})
    BY <1>t, <1>5, BannerTyped DEF Offers
  <1> HIDE DEF st
  <1> QED
    BY <1>1, <1>t, <1>4, <1>5, <1>6, <1>7, OutcomeStep

(* A failure.                                                                *)
LEMMA FailsStep ==
    ASSUME IInv, NEW s \in Sends, Fails(s)
    PROVE  IInv'
  <1> DEFINE p == run[s].photo
             result == IF Kept(s) THEN Restored(job[p], FALSE)
                       ELSE [job[p] EXCEPT !.status = "failed", !.attempts = 0, !.wait = "none"]
  <1>1. Active(s)
    BY DEF Fails, Concludes, Active
  <1>t. /\ p \in Photos /\ job[p] \in Jobs /\ WorkTyped
        /\ stop \in {"none", "enhanced", "images"}
    BY <1>1, AtWork
  <1>2. result \in Jobs
    BY <1>t, Results
  <1>3. job' = Put(p, result)
    BY DEF Fails
  <1> HIDE DEF result
  <1>4. /\ job' \in [Photos -> Jobs]
        /\ \A q \in Photos \ {p} : job'[q].status = job[q].status
    BY <1>t, <1>2, <1>3, PutTyped
  <1>5. Ends(s, stop, FALSE) /\ online' = online /\ late' = late /\ PutBack({}) /\ {} \in SUBSET Photos
    BY DEF Fails
  <1>6. banner' \in Offers \X (Photos \cup {NoPhoto})
    <2>1. Shows(IF Kept(s) THEN "none" ELSE "failed", p)
      BY DEF Fails
    <2>2. (IF Kept(s) THEN "none" ELSE "failed") \in Offers
      BY DEF Offers
    <2> QED
      BY <1>t, <2>1, <2>2, BannerTyped
  <1> QED
    BY <1>1, <1>t, <1>4, <1>5, <1>6, OutcomeStep

(* No response.                                                              *)
LEMMA LostStep ==
    ASSUME IInv, NEW s \in Sends, Lost(s)
    PROVE  IInv'
  <1> DEFINE p == run[s].photo
             result == [job[p] EXCEPT !.status = "queued",
                            !.wait = IF run[s].tried > 0 THEN "future" ELSE @]
             put == IF run[s].tried > 0 THEN {} ELSE {p}
  <1>1. Active(s)
    BY DEF Lost, Concludes, Active
  <1>t. /\ p \in Photos /\ job[p] \in Jobs /\ WorkTyped
        /\ stop \in {"none", "enhanced", "images"}
    BY <1>1, AtWork
  <1>2. result \in Jobs
    BY <1>t DEF Jobs, Statuses
  <1>3. job' = Put(p, result)
    BY DEF Lost
  <1> HIDE DEF result
  <1>4. /\ job' \in [Photos -> Jobs]
        /\ \A q \in Photos \ {p} : job'[q].status = job[q].status
    BY <1>t, <1>2, <1>3, PutTyped
  <1>5. Ends(s, stop, FALSE) /\ Shows("none", p) /\ online' = online /\ late' = late /\ PutBack(put)
    BY DEF Lost
  <1>6. put \in SUBSET Photos
    BY <1>t
  <1>7. banner' \in Offers \X (Photos \cup {NoPhoto})
    BY <1>t, <1>5, BannerTyped DEF Offers
  <1> HIDE DEF put
  <1> QED
    BY <1>1, <1>t, <1>4, <1>5, <1>6, <1>7, OutcomeStep

(* Signed out since.                                                         *)
LEMMA DropsOutStep ==
    ASSUME IInv, NEW s \in Sends, DropsOut(s)
    PROVE  IInv'
  <1>1. Active(s)
    BY DEF DropsOut, Active
  <1>t. /\ WorkTyped /\ stop \in {"none", "enhanced", "images"}
        /\ banner \in Offers \X (Photos \cup {NoPhoto})
    BY <1>1, AtWork
  <1>2. /\ Ends(s, stop, FALSE) /\ job' = job /\ banner' = banner /\ online' = online /\ late' = late
        /\ PutBack({}) /\ {} \in SUBSET Photos
    BY DEF DropsOut
  <1>3. /\ job' \in [Photos -> Jobs]
        /\ \A q \in Photos \ {run[s].photo} : job'[q].status = job[q].status
    BY <1>t, <1>2 DEF WorkTyped
  <1> QED
    BY <1>1, <1>t, <1>2, <1>3, OutcomeStep

(* An upload that is only under way again.                                   *)
LEMMA GoingOnStep ==
    ASSUME IInv, NEW s \in Sends, NEW r \in Runs,
           r.photo = run[s].photo, run[s].phase = "posted" \/ run[s].phase = "token",
           r.phase = "posted" \/ r.phase = "token", run' = [run EXCEPT ![s] = r],
           UNCHANGED <<job, inFlight, drainVars, banner, online, late, left>>
    PROVE  IInv'
  <1>t. WorkTyped /\ FlightInv /\ DrainFits
    BY Types DEF IInv
  <1>1. run' \in [Sends -> Runs]
    BY <1>t DEF WorkTyped
  <1>2. \A u \in Sends : /\ run'[u].photo = run[u].photo
                         /\ run'[u].phase = "idle" <=> run[u].phase = "idle"
                         /\ run'[u].phase = "check" => run[u].phase = "check"
    BY <1>t DEF WorkTyped
  <1>3. FlightInv'
    BY <1>t, <1>2, KeepRuns
  <1>4. "drain" \in Sends
    BY DEF Sends
  <1>5. DrainFits'
    BY <1>t, <1>2, <1>4 DEF DrainFits, Active, drainVars
  <1> QED
    BY <1>1, <1>3, <1>5 DEF IInv, TypeOK, StatusFits, drainVars

(* A silent repeat.                                                          *)
LEMMA BusyStep ==
    ASSUME IInv, NEW s \in Sends, Busy(s)
    PROVE  IInv'
  <1> DEFINE r == [run[s] EXCEPT !.phase = "token", !.busy = @ + 1]
  <1>1. run[s] \in Runs /\ run[s].busy < MaxBusy /\ run[s].phase = "posted"
    BY DEF IInv, TypeOK, Busy, RepeatsLeft, Concludes
  <1>2. run[s].busy + 1 \in 0..MaxBusy
    BY <1>1, QueueAssumption DEF Runs
  <1>3. r \in Runs /\ r.photo = run[s].photo /\ r.phase = "token"
    BY <1>1, <1>2 DEF Runs
  <1>4. /\ run' = [run EXCEPT ![s] = r]
        /\ UNCHANGED <<job, inFlight, drainVars, banner, online, late, left>>
    BY DEF Busy
  <1> HIDE DEF r
  <1> QED
    BY <1>1, <1>3, <1>4, GoingOnStep

(* The photo is posted.                                                      *)
LEMMA PostStep ==
    ASSUME IInv, NEW s \in Sends, Post(s)
    PROVE  IInv'
  <1> DEFINE r == [run[s] EXCEPT !.phase = "posted"]
  <1>1. run[s] \in Runs /\ run[s].phase = "token"
    BY DEF IInv, TypeOK, Post
  <1>2. r \in Runs /\ r.photo = run[s].photo /\ r.phase = "posted"
    BY <1>1 DEF Runs
  <1>3. /\ run' = [run EXCEPT ![s] = r]
        /\ UNCHANGED <<job, inFlight, drainVars, banner, online, late, left>>
    BY DEF Post
  <1> HIDE DEF r
  <1> QED
    BY <1>1, <1>2, <1>3, GoingOnStep

(* Every way an upload goes on or ends keeps the invariant.                  *)
LEMMA OutcomesStep ==
    ASSUME IInv, NEW s \in Sends, Outcome(s)
    PROVE  IInv'
BY AnsweredStep, BusyStep, RefusedStep, UnavailableStep, EnhancedRefusedStep, FailsStep,
   LostStep, DropsOutStep DEF Outcome

-----------------------------------------------------------------------------
(* The drain.                                                                *)

(* The parts of the invariant, put together.                                 *)
LEMMA Assembled ==
    ASSUME WorkTyped', DrainTyped', EndTyped', FlightInv', StatusFits', DrainFits'
    PROVE  IInv'
BY DEF IInv, TypeOK, WorkTyped, DrainTyped, EndTyped

(* A step that touches no upload, and no job but those not in flight.        *)
LEMMA JobsStep ==
    ASSUME IInv, UNCHANGED <<run, inFlight>>, job' \in [Photos -> Jobs],
           late \subseteq late', \A q \in inFlight \ late' : job'[q].status = job[q].status,
           DrainTyped', drain'.pc = "sending" <=> drain.pc = "sending", EndTyped'
    PROVE  IInv'
  <1>t. WorkTyped /\ FlightInv /\ StatusFits /\ DrainFits
    BY Types DEF IInv
  <1>1. WorkTyped'
    BY <1>t DEF WorkTyped
  <1>2. FlightInv'
    BY <1>t, KeepRuns
  <1>3. StatusFits'
    BY <1>t DEF StatusFits
  <1>4. DrainFits'
    BY <1>t DEF DrainFits, Active
  <1> QED
    BY <1>1, <1>2, <1>3, <1>4, Assembled

(* A step of the drain that sends nothing.                                   *)
LEMMA QuietStep ==
    ASSUME IInv, UNCHANGED <<workVars, banner, online, late>>, DrainTyped',
           drain'.pc = "sending" <=> drain.pc = "sending",
           NEW put \in SUBSET Photos, PutBack(put)
    PROVE  IInv'
  <1>t. WorkTyped /\ EndTyped
    BY Types DEF IInv
  <1>1. EndTyped'
    BY <1>t, LeftTyped DEF EndTyped
  <1>2. job' = job /\ run' = run /\ inFlight' = inFlight /\ late \subseteq late'
    BY DEF workVars
  <1>3. /\ job' \in [Photos -> Jobs]
        /\ \A q \in inFlight : job'[q].status = job[q].status
    BY <1>t, <1>2 DEF WorkTyped
  <1> QED
    BY <1>1, <1>2, <1>3, JobsStep

(* A drain that starts, or one that runs already.                            *)
LEMMA DrainUnlessDrainingTyped ==
    ASSUME DrainTyped, DrainUnlessDraining
    PROVE  DrainTyped' /\ (drain'.pc = "sending" <=> drain.pc = "sending")
  <1>1. CASE drain.pc = "off"
    <2>1. DrainTyped' /\ drain'.pc \in {"off", "next"}
      BY <1>1, StartDrainTyped DEF DrainUnlessDraining
    <2> QED
      BY <1>1, <2>1
  <1>2. CASE drain.pc # "off"
    BY <1>2 DEF DrainUnlessDraining, drainVars, DrainTyped
  <1> QED
    BY <1>1, <1>2

(* The next photo of a pass.                                                 *)
LEMMA DrainNextStep ==
    ASSUME IInv, NEW p \in Photos, DrainNext(p)
    PROVE  IInv'
  <1> DEFINE due == drain.due \ {p}
             rest == drain.rest \ {p}
             skipped == drain.skipped \/ HeldByWait(p)
             again == drainAgain \/ AnotherUploads(p)
  <1>t. WorkTyped /\ DrainTyped /\ EndTyped /\ FlightInv /\ StatusFits /\ DrainFits
    BY Types DEF IInv
  <1>1. /\ due \in SUBSET Photos /\ rest \in SUBSET Photos
        /\ skipped \in BOOLEAN /\ again \in BOOLEAN
        /\ stop \in {"none", "enhanced", "images"}
    BY <1>t DEF DrainTyped, HeldByWait, AnotherUploads
  <1>2. /\ drain.pc = "next" /\ UNCHANGED <<banner, online, late>>
        /\ PutBack({}) /\ {} \in SUBSET Photos
    BY DEF DrainNext
  <1>3. ASSUME MaySend(p), Begin("drain", p, job[p]),
               drain' = [drain EXCEPT !.pc = "sending", !.due = due, !.rest = rest,
                                      !.skipped = skipped],
               UNCHANGED <<stop, drainAgain>>
        PROVE  IInv'
    <2> HIDE DEF due, rest, skipped
    <2>1. "drain" \in Sends /\ ~Active("drain") /\ p \notin inFlight /\ job[p] \in Jobs
      BY <1>t, <1>2, <1>3 DEF Sends, DrainFits, MaySend, WorkTyped
    <2>2. WorkTyped'
      BY <1>t, <1>3, <2>1, BeginTyped
    <2>3. FlightInv' /\ run'["drain"].phase # "idle"
      BY <1>t, <1>2, <1>3, <2>1, BeginRuns
    <2>4. run'["drain"].phase = "token"
      BY <1>t, <1>3, <2>1 DEF Begin, WorkTyped, Idle
    <2>5. DrainTyped' /\ drain'.pc = "sending"
      BY <1>t, <1>1, <1>3 DEF DrainTyped
    <2>6. DrainFits'
      BY <2>3, <2>4, <2>5 DEF DrainFits, Active
    <2>7. StatusFits'
      BY <1>t, <1>2, <1>3 DEF StatusFits, Begin, WorkTyped
    <2>8. EndTyped'
      BY <1>t, <1>2, LeftTyped DEF EndTyped
    <2> QED
      BY <2>2, <2>3, <2>5, <2>6, <2>7, <2>8, Assembled
  <1>4. ASSUME UNCHANGED workVars, GoOn(due, rest, skipped, stop, again)
        PROVE  IInv'
    <2> HIDE DEF due, rest, skipped, again
    <2>1. DrainTyped' /\ drain'.pc \in {"off", "next"}
      BY <1>t, <1>1, <1>4, GoOnTyped
    <2> QED
      BY <1>2, <1>4, <2>1, QuietStep
  <1> QED
    BY <1>3, <1>4 DEF DrainNext

(* A pass that ends offline.                                                 *)
LEMMA DrainOfflineStep ==
    ASSUME IInv, DrainOffline
    PROVE  IInv'
  <1>t. DrainTyped
    BY Types DEF IInv
  <1>1. /\ Finish(drain.skipped, stop, drainAgain)
        /\ drain.pc = "next" /\ UNCHANGED <<workVars, banner, online, late>> /\ PutBack(Listed)
    BY DEF DrainOffline
  <1>2. Listed \in SUBSET Photos
    BY <1>t DEF Listed, DrainTyped
  <1>3. /\ drain.skipped \in BOOLEAN /\ stop \in {"none", "enhanced", "images"}
        /\ drainAgain \in BOOLEAN
    BY <1>t DEF DrainTyped
  <1>4. DrainTyped' /\ drain'.pc \in {"off", "next"}
    BY <1>t, <1>1, <1>3, FinishTyped
  <1> QED
    BY <1>1, <1>2, <1>4, QuietStep

(* The retry timer.                                                          *)
LEMMA RetryTimerStep ==
    ASSUME IInv, RetryTimer
    PROVE  IInv'
  <1>1. /\ StartDrain /\ drain.pc = "off" /\ UNCHANGED <<workVars, banner, online, late>>
        /\ PutBack({}) /\ {} \in SUBSET Photos
    BY DEF RetryTimer
  <1>2. DrainTyped' /\ drain'.pc \in {"off", "next"}
    BY <1>1, StartDrainTyped
  <1> QED
    BY <1>1, <1>2, QuietStep

(* "Try again" and "Send now".                                               *)
LEMMA ResumeQueueStep ==
    ASSUME IInv, ResumeQueue
    PROVE  IInv'
  <1>t. DrainTyped
    BY Types DEF IInv
  <1>1. /\ DrainUnlessDraining /\ UNCHANGED <<workVars, banner, online, late>>
        /\ PutBack({}) /\ {} \in SUBSET Photos
    BY DEF ResumeQueue
  <1>2. DrainTyped' /\ (drain'.pc = "sending" <=> drain.pc = "sending")
    BY <1>t, <1>1, DrainUnlessDrainingTyped
  <1> QED
    BY <1>1, <1>2, QuietStep

(* A scheduled attempt falls due.                                            *)
LEMMA FallsDueStep ==
    ASSUME IInv, NEW p \in Photos, FallsDue(p)
    PROVE  IInv'
  <1>t. WorkTyped /\ DrainTyped /\ EndTyped
    BY Types DEF IInv
  <1>1. /\ job' = [job EXCEPT ![p].wait = "due"]
        /\ UNCHANGED <<run, inFlight, drainVars, banner, online, late, left>>
    BY DEF FallsDue
  <1>2. /\ job' \in [Photos -> Jobs]
        /\ \A q \in Photos : job'[q].status = job[q].status
    <2>1. [job[p] EXCEPT !.wait = "due"] \in Jobs
      BY <1>t DEF WorkTyped, Jobs
    <2>2. job' = [job EXCEPT ![p] = [job[p] EXCEPT !.wait = "due"]]
      BY <1>1
    <2>3. [job[p] EXCEPT !.wait = "due"].status = job[p].status
      BY <1>t DEF WorkTyped, Jobs
    <2> QED
      BY <1>t, <2>1, <2>2, <2>3 DEF WorkTyped
  <1>3. DrainTyped' /\ drain' = drain /\ EndTyped'
    BY <1>t, <1>1 DEF DrainTyped, EndTyped, drainVars
  <1> QED
    BY <1>t, <1>1, <1>2, <1>3, JobsStep DEF WorkTyped

-----------------------------------------------------------------------------
(* What the user does.                                                       *)

(* An upload the user starts is not the drain's.                             *)
LEMMA HandsAside == /\ Hands \subseteq Sends /\ "drain" \in Sends
                    /\ \A s \in Hands : s # "drain"
BY QueueAssumption DEF Sends

(* A photo listed otherwise than as waiting or sent is not in flight.        *)
LEMMA NotInFlight ==
    ASSUME StatusFits, NEW p \in Photos, job[p].status \in {"none", "complete", "failed"}
    PROVE  p \notin inFlight \/ p \in late
BY DEF StatusFits

(* A photo whose banner is used has failed, or that is recorded.             *)
LEMMA OfferedLate ==
    ASSUME IInv, NEW kind, NEW p \in Photos, Offered(kind, p)
    PROVE  /\ late \subseteq late' /\ late' \subseteq Photos
           /\ p \in late' \/ (job[p].status = "failed" /\ p \notin inFlight)
  <1>1. late' = late \cup {q \in {p} : MovedOn(q)} /\ late \subseteq Photos /\ StatusFits
    BY DEF Offered, IInv, TypeOK
  <1> QED
    BY <1>1, NotInFlight DEF MovedOn

(* A photo begins to be sent by hand.                                        *)
LEMMA BeginStep ==
    ASSUME IInv, NEW s \in Sends, s # "drain", NEW p \in Photos, NEW j \in Jobs,
           Begin(s, p, j), late \subseteq late', late' \subseteq Photos,
           run[s].photo = p \/ (~Active(s) /\ (p \notin inFlight \/ p \in late')),
           UNCHANGED <<drainVars, online>>,
           banner' \in Offers \X (Photos \cup {NoPhoto}),
           NEW put \in SUBSET Photos, PutBack(put)
    PROVE  IInv'
  <1>t. WorkTyped /\ DrainTyped /\ EndTyped /\ FlightInv /\ StatusFits /\ DrainFits
    BY Types DEF IInv
  <1>1. WorkTyped'
    BY <1>t, BeginTyped
  <1>2. FlightInv' /\ \A u \in Sends \ {s} : run'[u] = run[u]
    BY <1>t, BeginRuns
  <1>3. DrainTyped'
    BY <1>t DEF DrainTyped, drainVars
  <1>4. DrainFits'
    <2>1. run'["drain"] = run["drain"]
      BY <1>2 DEF Sends
    <2> QED
      BY <1>t, <2>1 DEF DrainFits, Active, drainVars
  <1>5. StatusFits'
    BY <1>t DEF StatusFits, Begin, WorkTyped
  <1>6. EndTyped'
    BY <1>t, LeftTyped DEF EndTyped
  <1> QED
    BY <1>1, <1>2, <1>3, <1>4, <1>5, <1>6, Assembled

(* A new photo: it was in no list, so nobody holds it.                       *)
LEMMA StartScanStep ==
    ASSUME IInv, NEW s \in Hands, NEW p \in Photos, StartScan(s, p)
    PROVE  IInv'
  <1> DEFINE r == [Idle EXCEPT !.photo = p, !.phase = "check"]
  <1>t. WorkTyped /\ DrainTyped /\ EndTyped /\ FlightInv /\ StatusFits /\ DrainFits
    BY Types DEF IInv
  <1>1. /\ ~Active(s) /\ job[p].status = "none"
        /\ job' = [job EXCEPT ![p].status = "pending"]
        /\ run' = [run EXCEPT ![s] = r] /\ inFlight' = inFlight \cup {p}
        /\ UNCHANGED <<drainVars, banner, online, late, left>>
    BY DEF StartScan
  <1>2. s \in Sends /\ s # "drain" /\ "drain" \in Sends
    BY HandsAside
  <1>3. r \in Runs /\ r.photo = p /\ r.phase = "check"
    BY IdleTyped DEF Idle, Runs
  <1>4. p \notin inFlight \/ p \in late'
    BY <1>t, <1>1, NotInFlight
  <1> HIDE DEF r
  <1>5. FlightInv'
    BY <1>t, <1>1, <1>2, <1>3, <1>4, TakeRuns
  <1>6. WorkTyped'
    <2>1. [job[p] EXCEPT !.status = "pending"] \in Jobs
      BY <1>t DEF WorkTyped, Jobs, Statuses
    <2>2. job' = [job EXCEPT ![p] = [job[p] EXCEPT !.status = "pending"]]
      BY <1>1
    <2> QED
      BY <1>t, <1>1, <1>3, <2>1, <2>2 DEF WorkTyped
  <1>7. StatusFits'
    <2>1. job'[p].status = "pending" /\ \A q \in Photos \ {p} : job'[q] = job[q]
      BY <1>t, <1>1 DEF WorkTyped, Jobs
    <2> QED
      BY <1>t, <1>1, <2>1 DEF StatusFits, WorkTyped
  <1>8. DrainFits'
    <2>1. run'["drain"] = run["drain"]
      BY <1>t, <1>1, <1>2 DEF WorkTyped
    <2> QED
      BY <1>t, <1>1, <2>1 DEF DrainFits, Active, drainVars
  <1>9. DrainTyped' /\ EndTyped'
    BY <1>t, <1>1 DEF DrainTyped, EndTyped, drainVars
  <1> QED
    BY <1>5, <1>6, <1>7, <1>8, <1>9, Assembled

(* Its connectivity check: it is sent, or goes back into the queue.          *)
LEMMA CheckedStep ==
    ASSUME IInv, NEW s \in Sends, Checked(s)
    PROVE  IInv'
  <1> DEFINE p == run[s].photo
             put == IF online \/ run[s].stale THEN {} ELSE {p}
  <1>t. WorkTyped /\ DrainTyped /\ EndTyped /\ FlightInv /\ StatusFits /\ DrainFits
    BY Types DEF IInv
  <1>1. /\ run[s].phase = "check" /\ Active(s) /\ s # "drain"
        /\ UNCHANGED <<drainVars, online, late>> /\ PutBack(put) /\ late' \subseteq Photos
    BY <1>t DEF Checked, Active, DrainFits, EndTyped
  <1>2. p \in Photos /\ job[p] \in Jobs /\ banner \in Offers \X (Photos \cup {NoPhoto})
    BY <1>1, AtWork
  <1>3. put \in SUBSET Photos
    BY <1>2
  <1>4. ASSUME Begin(s, p, job[p]), UNCHANGED banner
        PROVE  IInv'
    BY <1>1, <1>2, <1>3, <1>4, BeginStep
  <1>5. ASSUME job' = IF run[s].stale THEN job ELSE Put(p, [job[p] EXCEPT !.status = "queued"]),
               run' = [run EXCEPT ![s] = Idle], inFlight' = Released(p),
               IF run[s].stale THEN UNCHANGED banner ELSE Shows("none", p)
        PROVE  IInv'
    <2>1. /\ FlightInv' /\ run' \in [Sends -> Runs] /\ inFlight' \subseteq Photos
          /\ \A u \in Sends \ {s} : run'[u] = run[u]
      BY <1>t, <1>1, <1>5, EndRuns
    <2>2. [job[p] EXCEPT !.status = "queued"] \in Jobs
      BY <1>2, Results
    <2>3. /\ job' \in [Photos -> Jobs]
          /\ \A q \in Photos \ {p} : job'[q].status = job[q].status
      <3>1. CASE run[s].stale
        BY <1>t, <1>5, <3>1 DEF WorkTyped
      <3>2. CASE ~run[s].stale
        <4>1. job' = Put(p, [job[p] EXCEPT !.status = "queued"])
          BY <1>5, <3>2
        <4> QED
          BY <1>t, <1>2, <2>2, <4>1, PutTyped
      <3> QED
        BY <3>1, <3>2
    <2>4. StatusFits'
      BY <1>t, <1>1, <1>5, <2>1, <2>3 DEF StatusFits, Released
    <2>5. DrainFits'
      <3>1. run'["drain"] = run["drain"]
        BY <1>1, <2>1 DEF Sends
      <3> QED
        BY <1>t, <1>1, <3>1 DEF DrainFits, Active, drainVars
    <2>6. banner' \in Offers \X (Photos \cup {NoPhoto})
      BY <1>2, <1>5, BannerTyped DEF Offers
    <2>7. EndTyped'
      BY <1>t, <1>1, <1>3, <2>6, LeftTyped DEF EndTyped
    <2>8. DrainTyped'
      BY <1>t, <1>1 DEF DrainTyped, drainVars
    <2>9. WorkTyped'
      BY <2>1, <2>3 DEF WorkTyped
    <2> QED
      BY <2>1, <2>4, <2>5, <2>7, <2>8, <2>9, Assembled
  <1> QED
    BY <1>4, <1>5 DEF Checked

(* A photo put back into the queue by hand.                                  *)
LEMMA QueuedStep ==
    ASSUME IInv, NEW p \in Photos, NEW j \in Jobs, job' = Put(p, j),
           late \subseteq late', late' \subseteq Photos, p \notin inFlight \/ p \in late',
           UNCHANGED <<run, inFlight, drainVars, online>>,
           banner' \in Offers \X (Photos \cup {NoPhoto}),
           NEW put \in SUBSET Photos, PutBack(put)
    PROVE  IInv'
  <1>t. WorkTyped /\ DrainTyped /\ EndTyped
    BY Types DEF IInv
  <1>1. /\ job' \in [Photos -> Jobs]
        /\ \A q \in Photos \ {p} : job'[q].status = job[q].status
    BY <1>t, PutTyped
  <1>2. \A q \in inFlight \ late' : job'[q].status = job[q].status
    BY <1>t, <1>1 DEF WorkTyped
  <1>3. EndTyped'
    BY <1>t, LeftTyped DEF EndTyped
  <1>4. DrainTyped' /\ drain' = drain
    BY <1>t DEF DrainTyped, drainVars
  <1> QED
    BY <1>1, <1>2, <1>3, <1>4, JobsStep

(* "Retry now" of a failure's banner.                                        *)
LEMMA RetryScanStep ==
    ASSUME IInv, NEW s \in Hands, NEW p \in Photos, RetryScan(s, p)
    PROVE  IInv'
  <1>t. WorkTyped
    BY Types DEF IInv
  <1>1. /\ ~Active(s) /\ banner' = NoBanner /\ Offered("failed", p)
        /\ UNCHANGED <<drainVars, online>> /\ PutBack({p}) /\ {p} \in SUBSET Photos
    BY DEF RetryScan
  <1>2. late \subseteq late' /\ late' \subseteq Photos /\ (p \notin inFlight \/ p \in late')
    BY <1>1, OfferedLate
  <1>3. s \in Sends /\ s # "drain"
    BY HandsAside
  <1>4. job[p] \in Jobs
    BY <1>t DEF WorkTyped
  <1>5. banner' \in Offers \X (Photos \cup {NoPhoto})
    BY <1>1, NoBannerTyped
  <1>6. CASE Begin(s, p, job[p])
    BY <1>1, <1>2, <1>3, <1>4, <1>5, <1>6, BeginStep
  <1>7. ASSUME job' = Put(p, [job[p] EXCEPT !.status = "queued"]),
               UNCHANGED <<run, inFlight>>
        PROVE  IInv'
    <2>1. [job[p] EXCEPT !.status = "queued"] \in Jobs
      BY <1>4, Results
    <2> QED
      BY <1>1, <1>2, <1>5, <1>7, <2>1, QueuedStep
  <1> QED
    BY <1>6, <1>7 DEF RetryScan

(* "Save for later" of the same banner.                                      *)
LEMMA QueueForLaterStep ==
    ASSUME IInv, NEW p \in Photos, QueueForLater(p)
    PROVE  IInv'
  <1>t. WorkTyped
    BY Types DEF IInv
  <1>1. /\ Offered("failed", p) /\ banner' = NoBanner
        /\ job' = Put(p, [job[p] EXCEPT !.status = "queued"])
        /\ UNCHANGED <<run, inFlight, drainVars, online>>
        /\ PutBack({p}) /\ {p} \in SUBSET Photos
    BY DEF QueueForLater
  <1>2. late \subseteq late' /\ late' \subseteq Photos /\ (p \notin inFlight \/ p \in late')
    BY <1>1, OfferedLate
  <1>3. [job[p] EXCEPT !.status = "queued"] \in Jobs
    BY <1>t, Results DEF WorkTyped
  <1>4. banner' \in Offers \X (Photos \cup {NoPhoto})
    BY <1>1, NoBannerTyped
  <1> QED
    BY <1>1, <1>2, <1>3, <1>4, QueuedStep

(* A failed photo starts its schedule over.                                  *)
LEMMA RestartScheduleStep ==
    ASSUME IInv, NEW s \in Hands, NEW p \in Photos, RestartSchedule(s, p)
    PROVE  IInv'
  <1>t. WorkTyped /\ DrainTyped /\ EndTyped
    BY Types DEF IInv
  <1>1. /\ ~Active(s) /\ p \notin inFlight
        /\ banner' = IF banner = <<"final", p>> THEN NoBanner ELSE banner
        /\ UNCHANGED <<online, late>> /\ PutBack({}) /\ {} \in SUBSET Photos
        /\ late' \subseteq Photos
    BY <1>t DEF RestartSchedule, EndTyped
  <1>2. s \in Sends /\ s # "drain"
    BY HandsAside
  <1>3. Requeued(job[p]) \in Jobs
    BY <1>t, Results DEF WorkTyped
  <1>4. banner' \in Offers \X (Photos \cup {NoPhoto})
    BY <1>t, <1>1, NoBannerTyped DEF EndTyped
  <1>5. ASSUME Begin(s, p, Requeued(job[p])), UNCHANGED drainVars
        PROVE  IInv'
    BY <1>1, <1>2, <1>3, <1>4, <1>5, BeginStep
  <1>6. ASSUME job' = [job EXCEPT ![p] = Requeued(@)], UNCHANGED <<run, inFlight>>,
               \/ drain.pc # "off" /\ drainAgain' = TRUE /\ UNCHANGED <<drain, stop>>
               \/ drainAgain' = TRUE /\ UNCHANGED <<drain, stop>>
               \/ drain.pc = "off" /\ StartDrain
        PROVE  IInv'
    <2>1. job' \in [Photos -> Jobs]
      BY <1>t, <1>3, <1>6 DEF WorkTyped
    <2>2. \A q \in inFlight : job'[q].status = job[q].status
      BY <1>t, <1>1, <1>6 DEF WorkTyped
    <2>3. DrainTyped' /\ (drain'.pc = "sending" <=> drain.pc = "sending")
      <3>1. CASE drainAgain' = TRUE /\ UNCHANGED <<drain, stop>>
        BY <1>t, <3>1 DEF DrainTyped
      <3>2. CASE drain.pc = "off" /\ StartDrain
        <4>1. DrainTyped' /\ drain'.pc \in {"off", "next"}
          BY <3>2, StartDrainTyped
        <4> QED
          BY <3>2, <4>1
      <3> QED
        BY <1>6, <3>1, <3>2
    <2>4. EndTyped'
      BY <1>t, <1>1, <1>4, LeftTyped DEF EndTyped
    <2> QED
      BY <1>1, <1>6, <2>1, <2>2, <2>3, <2>4, JobsStep
  <1> QED
    BY <1>5, <1>6 DEF RestartSchedule

(* An enhanced scan of a photo that is done, or failed with a banner.        *)
LEMMA RequestEnhancedStep ==
    ASSUME IInv, NEW s \in Hands, NEW p \in Photos, RequestEnhanced(s, p)
    PROVE  IInv'
  <1>t. WorkTyped /\ EndTyped /\ StatusFits
    BY Types DEF IInv
  <1>1. /\ ~Active(s)
        /\ \/ job[p].status = "complete" /\ UNCHANGED late
           \/ Offered("empty", p)
        /\ Begin(s, p, [job[p] EXCEPT !.enhanced = TRUE])
        /\ banner' = IF banner = <<"empty", p>> THEN NoBanner ELSE banner
        /\ UNCHANGED <<drainVars, online>> /\ PutBack({}) /\ {} \in SUBSET Photos
    BY DEF RequestEnhanced
  <1>2. late \subseteq late' /\ late' \subseteq Photos /\ (p \notin inFlight \/ p \in late')
    <2>1. CASE job[p].status = "complete" /\ UNCHANGED late
      BY <1>t, <2>1, NotInFlight DEF EndTyped
    <2>2. CASE Offered("empty", p)
      BY <2>2, OfferedLate
    <2> QED
      BY <1>1, <2>1, <2>2
  <1>3. s \in Sends /\ s # "drain"
    BY HandsAside
  <1>4. [job[p] EXCEPT !.enhanced = TRUE] \in Jobs
    BY <1>t DEF WorkTyped, Jobs
  <1>5. banner' \in Offers \X (Photos \cup {NoPhoto})
    BY <1>t, <1>1, NoBannerTyped DEF EndTyped
  <1> QED
    BY <1>1, <1>2, <1>3, <1>4, <1>5, BeginStep

(* A photo that is done is dismissed.                                        *)
LEMMA DismissJobStep ==
    ASSUME IInv, NEW p \in Photos, DismissJob(p)
    PROVE  IInv'
  <1>t. WorkTyped /\ DrainTyped /\ EndTyped /\ StatusFits
    BY Types DEF IInv
  <1>1. /\ job[p].status \in {"complete", "failed"}
        /\ job' = [job EXCEPT ![p].status = "gone"]
        /\ UNCHANGED <<run, inFlight, drainVars, banner, online, late, left>>
    BY DEF DismissJob
  <1>2. p \notin inFlight \/ p \in late'
    BY <1>t, <1>1, NotInFlight
  <1>3. job' = [job EXCEPT ![p] = [job[p] EXCEPT !.status = "gone"]]
    BY <1>1
  <1>4. [job[p] EXCEPT !.status = "gone"] \in Jobs
    BY <1>t DEF WorkTyped, Jobs, Statuses
  <1>5. /\ job' \in [Photos -> Jobs]
        /\ \A q \in inFlight \ late' : job'[q].status = job[q].status
    BY <1>t, <1>2, <1>3, <1>4 DEF WorkTyped
  <1>6. DrainTyped' /\ drain' = drain /\ EndTyped'
    BY <1>t, <1>1 DEF DrainTyped, EndTyped, drainVars
  <1> QED
    BY <1>1, <1>5, <1>6, JobsStep

(* Sign-out: the uploads under way keep their photos, which are gone.        *)
LEMMA SignOutStep ==
    ASSUME IInv, SignOut
    PROVE  IInv'
  <1>t. WorkTyped /\ DrainTyped /\ EndTyped /\ FlightInv /\ StatusFits /\ DrainFits
    BY Types DEF IInv
  <1>1. /\ job' = [p \in Photos |->
               IF Present(p) THEN [NewJob EXCEPT !.status = "gone"] ELSE job[p]]
        /\ run' = [s \in Sends |-> [run[s] EXCEPT !.stale = Active(s)]]
        /\ drainAgain' = FALSE
        /\ UNCHANGED <<inFlight, drain, stop, banner, online, late>>
        /\ PutBack({}) /\ {} \in SUBSET Photos
    BY DEF SignOut
  <1>2. /\ [NewJob EXCEPT !.status = "gone"] \in Jobs
        /\ [NewJob EXCEPT !.status = "gone"].status = "gone"
    <2>1. 0 \in 0..MaxAttempts
      BY QueueAssumption
    <2> QED
      BY <2>1 DEF NewJob, Jobs, Statuses
  <1>3. job' \in [Photos -> Jobs]
    BY <1>t, <1>1, <1>2 DEF WorkTyped
  <1>4. \A s \in Sends : /\ run'[s] \in Runs /\ run'[s].photo = run[s].photo
                         /\ run'[s].phase = run[s].phase
    <2> TAKE s \in Sends
    <2>1. run[s] \in Runs /\ Active(s) \in BOOLEAN
      BY <1>t DEF WorkTyped, Active
    <2>2. run'[s] = [run[s] EXCEPT !.stale = Active(s)]
      BY <1>1
    <2> HIDE DEF Active
    <2> QED
      BY <2>1, <2>2 DEF Runs
  <1>5. WorkTyped'
    <2>1. run' \in [Sends -> Runs]
      BY <1>1, <1>4
    <2> QED
      BY <1>t, <1>1, <1>3, <2>1 DEF WorkTyped
  <1>6. FlightInv'
    BY <1>t, <1>1, <1>4, KeepRuns
  <1>7. StatusFits'
    <2>1. \A p \in Photos : job'[p].status = IF Present(p) THEN "gone" ELSE job[p].status
      BY <1>1, <1>2
    <2> QED
      BY <1>t, <1>1, <2>1 DEF StatusFits, WorkTyped
  <1>8. DrainFits'
    BY <1>t, <1>1, <1>4 DEF DrainFits, Active, Sends
  <1>9. DrainTyped' /\ EndTyped'
    <2>1. DrainTyped'
      BY <1>t, <1>1 DEF DrainTyped
    <2>2. EndTyped'
      BY <1>t, <1>1, LeftTyped DEF EndTyped
    <2> QED
      BY <2>1, <2>2
  <1> QED
    BY <1>5, <1>6, <1>7, <1>8, <1>9, Assembled

-----------------------------------------------------------------------------
(* The environment.                                                          *)

(* A connection is reported: a drain starts.                                 *)
LEMMA ConnectedStep ==
    ASSUME IInv, Connected
    PROVE  IInv'
  <1>t. WorkTyped /\ DrainTyped /\ EndTyped
    BY Types DEF IInv
  <1>1. /\ online' = TRUE /\ DrainUnlessDraining /\ UNCHANGED <<banner, late>>
        /\ job' = job /\ run' = run /\ inFlight' = inFlight
        /\ PutBack({}) /\ {} \in SUBSET Photos
    BY DEF Connected, workVars
  <1>2. DrainTyped' /\ (drain'.pc = "sending" <=> drain.pc = "sending")
    BY <1>t, <1>1, DrainUnlessDrainingTyped
  <1>3. EndTyped'
    BY <1>t, <1>1, LeftTyped DEF EndTyped
  <1>4. job' \in [Photos -> Jobs]
    BY <1>t, <1>1 DEF WorkTyped
  <1>5. \A q \in inFlight : job'[q].status = job[q].status
    BY <1>1
  <1> QED
    BY <1>1, <1>2, <1>3, <1>4, <1>5, JobsStep

(* The connection drops: nothing notices yet.                                *)
LEMMA DisconnectedStep ==
    ASSUME IInv, Disconnected
    PROVE  IInv'
  <1>t. WorkTyped /\ DrainTyped /\ EndTyped
    BY Types DEF IInv
  <1>1. /\ online' = FALSE /\ UNCHANGED <<workVars, drainVars, banner, late, left>>
    BY DEF Disconnected
  <1>2. DrainTyped' /\ drain' = drain /\ EndTyped'
    BY <1>t, <1>1 DEF DrainTyped, EndTyped, drainVars
  <1>3. /\ job' \in [Photos -> Jobs] /\ UNCHANGED <<run, inFlight>>
        /\ \A q \in inFlight : job'[q].status = job[q].status
    BY <1>t, <1>1 DEF WorkTyped, workVars
  <1> QED
    BY <1>1, <1>2, <1>3, JobsStep

(* A relaunch: nothing is being sent.                                        *)
LEMMA RelaunchStep ==
    ASSUME IInv, Relaunch
    PROVE  IInv'
  <1>t. WorkTyped /\ DrainTyped /\ EndTyped
    BY Types DEF IInv
  <1>1. /\ job' = [p \in Photos |-> [job[p] EXCEPT !.found = FALSE,
                  !.status = IF @ = "searching" THEN "pending"
                             ELSE IF @ = "complete" THEN "gone" ELSE @]]
        /\ run' = [s \in Sends |-> Idle] /\ inFlight' = {}
        /\ banner' = NoBanner /\ late' = {} /\ online' = online /\ PutBack(Photos)
        /\ Photos \in SUBSET Photos
    BY DEF Relaunch
  <1>2. WorkTyped'
    <2>1. \A p \in Photos : job'[p] \in Jobs
      BY <1>t, <1>1 DEF WorkTyped, Jobs, Statuses
    <2> QED
      BY <1>1, <2>1, IdleTyped DEF WorkTyped
  <1>3. FlightInv'
    <2>1. \A s \in Sends : run'[s].phase = "idle" /\ run'[s].photo \notin Photos
      BY <1>1, IdleTyped
    <2>2. RunsFit' /\ OneRunPerPhoto' /\ InFlightExact'
      BY <1>1, <2>1 DEF RunsFit, OneRunPerPhoto, InFlightExact, Active
    <2> QED
      BY <2>2 DEF FlightInv
  <1>4. DrainTyped' /\ drain'.pc \in {"off", "next"}
    <2>1. CASE StartDrain
      BY <2>1, StartDrainTyped
    <2>2. CASE drain' = Off /\ stop' = "none" /\ drainAgain' = FALSE
      <3>1. 0 \in 0..MaxPasses
        BY QueueAssumption
      <3> QED
        BY <2>2, <3>1 DEF DrainTyped, Off
    <2> QED
      BY <2>1, <2>2 DEF Relaunch
  <1>5. DrainFits'
    <2>1. run'["drain"].phase = "idle"
      BY <1>1, IdleTyped DEF Sends
    <2> QED
      BY <1>4, <2>1 DEF DrainFits, Active
  <1>6. StatusFits'
    BY <1>1 DEF StatusFits
  <1>7. EndTyped'
    BY <1>t, <1>1, NoBannerTyped, LeftTyped DEF EndTyped
  <1> QED
    BY <1>2, <1>3, <1>4, <1>5, <1>6, <1>7, Assembled

-----------------------------------------------------------------------------
(* The theorems.                                                             *)

(* Before the first capture.                                                 *)
LEMMA InitIInv == Init => IInv
  <1> SUFFICES ASSUME Init PROVE IInv
    OBVIOUS
  <1>1. /\ job = [p \in Photos |-> NewJob] /\ run = [s \in Sends |-> Idle] /\ inFlight = {}
        /\ drain = Off /\ stop = "none" /\ drainAgain = FALSE /\ banner = NoBanner
        /\ online \in {TRUE, ~Drops} /\ left = {} /\ late = {}
    BY DEF Init
  <1>2. 0 \in 0..MaxAttempts /\ 0 \in 0..MaxPasses
    BY QueueAssumption
  <1>3. WorkTyped
    <2>1. NewJob \in Jobs
      BY <1>2 DEF NewJob, Jobs, Statuses
    <2> QED
      BY <1>1, <2>1, IdleTyped DEF WorkTyped
  <1>4. DrainTyped
    BY <1>1, <1>2 DEF DrainTyped, Off
  <1>5. EndTyped
    BY <1>1, NoBannerTyped, QueueAssumption DEF EndTyped
  <1>6. FlightInv
    <2>1. \A s \in Sends : run[s].phase = "idle" /\ run[s].photo \notin Photos
      BY <1>1, IdleTyped
    <2> QED
      BY <1>1, <2>1 DEF FlightInv, RunsFit, OneRunPerPhoto, InFlightExact, Active
  <1>7. DrainFits
    BY <1>1, IdleTyped DEF DrainFits, Active, Off, Sends
  <1>8. StatusFits
    BY <1>1 DEF StatusFits
  <1> QED
    BY <1>3, <1>4, <1>5, <1>6, <1>7, <1>8, Types DEF IInv

(* Every step.                                                               *)
LEMMA NextIInv ==
    ASSUME IInv, [Next]_vars
    PROVE  IInv'
  <1>1. ASSUME NEW p \in Photos,
               DrainNext(p) \/ FallsDue(p) \/ QueueForLater(p) \/ DismissJob(p)
        PROVE  IInv'
    BY <1>1, DrainNextStep, FallsDueStep, QueueForLaterStep, DismissJobStep
  <1>2. CASE DrainOffline \/ RetryTimer
    BY <1>2, DrainOfflineStep, RetryTimerStep
  <1>3. ASSUME NEW s \in Sends, Post(s) \/ Outcome(s) \/ Checked(s)
        PROVE  IInv'
    BY <1>3, PostStep, OutcomesStep, CheckedStep
  <1>4. ASSUME NEW s \in Hands, ByHand(s)
        PROVE  IInv'
    BY <1>4, StartScanStep, RetryScanStep, RestartScheduleStep, RequestEnhancedStep
       DEF ByHand
  <1>5. CASE ResumeQueue \/ SignOut
    BY <1>5, ResumeQueueStep, SignOutStep
  <1>6. CASE Connected \/ Disconnected \/ Relaunch
    BY <1>6, ConnectedStep, DisconnectedStep, RelaunchStep
  <1>7. CASE UNCHANGED vars
    BY <1>7 DEF vars, workVars, drainVars, IInv, TypeOK, FlightInv, RunsFit, OneRunPerPhoto,
                InFlightExact, StatusFits, DrainFits, Active
  <1> QED
    BY <1>1, <1>2, <1>3, <1>4, <1>5, <1>6, <1>7 DEF Next

(* The inductive invariant holds throughout.                                 *)
LEMMA Invariant == Spec => []IInv
  <1>1. Init => IInv
    BY InitIInv
  <1>2. IInv /\ [Next]_vars => IInv'
    BY NextIInv
  <1> QED
    BY <1>1, <1>2, PTL DEF Spec

(* The state of the queue is always typed: no attempt, repeat or pass counter
   leaves its bounds, whatever the number of photos and uploads and whichever
   banners are used late.                                                    *)
THEOREM TypeCorrect == Spec => []TypeOK
  <1>1. IInv => TypeOK
    BY DEF IInv
  <1> QED
    BY <1>1, Invariant, PTL

(* The drain, its timer, the reconnect and the user's retries never upload a
   photo twice at once, however many of them are at work and whatever late
   banners do to other photos; its own late banner is the one way there is.  *)
THEOREM NeverTwiceAtOnce == Spec => []OneRunPerPhoto
  <1>1. IInv => OneRunPerPhoto
    BY DEF IInv, FlightInv
  <1> QED
    BY <1>1, Invariant, PTL

(* inFlightRef holds exactly the photos that are being uploaded: a finally
   that removes an id frees no photo another upload still holds, unless the
   photo's own banner was used late.                                         *)
THEOREM InFlightCorrect == Spec => []InFlightExact
  <1>1. IInv => InFlightExact
    BY DEF IInv, FlightInv
  <1> QED
    BY <1>1, Invariant, PTL

-----------------------------------------------------------------------------
(* What an upload knows of its job.                                          *)

(* A job with books of a standard scan is done, or it is sent again for an
   enhanced one.                                                             *)
BookFit(p) ==
    job[p].found => \/ job[p].status \in {"complete", "gone"}
                    \/ job[p].status \in {"pending", "queued", "searching"} /\ job[p].enhanced

(* What an upload holds is still what its job says, until a sign-out drops
   the job.                                                                  *)
RunFit(s) ==
    Active(s) /\ run[s].photo \notin late =>
        LET j == job[run[s].photo]
        IN IF run[s].stale THEN j.status = "gone"
           ELSE IF run[s].phase = "check" THEN j.status = "pending"
           ELSE /\ j.status = "searching"
                /\ j.enhanced = run[s].enhanced /\ j.found = run[s].found

JobsFit == (\A p \in Photos \ late : BookFit(p)) /\ (\A s \in Sends : RunFit(s))

(* A step leaves what these read of a job alone.                             *)
Alike(p) ==
    /\ job'[p].status = job[p].status /\ job'[p].found = job[p].found
    /\ job'[p].enhanced = job[p].enhanced

(* A job left alone.                                                         *)
LEMMA AlikeFits ==
    ASSUME NEW p, BookFit(p), Alike(p)
    PROVE  BookFit(p)'
BY DEF BookFit, Alike

(* An upload that goes on with a job left alone.                             *)
LEMMA GoesOnFits ==
    ASSUME NEW s, RunFit(s), late \subseteq late',
           Active(s) /\ run[s].photo \notin late' => Alike(run[s].photo),
           run'[s].photo = run[s].photo, run'[s].stale = run[s].stale,
           run'[s].enhanced = run[s].enhanced, run'[s].found = run[s].found,
           run'[s].phase = "idle" <=> run[s].phase = "idle",
           run'[s].phase = "check" <=> run[s].phase = "check"
    PROVE  RunFit(s)'
BY DEF RunFit, Alike, Active

(* A step that moves jobs only, and none that an upload holds.               *)
LEMMA MovedFits ==
    ASSUME IInv, JobsFit, run' = run, late \subseteq late',
           \A q \in inFlight \ late' : Alike(q),
           \A q \in Photos \ late' : Alike(q) \/ BookFit(q)'
    PROVE  JobsFit'
  <1>1. ASSUME NEW s \in Sends PROVE RunFit(s)'
    <2>1. Active(s) /\ run[s].photo \notin late' => run[s].photo \in inFlight \ late'
      BY DEF IInv, FlightInv, RunsFit, InFlightExact
    <2> QED
      BY <2>1, GoesOnFits DEF JobsFit
  <1>2. ASSUME NEW q \in Photos \ late' PROVE BookFit(q)'
    BY AlikeFits DEF JobsFit
  <1> QED
    BY <1>1, <1>2 DEF JobsFit

(* A step that moves no job.                                                 *)
LEMMA StillFits ==
    ASSUME IInv, JobsFit, run' = run, job' = job, late' = late
    PROVE  JobsFit'
  <1>1. \A q \in Photos : Alike(q)
    BY DEF Alike
  <1>2. inFlight \subseteq Photos
    BY DEF IInv, TypeOK
  <1> QED
    BY <1>1, <1>2, MovedFits

(* A step that moves one job nobody holds.                                   *)
LEMMA OneJobFits ==
    ASSUME IInv, JobsFit, run' = run, NEW p \in Photos, late \subseteq late',
           p \in late' \/ (p \notin inFlight /\ BookFit(p)'),
           \A q \in Photos \ {p} : job'[q] = job[q]
    PROVE  JobsFit'
  <1>1. \A q \in Photos \ {p} : Alike(q)
    BY DEF Alike
  <1>2. inFlight \subseteq Photos
    BY DEF IInv, TypeOK
  <1> QED
    BY <1>1, <1>2, MovedFits

(* An upload that ends.                                                      *)
LEMMA EndedFits ==
    ASSUME IInv, JobsFit, NEW s \in Sends, Active(s), run' = [run EXCEPT ![s] = Idle],
           NEW p \in Photos, p = run[s].photo, late' = late,
           \A q \in Photos \ {p} : Alike(q), p \in late \/ BookFit(p)'
    PROVE  JobsFit'
  <1>1. ASSUME NEW u \in Sends PROVE RunFit(u)'
    <2>1. CASE u = s
      <3>1. run'[s].phase = "idle"
        BY IdleTyped DEF IInv, TypeOK
      <3> QED
        BY <2>1, <3>1 DEF RunFit, Active
    <2>2. CASE u # s
      <3>1. run'[u] = run[u]
        BY <2>2 DEF IInv, TypeOK
      <3>2. Active(u) /\ run[u].photo \notin late' => run[u].photo \in Photos \ {p}
        BY <2>2 DEF IInv, FlightInv, RunsFit, OneRunPerPhoto
      <3> QED
        BY <3>1, <3>2, GoesOnFits DEF JobsFit
    <2> QED
      BY <2>1, <2>2
  <1>2. ASSUME NEW q \in Photos \ late' PROVE BookFit(q)'
    BY AlikeFits DEF JobsFit
  <1> QED
    BY <1>1, <1>2 DEF JobsFit

(* An upload that begins, of a photo it holds or nobody does.                *)
LEMMA BegunFits ==
    ASSUME IInv, JobsFit, NEW s \in Sends, NEW p \in Photos, NEW j \in Jobs,
           Begin(s, p, j), late \subseteq late',
           \/ p \in late'
           \/ (run[s].photo = p \/ p \notin inFlight) /\ (j.found => j.enhanced)
    PROVE  JobsFit'
  <1>t. job \in [Photos -> Jobs] /\ run \in [Sends -> Runs]
    BY DEF IInv, TypeOK
  <1>1. /\ job'[p].status = "searching" /\ job'[p].found = j.found
        /\ job'[p].enhanced = j.enhanced /\ \A q \in Photos \ {p} : job'[q] = job[q]
    BY <1>t DEF Begin, Jobs
  <1>2. /\ run'[s].photo = p /\ run'[s].stale = FALSE /\ run'[s].phase = "token"
        /\ run'[s].enhanced = j.enhanced /\ run'[s].found = j.found
        /\ \A u \in Sends \ {s} : run'[u] = run[u]
    BY <1>t DEF Begin, Idle
  <1>3. ASSUME NEW u \in Sends PROVE RunFit(u)'
    <2>1. CASE u = s
      BY <1>1, <1>2, <2>1 DEF RunFit
    <2>2. CASE u # s
      <3>1. Active(u) /\ run[u].photo \notin late' => run[u].photo \in Photos \ {p}
        BY <2>2 DEF IInv, FlightInv, RunsFit, OneRunPerPhoto, InFlightExact
      <3>2. Active(u) /\ run[u].photo \notin late' => Alike(run[u].photo)
        BY <1>1, <3>1 DEF Alike
      <3> QED
        BY <1>2, <2>2, <3>2, GoesOnFits DEF JobsFit
    <2> QED
      BY <2>1, <2>2
  <1>4. ASSUME NEW q \in Photos \ late' PROVE BookFit(q)'
    <2>1. CASE q = p
      BY <1>1, <2>1 DEF BookFit
    <2>2. CASE q # p
      BY <1>1, <2>2 DEF BookFit, JobsFit
    <2> QED
      BY <2>1, <2>2
  <1> QED
    BY <1>3, <1>4 DEF JobsFit

(* What holds of the job of an upload whose outcome counts.                  *)
LEMMA Concluding ==
    ASSUME IInv, JobsFit, NEW s \in Sends, Concludes(s)
    PROVE  /\ Active(s) /\ run[s].photo \in Photos /\ job \in [Photos -> Jobs]
           /\ run[s].photo \notin late =>
                  /\ Present(run[s].photo)
                  /\ job[run[s].photo].enhanced = run[s].enhanced
                  /\ job[run[s].photo].found = run[s].found
                  /\ job[run[s].photo].found => job[run[s].photo].enhanced /\ Kept(s)
  <1>1. Active(s) /\ run[s].photo \in Photos /\ job \in [Photos -> Jobs]
    BY DEF Concludes, Active, IInv, TypeOK, FlightInv, RunsFit
  <1> SUFFICES ASSUME run[s].photo \notin late
               PROVE  /\ Present(run[s].photo)
                      /\ job[run[s].photo].enhanced = run[s].enhanced
                      /\ job[run[s].photo].found = run[s].found
                      /\ job[run[s].photo].found => job[run[s].photo].enhanced /\ Kept(s)
    BY <1>1
  <1>2. RunFit(s) /\ BookFit(run[s].photo)
    BY <1>1 DEF JobsFit
  <1>3. /\ job[run[s].photo].status = "searching"
        /\ job[run[s].photo].enhanced = run[s].enhanced
        /\ job[run[s].photo].found = run[s].found
    BY <1>1, <1>2 DEF RunFit, Concludes
  <1> QED
    BY <1>1, <1>2, <1>3 DEF BookFit, Present, Kept

(* An outcome that writes one job.                                           *)
LEMMA ResultFits ==
    ASSUME IInv, JobsFit, NEW s \in Sends, Concludes(s), NEW j \in Jobs,
           run' = [run EXCEPT ![s] = Idle], job' = Put(run[s].photo, j), late' = late,
           \/ run[s].photo \in late
           \/ j.found => \/ j.status = "complete"
                         \/ j.status = "queued" /\ j.enhanced
    PROVE  JobsFit'
  <1>0. PICK p \in Photos : p = run[s].photo
    BY Concluding
  <1>1. Active(s) /\ job \in [Photos -> Jobs] /\ (p \notin late => Present(p))
    BY <1>0, Concluding
  <1>2. \A q \in Photos \ {p} : Alike(q)
    BY <1>0, <1>1 DEF Alike, Put
  <1>3. p \notin late => job'[p] = j
    BY <1>0, <1>1 DEF Put
  <1>4. p \in late \/ BookFit(p)'
    BY <1>0, <1>3 DEF BookFit
  <1> QED
    BY <1>0, <1>1, <1>2, <1>4, EndedFits

(* The outcomes.                                                             *)
LEMMA AnsweredFits ==
    ASSUME IInv, JobsFit, NEW s \in Sends, NEW books \in BOOLEAN, NEW repeat \in BOOLEAN,
           Answered(s, books, repeat)
    PROVE  JobsFit'
  <1>c. Concludes(s)
    BY DEF Answered
  <1>0. PICK p \in Photos : p = run[s].photo
    BY <1>c, Concluding
  <1> DEFINE after == [q \in Photos |->
                IF q = p /\ run[s].tried > 0 THEN [job[q] EXCEPT !.attempts = 0, !.wait = "none"]
                ELSE IF q # p /\ Awaiting(q) THEN [job[q] EXCEPT !.wait = "due"]
                ELSE job[q]]
             result ==
                IF ~books /\ Kept(s) THEN Restored(after[p], TRUE)
                ELSE IF ~books THEN [after[p] EXCEPT !.status = "failed"]
                ELSE IF repeat THEN [after[p] EXCEPT !.status = "gone"]
                ELSE [after[p] EXCEPT !.status = "complete", !.found = TRUE]
  <1>1. /\ Active(s) /\ job \in [Photos -> Jobs]
        /\ p \notin late => Present(p) /\ (job[p].found => Kept(s))
    BY <1>c, <1>0, Concluding
  <1>2. /\ job' = IF Present(p) THEN [after EXCEPT ![p] = result] ELSE after
        /\ run' = [run EXCEPT ![s] = Idle] /\ late' = late
    BY <1>0 DEF Answered, Ends
  <1>3. \A q \in Photos : /\ after[q] \in Jobs /\ after[q].status = job[q].status
                          /\ after[q].found = job[q].found /\ after[q].enhanced = job[q].enhanced
    <2> TAKE q \in Photos
    <2>1. job[q] \in Jobs /\ 0 \in 0..MaxAttempts
      BY <1>1, QueueAssumption
    <2>2. after[q] \in {job[q], [job[q] EXCEPT !.attempts = 0, !.wait = "none"],
                        [job[q] EXCEPT !.wait = "due"]}
      OBVIOUS
    <2> HIDE DEF after
    <2> QED
      BY <2>1, <2>2 DEF Jobs
  <1>4. after \in [Photos -> Jobs]
    BY <1>3
  <1>5. p \notin late => (result.found => result.status \in {"complete", "gone"})
    <2> HIDE DEF after
    <2>1. after[p] \in Jobs /\ (p \notin late /\ after[p].found => Kept(s))
      BY <1>1, <1>3
    <2> QED
      BY <2>1 DEF Restored, Jobs
  <1> HIDE DEF after, result
  <1>6. (p \notin late => job'[p] = result) /\ \A q \in Photos \ {p} : Alike(q)
    BY <1>1, <1>2, <1>3, <1>4 DEF Alike
  <1>7. p \in late \/ BookFit(p)'
    BY <1>5, <1>6 DEF BookFit
  <1> QED
    BY <1>0, <1>1, <1>2, <1>6, <1>7, EndedFits

(* Every way an upload ends or goes on.                                      *)
LEMMA OutcomesFit ==
    ASSUME IInv, JobsFit, NEW s \in Sends, Outcome(s)
    PROVE  JobsFit'
  <1> DEFINE p == run[s].photo
  <1>0. ASSUME Concludes(s)
        PROVE  /\ p \in Photos /\ job[p] \in Jobs
               /\ p \notin late =>
                      /\ job[p].enhanced = run[s].enhanced /\ job[p].found = run[s].found
                      /\ job[p].found => job[p].enhanced /\ Kept(s)
    BY <1>0, Concluding
  <1>1. ASSUME NEW books \in BOOLEAN, NEW repeat \in BOOLEAN, Answered(s, books, repeat)
        PROVE  JobsFit'
    BY <1>1, AnsweredFits
  <1>2. CASE Busy(s)
    <2>1. run \in [Sends -> Runs] /\ run[s].phase = "posted" /\ job' = job /\ late' = late
      BY <1>2 DEF IInv, TypeOK, Busy, Concludes
    <2>2. \A u \in Sends :
              /\ run'[u].photo = run[u].photo /\ run'[u].stale = run[u].stale
              /\ run'[u].enhanced = run[u].enhanced /\ run'[u].found = run[u].found
              /\ run'[u].phase = "idle" <=> run[u].phase = "idle"
              /\ run'[u].phase = "check" <=> run[u].phase = "check"
      <3>1. run' = [run EXCEPT ![s] = [run[s] EXCEPT !.phase = "token", !.busy = @ + 1]]
        BY <1>2 DEF Busy
      <3> QED
        BY <2>1, <3>1 DEF Runs
    <2>3. \A u \in Sends : RunFit(u)'
      BY <2>1, <2>2, GoesOnFits DEF JobsFit, Alike
    <2>4. \A q \in Photos \ late' : BookFit(q)'
      BY <2>1 DEF JobsFit, BookFit
    <2> QED
      BY <2>3, <2>4 DEF JobsFit
  <1>3. ASSUME NEW scope \in {"enhanced", "images"}, Refused(s, scope) PROVE JobsFit'
    <2> DEFINE j == IF Kept(s) THEN Restored(job[p], FALSE) ELSE Requeued(job[p])
    <2>1. Concludes(s) /\ run' = [run EXCEPT ![s] = Idle] /\ job' = Put(p, j) /\ late' = late
      BY <1>3 DEF Refused, Ends
    <2>2. j \in Jobs
      BY <1>0, <2>1, Results
    <2>3. p \in late \/ (j.found => j.status = "complete")
      BY <1>0, <2>1 DEF Restored, Requeued, Jobs
    <2> QED
      BY <2>1, <2>2, <2>3, ResultFits
  <1>4. CASE Unavailable(s)
    <2> DEFINE attempt == IF run[s].tried < MaxAttempts THEN run[s].tried + 1 ELSE MaxAttempts
               final == LastAttempt(attempt)
               j == [job[p] EXCEPT !.attempts = attempt,
                        !.status = IF final THEN "failed" ELSE "queued",
                        !.wait = IF final THEN "none" ELSE "future"]
    <2>1. /\ Concludes(s) /\ ~run[s].enhanced /\ run' = [run EXCEPT ![s] = Idle]
          /\ job' = Put(p, j) /\ late' = late
      BY <1>4 DEF Unavailable, Ends
    <2>2. attempt \in 0..MaxAttempts
      <3>1. run[s].tried \in 0..MaxAttempts
        BY <2>1, AtWork, Concluding
      <3> QED
        BY <3>1, QueueAssumption
    <2>3. j \in Jobs /\ j.found = job[p].found
      <3> HIDE DEF attempt, final
      <3> QED
        BY <1>0, <2>1, <2>2 DEF Jobs, Statuses
    <2>4. p \in late \/ ~j.found
      BY <1>0, <2>1, <2>3
    <2> QED
      BY <2>1, <2>3, <2>4, ResultFits
  <1>5. CASE EnhancedRefused(s)
    <2> DEFINE j == IF run[s].found THEN Restored(job[p], FALSE)
                    ELSE [job[p] EXCEPT !.status = "failed", !.enhanced = FALSE]
    <2>1. Concludes(s) /\ run' = [run EXCEPT ![s] = Idle] /\ job' = Put(p, j) /\ late' = late
      BY <1>5 DEF EnhancedRefused, Ends
    <2>2. j \in Jobs
      BY <1>0, <2>1, Results
    <2>3. p \in late \/ (j.found => j.status = "complete")
      BY <1>0, <2>1 DEF Restored, Jobs
    <2> QED
      BY <2>1, <2>2, <2>3, ResultFits
  <1>6. CASE Fails(s)
    <2> DEFINE j == IF Kept(s) THEN Restored(job[p], FALSE)
                    ELSE [job[p] EXCEPT !.status = "failed", !.attempts = 0, !.wait = "none"]
    <2>1. Concludes(s) /\ run' = [run EXCEPT ![s] = Idle] /\ job' = Put(p, j) /\ late' = late
      BY <1>6 DEF Fails, Ends
    <2>2. j \in Jobs
      BY <1>0, <2>1, Results
    <2>3. p \in late \/ (j.found => j.status = "complete")
      BY <1>0, <2>1 DEF Restored, Jobs
    <2> QED
      BY <2>1, <2>2, <2>3, ResultFits
  <1>7. CASE Lost(s)
    <2> DEFINE w == IF run[s].tried > 0 THEN "future" ELSE job[p].wait
               j == [job[p] EXCEPT !.status = "queued", !.wait = w]
    <2>1. Concludes(s) /\ run' = [run EXCEPT ![s] = Idle] /\ job' = Put(p, j) /\ late' = late
      BY <1>7 DEF Lost, Ends
    <2>2. w \in {"none", "future", "due"}
      BY <1>0, <2>1 DEF Jobs
    <2>3. j \in Jobs /\ j.found = job[p].found /\ j.enhanced = job[p].enhanced /\ j.status = "queued"
      <3> HIDE DEF w
      <3> QED
        BY <1>0, <2>1, <2>2 DEF Jobs, Statuses
    <2>4. p \in late \/ (j.found => j.enhanced)
      BY <1>0, <2>1, <2>3
    <2> QED
      BY <2>1, <2>3, <2>4, ResultFits
  <1>8. CASE DropsOut(s)
    <2>1. job' = job /\ Active(s) /\ run' = [run EXCEPT ![s] = Idle] /\ late' = late
      BY <1>8 DEF DropsOut, Ends, Active
    <2>2. PICK q \in Photos : q = run[s].photo
      BY <2>1 DEF IInv, FlightInv, RunsFit
    <2>3. q \in late \/ BookFit(q)'
      BY <2>1 DEF JobsFit, BookFit
    <2> QED
      BY <2>1, <2>2, <2>3, EndedFits DEF Alike
  <1> QED
    BY <1>1, <1>2, <1>3, <1>4, <1>5, <1>6, <1>7, <1>8 DEF Outcome

(* The drain's next photo is sent, or nothing is.                            *)
LEMMA DrainNextFits ==
    ASSUME IInv, JobsFit, NEW p \in Photos, DrainNext(p)
    PROVE  JobsFit'
  <1>t. late' = late
    BY DEF DrainNext
  <1>1. CASE MaySend(p) /\ Begin("drain", p, job[p])
    <2>1. job[p] \in Jobs /\ job[p].status \in {"pending", "queued"} /\ p \notin inFlight
      BY <1>1 DEF IInv, TypeOK, MaySend, Pending
    <2>2. p \in late' \/ (job[p].found => job[p].enhanced)
      BY <1>t, <2>1 DEF JobsFit, BookFit
    <2> QED
      BY <1>t, <1>1, <2>1, <2>2, BegunFits, HandsAside
  <1>2. CASE UNCHANGED workVars
    BY <1>t, <1>2, StillFits DEF workVars
  <1> QED
    BY <1>1, <1>2 DEF DrainNext

(* Only the wait of a photo ends.                                            *)
LEMMA FallsDueFits ==
    ASSUME IInv, JobsFit, NEW p \in Photos, FallsDue(p)
    PROVE  JobsFit'
  <1>1. job' = [job EXCEPT ![p] = [job[p] EXCEPT !.wait = "due"]] /\ run' = run
        /\ late' = late
    BY DEF FallsDue
  <1>2. job \in [Photos -> Jobs] /\ inFlight \subseteq Photos
    BY DEF IInv, TypeOK
  <1>3. \A q \in Photos : Alike(q)
    BY <1>1, <1>2 DEF Alike, Jobs
  <1> QED
    BY <1>1, <1>2, <1>3, MovedFits

(* A failed photo is put back into the queue, or a done one leaves it.       *)
LEMMA PutBackFits ==
    ASSUME IInv, JobsFit, NEW p \in Photos, run' = run, late \subseteq late',
           p \in late' \/ job[p].status \in {"complete", "failed"},
           \/ /\ p \in late' \/ job[p].status = "failed"
              /\ \/ job' = Put(p, [job[p] EXCEPT !.status = "queued"])
                 \/ job' = [job EXCEPT ![p] = Requeued(job[p])]
           \/ job' = [job EXCEPT ![p] = [job[p] EXCEPT !.status = "gone"]]
    PROVE  JobsFit'
  <1>1. job \in [Photos -> Jobs]
    BY DEF IInv, TypeOK
  <1>2. \A q \in Photos \ {p} : job'[q] = job[q]
    BY <1>1 DEF Put
  <1>3. ASSUME p \notin late' PROVE p \notin inFlight /\ BookFit(p)'
    <2>1. /\ p \notin inFlight /\ Present(p)
          /\ job[p].status = "failed" => ~job[p].found
      BY <1>3, NotInFlight DEF IInv, Present, JobsFit, BookFit
    <2>2. job'[p].status = "gone" \/ ~job'[p].found => BookFit(p)'
      BY DEF BookFit
    <2>3. CASE /\ job[p].status = "failed"
               /\ \/ job' = Put(p, [job[p] EXCEPT !.status = "queued"])
                  \/ job' = [job EXCEPT ![p] = Requeued(job[p])]
      <3>1. job[p] \in Jobs /\ ~job[p].found
        BY <1>1, <2>1, <2>3
      <3>2. /\ ~[job[p] EXCEPT !.status = "queued"].found /\ ~Requeued(job[p]).found
        BY <3>1 DEF Requeued, Jobs
      <3>3. Put(p, [job[p] EXCEPT !.status = "queued"])
                = [job EXCEPT ![p] = [job[p] EXCEPT !.status = "queued"]]
        BY <2>1 DEF Put
      <3>4. \/ job'[p] = [job[p] EXCEPT !.status = "queued"]
            \/ job'[p] = Requeued(job[p])
        BY <1>1, <2>3, <3>3
      <3> QED
        BY <2>1, <2>2, <3>2, <3>4
    <2>4. CASE job' = [job EXCEPT ![p] = [job[p] EXCEPT !.status = "gone"]]
      <3>1. job'[p].status = "gone"
        BY <1>1, <2>4 DEF Jobs
      <3> QED
        BY <2>1, <2>2, <3>1
    <2> QED
      BY <1>3, <2>1, <2>3, <2>4
  <1> QED
    BY <1>2, <1>3, OneJobFits

(* What the user starts by hand.                                             *)
LEMMA ByHandFits ==
    ASSUME IInv, JobsFit, NEW s \in Hands, ByHand(s)
    PROVE  JobsFit'
  <1>t. s \in Sends /\ job \in [Photos -> Jobs] /\ run \in [Sends -> Runs]
    BY HandsAside DEF IInv, TypeOK
  <1>1. ASSUME NEW p \in Photos, StartScan(s, p) PROVE JobsFit'
    <2>1. /\ job[p].status = "none" /\ job' = [job EXCEPT ![p] = [job[p] EXCEPT !.status = "pending"]]
          /\ run' = [run EXCEPT ![s] = [Idle EXCEPT !.photo = p, !.phase = "check"]]
          /\ late' = late
      BY <1>1 DEF StartScan
    <2>2. p \in late \/ (p \notin inFlight /\ ~job[p].found)
      BY <2>1, NotInFlight DEF IInv, JobsFit, BookFit
    <2>3. /\ job'[p].status = "pending" /\ job'[p].found = job[p].found
          /\ \A q \in Photos \ {p} : job'[q] = job[q]
      BY <1>t, <2>1 DEF Jobs
    <2>4. /\ run'[s].photo = p /\ run'[s].stale = FALSE /\ run'[s].phase = "check"
          /\ \A u \in Sends \ {s} : run'[u] = run[u]
      BY <1>t, <2>1 DEF Idle
    <2>5. ASSUME NEW u \in Sends PROVE RunFit(u)'
      <3>1. CASE u = s
        BY <2>3, <2>4, <3>1 DEF RunFit
      <3>2. CASE u # s
        <4>1. Active(u) /\ run[u].photo \notin late => run[u].photo \in Photos \ {p}
          BY <2>2 DEF IInv, FlightInv, RunsFit, InFlightExact
        <4>2. Active(u) /\ run[u].photo \notin late => Alike(run[u].photo)
          BY <2>3, <4>1 DEF Alike
        <4> QED
          BY <2>1, <2>4, <3>2, <4>2, GoesOnFits DEF JobsFit
      <3> QED
        BY <3>1, <3>2
    <2>6. ASSUME NEW q \in Photos \ late' PROVE BookFit(q)'
      BY <2>1, <2>2, <2>3 DEF BookFit, JobsFit
    <2> QED
      BY <2>5, <2>6 DEF JobsFit
  <1>2. ASSUME NEW p \in Photos, RetryScan(s, p) PROVE JobsFit'
    <2>1. job[p] \in Jobs /\ Offered("failed", p)
      BY <1>t, <1>2 DEF RetryScan
    <2>2. /\ late \subseteq late'
          /\ p \in late' \/ (job[p].status = "failed" /\ p \notin inFlight /\ ~job[p].found)
      BY <2>1, OfferedLate DEF JobsFit, BookFit
    <2>3. CASE Begin(s, p, job[p])
      BY <1>t, <2>1, <2>2, <2>3, BegunFits
    <2>4. CASE job' = Put(p, [job[p] EXCEPT !.status = "queued"]) /\ run' = run
      BY <2>2, <2>4, PutBackFits
    <2> QED
      BY <1>2, <2>3, <2>4 DEF RetryScan
  <1>3. ASSUME NEW p \in Photos, RestartSchedule(s, p) PROVE JobsFit'
    <2>1. job[p].status = "failed" /\ job[p] \in Jobs /\ p \notin inFlight /\ late' = late
      BY <1>t, <1>3 DEF RestartSchedule
    <2>2. Requeued(job[p]) \in Jobs /\ (p \in late \/ ~Requeued(job[p]).found)
      <3>1. p \in late \/ ~job[p].found
        BY <2>1 DEF JobsFit, BookFit
      <3> QED
        BY <2>1, <3>1, Results DEF Requeued, Jobs
    <2>3. CASE Begin(s, p, Requeued(job[p]))
      BY <1>t, <2>1, <2>2, <2>3, BegunFits
    <2>4. CASE job' = [job EXCEPT ![p] = Requeued(@)] /\ run' = run
      BY <2>1, <2>4, PutBackFits
    <2> QED
      BY <1>3, <2>3, <2>4 DEF RestartSchedule
  <1>4. ASSUME NEW p \in Photos, RequestEnhanced(s, p) PROVE JobsFit'
    <2> DEFINE j == [job[p] EXCEPT !.enhanced = TRUE]
    <2>1. job[p] \in Jobs /\ Begin(s, p, j) /\ j \in Jobs /\ j.enhanced
      BY <1>t, <1>4 DEF RequestEnhanced, Jobs
    <2>2. late \subseteq late' /\ (p \notin inFlight \/ p \in late')
      <3>1. CASE job[p].status = "complete" /\ UNCHANGED late
        BY <3>1, NotInFlight DEF IInv
      <3>2. CASE Offered("empty", p)
        BY <3>2, OfferedLate
      <3> QED
        BY <1>4, <3>1, <3>2 DEF RequestEnhanced
    <2> QED
      BY <1>t, <2>1, <2>2, BegunFits
  <1> QED
    BY <1>1, <1>2, <1>3, <1>4 DEF ByHand

(* The connectivity check of a new photo.                                    *)
LEMMA CheckedFits ==
    ASSUME IInv, JobsFit, NEW s \in Sends, Checked(s)
    PROVE  JobsFit'
  <1>1. Active(s) /\ run[s].phase = "check" /\ job \in [Photos -> Jobs] /\ late' = late
    BY DEF Checked, Active, IInv, TypeOK
  <1>2. PICK p \in Photos : p = run[s].photo
    BY <1>1 DEF IInv, FlightInv, RunsFit
  <1>3. RunFit(s) /\ (p \in late \/ BookFit(p))
    BY DEF JobsFit
  <1>4. ~run[s].stale /\ p \notin late => job[p].status = "pending" /\ (job[p].found => job[p].enhanced)
    BY <1>1, <1>2, <1>3 DEF RunFit, BookFit
  <1>5. CASE ~run[s].stale /\ Begin(s, p, job[p])
    BY <1>1, <1>2, <1>4, <1>5, BegunFits
  <1>6. CASE /\ run' = [run EXCEPT ![s] = Idle]
             /\ job' = IF run[s].stale THEN job ELSE Put(p, [job[p] EXCEPT !.status = "queued"])
    <2>1. \A q \in Photos \ {p} : Alike(q)
      BY <1>1, <1>6 DEF Alike, Put
    <2>2. p \in late \/ BookFit(p)'
      <3>1. CASE job' = job
        BY <1>3, <3>1 DEF BookFit
      <3>2. CASE ~run[s].stale /\ job' = [job EXCEPT ![p] = [job[p] EXCEPT !.status = "queued"]]
        BY <1>1, <1>4, <3>2 DEF BookFit, Jobs
      <3> QED
        BY <1>6, <3>1, <3>2 DEF Put
    <2> QED
      BY <1>1, <1>2, <1>6, <2>1, <2>2, EndedFits
  <1> QED
    BY <1>2, <1>5, <1>6 DEF Checked

(* The photo is posted.                                                      *)
LEMMA PostFits ==
    ASSUME IInv, JobsFit, NEW s \in Sends, Post(s)
    PROVE  JobsFit'
  <1>1. run \in [Sends -> Runs] /\ run[s].phase = "token" /\ job' = job /\ late' = late
    BY DEF IInv, TypeOK, Post
  <1>2. \A u \in Sends :
            /\ run'[u].photo = run[u].photo /\ run'[u].stale = run[u].stale
            /\ run'[u].enhanced = run[u].enhanced /\ run'[u].found = run[u].found
            /\ run'[u].phase = "idle" <=> run[u].phase = "idle"
            /\ run'[u].phase = "check" <=> run[u].phase = "check"
    <2>1. run' = [run EXCEPT ![s] = [run[s] EXCEPT !.phase = "posted"]]
      BY DEF Post
    <2> QED
      BY <1>1, <2>1 DEF Runs
  <1>3. \A u \in Sends : RunFit(u)'
    BY <1>1, <1>2, GoesOnFits DEF JobsFit, Alike
  <1>4. \A q \in Photos \ late' : BookFit(q)'
    BY <1>1 DEF JobsFit, BookFit
  <1> QED
    BY <1>3, <1>4 DEF JobsFit

(* Sign-out drops every job, and the uploads know it.                        *)
LEMMA SignOutFits ==
    ASSUME IInv, JobsFit, SignOut
    PROVE  JobsFit'
  <1>1. \A p \in Photos : job'[p] = IF Present(p) THEN [NewJob EXCEPT !.status = "gone"] ELSE job[p]
    BY DEF SignOut
  <1>l. late' = late
    BY DEF SignOut
  <1>2. \A p \in Photos \ late' : BookFit(p)'
    BY <1>1, <1>l DEF NewJob, BookFit, JobsFit
  <1>3. ASSUME NEW s \in Sends PROVE RunFit(s)'
    <2>1. /\ run'[s].photo = run[s].photo /\ run'[s].phase = run[s].phase
          /\ run'[s].stale = Active(s)
      <3>1. run'[s] = [run[s] EXCEPT !.stale = Active(s)] /\ run[s] \in Runs
        BY DEF SignOut, IInv, TypeOK
      <3> QED
        BY <3>1 DEF Runs
    <2>2. CASE Active(s) /\ run[s].photo \notin late
      <3>1. run[s].photo \in inFlight /\ run[s].photo \in Photos
        BY <2>2 DEF IInv, FlightInv, InFlightExact, RunsFit
      <3>2. job[run[s].photo].status \in {"pending", "searching", "gone"}
        BY <2>2, <3>1 DEF IInv, StatusFits
      <3>3. job'[run[s].photo].status = "gone"
        BY <1>1, <3>1, <3>2 DEF Present, NewJob
      <3> QED
        BY <2>1, <2>2, <3>3 DEF RunFit
    <2>3. CASE ~Active(s) \/ run[s].photo \in late
      BY <1>l, <2>1, <2>3 DEF RunFit, Active
    <2> QED
      BY <2>2, <2>3
  <1> QED
    BY <1>2, <1>3 DEF JobsFit

(* A relaunch knows of no books and sends nothing.                           *)
LEMMA RelaunchFits ==
    ASSUME IInv, JobsFit, Relaunch
    PROVE  JobsFit'
  <1>1. \A p \in Photos : ~job'[p].found
    <2>1. job \in [Photos -> Jobs]
      BY DEF IInv, TypeOK
    <2> QED
      BY <2>1 DEF Relaunch, Jobs
  <1>2. \A s \in Sends : run'[s].phase = "idle"
    BY IdleTyped DEF Relaunch
  <1> QED
    BY <1>1, <1>2 DEF JobsFit, BookFit, RunFit, Active

(* Every step.                                                               *)
LEMMA NextFits ==
    ASSUME IInv, JobsFit, [Next]_vars
    PROVE  JobsFit'
  <1>1. ASSUME NEW p \in Photos, DrainNext(p) \/ FallsDue(p) \/ QueueForLater(p) \/ DismissJob(p)
        PROVE  JobsFit'
    <2>1. CASE QueueForLater(p)
      BY <2>1, PutBackFits, OfferedLate DEF QueueForLater
    <2>2. CASE DismissJob(p)
      BY <2>2, PutBackFits DEF DismissJob
    <2> QED
      BY <1>1, <2>1, <2>2, DrainNextFits, FallsDueFits
  <1>2. CASE DrainOffline \/ RetryTimer \/ ResumeQueue \/ Connected \/ Disconnected
    BY <1>2, StillFits DEF DrainOffline, RetryTimer, ResumeQueue, Connected, Disconnected, workVars
  <1>3. ASSUME NEW s \in Sends, Post(s) \/ Outcome(s) \/ Checked(s)
        PROVE  JobsFit'
    BY <1>3, PostFits, OutcomesFit, CheckedFits
  <1>4. ASSUME NEW s \in Hands, ByHand(s)
        PROVE  JobsFit'
    BY <1>4, ByHandFits
  <1>5. CASE SignOut \/ Relaunch
    BY <1>5, SignOutFits, RelaunchFits
  <1>6. CASE UNCHANGED vars
    BY <1>6, StillFits DEF vars, workVars
  <1> QED
    BY <1>1, <1>2, <1>3, <1>4, <1>5, <1>6 DEF Next

(* Both invariants hold throughout.                                          *)
LEMMA Fits == Spec => [](IInv /\ JobsFit)
  <1>1. Init => IInv /\ JobsFit
    <2> SUFFICES ASSUME Init PROVE JobsFit
      BY InitIInv
    <2>1. \A p \in Photos : ~job[p].found
      BY DEF Init, NewJob
    <2>2. \A s \in Sends : ~Active(s)
      BY IdleTyped DEF Init, Active
    <2> QED
      BY <2>1, <2>2 DEF JobsFit, BookFit, RunFit
  <1>2. IInv /\ JobsFit /\ [Next]_vars => IInv' /\ JobsFit'
    BY NextIInv, NextFits
  <1> QED
    BY <1>1, <1>2, PTL DEF Spec

(* Books a standard scan found are never lost to an enhanced re-scan of the
   same photo that fails, is refused, lost or interrupted: no failed photo has
   any, but one whose own banner was used late.                              *)
THEOREM BooksStay == Spec => []BooksNotStranded
  <1>1. JobsFit => BooksNotStranded
    BY DEF JobsFit, BookFit, BooksNotStranded
  <1> QED
    BY <1>1, Fits, PTL

(* Only the post of a photo turns the wait for its token into an upload.     *)
LEMMA OnlyPosts ==
    ASSUME IInv, [Next]_vars, NEW s \in Sends,
           run[s].phase = "token", run'[s].phase = "posted"
    PROVE  ~run[s].stale
  <1>t. run \in [Sends -> Runs]
    BY DEF IInv, TypeOK
  <1>1. ASSUME NEW u \in Sends, NEW r, r.phase # "posted" \/ u # s PROVE run' # [run EXCEPT ![u] = r]
    BY <1>1, <1>t
  <1>2. ASSUME NEW u \in Sends, NEW p, NEW j PROVE ~Begin(u, p, j)
    BY <1>1 DEF Begin, Idle
  <1>3. ASSUME NEW u \in Sends PROVE run' # [run EXCEPT ![u] = Idle]
    BY <1>1 DEF Idle
  <1>4. ASSUME NEW u \in Sends, NEW st, NEW wanted PROVE ~Ends(u, st, wanted)
    BY <1>3 DEF Ends
  <1>5. run' # run
    OBVIOUS
  <1>6. ASSUME NEW p \in Photos,
               DrainNext(p) \/ FallsDue(p) \/ QueueForLater(p) \/ DismissJob(p)
        PROVE  FALSE
    BY <1>2, <1>5, <1>6, HandsAside DEF DrainNext, FallsDue, QueueForLater, DismissJob, workVars
  <1>7. ASSUME DrainOffline \/ RetryTimer \/ ResumeQueue \/ Connected \/ Disconnected
        PROVE  FALSE
    BY <1>5, <1>7 DEF DrainOffline, RetryTimer, ResumeQueue, Connected, Disconnected, workVars
  <1>8. ASSUME NEW u \in Sends, Outcome(u)
        PROVE  FALSE
    <2>1. CASE Busy(u)
      <3>1. run' = [run EXCEPT ![u] = [run[u] EXCEPT !.phase = "token", !.busy = @ + 1]]
        BY <2>1 DEF Busy
      <3> QED
        BY <1>t, <3>1 DEF Runs
    <2>2. CASE ~Busy(u)
      BY <1>4, <1>8, <2>2 DEF Outcome, Answered, Refused, Unavailable, EnhancedRefused, Fails,
         Lost, DropsOut
    <2> QED
      BY <2>1, <2>2
  <1>9. ASSUME NEW u \in Sends, Checked(u)
        PROVE  FALSE
    BY <1>2, <1>3, <1>9 DEF Checked
  <1>10. ASSUME NEW u \in Hands, ByHand(u)
         PROVE  FALSE
    <2>1. u \in Sends
      BY HandsAside
    <2>2. ASSUME NEW p \in Photos, StartScan(u, p)
          PROVE  FALSE
      BY <1>1, <2>1, <2>2 DEF StartScan, Idle
    <2> QED
      BY <1>2, <1>5, <1>10, <2>1, <2>2 DEF ByHand, RetryScan, RestartSchedule, RequestEnhanced
  <1>11. ASSUME SignOut PROVE FALSE
    <2>1. run'[s] = [run[s] EXCEPT !.stale = Active(s)]
      BY <1>11 DEF SignOut
    <2> QED
      BY <1>t, <2>1 DEF Runs
  <1>12. ASSUME Relaunch PROVE FALSE
    BY <1>12, IdleTyped DEF Relaunch
  <1>13. ASSUME NEW u \in Sends, Post(u) PROVE ~run[s].stale
    <2>1. run' = [run EXCEPT ![u].phase = "posted"] /\ ~run[u].stale
      BY <1>13 DEF Post
    <2> QED
      BY <1>t, <2>1
  <1> QED
    BY <1>5, <1>6, <1>7, <1>8, <1>9, <1>10, <1>11, <1>12, <1>13 DEF Next, vars, workVars

(* Nothing of an account signed out is posted: neither after the wait for a
   token nor at a silent repeat of an upload; a late banner's second upload
   alone may be of a photo that has left the list.                           *)
THEOREM SignedOutIsSilent == Spec => NothingPostedSignedOut
  <1>1. ASSUME IInv, JobsFit, [Next]_vars, NEW s \in Sends,
               run[s].phase = "token", run'[s].phase = "posted"
        PROVE  Present(run[s].photo) \/ run[s].photo \in late
    <2>1. ~run[s].stale /\ RunFit(s)
      BY <1>1, OnlyPosts DEF JobsFit
    <2> QED
      BY <1>1, <2>1 DEF RunFit, Active, Present
  <1>2. IInv /\ JobsFit /\ [Next]_vars =>
            [\A s \in Sends : run[s].phase = "token" /\ run'[s].phase = "posted"
                                  => Present(run[s].photo) \/ run[s].photo \in late]_vars
    BY <1>1
  <1> QED
    BY <1>2, Fits, PTL DEF Spec, NothingPostedSignedOut

(* An upload of an account signed out ends in one of two ways, or with the app. *)
LEMMA OldUploadEnds ==
    ASSUME IInv, [Next]_vars, NEW s \in Hands, Active(s), run[s].stale, ~Active(s)', ~Relaunch
    PROVE  DropsOut(s) \/ Checked(s)
  <1>t. run \in [Sends -> Runs] /\ s \in Sends /\ s # "drain" /\ "drain" \in Sends
    BY HandsAside DEF IInv, TypeOK
  <1>1. ASSUME NEW u \in Sends, NEW r, u # s \/ r.phase # "idle"
        PROVE  run' # [run EXCEPT ![u] = r]
    BY <1>1, <1>t DEF Active
  <1>2. ASSUME NEW u \in Sends, NEW p, NEW j PROVE ~Begin(u, p, j)
    BY <1>1 DEF Begin, Idle
  <1>3. ASSUME NEW u \in Sends, u # s PROVE run' # [run EXCEPT ![u] = Idle]
    BY <1>1, <1>3
  <1>4. ASSUME NEW u \in Sends, u # s, NEW st, NEW wanted PROVE ~Ends(u, st, wanted)
    BY <1>3, <1>4 DEF Ends
  <1>5. run' # run
    BY DEF Active
  <1>6. ASSUME NEW p \in Photos,
               DrainNext(p) \/ FallsDue(p) \/ QueueForLater(p) \/ DismissJob(p)
        PROVE  FALSE
    BY <1>2, <1>5, <1>6, <1>t DEF DrainNext, FallsDue, QueueForLater, DismissJob, workVars
  <1>7. ASSUME DrainOffline \/ RetryTimer \/ ResumeQueue \/ Connected \/ Disconnected
        PROVE  FALSE
    BY <1>5, <1>7 DEF DrainOffline, RetryTimer, ResumeQueue, Connected, Disconnected, workVars
  <1>8. ASSUME NEW u \in Sends, Outcome(u), ~DropsOut(s)
        PROVE  FALSE
    <2>1. CASE Busy(u)
      <3>1. run' = [run EXCEPT ![u] = [run[u] EXCEPT !.phase = "token", !.busy = @ + 1]]
        BY <2>1 DEF Busy
      <3> QED
        BY <1>t, <3>1 DEF Runs, Active
    <2>2. CASE ~Busy(u) /\ u # s
      BY <1>4, <1>8, <2>2 DEF Outcome, Answered, Refused, Unavailable, EnhancedRefused, Fails,
         Lost, DropsOut
    <2>3. CASE ~Busy(u) /\ u = s
      BY <1>8, <2>3 DEF Outcome, Answered, Refused, Unavailable, EnhancedRefused, Fails,
         Lost, Concludes
    <2> QED
      BY <2>1, <2>2, <2>3
  <1>9. ASSUME NEW u \in Sends, Checked(u), u # s
        PROVE  FALSE
    BY <1>2, <1>3, <1>9 DEF Checked
  <1>10. ASSUME NEW u \in Hands, ByHand(u)
         PROVE  FALSE
    <2>1. u \in Sends
      BY HandsAside
    <2>2. ASSUME NEW p \in Photos, StartScan(u, p)
          PROVE  FALSE
      BY <1>1, <2>1, <2>2 DEF StartScan, Idle
    <2> QED
      BY <1>2, <1>5, <1>10, <2>1, <2>2 DEF ByHand, RetryScan, RestartSchedule, RequestEnhanced
  <1>11. ASSUME SignOut PROVE FALSE
    <2>1. run'[s] = [run[s] EXCEPT !.stale = Active(s)]
      BY <1>t, <1>11 DEF SignOut
    <2> QED
      BY <1>t, <2>1 DEF Runs, Active
  <1>12. ASSUME NEW u \in Sends, Post(u) PROVE FALSE
    <2>1. run' = [run EXCEPT ![u] = [run[u] EXCEPT !.phase = "posted"]]
      BY <1>12 DEF Post
    <2> QED
      BY <1>t, <2>1 DEF Runs, Active
  <1> QED
    BY <1>5, <1>6, <1>7, <1>8, <1>9, <1>10, <1>11, <1>12 DEF Next, vars, workVars

(* The answer to an upload of an account signed out changes nothing in the
   next one's queue, and starts no drain but one that was asked for since.   *)
THEOREM LateAnswersHarmless == Spec => LateAnswersDropped
  <1>1. ASSUME IInv, [Next]_vars, NEW s \in Hands, Active(s), run[s].stale, ~Active(s)', ~Relaunch
        PROVE  job' = job /\ (drain' = drain \/ drainAgain)
    <2>1. CASE DropsOut(s)
      BY <2>1, HandsAside DEF DropsOut, Ends
    <2>2. CASE Checked(s)
      <3>1. drain' = drain
        BY <2>2 DEF Checked, drainVars
      <3> QED
        BY <1>1, <2>2, <3>1 DEF Checked
    <2> QED
      BY <1>1, <2>1, <2>2, OldUploadEnds
  <1>2. IInv /\ [Next]_vars =>
            [\A s \in Hands : Active(s) /\ run[s].stale /\ ~Active(s)' /\ ~Relaunch
                 => job' = job /\ (drain' = drain \/ drainAgain)]_vars
    BY <1>1
  <1> QED
    BY <1>2, Invariant, PTL DEF Spec, LateAnswersDropped

=============================================================================
