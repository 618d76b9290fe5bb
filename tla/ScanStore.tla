------------------------------ MODULE ScanStore ------------------------------
(* Where the scan queue is kept: the list in ScanJobProvider's memory, its    *)
(* copy in AsyncStorage and the photos in scan-queue/, through captures,      *)
(* saves, the launch's load and sweep, dismissals, the 7-day purge, sign-out, *)
(* another account's sign-in, failing storage and kills.  What is sent and    *)
(* answered is ScanQueue's; here a send only changes a job's status.          *)
EXTENDS Naturals, Sequences, FiniteSets

CONSTANTS Photos, Accounts, Nobody,
          MaxQueue,   \* MAX_QUEUE_SIZE
          Retention,  \* FAILED_SCAN_RETENTION_MS
          MaxWrites,  \* writes AsyncStorage has yet to carry out
          MaxFaults,  \* reads and writes that fail
          MaxLaunches, MaxTime

VARIABLES list,      \* jobs in memory: one per photo, or NoJob
          stored,    \* scan_job_queue in AsyncStorage
          disk,      \* photos in scan-queue/
          stamp,     \* the time in a photo's file name
          owner,     \* the account that took a photo, Nobody before
          shooting,  \* photos whose takePictureAsync is running
          writes,    \* writes issued to AsyncStorage, oldest first
          load,      \* the load of this launch
          unsaved,   \* whether a render has yet to save its list
          skipNext,  \* skipNextPersistRef
          account,   \* who is signed in, or Nobody
          up, launches, faults, now,
          discarded, \* photos dismissed or signed out of
          inherited, \* photos whose saved job outlived its account's session
          late       \* photos the camera gave after the sign-out

\* Times and bounds are counted.
ConstantsOK == {Retention, MaxWrites, MaxFaults} \subseteq Nat

queue == <<list, stored, disk>>
photoVars == <<stamp, owner, shooting>>
process == <<load, unsaved, skipNext>>
bounds == <<up, launches, faults, now>>
history == <<discarded, inherited, late>>
vars == <<queue, photoVars, writes, process, account, bounds, history>>

NoJob == [st |-> "none", since |-> 0]
Waiting == [st |-> "waiting", since |-> 0]
Complete == [st |-> "complete", since |-> 0]
Empty == [p \in Photos |-> NoJob]
Held(jobs) == {p \in Photos : jobs[p] # NoJob}

NoLoad == [at |-> "none", launchedAt |-> 0, old |-> FALSE]

\* isFailedScanExpired.
Expired(job) == job.st = "failed" /\ now > job.since + Retention

\* What a load keeps of a list: a completed job has lost its results.
Kept(jobs) ==
    [p \in Photos |-> IF jobs[p].st = "complete" \/ Expired(jobs[p]) THEN NoJob ELSE jobs[p]]

\* sweepOrphanedScanFiles: the files that no job of `jobs` refers to, except
\* those stamped at or after the cutoff.
Swept(files, jobs, cutoff) == {p \in files : p \in Held(jobs) \/ stamp[p] >= cutoff}

\* setJobsAndRef.  React runs the effects of a render before it renders the next
\* change, and the changes of a batch are one.
Put(jobs) == (load.at = "done" => ~unsaved) /\ list' = jobs /\ unsaved' = TRUE

Issue(jobs, kind, photos) ==
    /\ Len(writes) < MaxWrites
    /\ writes' = Append(writes, [jobs |-> jobs, kind |-> kind, photos |-> photos,
                                 at |-> IF kind = "clear" THEN now ELSE 0])

Fault == faults < MaxFaults /\ faults' = faults + 1

-----------------------------------------------------------------------------
\* handleCapture: refused while the queue is full, then the camera works.
Full == Cardinality({p \in Photos : list[p].st = "waiting"}) >= MaxQueue

Shoot(p) ==
    /\ up /\ account # Nobody /\ owner[p] = Nobody /\ ~Full
    /\ owner' = [owner EXCEPT ![p] = account] /\ shooting' = shooting \cup {p}
    /\ UNCHANGED <<queue, stamp, writes, process, account, bounds, history>>

\* The photo is copied to scan-queue/ and startScan adds its job, or deletes it
\* again when the queue has filled up; nothing asks who is signed in by now.
Shot(p) ==
    /\ p \in shooting
    /\ shooting' = shooting \ {p} /\ stamp' = [stamp EXCEPT ![p] = now]
    /\ IF Full
       THEN /\ discarded' = discarded \cup {p}
            /\ UNCHANGED <<list, disk, unsaved, late>>
       ELSE /\ disk' = disk \cup {p} /\ Put([list EXCEPT ![p] = Waiting])
            /\ late' = IF account = owner[p] THEN late ELSE late \cup {p}
            /\ UNCHANGED discarded
    /\ UNCHANGED <<stored, owner, writes, load, skipNext, account, bounds, inherited>>

\* takePictureAsync fails or takes 10 s.
ShotFailed(p) ==
    /\ p \in shooting /\ shooting' = shooting \ {p}
    /\ UNCHANGED <<queue, stamp, owner, writes, process, account, bounds, history>>

\* updateJob: a send completes or fails for good; a failed or completed photo is
\* sent again.
Update(p, job) ==
    /\ up /\ list[p] # NoJob
    /\ \/ list[p] = Waiting /\ job \in {Complete, [st |-> "failed", since |-> now]}
       \/ list[p] # Waiting /\ job = Waiting
    /\ Put([list EXCEPT ![p] = job])
    /\ UNCHANGED <<stored, disk, photoVars, writes, load, skipNext, account, bounds, history>>

\* dismissJob: the image goes at once, the saved list follows.
Dismiss(p) ==
    /\ up /\ list[p] # NoJob
    /\ Put([list EXCEPT ![p] = NoJob])
    /\ disk' = disk \ {p} /\ discarded' = discarded \cup {p}
    /\ UNCHANGED <<stored, photoVars, writes, load, skipNext, account, bounds, inherited, late>>

\* purgeExpiredFailedJobs: the pruned list is saved, then the images go.
Purge ==
    LET expired == {p \in Photos : Expired(list[p])}
        pruned == [p \in Photos |-> IF p \in expired THEN NoJob ELSE list[p]]
    IN  /\ up /\ expired # {}
        /\ Put(pruned) /\ Issue(pruned, "purge", expired)
        /\ UNCHANGED <<stored, disk, photoVars, load, skipNext, account, bounds, history>>

-----------------------------------------------------------------------------
\* The persist effect of a render.
Persist ==
    /\ up /\ unsaved /\ load.at = "done"
    /\ unsaved' = FALSE /\ skipNext' = FALSE
    /\ IF skipNext THEN UNCHANGED writes ELSE Issue(list, "save", {})
    /\ UNCHANGED <<queue, photoVars, load, account, bounds, history>>

\* Mutant: the sweep after a sign-out takes its cutoff when it starts.
SweepsUpToNow(w) == Swept(disk \ w.photos, Empty, now)

\* After clearJobs, in vain or not, the sign-out deletes its photos and sweeps
\* what is older than the sign-out.
SignOutSweep(w) == Swept(disk \ w.photos, Empty, w.at)

\* AsyncStorage carries out its oldest write, or fails it.  Calls run in the order
\* they are issued: the load's read comes first.
Write ==
    LET w == Head(writes)
    IN  /\ writes # <<>> /\ load.at = "done" /\ writes' = Tail(writes)
        /\ \/ /\ stored' = w.jobs
              /\ disk' = IF w.kind = "clear" THEN SignOutSweep(w) ELSE disk \ w.photos
              /\ UNCHANGED faults
           \/ /\ Fault /\ UNCHANGED stored
              /\ disk' = IF w.kind = "clear" THEN SignOutSweep(w) ELSE disk
        /\ UNCHANGED <<list, photoVars, process, account, up, launches, now, history>>

-----------------------------------------------------------------------------
\* A process starts with the session of the last one, or without it: it has
\* been revoked or has run out.  A session that dies before it is confirmed is
\* no sign-out for the queue.
Launch(session) ==
    /\ ~up /\ launches < MaxLaunches /\ session \in {account, Nobody}
    /\ up' = TRUE /\ launches' = launches + 1 /\ account' = session
    /\ load' = [NoLoad EXCEPT !.at = "reading", !.launchedAt = now]
    /\ inherited' = IF session = Nobody THEN inherited \cup Held(stored) ELSE inherited
    /\ UNCHANGED <<queue, photoVars, writes, unsaved, skipNext, faults, now, discarded, late>>

\* Mutant: a load that was signed out of meanwhile is used.
NeverOld == FALSE

SignedOutSince == load.old

\* loadJobs gives null: nothing is swept and the next save is skipped.
ReadFails == Fault /\ skipNext' = TRUE /\ unsaved' = TRUE /\ UNCHANGED <<list, disk>>

LoadEnd ==
    /\ up /\ load.at = "reading" /\ load' = [load EXCEPT !.at = "done"]
    /\ IF SignedOutSince
       THEN skipNext' = FALSE /\ unsaved' = TRUE /\ UNCHANGED <<list, disk, faults>>
       ELSE \/ /\ Put(Kept(stored)) /\ disk' = Swept(disk, Kept(stored), load.launchedAt)
               /\ UNCHANGED <<skipNext, faults>>
            \/ ReadFails
    /\ UNCHANGED <<stored, photoVars, writes, account, up, launches, now, history>>

\* isAuthenticated turns false: the list is emptied, clearJobs is issued and the
\* photos follow it.
SignOut ==
    /\ up /\ account # Nobody /\ account' = Nobody
    /\ Put(Empty) /\ Issue(Empty, "clear", Held(list))
    /\ load' = [load EXCEPT !.old = TRUE]
    /\ discarded' = discarded \cup disk
    /\ UNCHANGED <<stored, disk, photoVars, skipNext, bounds, inherited, late>>

SignIn(a) ==
    /\ up /\ account = Nobody /\ account' = a
    /\ UNCHANGED <<queue, photoVars, writes, process, bounds, history>>

\* The process ends with what it had not written; the tokens of a sign-out were
\* deleted before the queue hears of it.
Kill ==
    /\ up /\ up' = FALSE
    /\ list' = Empty /\ writes' = <<>> /\ shooting' = {}
    /\ load' = NoLoad /\ unsaved' = FALSE /\ skipNext' = FALSE
    /\ inherited' = inherited \cup
           {p \in Held(stored) : owner[p] # account /\ (writes # <<>> \/ unsaved)}
    /\ UNCHANGED <<stored, disk, stamp, owner, account, launches, faults, now, discarded, late>>

Tick ==
    /\ now < MaxTime /\ now' = now + 1
    /\ UNCHANGED <<queue, photoVars, writes, process, account, up, launches, faults, history>>

-----------------------------------------------------------------------------
Init ==
    /\ list = Empty /\ stored = Empty /\ disk = {}
    /\ stamp = [p \in Photos |-> 0] /\ owner = [p \in Photos |-> Nobody] /\ shooting = {}
    /\ writes = <<>> /\ load = NoLoad /\ unsaved = FALSE /\ skipNext = FALSE
    /\ account = Nobody /\ up = FALSE /\ launches = 0 /\ faults = 0 /\ now = 0
    /\ discarded = {} /\ inherited = {} /\ late = {}

Use ==
    \/ \E p \in Photos : Shoot(p) \/ Shot(p) \/ ShotFailed(p) \/ Dismiss(p)
    \/ \E p \in Photos : \E job \in {Waiting, Complete, [st |-> "failed", since |-> now]} :
           Update(p, job)
    \/ Purge

Next ==
    \/ Use \/ Persist \/ Write \/ LoadEnd \/ SignOut \/ Kill \/ Tick
    \/ \E session \in Accounts \cup {Nobody} : Launch(session)
    \/ \E a \in Accounts : SignIn(a)

Spec == Init /\ [][Next]_vars

-----------------------------------------------------------------------------
\* No photo of a job that a launch would bring back is lost: neither a sweep,
\* with the cutoff it took, nor a purge, nor a load that failed deletes the file
\* of a job that is listed or saved, while captures, saves, sign-outs and other
\* sign-ins go on around them.  (A dismissal deletes the photo before the list
\* is saved, so a kill in between brings back a job without one.)
JobsHaveTheirPhotos ==
    \A p \in Photos \ discarded :
        list[p] # NoJob \/ (stored[p] # NoJob /\ Kept(stored)[p] # NoJob) => p \in disk

\* While at most one storage call fails, no queue passes to another account
\* within a process: a sign-out during the
\* load, the saves still under way or a late sign-in never bring back the jobs
\* of the account that left.  (A job comes into another account's queue only
\* from a process that started without the session that saved it, from one killed
\* before the sign-out reached AsyncStorage, or from a camera that answered after
\* the sign-out.)
QueuesStayApart ==
    account # Nobody =>
        \A p \in Held(list) : owner[p] = account \/ p \in inherited \cup late

\* The queue is cleared on sign-out, by the Settings button or a revoked session,
\* and the next account starts with an empty one
\* (docs/storage-and-retention.md, "Cleared on sign-out"): but for a camera that
\* answers after the sign-out, the listed jobs are those of whoever is signed in.
OwnQueueOnly ==
    account # Nobody => \A p \in Held(list) \ late : owner[p] = account
=============================================================================
