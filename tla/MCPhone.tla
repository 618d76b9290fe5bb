------------------------------- MODULE MCPhone -------------------------------
(* Instances of ScanStore, AppSession and SignIn for TLC: what the phone keeps *)
(* of the scan queue and of the session, and the server's side of a sign-in.   *)
(* They share no state here, so a behaviour moves one of them and leaves the   *)
(* others as they began.                                                       *)
EXTENDS AppSession, FiniteSets, TLC

CONSTANTS Photos, Accounts, Nobody, MaxQueue, Retention, MaxWrites, MaxMishaps, MaxTime,
          SignIns, Claims, Lower, OldUsers, Allowlist, Ttls, Interval, MaxStale, MaxKid,
          MaxSeconds

VARIABLES part,
          list, stored, disk, stamp, owner, shooting, writes, load, unsaved, skipNext,
          account, running, starts, mishaps, now, discarded, inherited, late,
          published, jwks, attempt, failure, lock, users, req, clock, met

store == <<list, stored, disk, stamp, owner, shooting, writes, load, unsaved, skipNext,
           account, running, starts, mishaps, now, discarded, inherited, late>>
signIn == <<published, jwks, attempt, failure, lock, users, req, clock, met>>

S == INSTANCE ScanStore WITH up <- running, launches <- starts, faults <- mishaps,
                           MaxFaults <- MaxMishaps
I == INSTANCE SignIn WITH Requests <- SignIns, now <- clock, MaxTime <- MaxSeconds

ASSUME SessionOK == ConstantsOK
ASSUME StoreOK == S!ConstantsOK
ASSUME SignInOK == I!ConstantsOK

-----------------------------------------------------------------------------
\* SignIn: two people, one of whom holds the address the other now has, spelled
\* in two ways, and one whose address Google changed.
MCLower == ("a" :> "a") @@ ("A" :> "a") @@ ("b" :> "b")
MCOldUsers == ("s1" :> None) @@ ("s2" :> None) @@ ("s3" :> "b")
MCClaims == {[sub |-> "s1", email |-> "a"], [sub |-> "s2", email |-> "A"],
             [sub |-> "s3", email |-> "a"], [sub |-> "s3", email |-> "b"]}

-----------------------------------------------------------------------------
Parts ==
  /\ part \in {"store", "session", "signIn"}
  /\ Init /\ S!Init /\ I!Init
  /\ IF part = "session" THEN others ELSE marker = "done"

Moving ==
  /\ UNCHANGED part
  /\ \/ part = "store" /\ S!Next /\ UNCHANGED <<vars, signIn>>
     \/ part = "session" /\ Next /\ UNCHANGED <<store, signIn>>
     \/ part = "signIn" /\ I!Next /\ UNCHANGED <<vars, store>>
PartsSpec == Parts /\ [][Moving]_<<part, vars, store, signIn>>

\* Any two photos or accounts are alike.
Symmetry == Permutations(Photos) \cup Permutations(Accounts)

\* At most one job has ended; the other photo may wait beside it.
OneEnded == Cardinality({p \in Photos : list[p].st \in {"complete", "failed"}}) <= 1

\* At most one session's tokens are rotated, and none after a reinstall; a launch
\* that follows a rotation, or makes one after another launch, has no failing call
\* of its own.
Rotated == {x \in DOMAIN server.cur : server.cur[x] > 0}
OneRotation ==
    Rotated # {} => Cardinality(Rotated) = 1 /\ installs = 1 /\ (launches > 1 => faults = 0)

-----------------------------------------------------------------------------
\* No sweep, purge or failed load deletes the photo of a job that is listed or
\* that a launch would bring back (ScanJobContext.tsx, scanJobStorage.ts).
JobsHaveTheirPhotos == part = "store" => S!JobsHaveTheirPhotos

\* Within a process no queue passes to another account, whatever loads, saves and
\* sign-outs are under way (ScanJobContext.tsx).
QueuesStayApart == part = "store" => S!QueuesStayApart

\* account_conflict is answered only for an address another's user held while
\* the sign-in ran (auth/identity.py).
ConflictIsReal == [][I!RefusedForAnother]_signIn

\* Two fetches of Google's keys begin MIN_REFRESH_INTERVAL_SECONDS apart or more
\* (auth/jwks_cache.py).
FetchesApart == [][I!SpacedFetch]_signIn
=============================================================================
