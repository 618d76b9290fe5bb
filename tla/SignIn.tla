------------------------------- MODULE SignIn -------------------------------
(***************************************************************************)
(* POST /auth/google (api/auth.py): the key set that verifies the ID token *)
(* (auth/jwks_cache.py, one process) and the user behind it                *)
(* (auth/identity.py).  A user is its Google subject: google_id is unique  *)
(* and never changes, and no code deletes a user.  What a sign-in starts   *)
(* is in RefreshFamily.                                                    *)
(***************************************************************************)
EXTENDS Naturals

CONSTANTS
  Requests,
  Claims,     \* the verified claims [sub, email] an ID token may carry
  Lower,      \* email -> lower(email), what is compared and unique
  OldUsers,   \* subject -> the email of its user at the start, or None
  Allowlist,  \* ALLOWED_EMAILS in lower case; empty allows all
  Ttls,       \* parse_max_age of a reply: seconds, within its bounds
  Interval,   \* MIN_REFRESH_INTERVAL_SECONDS
  MaxStale,   \* MAX_STALE_SECONDS
  MaxKid,     \* bound: key sets Google publishes
  MaxTime,    \* bound: the clock
  None

\* An address is a claim's or an old user's; a reply is kept until its own age
\* and the stale limit pass, which is never sooner than the next fetch may begin.
ConstantsOK ==
  /\ {Interval, MaxStale, MaxKid, MaxTime} \subseteq Nat /\ Ttls \subseteq Nat
  /\ \A ttl \in Ttls : ttl + MaxStale >= Interval
  /\ OldUsers \in [DOMAIN OldUsers -> DOMAIN Lower \cup {None}]
  /\ \A claim \in Claims : claim.sub \in DOMAIN OldUsers /\ claim.email \in DOMAIN Lower
  /\ None \notin Requests \cup DOMAIN Lower \cup Nat \cup [kid : Nat, expires_at : Nat]

VARIABLES
  published,  \* the kid Google signs with, alone in its key set
  jwks,       \* the cache: [kid, expires_at], or None
  attempt,    \* _last_attempt, or None
  failure,    \* _last_failure, or None
  lock,       \* the request inside the cache's lock, or None
  users,      \* subject -> its user's email, or None
  req,        \* Requests -> the sign-in under way
  now,
  met         \* history: requests whose address another's user held

keyVars == <<published, jwks, attempt, failure, lock>>
vars == <<keyVars, users, req, now, met>>

Subjects == DOMAIN OldUsers

Go(q, step) == req' = [req EXCEPT ![q] = step]
End(q, answer) == Go(q, [at |-> "end", answer |-> answer])
-----------------------------------------------------------------------------
WithinStaleLimit(t) == jwks # None /\ t < jwks.expires_at + MaxStale
CanServe(kid, t) ==
  jwks # None /\ t < jwks.expires_at /\ (kid = None \/ kid = jwks.kid)

(* The token verifies under the key set, with its claims checked. *)
Verify(q, keys) ==
  LET claim == req[q].claim IN
  IF req[q].kid # keys THEN End(q, "401")
  ELSE IF Allowlist # {} /\ Lower[claim.email] \notin Allowlist THEN End(q, "403")
  ELSE Go(q, [at |-> "find", claim |-> claim, try |-> 1])

(* The token arrives; one Google did not sign may have no kid.             *)
Present(q, claim, kid) ==
  /\ req[q].at = "idle"
  /\ Go(q, [at |-> "keys", claim |-> claim, kid |-> kid])
  /\ UNCHANGED <<keyVars, users, now, met>>

ServeFast(q) ==
  /\ req[q].at = "keys" /\ CanServe(req[q].kid, now)
  /\ Verify(q, jwks.kid)
  /\ UNCHANGED <<keyVars, users, now, met>>

Wait(q) ==
  /\ req[q].at = "keys" /\ ~CanServe(req[q].kid, now)
  /\ Go(q, [req[q] EXCEPT !.at = "wait"])
  /\ UNCHANGED <<keyVars, users, now, met>>

(* Inside the lock: the cache again, the throttle, the recent failure.     *)
Recent(t) == t # None /\ now - t < Interval

Serve(q) ==
  /\ req[q].at = "wait" /\ lock = None
  /\ \/ CanServe(req[q].kid, now)
     \/ Recent(attempt) /\ WithinStaleLimit(now)
  /\ Verify(q, jwks.kid)
  /\ UNCHANGED <<keyVars, users, now, met>>

GiveUp(q) ==
  /\ req[q].at = "wait" /\ lock = None
  /\ ~WithinStaleLimit(now) /\ Recent(failure)
  /\ End(q, "401")
  /\ UNCHANGED <<keyVars, users, now, met>>

MayFetch(q) ==
  /\ ~CanServe(req[q].kid, now)
  /\ ~(Recent(attempt) /\ WithinStaleLimit(now))
  /\ ~(~WithinStaleLimit(now) /\ Recent(failure))

Fetch(q) ==
  /\ req[q].at = "wait" /\ lock = None /\ MayFetch(q)
  /\ lock' = q /\ attempt' = now
  /\ Go(q, [at |-> "fetch", claim |-> req[q].claim, kid |-> req[q].kid, now |-> now])
  /\ UNCHANGED <<published, jwks, failure, users, now, met>>

FetchDone(q, ttl) ==
  /\ req[q].at = "fetch"
  /\ jwks' = [kid |-> published, expires_at |-> now + ttl]
  /\ failure' = None /\ lock' = None
  /\ Verify(q, published)
  /\ UNCHANGED <<published, attempt, users, now, met>>

\* Mutant: a failed fetch is forgotten.
FailureForgotten(q) == None

(* Noted with the time the fetch began; cached keys may still serve. *)
FailureNoted(q) == req[q].now

FetchFails(q) ==
  /\ req[q].at = "fetch"
  /\ failure' = FailureNoted(q) /\ lock' = None
  /\ IF WithinStaleLimit(req[q].now) THEN Verify(q, jwks.kid) ELSE End(q, "401")
  /\ UNCHANGED <<published, jwks, attempt, users, now, met>>
-----------------------------------------------------------------------------
(* resolve_google_user: by subject, then whoever else holds the address.   *)
Holders(table, sub, email) ==
  {s \in Subjects \ {sub} : table[s] # None /\ Lower[table[s]] = Lower[email]}

Retry(q) == [at |-> "find", claim |-> req[q].claim, try |-> req[q].try + 1]

FindUser(q) ==
  LET c == req[q].claim
      stored == users[c.sub] IN
  /\ req[q].at = "find"
  /\ Go(q, [at |-> IF stored = c.email THEN "commit" ELSE "holder", claim |-> c,
            try |-> req[q].try, known |-> stored # None, email |-> None])
  /\ UNCHANGED <<keyVars, users, now, met>>

(* A changed address that is free is stored, one that is held is left      *)
(* (None: no address is written); a new subject on an address that is held *)
(* is refused, never merged.                                               *)
FindHolder(q) ==
  LET c == req[q].claim
      free == Holders(users, c.sub, c.email) = {} IN
  /\ req[q].at = "holder"
  /\ IF ~free /\ ~req[q].known THEN End(q, "409")
     ELSE Go(q, [req[q] EXCEPT !.at = "commit",
                               !.email = IF free THEN c.email ELSE @])
  /\ UNCHANGED <<keyVars, users, now, met>>

(* The commit: google_id and lower(email) are unique.                      *)
Violates(q) ==
  LET c == req[q].claim IN
  \/ ~req[q].known /\ users[c.sub] # None
  \/ req[q].email \notin {None, users[c.sub]} /\ Holders(users, c.sub, req[q].email) # {}

\* Mutant: the lookup does not run once more.
OneAttempt == 1

Attempts == 2

Commit(q) ==
  LET c == req[q].claim
      table == IF req[q].email = None THEN users
               ELSE [users EXCEPT ![c.sub] = req[q].email] IN
  /\ req[q].at = "commit" /\ ~Violates(q)
  /\ users' = table
  /\ met' = met \cup {p \in Requests : /\ req[p].at \notin {"idle", "end"}
                                       /\ Holders(table, req[p].claim.sub, req[p].claim.email) # {}}
  /\ End(q, "200")
  /\ UNCHANGED <<keyVars, now>>

LoseRace(q) ==
  /\ req[q].at = "commit" /\ Violates(q)
  /\ IF req[q].try < Attempts THEN Go(q, Retry(q)) ELSE End(q, "409")
  /\ UNCHANGED <<keyVars, users, now, met>>
-----------------------------------------------------------------------------
Rotate ==
  /\ published < MaxKid /\ published' = published + 1
  /\ UNCHANGED <<jwks, attempt, failure, lock, users, req, now, met>>

Tick ==
  /\ now < MaxTime /\ now' = now + 1
  /\ UNCHANGED <<keyVars, users, req, met>>

Init ==
  /\ published = 1 /\ jwks = None /\ attempt = None /\ failure = None /\ lock = None
  /\ users = OldUsers /\ now = 0 /\ met = {}
  /\ req = [q \in Requests |-> [at |-> "idle"]]

Keys(q) ==
  \/ \E claim \in Claims : \E kid \in {published, None} : Present(q, claim, kid)
  \/ ServeFast(q) \/ Wait(q) \/ Serve(q) \/ GiveUp(q)
  \/ Fetch(q) \/ FetchFails(q) \/ \E ttl \in Ttls : FetchDone(q, ttl)

Resolve(q) == FindUser(q) \/ FindHolder(q) \/ Commit(q) \/ LoseRace(q)

Next == (\E q \in Requests : Keys(q) \/ Resolve(q)) \/ Rotate \/ Tick
Spec == Init /\ [][Next]_vars
-----------------------------------------------------------------------------
(* A sign-in is refused as account_conflict only when another subject's    *)
(* user held its address at some moment while it ran: never because the    *)
(* same person tapped twice.                                               *)
Held(q) == Holders(users, req[q].claim.sub, req[q].claim.email) # {}
RefusedForAnother ==
  \A q \in Requests :
    req'[q] = [at |-> "end", answer |-> "409"] /\ req[q].at # "end" =>
      q \in met \/ Held(q)

(* Two fetches of the key set begin at least Interval apart.               *)
SpacedFetch == lock = None /\ lock' # None /\ attempt # None => now - attempt >= Interval

(* Refused only for another's address, as above, in every step.            *)
ConflictIsReal == [][RefusedForAnother]_vars

(* However sign-ins overlap, keys expire and fetches fail, fetches of the  *)
(* key set keep their distance.                                            *)
FetchesApart == [][SpacedFetch]_vars
=============================================================================
