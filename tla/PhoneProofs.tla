----------------------------- MODULE PhoneProofs -----------------------------
(* Proofs about SignIn, ScanStore and AppSession, for any requests, claims,   *)
(* users, photos, accounts, calls, launches and times.                        *)
EXTENDS MCPhone, Sequences, TLAPS

-----------------------------------------------------------------------------
(* SignIn.                                                                   *)

Kids == Nat \cup {None}
Steps ==
  [at : {"idle"}]
  \cup [at : {"keys", "wait"}, claim : Claims, kid : Kids]
  \cup [at : {"fetch"}, claim : Claims, kid : Kids, now : Nat]
  \cup [at : {"find"}, claim : Claims, try : {1, 2}]
  \cup [at : {"holder", "commit"}, claim : Claims, try : {1, 2}, known : BOOLEAN,
        email : DOMAIN Lower \cup {None}]
  \cup [at : {"end"}, answer : {"200", "401", "403", "409"}]

StepsTyped == req \in [SignIns -> Steps]

(* One request fetches at a time, and the cache's marks are those of the last *)
(* fetch: it failed, or it gave keys that serve until the next may begin.    *)
LastFetch ==
  /\ clock \in Nat /\ published \in Nat
  /\ attempt \in Nat \cup {None} /\ failure \in Nat \cup {None}
  /\ attempt # None => attempt <= clock
  /\ jwks # None => jwks.kid \in Nat /\ jwks.expires_at \in Nat
  /\ \A q \in SignIns : req[q].at = "fetch" => lock = q /\ req[q].now = attempt
  /\ lock # None => lock \in SignIns /\ req[lock].at = "fetch"
  /\ lock = None /\ attempt # None =>
       \/ failure = attempt
       \/ /\ failure = None /\ jwks # None
          /\ jwks.expires_at + MaxStale >= attempt + Interval

(* What a sign-in has read of the users.  Once its second look-up has begun,  *)
(* it has met the user that made the first one fail.                         *)
Read(q) ==
  /\ req[q].at \in {"holder", "commit"} /\ req[q].known => users[req[q].claim.sub] # None
  /\ req[q].at \in {"holder", "commit"} => req[q].email \in {None, req[q].claim.email}
  /\ req[q].at = "holder" => req[q].email = None
  /\ req[q].at = "commit" /\ req[q].email # None /\ I!Held(q) => q \in met
  /\ req[q].at = "commit" /\ ~req[q].known => req[q].email # None
  /\ req[q].at = "find" /\ req[q].try = 2 => users[req[q].claim.sub] # None \/ q \in met
  /\ req[q].at \in {"holder", "commit"} /\ req[q].try = 2 /\ ~req[q].known => q \in met

UsersTyped == users \in [DOMAIN OldUsers -> DOMAIN Lower \cup {None}]

SignInInv == StepsTyped /\ LastFetch /\ UsersTyped /\ \A q \in SignIns : Read(q)

LEMMA SignInStart == I!Init => SignInInv
<1> SUFFICES ASSUME I!Init PROVE SignInInv
  OBVIOUS
<1>1. StepsTyped
  BY DEF I!Init, StepsTyped, Steps
<1>2. \A q \in SignIns : req[q].at = "idle"
  BY DEF I!Init
<1>3. LastFetch
  BY <1>2, SignInOK DEF I!Init, LastFetch, I!ConstantsOK
<1>4. \A q \in SignIns : Read(q)
  BY <1>2 DEF Read
<1>5. UsersTyped
  BY SignInOK DEF I!Init, UsersTyped, I!ConstantsOK
<1> QED
  BY <1>1, <1>3, <1>4, <1>5 DEF SignInInv

(* A request that goes on changes nobody else's state.                       *)
LEMMA Goes ==
  ASSUME StepsTyped, NEW q \in SignIns, NEW step \in Steps, I!Go(q, step)
  PROVE  StepsTyped' /\ req'[q] = step /\ \A r \in SignIns \ {q} : req'[r] = req[r]
BY DEF StepsTyped, I!Go

(* What a token's verification leads to.                                     *)
LEMMA Verified ==
  ASSUME StepsTyped, NEW q \in SignIns, NEW keys, req[q].claim \in Claims, I!Verify(q, keys)
  PROVE  /\ StepsTyped' /\ \A r \in SignIns \ {q} : req'[r] = req[r]
         /\ \/ req'[q].at = "end" /\ req'[q].answer \in {"401", "403"}
            \/ req'[q].at = "find" /\ req'[q].try = 1
<1>1. ASSUME NEW answer \in {"401", "403"}, I!End(q, answer)
      PROVE  /\ StepsTyped' /\ \A r \in SignIns \ {q} : req'[r] = req[r]
             /\ req'[q].at = "end" /\ req'[q].answer \in {"401", "403"}
  <2>1. [at |-> "end", answer |-> answer] \in Steps
    BY DEF Steps
  <2> QED
    BY <1>1, <2>1, Goes DEF I!End
<1>2. ASSUME I!Go(q, [at |-> "find", claim |-> req[q].claim, try |-> 1])
      PROVE  /\ StepsTyped' /\ \A r \in SignIns \ {q} : req'[r] = req[r]
             /\ req'[q].at = "find" /\ req'[q].try = 1
  <2>1. [at |-> "find", claim |-> req[q].claim, try |-> 1] \in Steps
    BY DEF Steps
  <2> QED
    BY <1>2, <2>1, Goes
<1> QED
  BY <1>1, <1>2 DEF I!Verify

\* What a step on the keys leaves of a sign-in, and what it may not answer.
KeysKeep ==
  /\ \A r \in SignIns : req'[r] = req[r] \/ req'[r].at \in {"keys", "wait", "fetch"}
                       \/ (req'[r].at = "end" /\ req'[r].answer # "409")
                       \/ (req'[r].at = "find" /\ req'[r].try = 1)
  /\ UNCHANGED <<users, met>>

LEMMA KeysRead ==
  ASSUME KeysKeep, NEW r \in SignIns, Read(r)
  PROVE  Read(r)'
BY DEF KeysKeep, Read, I!Held, I!Holders


(* A sign-in that is under way carries a claim.                              *)
LEMMA ClaimOf ==
  ASSUME StepsTyped, NEW q \in SignIns, req[q].at \notin {"idle", "end"}
  PROVE  req[q].claim \in Claims
BY DEF StepsTyped, Steps

(* A step that neither begins nor ends a fetch leaves the marks as they are.  *)
LEMMA FetchKept ==
  ASSUME LastFetch, NEW q \in SignIns, req[q].at # "fetch", req'[q].at # "fetch",
         \A r \in SignIns \ {q} : req'[r] = req[r], UNCHANGED <<I!keyVars, clock>>
  PROVE  LastFetch'
BY DEF LastFetch, I!keyVars

LEMMA KeysStep ==
  ASSUME StepsTyped, LastFetch, NEW q \in SignIns, I!Keys(q)
  PROVE  StepsTyped' /\ LastFetch' /\ KeysKeep
<1> DEFINE Goal == StepsTyped' /\ LastFetch' /\ KeysKeep
<1> USE DEF I!keyVars
<1>1. ASSUME NEW claim \in Claims, NEW kid \in {published, None}, I!Present(q, claim, kid)
      PROVE  Goal
  <2>1. [at |-> "keys", claim |-> claim, kid |-> kid] \in Steps
    BY DEF Steps, Kids, LastFetch
  <2>2. StepsTyped' /\ req'[q].at = "keys" /\ \A r \in SignIns \ {q} : req'[r] = req[r]
    BY <1>1, <2>1, Goes DEF I!Present
  <2>3. LastFetch'
    BY <1>1, <2>2, FetchKept DEF I!Present
  <2> QED
    BY <1>1, <2>2, <2>3 DEF KeysKeep, I!Present
<1>2. ASSUME req[q].at \in {"keys", "wait"}, NEW keys, I!Verify(q, keys),
             UNCHANGED <<I!keyVars, users, clock, met>>
      PROVE  Goal
  <2>1. /\ StepsTyped' /\ \A r \in SignIns \ {q} : req'[r] = req[r]
        /\ \/ req'[q].at = "end" /\ req'[q].answer \in {"401", "403"}
           \/ req'[q].at = "find" /\ req'[q].try = 1
    BY <1>2, ClaimOf, Verified
  <2>2. LastFetch'
    BY <1>2, <2>1, FetchKept
  <2> QED
    BY <1>2, <2>1, <2>2 DEF KeysKeep
<1>3. CASE I!ServeFast(q)
  BY <1>2, <1>3 DEF I!ServeFast
<1>4. CASE I!Serve(q)
  BY <1>2, <1>4 DEF I!Serve
<1>5. CASE I!Wait(q)
  <2>1. [req[q] EXCEPT !.at = "wait"] \in Steps /\ [req[q] EXCEPT !.at = "wait"].at = "wait"
    BY <1>5 DEF I!Wait, StepsTyped, Steps
  <2>2. StepsTyped' /\ req'[q].at = "wait" /\ \A r \in SignIns \ {q} : req'[r] = req[r]
    BY <1>5, <2>1, Goes DEF I!Wait
  <2>3. LastFetch'
    BY <1>5, <2>2, FetchKept DEF I!Wait
  <2> QED
    BY <1>5, <2>2, <2>3 DEF KeysKeep, I!Wait
<1>6. CASE I!GiveUp(q)
  <2>1. [at |-> "end", answer |-> "401"] \in Steps
    BY DEF Steps
  <2>2. /\ StepsTyped' /\ req'[q] = [at |-> "end", answer |-> "401"]
        /\ \A r \in SignIns \ {q} : req'[r] = req[r]
    BY <1>6, <2>1, Goes DEF I!GiveUp, I!End
  <2>3. LastFetch'
    BY <1>6, <2>2, FetchKept DEF I!GiveUp
  <2> QED
    BY <1>6, <2>2, <2>3 DEF KeysKeep, I!GiveUp
<1>7. CASE I!Fetch(q)
  <2> DEFINE step == [at |-> "fetch", claim |-> req[q].claim, kid |-> req[q].kid, now |-> clock]
  <2>0. req[q].at = "wait" /\ lock = None /\ lock' = q /\ attempt' = clock /\ I!Go(q, step)
        /\ UNCHANGED <<published, jwks, failure, users, clock, met>>
    BY <1>7 DEF I!Fetch
  <2>1. step \in Steps /\ step.at = "fetch" /\ step.now = clock
    BY <2>0 DEF StepsTyped, Steps, LastFetch
  <2>2. StepsTyped' /\ req'[q] = step /\ \A r \in SignIns \ {q} : req'[r] = req[r]
    BY <2>0, <2>1, Goes
  <2>3. \A r \in SignIns \ {q} : req[r].at # "fetch"
    BY <2>0, SignInOK DEF LastFetch, I!ConstantsOK
  <2>4. LastFetch'
    BY <2>0, <2>1, <2>2, <2>3, SignInOK DEF LastFetch, I!ConstantsOK
  <2> QED
    BY <2>0, <2>1, <2>2, <2>4 DEF KeysKeep
<1>8. ASSUME I!FetchFails(q) PROVE Goal
  <2>0. /\ req[q].at = "fetch" /\ lock = q /\ req[q].now = attempt /\ attempt \in Nat
        /\ failure' = attempt /\ lock' = None
        /\ UNCHANGED <<published, jwks, attempt, users, clock, met>>
    BY <1>8, SignInOK DEF I!FetchFails, I!FailureNoted, LastFetch, StepsTyped, Steps
  <2>1. /\ StepsTyped' /\ \A r \in SignIns \ {q} : req'[r] = req[r]
        /\ \/ req'[q].at = "end" /\ req'[q].answer \in {"401", "403"}
           \/ req'[q].at = "find" /\ req'[q].try = 1
    <3>1. CASE I!Verify(q, jwks.kid)
      BY <2>0, <3>1, ClaimOf, Verified
    <3>2. CASE I!End(q, "401")
      <4>1. [at |-> "end", answer |-> "401"] \in Steps
        BY DEF Steps
      <4> QED
        BY <3>2, <4>1, Goes DEF I!End
    <3> QED
      BY <1>8, <3>1, <3>2 DEF I!FetchFails
  <2>2. \A r \in SignIns : req'[r].at # "fetch"
    BY <2>0, <2>1 DEF LastFetch
  <2>3. LastFetch'
    BY <2>0, <2>2 DEF LastFetch
  <2> QED
    BY <2>0, <2>1, <2>3 DEF KeysKeep
<1>9. ASSUME NEW ttl \in Ttls, I!FetchDone(q, ttl) PROVE Goal
  <2>0. /\ req[q].at = "fetch" /\ lock = q
        /\ jwks' = [kid |-> published, expires_at |-> clock + ttl]
        /\ failure' = None /\ lock' = None
        /\ UNCHANGED <<published, attempt, users, clock, met>>
    BY <1>9 DEF I!FetchDone, LastFetch
  <2>1. /\ StepsTyped' /\ \A r \in SignIns \ {q} : req'[r] = req[r]
        /\ \/ req'[q].at = "end" /\ req'[q].answer \in {"401", "403"}
           \/ req'[q].at = "find" /\ req'[q].try = 1
    BY <1>9, <2>0, ClaimOf, Verified DEF I!FetchDone
  <2>2. \A r \in SignIns : req'[r].at # "fetch"
    BY <2>0, <2>1 DEF LastFetch
  <2>3. /\ ttl \in Nat /\ ttl + MaxStale >= Interval /\ MaxStale \in Nat /\ Interval \in Nat
    BY SignInOK DEF I!ConstantsOK
  <2>4. jwks' # None /\ jwks'.kid = published /\ jwks'.expires_at = clock + ttl
    <3>1. published \in Nat /\ clock + ttl \in Nat
      BY <2>3, SignInOK DEF LastFetch, I!ConstantsOK
    <3>2. jwks' \in [kid : Nat, expires_at : Nat]
      BY <2>0, <3>1
    <3> QED
      BY <2>0, <3>2, SignInOK DEF I!ConstantsOK
  <2>5. LastFetch'
    BY <2>0, <2>2, <2>3, <2>4 DEF LastFetch
  <2> QED
    BY <2>0, <2>1, <2>5 DEF KeysKeep
<1> QED
  BY <1>1, <1>3, <1>4, <1>5, <1>6, <1>7, <1>8, <1>9 DEF I!Keys

(* What a sign-in has read is not undone by the others: no user loses its    *)
(* address, and an address found held is remembered.                         *)
LEMMA ReadKept ==
  ASSUME NEW r \in SignIns, Read(r), req'[r] = req[r],
         \A s \in DOMAIN OldUsers : users[s] # None => users'[s] # None,
         met \subseteq met', req[r].at = "commit" /\ I!Held(r)' => r \in met' \/ I!Held(r),
         req[r].at \in {"find", "holder", "commit"} => req[r].claim.sub \in DOMAIN OldUsers
  PROVE  Read(r)'
BY DEF Read

(* A claim's subject is one, and its address one that is compared.           *)
LEMMA ClaimKnown ==
  ASSUME StepsTyped, NEW q \in SignIns, req[q].at \notin {"idle", "end"}
  PROVE  req[q].claim.sub \in DOMAIN OldUsers /\ req[q].claim.email \in DOMAIN Lower
BY ClaimOf, SignInOK DEF I!ConstantsOK

\* What a step on the users leaves of the sign-ins, and when it may answer 409.
Resolved(q) ==
  /\ StepsTyped' /\ UsersTyped' /\ \A r \in SignIns : Read(r)'
  /\ req'[q].at # "fetch" /\ \A r \in SignIns \ {q} : req'[r] = req[r]
  /\ req'[q] = [at |-> "end", answer |-> "409"] => q \in met \/ I!Held(q)

LEMMA FindUserStep ==
  ASSUME SignInInv, NEW q \in SignIns, I!FindUser(q)
  PROVE  Resolved(q)
<1> DEFINE c == req[q].claim
           step == [at |-> IF users[c.sub] = c.email THEN "commit" ELSE "holder", claim |-> c,
                    try |-> req[q].try, known |-> users[c.sub] # None, email |-> None]
<1>0. StepsTyped /\ UsersTyped /\ LastFetch /\ \A r \in SignIns : Read(r)
  BY DEF SignInInv
<1>1. /\ req[q].at = "find" /\ I!Go(q, step) /\ UNCHANGED <<users, met>>
      /\ c \in Claims /\ c.sub \in DOMAIN OldUsers /\ c.email \in DOMAIN Lower
      /\ req[q].try \in {1, 2}
  BY <1>0, ClaimOf, ClaimKnown DEF I!FindUser, StepsTyped, Steps
<1>2. step \in Steps
  BY <1>1 DEF Steps
<1>3. StepsTyped' /\ req'[q] = step /\ \A r \in SignIns \ {q} : req'[r] = req[r]
  BY <1>0, <1>1, <1>2, Goes
<1>4. Read(q)'
  <2>1. /\ req'[q].at \in {"commit", "holder"} /\ req'[q].claim = c /\ req'[q].email = None
        /\ req'[q].known = (users[c.sub] # None) /\ req'[q].try = req[q].try
        /\ req'[q].at = "commit" => users[c.sub] = c.email
    BY <1>3
  <2>2. c.email # None
    BY <1>1, SignInOK DEF I!ConstantsOK
  <2> QED
    BY <1>0, <1>1, <2>1, <2>2 DEF Read
<1>5. \A r \in SignIns \ {q} : Read(r)'
  BY <1>0, <1>1, <1>3 DEF Read, I!Held, I!Holders
<1>6. UsersTyped'
  BY <1>0, <1>1 DEF UsersTyped
<1>7. req'[q].at \in {"commit", "holder"}
  BY <1>3
<1> QED
  BY <1>3, <1>4, <1>5, <1>6, <1>7 DEF Resolved

LEMMA FindHolderStep ==
  ASSUME SignInInv, NEW q \in SignIns, I!FindHolder(q)
  PROVE  Resolved(q)
<1> DEFINE c == req[q].claim
<1>0. StepsTyped /\ UsersTyped /\ LastFetch /\ \A r \in SignIns : Read(r)
  BY DEF SignInInv
<1>1. /\ req[q].at = "holder" /\ UNCHANGED <<users, met>>
      /\ c \in Claims /\ c.sub \in DOMAIN OldUsers /\ c.email \in DOMAIN Lower
      /\ req[q].try \in {1, 2} /\ req[q].known \in BOOLEAN /\ req[q].email = None
  BY <1>0, ClaimOf, ClaimKnown DEF I!FindHolder, StepsTyped, Steps, Read
<1>2. UsersTyped'
  BY <1>0, <1>1 DEF UsersTyped
<1>3. CASE I!Held(q) /\ ~req[q].known
  <2>1. I!Go(q, [at |-> "end", answer |-> "409"])
    BY <1>3 DEF I!FindHolder, I!Held, I!End
  <2>2. [at |-> "end", answer |-> "409"] \in Steps
    BY DEF Steps
  <2>3. /\ StepsTyped' /\ req'[q] = [at |-> "end", answer |-> "409"]
        /\ \A r \in SignIns \ {q} : req'[r] = req[r]
    BY <1>0, <2>1, <2>2, Goes
  <2>4. \A r \in SignIns : Read(r)'
    BY <1>0, <1>1, <2>3 DEF Read, I!Held, I!Holders
  <2> QED
    BY <1>2, <1>3, <2>3, <2>4 DEF Resolved
<1>4. CASE ~(I!Held(q) /\ ~req[q].known)
  <2>1. PICK step : /\ step = [req[q] EXCEPT !.at = "commit",
                                            !.email = IF I!Held(q) THEN @ ELSE c.email]
                    /\ I!Go(q, step)
    BY <1>4 DEF I!FindHolder, I!Held
  <2>2. /\ step \in Steps /\ step.at = "commit" /\ step.claim = c
        /\ step.known = req[q].known /\ step.try = req[q].try
        /\ step.email = IF I!Held(q) THEN None ELSE c.email
    BY <1>0, <1>1, <2>1 DEF StepsTyped, Steps
  <2>3. StepsTyped' /\ req'[q] = step /\ \A r \in SignIns \ {q} : req'[r] = req[r]
    BY <1>0, <2>1, <2>2, Goes
  <2>4. I!Held(q)' = I!Held(q)
    BY <1>1, <2>2, <2>3 DEF I!Held, I!Holders
  <2>5. Read(q)'
    BY <1>0, <1>1, <1>4, <2>2, <2>3, <2>4, SignInOK DEF Read, I!ConstantsOK
  <2>6. \A r \in SignIns \ {q} : Read(r)'
    BY <1>0, <1>1, <2>3 DEF Read, I!Held, I!Holders
  <2> QED
    BY <1>2, <2>2, <2>3, <2>5, <2>6 DEF Resolved
<1> QED
  BY <1>3, <1>4

LEMMA CommitStep ==
  ASSUME SignInInv, NEW q \in SignIns, I!Commit(q)
  PROVE  Resolved(q)
<1> DEFINE c == req[q].claim
           table == IF req[q].email = None THEN users ELSE [users EXCEPT ![c.sub] = req[q].email]
<1>0. StepsTyped /\ UsersTyped /\ LastFetch /\ \A r \in SignIns : Read(r)
  BY DEF SignInInv
<1>1. /\ req[q].at = "commit" /\ users' = table /\ I!Go(q, [at |-> "end", answer |-> "200"])
      /\ met' = met \cup {p \in SignIns : /\ req[p].at \notin {"idle", "end"}
                                        /\ I!Holders(table, req[p].claim.sub, req[p].claim.email) # {}}
  BY DEF I!Commit, I!End
<1>2. req[q].email \in DOMAIN Lower \cup {None} /\ c.sub \in DOMAIN OldUsers
  BY <1>0, <1>1, ClaimKnown DEF StepsTyped, Steps
<1>3. [at |-> "end", answer |-> "200"] \in Steps
  BY DEF Steps
<1>4. /\ StepsTyped' /\ req'[q] = [at |-> "end", answer |-> "200"]
      /\ \A r \in SignIns \ {q} : req'[r] = req[r]
  BY <1>0, <1>1, <1>3, Goes
<1>5. UsersTyped' /\ \A s \in DOMAIN OldUsers : users[s] # None => users'[s] # None
  BY <1>0, <1>1, <1>2 DEF UsersTyped
<1>6. ASSUME NEW r \in SignIns \ {q} PROVE Read(r)'
  <2>1. req[r].at = "commit" /\ I!Held(r)' => r \in met'
    BY <1>1, <1>4, <1>6 DEF I!Held
  <2>2. met \subseteq met'
    BY <1>1
  <2>3. req[r].at \in {"find", "holder", "commit"} => req[r].claim.sub \in DOMAIN OldUsers
    BY <1>0, ClaimKnown
  <2> QED
    BY <1>0, <1>4, <1>5, <2>1, <2>2, <2>3, ReadKept
<1>7. Read(q)'
  BY <1>4 DEF Read
<1> QED
  BY <1>4, <1>5, <1>6, <1>7 DEF Resolved

LEMMA LoseRaceStep ==
  ASSUME SignInInv, NEW q \in SignIns, I!LoseRace(q)
  PROVE  Resolved(q)
<1> DEFINE c == req[q].claim
<1>0. StepsTyped /\ UsersTyped /\ LastFetch /\ \A r \in SignIns : Read(r)
  BY DEF SignInInv
<1>1. /\ req[q].at = "commit" /\ I!Violates(q) /\ UNCHANGED <<users, met>>
      /\ c \in Claims /\ req[q].try \in {1, 2}
  BY <1>0, ClaimOf DEF I!LoseRace, StepsTyped, Steps
<1>2. UsersTyped'
  BY <1>0, <1>1 DEF UsersTyped
<1>3. \/ ~req[q].known /\ users[c.sub] # None
      \/ q \in met /\ I!Held(q)
  BY <1>0, <1>1 DEF I!Violates, I!Held, Read
<1>4. CASE req[q].try = 1
  <2> DEFINE step == [at |-> "find", claim |-> c, try |-> 2]
  <2>1. I!Go(q, step)
    BY <1>4 DEF I!LoseRace, I!Retry, I!Attempts
  <2>2. step \in Steps
    BY <1>1 DEF Steps
  <2>3. StepsTyped' /\ req'[q] = step /\ \A r \in SignIns \ {q} : req'[r] = req[r]
    BY <1>0, <2>1, <2>2, Goes
  <2>4. Read(q)'
    BY <1>1, <1>3, <2>3 DEF Read
  <2>5. \A r \in SignIns \ {q} : Read(r)'
    BY <1>0, <1>1, <2>3 DEF Read, I!Held, I!Holders
  <2> QED
    BY <1>2, <2>3, <2>4, <2>5 DEF Resolved
<1>5. CASE req[q].try = 2
  <2>1. I!Go(q, [at |-> "end", answer |-> "409"])
    BY <1>5 DEF I!LoseRace, I!Attempts, I!End
  <2>2. [at |-> "end", answer |-> "409"] \in Steps
    BY DEF Steps
  <2>3. /\ StepsTyped' /\ req'[q] = [at |-> "end", answer |-> "409"]
        /\ \A r \in SignIns \ {q} : req'[r] = req[r]
    BY <1>0, <2>1, <2>2, Goes
  <2>4. \A r \in SignIns : Read(r)'
    BY <1>0, <1>1, <2>3 DEF Read, I!Held, I!Holders
  <2>5. q \in met \/ I!Held(q)
    BY <1>0, <1>1, <1>3, <1>5 DEF Read
  <2> QED
    BY <1>2, <2>3, <2>4, <2>5 DEF Resolved
<1> QED
  BY <1>1, <1>4, <1>5

LEMMA SignInStep == SignInInv /\ [I!Next]_signIn => SignInInv'
<1> SUFFICES ASSUME SignInInv, [I!Next]_signIn PROVE SignInInv'
  OBVIOUS
<1>0. StepsTyped /\ UsersTyped /\ LastFetch /\ \A r \in SignIns : Read(r)
  BY DEF SignInInv
<1>1. ASSUME NEW q \in SignIns, I!Keys(q) PROVE SignInInv'
  <2>1. StepsTyped' /\ LastFetch' /\ KeysKeep
    BY <1>0, <1>1, KeysStep
  <2>2. \A r \in SignIns : Read(r)'
    BY <1>0, <2>1, KeysRead
  <2>3. UsersTyped'
    BY <1>0, <2>1 DEF UsersTyped, KeysKeep
  <2> QED
    BY <2>1, <2>2, <2>3 DEF SignInInv
<1>2. ASSUME NEW q \in SignIns, I!Resolve(q) PROVE SignInInv'
  <2>1. Resolved(q)
    BY <1>2, FindUserStep, FindHolderStep, CommitStep, LoseRaceStep DEF I!Resolve
  <2>2. UNCHANGED <<I!keyVars, clock>> /\ req[q].at # "fetch"
    BY <1>2 DEF I!Resolve, I!FindUser, I!FindHolder, I!Commit, I!LoseRace, I!keyVars
  <2>3. LastFetch'
    BY <1>0, <2>1, <2>2, FetchKept DEF Resolved
  <2> QED
    BY <2>1, <2>3 DEF SignInInv, Resolved
<1>3. CASE I!Rotate \/ I!Tick \/ UNCHANGED signIn
  <2>1. UNCHANGED <<jwks, attempt, failure, lock, users, req, met>>
    BY <1>3 DEF I!Rotate, I!Tick, signIn, I!keyVars
  <2>2. clock' \in Nat /\ published' \in Nat /\ clock <= clock'
    BY <1>0, <1>3 DEF I!Rotate, I!Tick, signIn, I!keyVars, LastFetch
  <2>3. StepsTyped' /\ UsersTyped'
    BY <1>0, <2>1 DEF StepsTyped, UsersTyped
  <2>4. LastFetch'
    BY <1>0, <2>1, <2>2, SignInOK DEF LastFetch, I!ConstantsOK
  <2>5. \A r \in SignIns : Read(r)'
    BY <1>0, <2>1 DEF Read, I!Held, I!Holders
  <2> QED
    BY <2>3, <2>4, <2>5 DEF SignInInv
<1> QED
  BY <1>1, <1>2, <1>3 DEF I!Next, signIn

(* No step refuses a sign-in but for another's address.                      *)
LEMMA RefusedStep == SignInInv /\ [I!Next]_signIn => I!RefusedForAnother \/ UNCHANGED signIn
<1> SUFFICES ASSUME SignInInv, I!Next, NEW p \in SignIns, req[p].at # "end",
                    req'[p] = [at |-> "end", answer |-> "409"]
             PROVE  p \in met \/ I!Held(p)
  BY DEF I!RefusedForAnother
<1>0. StepsTyped /\ LastFetch
  BY DEF SignInInv
<1>1. ASSUME NEW q \in SignIns, I!Keys(q) PROVE FALSE
  <2>1. KeysKeep
    BY <1>0, <1>1, KeysStep
  <2> QED
    BY <2>1 DEF KeysKeep
<1>2. ASSUME NEW q \in SignIns, I!Resolve(q) PROVE p \in met \/ I!Held(p)
  <2>1. Resolved(q)
    BY <1>2, FindUserStep, FindHolderStep, CommitStep, LoseRaceStep DEF I!Resolve
  <2> QED
    BY <2>1 DEF Resolved
<1>3. ~(I!Rotate \/ I!Tick)
  BY DEF I!Rotate, I!Tick
<1> QED
  BY <1>1, <1>2, <1>3 DEF I!Next

(* A fetch begins only a whole interval after the last one.                  *)
LEMMA FetchSpaced == SignInInv /\ [I!Next]_signIn => I!SpacedFetch \/ UNCHANGED signIn
<1> SUFFICES ASSUME SignInInv, I!Next, lock = None, lock' # None, attempt # None
             PROVE  clock - attempt >= Interval
  BY DEF I!SpacedFetch
<1>0. LastFetch
  BY DEF SignInInv
<1>1. PICK q \in SignIns : I!Fetch(q)
  BY DEF I!Next, I!Keys, I!Resolve, I!Rotate, I!Tick, I!Present, I!ServeFast, I!Wait, I!Serve,
         I!GiveUp, I!FetchFails, I!FetchDone, I!FindUser, I!FindHolder, I!Commit, I!LoseRace,
         I!keyVars
<1>2. I!MayFetch(q)
  BY <1>1 DEF I!Fetch
<1>3. /\ clock \in Nat /\ attempt \in Nat /\ attempt <= clock /\ Interval \in Nat /\ MaxStale \in Nat
      /\ jwks # None => jwks.expires_at \in Nat
  BY <1>0, SignInOK DEF LastFetch, I!ConstantsOK
<1>4. CASE failure = attempt
  BY <1>2, <1>3, <1>4 DEF I!MayFetch, I!Recent
<1>5. CASE jwks # None /\ jwks.expires_at + MaxStale >= attempt + Interval
  BY <1>2, <1>3, <1>5 DEF I!MayFetch, I!Recent, I!WithinStaleLimit
<1> QED
  BY <1>0, <1>4, <1>5 DEF LastFetch

-----------------------------------------------------------------------------
\* The parts share no state: while the sign-in moves, the others do not.
LEMMA PartsMoveSignIn == [Moving]_<<part, vars, store, signIn>> => [I!Next]_signIn
BY DEF Moving, signIn

(* account_conflict is answered only for an address another subject's user    *)
(* held while the sign-in ran, however many sign-ins race                     *)
(* (auth/identity.py resolve_google_user).                                    *)
THEOREM SignInConflicts == PartsSpec => ConflictIsReal
<1>1. Parts => SignInInv
  BY SignInStart DEF Parts
<1> QED
  BY <1>1, SignInStep, RefusedStep, PartsMoveSignIn, PTL DEF PartsSpec, ConflictIsReal

(* Fetches of Google's keys begin MIN_REFRESH_INTERVAL_SECONDS apart, however *)
(* requests, failures and expiries overlap (auth/jwks_cache.py).              *)
THEOREM SignInFetches == PartsSpec => FetchesApart
<1>1. Parts => SignInInv
  BY SignInStart DEF Parts
<1> QED
  BY <1>1, SignInStep, FetchSpaced, PartsMoveSignIn, PTL DEF PartsSpec, FetchesApart

-----------------------------------------------------------------------------
(* ScanStore.                                                                *)

Queues == [Photos -> [st : {"none", "waiting", "complete", "failed"}, since : Nat]]
Saves == [jobs : Queues, kind : {"save", "purge", "clear"}, photos : SUBSET Photos, at : Nat]

StoreTyped ==
  /\ list \in Queues /\ stored \in Queues /\ disk \subseteq Photos
  /\ stamp \in [Photos -> Nat] /\ owner \in [Photos -> Accounts \cup {Nobody}]
  /\ shooting \subseteq Photos /\ writes \in Seq(Saves)
  /\ load \in [at : {"none", "reading", "done"}, launchedAt : Nat, old : BOOLEAN]
  /\ unsaved \in BOOLEAN /\ skipNext \in BOOLEAN /\ running \in BOOLEAN
  /\ account \in Accounts \cup {Nobody} /\ mishaps \in Nat /\ now \in Nat
  /\ discarded \subseteq Photos /\ inherited \subseteq Photos /\ late \subseteq Photos

(* A process that has ended holds nothing; its times are not in the future.   *)
Process ==
  /\ ~running => /\ list = S!Empty /\ writes = <<>> /\ load = S!NoLoad /\ shooting = {}
                 /\ ~unsaved /\ ~skipNext
  /\ load.at = "none" <=> ~running
  /\ load.launchedAt <= now
  /\ \A i \in DOMAIN writes : writes[i].at <= now
  /\ skipNext => unsaved /\ load.at = "done"

\* The list, or a write that is not carried out yet, holds the photo's job.
Pending(p) == list[p] # S!NoJob \/ \E i \in DOMAIN writes : writes[i].jobs[p] # S!NoJob

(* What a write that is under way deletes: a purge, a photo nothing that       *)
(* follows it lists; a clear, no photo later than the sign-out.               *)
Deletes(p, i) ==
  /\ writes[i].kind = "purge" /\ p \in writes[i].photos =>
       /\ list[p] = S!NoJob /\ \A j \in DOMAIN writes : j >= i => writes[j].jobs[p] = S!NoJob
       /\ load.at = "reading" => stored[p] = S!NoJob
  /\ writes[i].kind = "clear" /\ p \in disk \ discarded =>
       stamp[p] >= writes[i].at /\ p \notin writes[i].photos
  /\ writes[i].kind = "save" => p \notin writes[i].photos

PhotoKept(p) ==
  /\ p \notin discarded /\ (Pending(p) \/ S!Kept(stored)[p] # S!NoJob) => p \in disk
  /\ p \in shooting => owner[p] # Nobody
  /\ p \in shooting \/ owner[p] = Nobody =>
       /\ ~Pending(p) /\ stored[p] = S!NoJob /\ p \notin disk
       /\ \A i \in DOMAIN writes : p \notin writes[i].photos
  /\ load.at = "reading" /\ Pending(p) =>
       stamp[p] >= load.launchedAt /\ stored[p] = S!NoJob
  /\ \A i \in DOMAIN writes : Deletes(p, i)

StoreInv == StoreTyped /\ Process /\ \A p \in Photos : PhotoKept(p)

(* A job in another account's queue, but for those that came there otherwise.  *)
Apart(p) == owner[p] = account \/ p \in inherited \cup late
Good(jobs) == \A p \in S!Held(jobs) : Apart(p)

\* The list, still to be saved, is a write too.
ToCome == IF unsaved /\ ~skipNext THEN 1 ELSE 0

(* What AsyncStorage holds in the end is good: all of it is, or more good      *)
(* writes follow the last bad one than storage calls may yet fail.             *)
WillSettle ==
  \/ Good(stored) /\ \A i \in DOMAIN writes : Good(writes[i].jobs)
  \/ \E k \in 0..Len(writes) :
       /\ \A i \in (k + 1)..Len(writes) : Good(writes[i].jobs)
       /\ Len(writes) - k + ToCome > MaxMishaps - mishaps

QueuesInv ==
  /\ mishaps <= MaxMishaps
  /\ Good(list)
  /\ ~running \/ (load.at = "reading" /\ ~load.old) => Good(stored)
  /\ WillSettle

LEMMA StoreStart == S!Init => StoreInv
<1> SUFFICES ASSUME S!Init PROVE StoreInv
  OBVIOUS
<1>1. StoreTyped
  <2>1. S!NoJob \in [st : {"none", "waiting", "complete", "failed"}, since : Nat]
    BY DEF S!NoJob
  <2>2. S!NoLoad \in [at : {"none", "reading", "done"}, launchedAt : Nat, old : BOOLEAN]
    BY DEF S!NoLoad
  <2>3. <<>> \in Seq(Saves) /\ S!Empty \in Queues
    BY <2>1 DEF S!Empty, Queues
  <2> QED
    BY <2>2, <2>3 DEF S!Init, StoreTyped
<1>2. Process
  BY DEF S!Init, Process, S!NoLoad
<1>3. \A p \in Photos : PhotoKept(p)
  BY DEF S!Init, PhotoKept, Pending, Deletes, S!Empty, S!Kept, S!NoLoad
<1> QED
  BY <1>1, <1>2, <1>3 DEF StoreInv

(* A write is appended, or the oldest one leaves.                            *)
LEMMA Issued ==
  ASSUME StoreTyped, NEW jobs \in Queues, NEW kind \in {"save", "purge", "clear"},
         NEW photos \in SUBSET Photos, S!Issue(jobs, kind, photos)
  PROVE  /\ writes' \in Seq(Saves) /\ Len(writes') = Len(writes) + 1 /\ Len(writes) \in Nat
         /\ DOMAIN writes = 1..Len(writes) /\ DOMAIN writes' = 1..(Len(writes) + 1)
         /\ \A i \in DOMAIN writes : writes'[i] = writes[i]
         /\ writes'[Len(writes) + 1] =
              [jobs |-> jobs, kind |-> kind, photos |-> photos,
               at |-> IF kind = "clear" THEN now ELSE 0]
<1> DEFINE w == [jobs |-> jobs, kind |-> kind, photos |-> photos,
                 at |-> IF kind = "clear" THEN now ELSE 0]
<1>1. writes' = Append(writes, w) /\ writes \in Seq(Saves) /\ w \in Saves
  BY DEF S!Issue, StoreTyped, Saves
<1> HIDE DEF w
<1>2. /\ writes' \in Seq(Saves) /\ Len(writes') = Len(writes) + 1 /\ Len(writes) \in Nat
      /\ DOMAIN writes = 1..Len(writes) /\ DOMAIN writes' = 1..(Len(writes) + 1)
      /\ \A i \in DOMAIN writes : writes'[i] = writes[i]
      /\ writes'[Len(writes) + 1] = w
  BY <1>1
<1> QED
  BY <1>2 DEF w

LEMMA Carried ==
  ASSUME StoreTyped, writes # <<>>, writes' = Tail(writes)
  PROVE  /\ writes' \in Seq(Saves) /\ Len(writes) \in Nat \ {0} /\ Len(writes') = Len(writes) - 1
         /\ DOMAIN writes = 1..Len(writes) /\ DOMAIN writes' = 1..(Len(writes) - 1)
         /\ \A i \in DOMAIN writes' : i + 1 \in DOMAIN writes /\ writes'[i] = writes[i + 1]
         /\ Head(writes) = writes[1] /\ writes[1] \in Saves /\ 1 \in DOMAIN writes
BY DEF StoreTyped

(* What a load keeps was in the list, and less of it as time passes.         *)
LEMMA KeptQueue ==
  ASSUME NEW jobs \in Queues
  PROVE  S!Kept(jobs) \in Queues /\ \A p \in Photos : S!Kept(jobs)[p] \in {jobs[p], S!NoJob}
BY DEF S!Kept, Queues, S!NoJob

LEMMA KeptLess ==
  ASSUME StoreTyped, now' \in Nat, now <= now', stored' = stored, NEW p \in Photos,
         S!Kept(stored)'[p] # S!NoJob
  PROVE  S!Kept(stored)[p] # S!NoJob
<1>1. Retention \in Nat /\ stored[p].since \in Nat /\ now \in Nat
  BY StoreOK DEF S!ConstantsOK, StoreTyped, Queues
<1> QED
  BY <1>1 DEF S!Kept, S!Expired

LEMMA JobsTyped ==
  ASSUME StoreTyped, NEW p \in Photos, NEW job,
         job \in {S!NoJob, S!Waiting, S!Complete, [st |-> "failed", since |-> now]}
  PROVE  [list EXCEPT ![p] = job] \in Queues
BY DEF StoreTyped, Queues, S!NoJob, S!Waiting, S!Complete

LEMMA StoreTypedStep == StoreTyped /\ [S!Next]_store => StoreTyped'
<1> SUFFICES ASSUME StoreTyped, [S!Next]_store PROVE StoreTyped'
  OBVIOUS
<1> USE DEF S!queue, S!photoVars, S!process, S!bounds, S!history
<1>1. ASSUME NEW p \in Photos, S!Shoot(p) \/ S!ShotFailed(p) PROVE StoreTyped'
  BY <1>1 DEF StoreTyped, S!Shoot, S!ShotFailed
<1>2. ASSUME NEW p \in Photos, S!Shot(p) PROVE StoreTyped'
  BY <1>2, JobsTyped DEF StoreTyped, S!Shot, S!Put
<1>3. ASSUME NEW p \in Photos, S!Dismiss(p) PROVE StoreTyped'
  BY <1>3, JobsTyped DEF StoreTyped, S!Dismiss, S!Put
<1>4. ASSUME NEW p \in Photos,
             NEW job \in {S!Waiting, S!Complete, [st |-> "failed", since |-> now]}, S!Update(p, job)
      PROVE  StoreTyped'
  BY <1>4, JobsTyped DEF StoreTyped, S!Update, S!Put
<1>5. CASE S!Purge
  <2> DEFINE expired == {p \in Photos : S!Expired(list[p])}
             pruned == [p \in Photos |-> IF p \in expired THEN S!NoJob ELSE list[p]]
  <2>1. pruned \in Queues /\ expired \in SUBSET Photos
    BY DEF StoreTyped, Queues, S!NoJob
  <2>2. S!Put(pruned) /\ S!Issue(pruned, "purge", expired)
        /\ UNCHANGED <<stored, disk, S!photoVars, load, skipNext, account, S!bounds, S!history>>
    BY <1>5 DEF S!Purge
  <2> HIDE DEF expired, pruned
  <2>3. writes' \in Seq(Saves)
    BY <2>1, <2>2, Issued
  <2> QED
    BY <2>1, <2>2, <2>3 DEF StoreTyped, S!Put
<1>6. CASE S!Persist
  <2>0. list \in Queues /\ {} \in SUBSET Photos /\ writes \in Seq(Saves)
    BY DEF StoreTyped
  <2>1. writes' \in Seq(Saves)
    <3>1. CASE skipNext
      BY <1>6, <2>0, <3>1 DEF S!Persist
    <3>2. CASE S!Issue(list, "save", {})
      BY <2>0, <3>2, Issued
    <3> QED
      BY <1>6, <3>1, <3>2 DEF S!Persist
  <2> QED
    BY <1>6, <2>1 DEF StoreTyped, S!Persist
<1>7. CASE S!Write
  <2>1. writes' \in Seq(Saves) /\ Head(writes) \in Saves
    BY <1>7, Carried DEF S!Write
  <2>2. Head(writes).jobs \in Queues
    BY <2>1 DEF Saves
  <2> QED
    BY <1>7, <2>1, <2>2 DEF StoreTyped, S!Write, S!SignOutSweep, S!Swept, S!Fault
<1>8. CASE S!LoadEnd
  <2>1. S!Kept(stored) \in Queues
    BY KeptQueue DEF StoreTyped
  <2>2. load' \in [at : {"none", "reading", "done"}, launchedAt : Nat, old : BOOLEAN]
    BY <1>8 DEF StoreTyped, S!LoadEnd
  <2>3. /\ list' \in Queues /\ disk' \subseteq Photos /\ mishaps' \in Nat
        /\ unsaved' \in BOOLEAN /\ skipNext' \in BOOLEAN
    <3>1. CASE S!SignedOutSince
      BY <1>8, <3>1 DEF StoreTyped, S!LoadEnd
    <3>2. CASE S!Put(S!Kept(stored)) /\ UNCHANGED <<skipNext, mishaps>>
               /\ disk' = S!Swept(disk, S!Kept(stored), load.launchedAt)
      <4>1. disk' \subseteq disk
        BY <3>2 DEF S!Swept
      <4>2. list' \in Queues /\ unsaved'
        BY <2>1, <3>2 DEF S!Put
      <4> QED
        BY <3>2, <4>1, <4>2 DEF StoreTyped
    <3>3. CASE S!ReadFails
      BY <3>3 DEF StoreTyped, S!ReadFails, S!Fault
    <3> QED
      BY <1>8, <3>1, <3>2, <3>3 DEF S!LoadEnd
  <2> QED
    BY <1>8, <2>2, <2>3 DEF StoreTyped, S!LoadEnd
<1>9. CASE S!SignOut
  <2>1. S!Empty \in Queues /\ S!Held(list) \in SUBSET Photos
    BY DEF S!Empty, Queues, S!NoJob, S!Held
  <2>2. writes' \in Seq(Saves)
    BY <1>9, <2>1, Issued DEF S!SignOut
  <2> QED
    BY <1>9, <2>1, <2>2 DEF StoreTyped, S!SignOut, S!Put
<1>10. CASE S!Kill
  <2>1. S!Empty \in Queues /\ <<>> \in Seq(Saves)
    BY DEF S!Empty, Queues, S!NoJob
  <2> QED
    BY <1>10, <2>1 DEF StoreTyped, S!Kill, S!NoLoad, S!Held
<1>11. CASE S!Tick
  BY <1>11 DEF StoreTyped, S!Tick
<1>12. ASSUME NEW session \in Accounts \cup {Nobody}, S!Launch(session) PROVE StoreTyped'
  BY <1>12 DEF StoreTyped, S!Launch, S!NoLoad, S!Held
<1>13. ASSUME NEW a \in Accounts, S!SignIn(a) PROVE StoreTyped'
  BY <1>13 DEF StoreTyped, S!SignIn
<1>14. CASE UNCHANGED store
  BY <1>14 DEF StoreTyped, store
<1> QED
  BY <1>1, <1>2, <1>3, <1>4, <1>5, <1>6, <1>7, <1>8, <1>9, <1>10, <1>11, <1>12, <1>13, <1>14
     DEF S!Next, S!Use

LEMMA ProcessStep == StoreTyped /\ Process /\ [S!Next]_store => Process'
<1> SUFFICES ASSUME StoreTyped, Process, [S!Next]_store PROVE Process'
  OBVIOUS
<1>0. now \in Nat /\ load.launchedAt \in Nat /\ \A i \in DOMAIN writes : writes[i].at \in Nat
  <2>1. \A i \in DOMAIN writes : writes[i] \in Saves
    BY DEF StoreTyped
  <2> QED
    BY <2>1 DEF StoreTyped, Saves
<1>a. ASSUME running, running', load'.at # "none", UNCHANGED <<load, writes>>, now <= now', now' \in Nat,
             skipNext' => unsaved' /\ load.at = "done"
      PROVE  Process'
  BY <1>0, <1>a DEF Process
<1>b. ASSUME running, running', load' = load \/ load' = [load EXCEPT !.old = TRUE],
             NEW jobs \in Queues, NEW kind \in {"save", "purge", "clear"},
             NEW photos \in SUBSET Photos, S!Issue(jobs, kind, photos),
             now' = now, skipNext' => unsaved' /\ load.at = "done"
      PROVE  Process'
  <2>0. /\ Len(writes) \in Nat /\ DOMAIN writes = 1..Len(writes)
        /\ DOMAIN writes' = 1..(Len(writes) + 1)
        /\ \A i \in DOMAIN writes : writes'[i] = writes[i]
        /\ writes'[Len(writes) + 1] =
             [jobs |-> jobs, kind |-> kind, photos |-> photos,
              at |-> IF kind = "clear" THEN now ELSE 0]
    BY <1>b, Issued
  <2>3. writes'[Len(writes) + 1].at \in {0, now}
    BY <2>0
  <2>1. \A i \in DOMAIN writes' : writes'[i].at <= now
    BY <1>0, <2>0, <2>3 DEF Process
  <2>2. load'.at = load.at /\ load'.launchedAt = load.launchedAt
    BY <1>b DEF StoreTyped
  <2> QED
    BY <1>b, <2>1, <2>2 DEF Process
<1> USE DEF S!queue, S!photoVars, S!process, S!bounds, S!history
<1>1. ASSUME NEW p \in Photos, S!Shoot(p) \/ S!ShotFailed(p) \/ S!Shot(p) \/ S!Dismiss(p)
      PROVE  Process'
  <2>1. running
    BY <1>1 DEF S!Shoot, S!ShotFailed, S!Shot, S!Dismiss, Process
  <2>2. /\ UNCHANGED <<running, load, writes, now, skipNext>>
        /\ unsaved' = unsaved \/ unsaved'
    BY <1>1 DEF S!Shoot, S!ShotFailed, S!Shot, S!Dismiss, S!Put
  <2> QED
    BY <1>0, <1>a, <2>1, <2>2 DEF Process
<1>2. ASSUME NEW p \in Photos, NEW job, S!Update(p, job) PROVE Process'
  <2>1. running /\ UNCHANGED <<running, load, writes, now, skipNext>> /\ unsaved'
    BY <1>2 DEF S!Update, S!Put
  <2> QED
    BY <1>0, <1>a, <2>1 DEF Process
<1>3. CASE S!Purge
  <2> DEFINE expired == {p \in Photos : S!Expired(list[p])}
             pruned == [p \in Photos |-> IF p \in expired THEN S!NoJob ELSE list[p]]
  <2>1. pruned \in Queues /\ expired \in SUBSET Photos
    BY DEF StoreTyped, Queues, S!NoJob
  <2>2. running /\ S!Put(pruned) /\ S!Issue(pruned, "purge", expired)
        /\ UNCHANGED <<load, skipNext, S!bounds>>
    BY <1>3 DEF S!Purge
  <2> HIDE DEF expired, pruned
  <2> QED
    BY <1>b, <2>1, <2>2 DEF S!Put, Process
<1>4. CASE S!Persist
  <2>0. list \in Queues /\ {} \in SUBSET Photos /\ running /\ UNCHANGED <<load, now, running>>
        /\ ~skipNext'
    BY <1>4 DEF StoreTyped, S!Persist
  <2>1. CASE UNCHANGED writes
    BY <1>0, <1>a, <2>0, <2>1 DEF Process
  <2>2. CASE S!Issue(list, "save", {})
    BY <1>b, <2>0, <2>2
  <2> QED
    BY <1>4, <2>1, <2>2 DEF S!Persist
<1>5. CASE S!Write
  <2>1. \A i \in DOMAIN writes' : writes'[i].at <= now
    BY <1>5, Carried DEF S!Write, Process
  <2> QED
    BY <1>5, <2>1 DEF Process, S!Write
<1>6. CASE S!LoadEnd
  <2>1. /\ running /\ load.at = "reading" /\ load'.at = "done"
        /\ load'.launchedAt = load.launchedAt /\ UNCHANGED <<running, writes, now>>
    BY <1>6 DEF S!LoadEnd, StoreTyped
  <2>2. unsaved'
    BY <1>6 DEF S!LoadEnd, S!Put, S!ReadFails
  <2> QED
    BY <2>1, <2>2 DEF Process
<1>7. CASE S!SignOut
  <2>1. S!Empty \in Queues /\ S!Held(list) \in SUBSET Photos
    BY DEF S!Empty, Queues, S!NoJob, S!Held
  <2>2. /\ running /\ S!Put(S!Empty) /\ S!Issue(S!Empty, "clear", S!Held(list))
        /\ load' = [load EXCEPT !.old = TRUE] /\ UNCHANGED <<running, now, skipNext>>
    BY <1>7 DEF S!SignOut
  <2> QED
    BY <1>b, <2>1, <2>2 DEF S!Put, Process
<1>8. CASE S!Kill
  BY <1>0, <1>8 DEF S!Kill, Process, S!NoLoad
<1>9. CASE S!Tick
  <2>1. UNCHANGED <<list, writes, load, shooting, unsaved, skipNext, running>> /\ now' = now + 1
    BY <1>9 DEF S!Tick
  <2> QED
    BY <1>0, <2>1 DEF Process
<1>10. ASSUME NEW session \in Accounts \cup {Nobody}, S!Launch(session) PROVE Process'
  BY <1>0, <1>10 DEF S!Launch, Process, S!NoLoad
<1>11. CASE UNCHANGED store \/ \E a \in Accounts : S!SignIn(a)
  <2>1. UNCHANGED <<list, writes, load, shooting, unsaved, skipNext, running, now>>
    BY <1>11 DEF store, S!SignIn
  <2> QED
    BY <2>1 DEF Process
<1> QED
  BY <1>1, <1>2, <1>3, <1>4, <1>5, <1>6, <1>7, <1>8, <1>9, <1>10, <1>11 DEF S!Next, S!Use

(* A step that leaves the photo's jobs and its file alone keeps it.           *)
LEMMA PhotoUntouched ==
  ASSUME StoreInv, NEW p \in Photos, UNCHANGED <<list, stored, disk, stamp, writes, discarded>>,
         now <= now', now' \in Nat, load' = load \/ load'.at # "reading",
         p \in shooting' \/ owner'[p] = Nobody => p \in shooting \/ owner[p] = Nobody,
         p \in shooting' => owner'[p] # Nobody
  PROVE  PhotoKept(p)'
<1>1. PhotoKept(p) /\ StoreTyped
  BY DEF StoreInv
<1>2. S!Kept(stored)'[p] # S!NoJob => S!Kept(stored)[p] # S!NoJob
  BY <1>1, KeptLess
<1>3. Pending(p)' = Pending(p)
  BY DEF Pending
<1> QED
  BY <1>1, <1>2, <1>3 DEF PhotoKept, Deletes

LEMMA PhotoShot ==
  ASSUME StoreInv, NEW q \in Photos, S!Shot(q), NEW p \in Photos
  PROVE  PhotoKept(p)'
<1>1. PhotoKept(p) /\ PhotoKept(q) /\ StoreTyped /\ Process
  BY DEF StoreInv
<1>2. /\ q \in shooting /\ shooting' = shooting \ {q} /\ stamp' = [stamp EXCEPT ![q] = now]
      /\ UNCHANGED <<stored, owner, writes, load, now>>
  BY DEF S!Shot, S!bounds
<1>3. /\ ~Pending(q) /\ stored[q] = S!NoJob /\ q \notin disk
      /\ \A i \in DOMAIN writes : q \notin writes[i].photos
  BY <1>1, <1>2 DEF PhotoKept
<1>4. S!Kept(stored)' = S!Kept(stored)
  BY <1>2 DEF S!Kept, S!Expired
<1>5. CASE UNCHANGED <<list, disk>> /\ discarded' = discarded \cup {q}
  <2>1. Pending(p)' = Pending(p)
    BY <1>2, <1>5 DEF Pending
  <2>2. CASE p = q
    BY <1>1, <1>2, <1>3, <1>4, <1>5, <2>1, <2>2 DEF PhotoKept, Deletes
  <2>3. CASE p # q
    BY <1>1, <1>2, <1>4, <1>5, <2>1, <2>3 DEF PhotoKept, Deletes, StoreTyped
  <2> QED
    BY <2>2, <2>3
<1>6. CASE disk' = disk \cup {q} /\ list' = [list EXCEPT ![q] = S!Waiting] /\ UNCHANGED discarded
  <2>1. CASE p # q
    <3>1. list'[p] = list[p] /\ stamp'[p] = stamp[p]
      BY <1>1, <1>2, <1>6, <2>1 DEF StoreTyped, Queues
    <3>2. Pending(p)' = Pending(p)
      BY <1>2, <3>1 DEF Pending
    <3> QED
      BY <1>1, <1>2, <1>4, <1>6, <2>1, <3>1, <3>2 DEF PhotoKept, Deletes
  <2>2. CASE p = q
    <3>1. p \in disk' /\ stamp'[p] = now /\ p \notin shooting' /\ owner'[p] # Nobody
      BY <1>1, <1>2, <1>6, <2>2 DEF StoreTyped, PhotoKept
    <3>2. \A i \in DOMAIN writes : Deletes(p, i)'
      BY <1>1, <1>2, <1>3, <2>2, <3>1 DEF Deletes, Process
    <3> QED
      BY <1>1, <1>2, <1>3, <2>2, <3>1, <3>2 DEF PhotoKept, Process
  <2> QED
    BY <2>1, <2>2
<1> QED
  BY <1>5, <1>6 DEF S!Shot, S!Put

(* A job that is changed, or leaves the list, was listed.                     *)
LEMMA PhotoListed ==
  ASSUME StoreInv, NEW q \in Photos, list[q] # S!NoJob, NEW job,
         list' = [list EXCEPT ![q] = job],
         \/ UNCHANGED <<disk, discarded>>
         \/ job = S!NoJob /\ disk' = disk \ {q} /\ discarded' = discarded \cup {q},
         UNCHANGED <<stored, stamp, owner, shooting, writes, load, now>>, NEW p \in Photos
  PROVE  PhotoKept(p)'
<1>1. PhotoKept(p) /\ StoreTyped
  BY DEF StoreInv
<1>2. S!Kept(stored)' = S!Kept(stored)
  BY DEF S!Kept, S!Expired
<1>3. (list'[p] = list[p] \/ (p = q /\ list[p] # S!NoJob)) /\ (Pending(p)' => Pending(p))
  <2>1. list'[p] = list[p] \/ (p = q /\ list[p] # S!NoJob)
    BY <1>1 DEF StoreTyped, Queues
  <2> QED
    BY <2>1 DEF Pending
<1>4. \A i \in DOMAIN writes' : Deletes(p, i)'
  BY <1>1, <1>3 DEF PhotoKept, Deletes
<1>5. p \notin discarded' => p \notin discarded /\ (p \in disk => p \in disk')
  OBVIOUS
<1>6. p \notin disk => p \notin disk'
  OBVIOUS
<1> QED
  BY <1>1, <1>2, <1>3, <1>4, <1>5, <1>6 DEF PhotoKept

(* A purge is written before its images go.                                  *)
LEMMA PhotoPurged ==
  ASSUME StoreInv, S!Purge, NEW p \in Photos
  PROVE  PhotoKept(p)'
<1> DEFINE expired == {x \in Photos : S!Expired(list[x])}
           pruned == [x \in Photos |-> IF x \in expired THEN S!NoJob ELSE list[x]]
<1>1. PhotoKept(p) /\ StoreTyped
  BY DEF StoreInv
<1>2. pruned \in Queues /\ expired \in SUBSET Photos
  BY <1>1 DEF StoreTyped, Queues, S!NoJob
<1>3. /\ list' = pruned /\ S!Issue(pruned, "purge", expired)
      /\ UNCHANGED <<stored, disk, stamp, owner, shooting, load, now, discarded>>
  BY DEF S!Purge, S!Put, S!photoVars, S!bounds, S!history
<1>4. /\ pruned[p] = S!NoJob \/ pruned[p] = list[p]
      /\ p \in expired => pruned[p] = S!NoJob /\ list[p] # S!NoJob
  BY <1>1 DEF S!Expired, S!NoJob
<1> HIDE DEF expired, pruned
<1>5. /\ Len(writes) \in Nat /\ DOMAIN writes = 1..Len(writes) /\ DOMAIN writes' = 1..(Len(writes) + 1)
      /\ \A i \in DOMAIN writes : writes'[i] = writes[i]
      /\ writes'[Len(writes) + 1] = [jobs |-> pruned, kind |-> "purge", photos |-> expired, at |-> 0]
  BY <1>1, <1>2, <1>3, Issued
<1>6. S!Kept(stored)' = S!Kept(stored)
  BY <1>3 DEF S!Kept, S!Expired
<1>7. Pending(p)' => Pending(p)
  BY <1>3, <1>4, <1>5 DEF Pending
<1>8. ASSUME NEW i \in DOMAIN writes PROVE Deletes(p, i)'
  <2>1. Deletes(p, i)
    BY <1>1 DEF PhotoKept
  <2> QED
    BY <1>3, <1>4, <1>5, <2>1 DEF Deletes
<1>9. ASSUME NEW i, i = Len(writes) + 1 PROVE Deletes(p, i)'
  BY <1>1, <1>3, <1>4, <1>5, <1>9 DEF Deletes, PhotoKept, Pending
<1>10. \A i \in DOMAIN writes' : Deletes(p, i)'
  BY <1>5, <1>8, <1>9
<1>11. p \in shooting \/ owner[p] = Nobody => \A i \in DOMAIN writes' : p \notin writes'[i].photos
  BY <1>1, <1>4, <1>5 DEF PhotoKept, Pending
<1> QED
  BY <1>1, <1>3, <1>6, <1>7, <1>10, <1>11 DEF PhotoKept

(* The list is saved as it is.                                               *)
LEMMA PhotoSaved ==
  ASSUME StoreInv, S!Persist, NEW p \in Photos
  PROVE  PhotoKept(p)'
<1>1. PhotoKept(p) /\ StoreTyped /\ now \in Nat
  BY DEF StoreInv, StoreTyped
<1>2. UNCHANGED <<list, stored, disk, stamp, owner, shooting, load, now, discarded>>
  BY DEF S!Persist, S!photoVars, S!bounds, S!history, S!queue
<1>3. CASE UNCHANGED writes
  BY <1>1, <1>2, <1>3, PhotoUntouched DEF PhotoKept
<1>4. CASE S!Issue(list, "save", {})
  <2>1. list \in Queues /\ {} \in SUBSET Photos
    BY <1>1 DEF StoreTyped
  <2>2. /\ Len(writes) \in Nat /\ DOMAIN writes = 1..Len(writes)
        /\ DOMAIN writes' = 1..(Len(writes) + 1)
        /\ \A i \in DOMAIN writes : writes'[i] = writes[i]
        /\ writes'[Len(writes) + 1] = [jobs |-> list, kind |-> "save", photos |-> {}, at |-> 0]
    BY <1>1, <1>4, <2>1, Issued
  <2>3. S!Kept(stored)' = S!Kept(stored)
    BY <1>2 DEF S!Kept, S!Expired
  <2>4. Pending(p)' => Pending(p)
    BY <1>2, <2>2 DEF Pending
  <2>5. ASSUME NEW i \in DOMAIN writes PROVE Deletes(p, i)'
    <3>1. Deletes(p, i)
      BY <1>1 DEF PhotoKept
    <3> QED
      BY <1>2, <2>2, <3>1 DEF Deletes
  <2>6. ASSUME NEW i, i = Len(writes) + 1 PROVE Deletes(p, i)'
    BY <1>2, <2>2, <2>6 DEF Deletes
  <2>7. \A i \in DOMAIN writes' : Deletes(p, i)'
    BY <2>2, <2>5, <2>6
  <2>8. p \in shooting \/ owner[p] = Nobody => \A i \in DOMAIN writes' : p \notin writes'[i].photos
    BY <1>1, <2>2 DEF PhotoKept
  <2> QED
    BY <1>1, <1>2, <2>3, <2>4, <2>7, <2>8 DEF PhotoKept
<1> QED
  BY <1>3, <1>4 DEF S!Persist

(* AsyncStorage carries out its oldest write.                                *)
LEMMA PhotoWritten ==
  ASSUME StoreInv, S!Write, NEW p \in Photos
  PROVE  PhotoKept(p)'
<1> DEFINE w == writes[1]
<1>1. PhotoKept(p) /\ StoreTyped /\ Process
  BY DEF StoreInv
<1>2. /\ writes # <<>> /\ load.at = "done" /\ writes' = Tail(writes)
      /\ UNCHANGED <<list, stamp, owner, shooting, load, now, discarded>>
  BY DEF S!Write, S!photoVars, S!process, S!history
<1>3. /\ Len(writes) \in Nat \ {0} /\ DOMAIN writes = 1..Len(writes)
      /\ DOMAIN writes' = 1..(Len(writes) - 1)
      /\ \A i \in DOMAIN writes' : i + 1 \in DOMAIN writes /\ writes'[i] = writes[i + 1]
      /\ Head(writes) = w /\ w \in Saves /\ 1 \in DOMAIN writes
  BY <1>1, <1>2, Carried
<1>4. /\ stored' = w.jobs \/ stored' = stored
      /\ \/ w.kind = "clear" /\ disk' = S!SignOutSweep(w)
         \/ disk' = disk
         \/ w.kind # "clear" /\ disk' = disk \ w.photos /\ stored' = w.jobs
  BY <1>3 DEF S!Write
<1>5. Deletes(p, 1)
  BY <1>1, <1>3 DEF PhotoKept
<1>6. Pending(p)' => Pending(p)
  BY <1>2, <1>3 DEF Pending
<1>7. S!Kept(stored)'[p] # S!NoJob => Pending(p) \/ S!Kept(stored)[p] # S!NoJob
  <2>1. CASE stored' = stored
    <3>1. S!Kept(stored)' = S!Kept(stored)
      BY <1>2, <2>1 DEF S!Kept, S!Expired
    <3> QED
      BY <3>1
  <2>2. CASE stored' = w.jobs
    <3>1. S!Kept(stored)'[p] # S!NoJob => stored'[p] # S!NoJob
      BY DEF S!Kept
    <3> QED
      BY <1>3, <2>2, <3>1 DEF Pending
  <2> QED
    BY <1>4, <2>1, <2>2
<1>8. ASSUME p \notin discarded, p \in disk, Pending(p)' \/ S!Kept(stored)'[p] # S!NoJob
      PROVE  p \in disk'
  <2>1. CASE w.kind = "clear"
    BY <1>4, <1>5, <1>8, <2>1 DEF Deletes, S!SignOutSweep, S!Swept
  <2>2. CASE w.kind = "purge" /\ p \in w.photos
    <3>1. list[p] = S!NoJob /\ \A j \in DOMAIN writes : j >= 1 => writes[j].jobs[p] = S!NoJob
      BY <1>5, <2>2 DEF Deletes
    <3>2. ~Pending(p)
      BY <1>3, <3>1 DEF Pending
    <3>3. CASE stored' = w.jobs
      <4>1. S!Kept(stored)'[p] # S!NoJob => stored'[p] # S!NoJob
        BY DEF S!Kept
      <4> QED
        BY <1>3, <1>6, <1>8, <3>1, <3>2, <3>3, <4>1
    <3>4. CASE disk' = disk
      BY <1>8, <3>4
    <3> QED
      BY <1>4, <2>2, <3>3, <3>4
  <2>3. CASE w.kind = "save" \/ (w.kind = "purge" /\ p \notin w.photos)
    BY <1>4, <1>5, <1>8, <2>3 DEF Deletes
  <2> QED
    BY <1>3, <2>1, <2>2, <2>3 DEF Saves
<1>9. disk' \subseteq disk
  BY <1>4 DEF S!SignOutSweep, S!Swept
<1>10. ASSUME NEW i \in DOMAIN writes' PROVE Deletes(p, i)'
  <2>1. Deletes(p, i + 1)
    BY <1>1, <1>3 DEF PhotoKept
  <2>2. \A j \in DOMAIN writes' : j >= i => j + 1 \in DOMAIN writes /\ j + 1 >= i + 1
    BY <1>3
  <2> QED
    BY <1>2, <1>3, <1>9, <2>1, <2>2 DEF Deletes
<1>11. p \in shooting \/ owner[p] = Nobody =>
         stored'[p] = S!NoJob /\ \A i \in DOMAIN writes' : p \notin writes'[i].photos
  BY <1>1, <1>3, <1>4 DEF PhotoKept, Pending
<1> QED
  BY <1>1, <1>2, <1>6, <1>7, <1>8, <1>9, <1>10, <1>11 DEF PhotoKept

(* The load puts the saved list in place and sweeps the files it does not refer to. *)
LEMMA PhotoLoaded ==
  ASSUME StoreInv, S!LoadEnd, NEW p \in Photos
  PROVE  PhotoKept(p)'
<1>1. PhotoKept(p) /\ StoreTyped /\ now \in Nat
  BY DEF StoreInv, StoreTyped
<1>2. /\ load.at = "reading" /\ load'.at = "done" /\ running
      /\ UNCHANGED <<stored, stamp, owner, shooting, writes, now, discarded>>
  BY <1>1 DEF S!LoadEnd, S!photoVars, S!history, StoreTyped
<1>3. CASE UNCHANGED <<list, disk>>
  BY <1>1, <1>2, <1>3, PhotoUntouched DEF PhotoKept
<1>4. CASE list' = S!Kept(stored) /\ disk' = S!Swept(disk, S!Kept(stored), load.launchedAt)
  <2>1. S!Kept(stored)' = S!Kept(stored) /\ S!Kept(stored)[p] \in {stored[p], S!NoJob}
    BY <1>1, <1>2, KeptQueue DEF S!Kept, S!Expired, StoreTyped
  <2>2. ASSUME Pending(p)' PROVE Pending(p) \/ S!Kept(stored)[p] # S!NoJob
    BY <1>2, <1>4, <2>2 DEF Pending
  <2>3. ASSUME p \in disk, Pending(p)' \/ S!Kept(stored)[p] # S!NoJob PROVE p \in disk'
    BY <1>1, <1>2, <1>4, <2>2, <2>3 DEF PhotoKept, S!Swept, S!Held
  <2>4. disk' \subseteq disk
    BY <1>4 DEF S!Swept
  <2>5. ASSUME NEW i \in DOMAIN writes' PROVE Deletes(p, i)'
    <3>1. Deletes(p, i)
      BY <1>1, <1>2 DEF PhotoKept
    <3> QED
      BY <1>2, <1>4, <2>1, <2>4, <3>1 DEF Deletes
  <2>6. p \in shooting \/ owner[p] = Nobody => ~Pending(p)' /\ p \notin disk'
    <3>1. p \in shooting \/ owner[p] = Nobody => S!Kept(stored)[p] = S!NoJob
      BY <1>1, <2>1 DEF PhotoKept
    <3> QED
      BY <1>1, <2>2, <2>4, <3>1 DEF PhotoKept
  <2> QED
    BY <1>1, <1>2, <2>1, <2>2, <2>3, <2>5, <2>6 DEF PhotoKept
<1> QED
  BY <1>3, <1>4 DEF S!LoadEnd, S!Put, S!ReadFails

(* A sign-out: every photo there is now is meant to go, no later one.         *)
LEMMA PhotoSignedOut ==
  ASSUME StoreInv, S!SignOut, NEW p \in Photos
  PROVE  PhotoKept(p)'
<1>1. PhotoKept(p) /\ StoreTyped
  BY DEF StoreInv
<1>2. /\ list' = S!Empty /\ S!Issue(S!Empty, "clear", S!Held(list))
      /\ load' = [load EXCEPT !.old = TRUE] /\ discarded' = discarded \cup disk
      /\ UNCHANGED <<stored, disk, stamp, owner, shooting, now>>
  BY DEF S!SignOut, S!Put, S!photoVars, S!bounds
<1>3. S!Empty \in Queues /\ S!Held(list) \in SUBSET Photos /\ S!Empty[p] = S!NoJob
      /\ load'.at = load.at /\ load'.launchedAt = load.launchedAt
  BY <1>1, <1>2 DEF S!Empty, Queues, S!NoJob, S!Held, StoreTyped
<1>4. /\ Len(writes) \in Nat /\ DOMAIN writes = 1..Len(writes) /\ DOMAIN writes' = 1..(Len(writes) + 1)
      /\ \A i \in DOMAIN writes : writes'[i] = writes[i]
      /\ writes'[Len(writes) + 1] =
           [jobs |-> S!Empty, kind |-> "clear", photos |-> S!Held(list), at |-> now]
  BY <1>1, <1>2, <1>3, Issued
<1>5. S!Kept(stored)' = S!Kept(stored)
  BY <1>2 DEF S!Kept, S!Expired
<1>6. Pending(p)' => Pending(p)
  BY <1>2, <1>3, <1>4 DEF Pending
<1>7. ASSUME NEW i \in DOMAIN writes PROVE Deletes(p, i)'
  <2>1. Deletes(p, i)
    BY <1>1 DEF PhotoKept
  <2> QED
    BY <1>2, <1>3, <1>4, <2>1 DEF Deletes
<1>8. ASSUME NEW i, i = Len(writes) + 1 PROVE Deletes(p, i)'
  BY <1>2, <1>4, <1>8 DEF Deletes
<1>9. \A i \in DOMAIN writes' : Deletes(p, i)'
  BY <1>4, <1>7, <1>8
<1>10. p \in shooting \/ owner[p] = Nobody => \A i \in DOMAIN writes' : p \notin writes'[i].photos
  <2>1. p \in S!Held(list) => Pending(p)
    BY DEF S!Held, Pending
  <2> QED
    BY <1>1, <1>4, <2>1 DEF PhotoKept
<1> QED
  BY <1>1, <1>2, <1>3, <1>5, <1>6, <1>9, <1>10 DEF PhotoKept

(* A process ends with what it had not written, and a new one starts with nothing. *)
LEMMA PhotoRestart ==
  ASSUME StoreInv, NEW p \in Photos,
         \/ S!Kill
         \/ \E session \in Accounts \cup {Nobody} : S!Launch(session)
  PROVE  PhotoKept(p)'
<1>1. PhotoKept(p) /\ StoreTyped /\ Process
  BY DEF StoreInv
<1>2. /\ list' = S!Empty /\ writes' = <<>> /\ shooting' \subseteq shooting
      /\ UNCHANGED <<stored, disk, stamp, owner, now, discarded>>
  BY <1>1 DEF S!Kill, S!Launch, Process, S!queue, S!photoVars
<1>3. ~Pending(p)' /\ DOMAIN writes' = {}
  BY <1>2 DEF Pending, S!Empty
<1>4. S!Kept(stored)' = S!Kept(stored)
  BY <1>2 DEF S!Kept, S!Expired
<1> QED
  BY <1>1, <1>2, <1>3, <1>4 DEF PhotoKept

LEMMA StoreStep == StoreInv /\ [S!Next]_store => StoreInv'
<1> SUFFICES ASSUME StoreInv, [S!Next]_store PROVE StoreInv'
  OBVIOUS
<1>0. StoreTyped /\ Process /\ now \in Nat
  BY DEF StoreInv, StoreTyped
<1>1. StoreTyped' /\ Process'
  BY <1>0, StoreTypedStep, ProcessStep
<1> SUFFICES ASSUME NEW p \in Photos PROVE PhotoKept(p)'
  BY <1>1 DEF StoreInv
<1>p. PhotoKept(p)
  BY DEF StoreInv
<1> USE DEF S!queue, S!photoVars, S!process, S!bounds, S!history
<1>2. ASSUME NEW q \in Photos, S!Shoot(q) PROVE PhotoKept(p)'
  <2>1. /\ UNCHANGED <<list, stored, disk, stamp, writes, discarded, now, load>>
        /\ owner[q] = Nobody /\ owner'[q] # Nobody /\ \A r \in Photos \ {q} : owner'[r] = owner[r]
        /\ shooting' = shooting \cup {q}
    BY <1>0, <1>2 DEF S!Shoot, StoreTyped
  <2> QED
    BY <1>0, <1>p, <2>1, PhotoUntouched DEF PhotoKept
<1>3. ASSUME NEW q \in Photos, S!ShotFailed(q) PROVE PhotoKept(p)'
  <2>1. /\ UNCHANGED <<list, stored, disk, stamp, writes, discarded, now, load, owner>>
        /\ shooting' \subseteq shooting
    BY <1>3 DEF S!ShotFailed
  <2> QED
    BY <1>0, <1>p, <2>1, PhotoUntouched DEF PhotoKept
<1>4. ASSUME NEW q \in Photos, S!Dismiss(q) PROVE PhotoKept(p)'
  BY <1>4, PhotoListed DEF S!Dismiss, S!Put
<1>5. ASSUME NEW q \in Photos, NEW job, S!Update(q, job) PROVE PhotoKept(p)'
  BY <1>5, PhotoListed DEF S!Update, S!Put
<1>6. CASE UNCHANGED store \/ S!Tick \/ \E a \in Accounts : S!SignIn(a)
  <2>1. /\ UNCHANGED <<list, stored, disk, stamp, writes, discarded, load, owner, shooting>>
        /\ now' \in Nat /\ now <= now'
    BY <1>0, <1>6 DEF store, S!Tick, S!SignIn
  <2> QED
    BY <1>0, <1>p, <2>1, PhotoUntouched DEF PhotoKept
<1> QED
  BY <1>2, <1>3, <1>4, <1>5, <1>6, PhotoShot, PhotoPurged, PhotoSaved, PhotoWritten, PhotoLoaded,
     PhotoSignedOut, PhotoRestart DEF S!Next, S!Use

\* A photo of the account that is signed in stays its, or has come otherwise.
StaysApart == \A p \in Photos : owner[p] # Nobody /\ Apart(p) => Apart(p)'

\* A photo with a job has been taken.
Taken(jobs) == \A p \in S!Held(jobs) : p \in Photos /\ owner[p] # Nobody /\ p \notin shooting

LEMMA AllTaken == StoreInv => /\ Taken(list) /\ Taken(stored)
                              /\ \A i \in DOMAIN writes : Taken(writes[i].jobs)
<1> SUFFICES ASSUME StoreInv, NEW p \in Photos,
                    \/ p \in S!Held(list) \/ p \in S!Held(stored)
                    \/ \E i \in DOMAIN writes : p \in S!Held(writes[i].jobs)
             PROVE  owner[p] # Nobody /\ p \notin shooting
  BY DEF Taken, S!Held
<1> QED
  BY DEF StoreInv, PhotoKept, Pending, S!Held

LEMMA GoodStays ==
  ASSUME StaysApart, StoreInv
  PROVE  /\ Good(list) => \A p \in S!Held(list) : Apart(p)'
         /\ Good(stored) => \A p \in S!Held(stored) : Apart(p)'
         /\ \A i \in DOMAIN writes :
              Good(writes[i].jobs) => \A p \in S!Held(writes[i].jobs) : Apart(p)'
BY AllTaken DEF StaysApart, Taken, Good

(* What is stored settles as well as before when nothing is written: the list  *)
(* is still to be saved, or a storage call has failed.                        *)
LEMMA SettlesSame ==
  ASSUME StoreInv, StaysApart, WillSettle, UNCHANGED <<stored, writes>>, mishaps' \in Nat,
         (mishaps' = mishaps /\ ToCome <= ToCome') \/ mishaps' = mishaps + 1
  PROVE  WillSettle'
<1>1. mishaps \in Nat /\ MaxMishaps \in Nat /\ Len(writes) \in Nat /\ DOMAIN writes = 1..Len(writes)
      /\ ToCome \in {0, 1} /\ ToCome' \in {0, 1}
  BY StoreOK DEF StoreInv, StoreTyped, S!ConstantsOK, ToCome
<1>2. CASE Good(stored) /\ \A i \in DOMAIN writes : Good(writes[i].jobs)
  BY <1>2, GoodStays DEF WillSettle, Good
<1>3. ASSUME NEW k \in 0..Len(writes), \A i \in (k + 1)..Len(writes) : Good(writes[i].jobs),
             Len(writes) - k + ToCome > MaxMishaps - mishaps
      PROVE  WillSettle'
  <2>1. \A i \in (k + 1)..Len(writes) : Good(writes[i].jobs)'
    <3> SUFFICES ASSUME NEW i \in (k + 1)..Len(writes) PROVE Good(writes[i].jobs)'
      OBVIOUS
    <3>1. i \in DOMAIN writes /\ Good(writes[i].jobs) /\ writes'[i] = writes[i]
      BY <1>1, <1>3
    <3> QED
      BY <3>1, GoodStays DEF Good
  <2>2. Len(writes') - k + ToCome' > MaxMishaps - mishaps'
    BY <1>1, <1>3
  <2> QED
    BY <2>1, <2>2 DEF WillSettle
<1> QED
  BY <1>2, <1>3 DEF WillSettle

(* One more good write settles as well as one to come.                        *)
LEMMA SettlesIssued ==
  ASSUME StoreInv, StaysApart, WillSettle, stored' = stored, mishaps' = mishaps,
         NEW jobs \in Queues, NEW kind \in {"save", "purge", "clear"},
         NEW photos \in SUBSET Photos, S!Issue(jobs, kind, photos),
         \A p \in S!Held(jobs) : Apart(p)'
  PROVE  WillSettle'
<1>0. /\ Len(writes) \in Nat /\ Len(writes') = Len(writes) + 1 /\ DOMAIN writes = 1..Len(writes)
      /\ DOMAIN writes' = 1..(Len(writes) + 1) /\ \A i \in DOMAIN writes : writes'[i] = writes[i]
      /\ writes'[Len(writes) + 1] =
           [jobs |-> jobs, kind |-> kind, photos |-> photos,
            at |-> IF kind = "clear" THEN now ELSE 0]
  BY Issued DEF StoreInv
<1>1. mishaps \in Nat /\ MaxMishaps \in Nat /\ ToCome \in {0, 1} /\ ToCome' \in {0, 1}
  BY StoreOK DEF StoreInv, StoreTyped, S!ConstantsOK, ToCome
<1>2. ASSUME NEW i \in DOMAIN writes', i # Len(writes) + 1 => i \in DOMAIN writes /\ Good(writes[i].jobs)
      PROVE  Good(writes[i].jobs)'
  <2>1. CASE i = Len(writes) + 1
    <3>1. writes'[i].jobs = jobs
      BY <1>0, <2>1
    <3> QED
      BY <3>1 DEF Good
  <2>2. CASE i # Len(writes) + 1
    BY <1>0, <1>2, <2>2, GoodStays DEF Good
  <2> QED
    BY <2>1, <2>2
<1>3. CASE Good(stored) /\ \A i \in DOMAIN writes : Good(writes[i].jobs)
  <2>1. Good(stored)'
    BY <1>3, GoodStays DEF Good
  <2>2. \A i \in DOMAIN writes' : Good(writes[i].jobs)'
    BY <1>0, <1>2, <1>3
  <2> QED
    BY <2>1, <2>2 DEF WillSettle
<1>4. ASSUME NEW k \in 0..Len(writes), \A i \in (k + 1)..Len(writes) : Good(writes[i].jobs),
             Len(writes) - k + ToCome > MaxMishaps - mishaps
      PROVE  WillSettle'
  <2>1. \A i \in (k + 1)..Len(writes') : Good(writes[i].jobs)'
    BY <1>0, <1>2, <1>4
  <2>2. Len(writes') - k + ToCome' > MaxMishaps - mishaps' /\ k \in 0..Len(writes')
    BY <1>0, <1>1, <1>4
  <2> QED
    BY <2>1, <2>2 DEF WillSettle
<1> QED
  BY <1>3, <1>4 DEF WillSettle

(* The oldest write is carried out, or fails.                                *)
LEMMA SettlesWritten ==
  ASSUME StoreInv, QueuesInv, S!Write
  PROVE  WillSettle'
<1>0. StoreTyped /\ UNCHANGED <<owner, account, inherited, late, unsaved, skipNext>> /\ writes # <<>>
      /\ writes' = Tail(writes)
  BY DEF S!Write, S!photoVars, S!process, S!history, StoreInv
<1>1. /\ Len(writes) \in Nat \ {0} /\ Len(writes') = Len(writes) - 1
      /\ DOMAIN writes = 1..Len(writes) /\ DOMAIN writes' = 1..(Len(writes) - 1)
      /\ \A i \in DOMAIN writes' : i + 1 \in DOMAIN writes /\ writes'[i] = writes[i + 1]
      /\ Head(writes) = writes[1] /\ 1 \in DOMAIN writes
  BY <1>0, Carried
<1>2. \/ stored' = writes[1].jobs /\ mishaps' = mishaps
      \/ stored' = stored /\ mishaps < MaxMishaps /\ mishaps' = mishaps + 1
  BY <1>1 DEF S!Write, S!Fault
<1>3. mishaps \in Nat /\ MaxMishaps \in Nat /\ ToCome \in {0, 1} /\ ToCome' = ToCome
  BY <1>0, StoreOK DEF StoreTyped, S!ConstantsOK, ToCome
<1>4. \A p : Apart(p)' = Apart(p)
  BY <1>0 DEF Apart
<1>5. ASSUME NEW i \in DOMAIN writes', Good(writes[i + 1].jobs) PROVE Good(writes[i].jobs)'
  BY <1>1, <1>4, <1>5 DEF Good
<1>6. CASE Good(stored) /\ \A i \in DOMAIN writes : Good(writes[i].jobs)
  <2>1. Good(stored)'
    BY <1>1, <1>2, <1>4, <1>6 DEF Good
  <2>2. \A i \in DOMAIN writes' : Good(writes[i].jobs)'
    BY <1>1, <1>5, <1>6
  <2> QED
    BY <2>1, <2>2 DEF WillSettle
<1>7. ASSUME NEW k \in 0..Len(writes), \A i \in (k + 1)..Len(writes) : Good(writes[i].jobs),
             Len(writes) - k + ToCome > MaxMishaps - mishaps
      PROVE  WillSettle'
  <2>1. CASE k = 0 /\ stored' = writes[1].jobs
    <3>1. Good(stored)'
      BY <1>1, <1>4, <1>7, <2>1 DEF Good
    <3>2. \A i \in DOMAIN writes' : Good(writes[i].jobs)'
      BY <1>1, <1>5, <1>7, <2>1
    <3> QED
      BY <3>1, <3>2 DEF WillSettle
  <2>2. CASE k = 0 /\ mishaps' = mishaps + 1
    <3>1. \A i \in (0 + 1)..Len(writes') : Good(writes[i].jobs)'
      BY <1>1, <1>5, <1>7, <2>2
    <3>2. 0 \in 0..Len(writes') /\ Len(writes') - 0 + ToCome' > MaxMishaps - mishaps'
      BY <1>1, <1>3, <1>7, <2>2
    <3> QED
      BY <3>1, <3>2 DEF WillSettle
  <2>3. CASE k > 0
    <3>1. \A i \in k..Len(writes') : Good(writes[i].jobs)'
      BY <1>1, <1>5, <1>7, <2>3
    <3>2. /\ k - 1 \in 0..Len(writes') /\ (k - 1) + 1 = k
          /\ Len(writes') - (k - 1) + ToCome' > MaxMishaps - mishaps'
      BY <1>1, <1>2, <1>3, <1>7, <2>3
    <3> QED
      BY <3>1, <3>2 DEF WillSettle
  <2> QED
    BY <1>2, <2>1, <2>2, <2>3
<1> QED
  BY <1>6, <1>7 DEF QueuesInv, WillSettle

(* A sign-out issues two good writes, the clear and the save that follows.     *)
LEMMA SettlesSignedOut ==
  ASSUME MaxMishaps <= 1, StoreInv, QueuesInv, S!SignOut
  PROVE  WillSettle'
<1>1. StoreTyped /\ Process /\ S!Put(S!Empty) /\ S!Issue(S!Empty, "clear", S!Held(list))
      /\ UNCHANGED <<stored, skipNext, mishaps>>
  BY DEF StoreInv, S!SignOut, S!bounds
<1>2. S!Empty \in Queues /\ S!Held(list) \in SUBSET Photos /\ S!Held(S!Empty) = {}
  BY DEF S!Empty, Queues, S!NoJob, S!Held
<1>3. /\ Len(writes) \in Nat /\ Len(writes') = Len(writes) + 1
      /\ writes'[Len(writes) + 1] =
           [jobs |-> S!Empty, kind |-> "clear", photos |-> S!Held(list), at |-> now]
  BY <1>1, <1>2, Issued
<1>4. ~skipNext /\ unsaved'
  BY <1>1 DEF Process, S!Put
<1>5. ToCome' = 1 /\ mishaps \in Nat /\ MaxMishaps \in Nat
  BY <1>1, <1>4, StoreOK DEF ToCome, StoreTyped, S!ConstantsOK
<1>6. \A i \in (Len(writes) + 1)..Len(writes') : Good(writes[i].jobs)'
  <2> SUFFICES ASSUME NEW i, i = Len(writes) + 1 PROVE Good(writes[i].jobs)'
    BY <1>3
  <2>1. writes'[i].jobs = S!Empty
    BY <1>3
  <2> QED
    BY <1>2, <2>1 DEF Good, S!Held
<1>7. \E k \in 0..Len(writes') :
        /\ \A i \in (k + 1)..Len(writes') : Good(writes[i].jobs)'
        /\ Len(writes') - k + ToCome' > MaxMishaps - mishaps'
  <2>1. Len(writes) \in 0..Len(writes') /\ Len(writes') - Len(writes) + ToCome' > MaxMishaps - mishaps'
    BY <1>1, <1>3, <1>5
  <2> QED
    BY <1>6, <2>1
<1> QED
  BY <1>7 DEF WillSettle

LEMMA QueuesStep ==
  ASSUME MaxMishaps <= 1, StoreInv, StoreInv', QueuesInv, [S!Next]_store
  PROVE  QueuesInv'
<1>0. /\ StoreTyped /\ StoreTyped' /\ Process /\ Process' /\ mishaps <= MaxMishaps /\ Good(list)
      /\ ~running \/ (load.at = "reading" /\ ~load.old) => Good(stored)
      /\ WillSettle /\ mishaps \in Nat /\ mishaps' \in Nat /\ MaxMishaps \in Nat
  BY StoreOK DEF StoreInv, QueuesInv, StoreTyped, S!ConstantsOK
<1> USE DEF S!queue, S!photoVars, S!process, S!bounds, S!history
\* A step that stores and writes nothing, and lists at most one job more.
<1>a. ASSUME StaysApart, UNCHANGED <<stored, writes, running, load, skipNext, mishaps>>,
             unsaved' = unsaved \/ unsaved',
             \A p \in S!Held(list') : p \in S!Held(list) \/ Apart(p)'
      PROVE  QueuesInv'
  <2>1. ToCome \in {0, 1} /\ ToCome <= ToCome'
    BY <1>0, <1>a DEF ToCome, StoreTyped
  <2>2. WillSettle'
    BY <1>0, <1>a, <2>1, SettlesSame
  <2>3. Good(list)' /\ (Good(stored) => Good(stored)')
    BY <1>0, <1>a, GoodStays DEF Good
  <2> QED
    BY <1>0, <1>a, <2>2, <2>3 DEF QueuesInv
<1>b. ASSUME UNCHANGED <<owner, account, inherited, late>> PROVE StaysApart
  BY <1>b DEF StaysApart, Apart
<1>1. ASSUME NEW q \in Photos, S!Shoot(q) PROVE QueuesInv'
  <2>1. StaysApart
    BY <1>0, <1>1 DEF S!Shoot, StaysApart, Apart, StoreTyped
  <2> QED
    BY <1>a, <1>1, <2>1 DEF S!Shoot
<1>2. ASSUME NEW q \in Photos, S!ShotFailed(q) PROVE QueuesInv'
  BY <1>a, <1>b, <1>2 DEF S!ShotFailed
<1>3. ASSUME NEW q \in Photos, S!Shot(q) PROVE QueuesInv'
  <2>1. StaysApart
    BY <1>3 DEF S!Shot, StaysApart, Apart
  <2>2. ASSUME NEW p \in S!Held(list'), p \notin S!Held(list) PROVE Apart(p)'
    <3>1. list' = [list EXCEPT ![q] = S!Waiting] /\ (account = owner[q] \/ q \in late')
      BY <1>3, <2>2 DEF S!Shot, S!Put
    <3>2. p = q /\ UNCHANGED <<owner, account>>
      BY <1>0, <1>3, <2>2, <3>1 DEF S!Held, StoreTyped, Queues, S!Shot
    <3> QED
      BY <3>1, <3>2 DEF Apart
  <2>3. UNCHANGED <<stored, writes, running, load, skipNext, mishaps>> /\ (unsaved' = unsaved \/ unsaved')
    BY <1>3 DEF S!Shot, S!Put
  <2> QED
    BY <1>a, <2>1, <2>2, <2>3
<1>4. ASSUME NEW q \in Photos, NEW job, S!Update(q, job) \/ S!Dismiss(q) PROVE QueuesInv'
  <2>1. S!Held(list') \subseteq S!Held(list)
    BY <1>0, <1>4 DEF S!Update, S!Dismiss, S!Put, S!Held, StoreTyped, Queues
  <2> QED
    BY <1>a, <1>b, <1>4, <2>1 DEF S!Update, S!Dismiss, S!Put
<1>5. CASE S!Purge
  <2> DEFINE expired == {p \in Photos : S!Expired(list[p])}
             pruned == [p \in Photos |-> IF p \in expired THEN S!NoJob ELSE list[p]]
  <2>1. pruned \in Queues /\ expired \in SUBSET Photos /\ S!Held(pruned) \subseteq S!Held(list)
    BY <1>0 DEF StoreTyped, Queues, S!NoJob, S!Held
  <2>2. /\ list' = pruned /\ S!Issue(pruned, "purge", expired) /\ StaysApart
        /\ UNCHANGED <<stored, running, load, mishaps>>
    BY <1>b, <1>5 DEF S!Purge, S!Put
  <2> HIDE DEF expired, pruned
  <2>3. \A p \in S!Held(pruned) : Apart(p)'
    BY <1>0, <2>1, <2>2, GoodStays
  <2>4. WillSettle'
    BY <1>0, <2>1, <2>2, <2>3, SettlesIssued
  <2>5. Good(list)' /\ (Good(stored) => Good(stored)')
    BY <2>2, <2>3, GoodStays DEF Good
  <2> QED
    BY <1>0, <2>2, <2>4, <2>5 DEF QueuesInv
<1>6. CASE S!Persist
  <2>1. /\ StaysApart /\ UNCHANGED <<list, stored, running, load, mishaps>> /\ load.at = "done"
        /\ unsaved /\ ~unsaved' /\ ~skipNext'
    BY <1>b, <1>6 DEF S!Persist
  <2>2. WillSettle'
    <3>1. CASE skipNext /\ UNCHANGED writes
      <4>1. ToCome = 0 /\ ToCome' = 0
        BY <2>1, <3>1 DEF ToCome
      <4> QED
        BY <1>0, <2>1, <3>1, <4>1, SettlesSame
    <3>2. CASE S!Issue(list, "save", {})
      <4>1. list \in Queues /\ {} \in SUBSET Photos /\ \A p \in S!Held(list) : Apart(p)'
        BY <1>0, <2>1, GoodStays DEF StoreTyped
      <4> QED
        BY <1>0, <2>1, <3>2, <4>1, SettlesIssued
    <3> QED
      BY <1>6, <3>1, <3>2 DEF S!Persist
  <2>3. Good(list)' /\ (Good(stored) => Good(stored)')
    BY <1>0, <2>1, GoodStays DEF Good
  <2> QED
    BY <1>0, <2>1, <2>2, <2>3 DEF QueuesInv
<1>7. CASE S!Write
  <2>1. /\ UNCHANGED <<list, running, load, owner, account, inherited, late>> /\ load.at = "done"
        /\ mishaps' <= MaxMishaps
    BY <1>0, <1>7 DEF S!Write, S!Fault
  <2>2. Good(list)'
    BY <1>0, <2>1 DEF Good, Apart
  <2>3. running
    BY <1>0, <2>1 DEF Process
  <2> QED
    BY <1>7, <2>1, <2>2, <2>3, SettlesWritten DEF QueuesInv
<1>8. CASE S!LoadEnd
  <2>1. /\ StaysApart /\ UNCHANGED <<stored, writes>> /\ load.at = "reading" /\ load'.at = "done"
        /\ running' /\ ~skipNext
    BY <1>0, <1>b, <1>8 DEF S!LoadEnd, StoreTyped, Process
  <2>2. mishaps' <= MaxMishaps /\ ((mishaps' = mishaps /\ ~skipNext' /\ unsaved') \/ mishaps' = mishaps + 1)
    BY <1>0, <1>8, <2>1 DEF S!LoadEnd, S!Put, S!ReadFails, S!Fault
  <2>3. WillSettle'
    <3>1. (mishaps' = mishaps /\ ToCome <= ToCome') \/ mishaps' = mishaps + 1
      BY <2>2 DEF ToCome
    <3> QED
      BY <1>0, <2>1, <3>1, SettlesSame
  <2>4. Good(list)'
    <3>1. CASE list' = list
      BY <1>0, <2>1, <3>1, GoodStays DEF Good
    <3>2. CASE list' = S!Kept(stored) /\ ~load.old
      <4>1. S!Held(list') \subseteq S!Held(stored)
        BY <1>0, <3>2, KeptQueue DEF S!Held, StoreTyped
      <4> QED
        BY <1>0, <2>1, <3>2, <4>1, GoodStays DEF Good
    <3> QED
      BY <1>8, <3>1, <3>2 DEF S!LoadEnd, S!Put, S!ReadFails, S!SignedOutSince
  <2> QED
    BY <2>1, <2>2, <2>3, <2>4 DEF QueuesInv
<1>9. CASE S!SignOut
  <2>1. list' = S!Empty /\ mishaps' = mishaps /\ running' /\ load'.old
    BY <1>0, <1>9 DEF S!SignOut, S!Put, StoreTyped
  <2>2. Good(list)'
    BY <2>1 DEF Good, S!Held, S!Empty
  <2> QED
    BY <1>0, <1>9, <2>1, <2>2, SettlesSignedOut DEF QueuesInv
<1>10. CASE S!Kill
  <2>1. /\ list' = S!Empty /\ writes' = <<>> /\ UNCHANGED <<stored, owner, account, late, mishaps>>
        /\ inherited' = inherited \cup
             {p \in S!Held(stored) : owner[p] # account /\ (writes # <<>> \/ unsaved)}
    BY <1>10 DEF S!Kill
  <2>2. Good(list)'
    BY <2>1 DEF Good, S!Held, S!Empty
  <2>3. Good(stored)'
    <3>1. CASE writes # <<>> \/ unsaved
      BY <2>1, <3>1 DEF Good, Apart
    <3>2. CASE writes = <<>> /\ ~unsaved
      <4>1. Len(writes) = 0 /\ ToCome = 0
        BY <3>2 DEF ToCome
      <4>2. Good(stored)
        BY <1>0, <4>1 DEF WillSettle
      <4> QED
        BY <2>1, <4>2 DEF Good, Apart
    <3> QED
      BY <1>0, <3>1, <3>2 DEF StoreTyped
  <2>4. WillSettle'
    BY <2>1, <2>3 DEF WillSettle
  <2> QED
    BY <1>0, <2>1, <2>2, <2>3, <2>4 DEF QueuesInv
<1>11. ASSUME NEW session \in Accounts \cup {Nobody}, S!Launch(session) PROVE QueuesInv'
  <2>1. /\ ~running /\ list = S!Empty /\ writes = <<>> /\ session \in {account, Nobody}
        /\ UNCHANGED <<list, stored, writes, owner, late, mishaps>> /\ account' = session
        /\ inherited' = IF session = Nobody THEN inherited \cup S!Held(stored) ELSE inherited
    BY <1>0, <1>11 DEF S!Launch, Process
  <2>2. Good(list)'
    BY <2>1 DEF Good, S!Held, S!Empty
  <2>3. Good(stored)'
    BY <1>0, <2>1 DEF Good, Apart
  <2>4. WillSettle'
    BY <2>1, <2>3 DEF WillSettle
  <2> QED
    BY <1>0, <2>1, <2>2, <2>3, <2>4 DEF QueuesInv
<1>12. ASSUME NEW a \in Accounts, S!SignIn(a) PROVE QueuesInv'
  <2>1. StaysApart
    BY <1>12 DEF S!SignIn, StaysApart, Apart
  <2> QED
    BY <1>a, <1>12, <2>1 DEF S!SignIn
<1>13. CASE S!Tick \/ UNCHANGED store
  <2>1. UNCHANGED <<list, stored, owner, writes, load, unsaved, skipNext, account, running, mishaps,
                    inherited, late>>
    BY <1>13 DEF S!Tick, store
  <2> QED
    BY <1>a, <1>b, <2>1
<1> QED
  BY <1>1, <1>2, <1>3, <1>4, <1>5, <1>6, <1>7, <1>8, <1>9, <1>10, <1>11, <1>12, <1>13
     DEF S!Next, S!Use

LEMMA QueuesStart == S!Init => QueuesInv
<1> SUFFICES ASSUME S!Init PROVE QueuesInv
  OBVIOUS
<1>1. list = S!Empty /\ stored = S!Empty /\ writes = <<>> /\ mishaps = 0 /\ S!Held(S!Empty) = {}
  BY DEF S!Init, S!Held, S!Empty
<1>2. Good(list) /\ Good(stored) /\ WillSettle
  BY <1>1 DEF Good, WillSettle
<1> QED
  BY <1>1, <1>2, StoreOK DEF QueuesInv, S!ConstantsOK

-----------------------------------------------------------------------------
LEMMA PartsMoveStore == [Moving]_<<part, vars, store, signIn>> => [S!Next]_store
BY DEF Moving

(* No sweep, purge, failed load or sign-out deletes the photo of a job that is *)
(* listed or that a launch would bring back (ScanJobContext.tsx,              *)
(* scanJobStorage.ts), whatever fails and however often.                      *)
THEOREM StorePhotos == PartsSpec => []JobsHaveTheirPhotos
<1>1. Parts => StoreInv
  BY StoreStart DEF Parts
<1>2. StoreInv => JobsHaveTheirPhotos
  <2> SUFFICES ASSUME StoreInv, NEW p \in Photos \ discarded,
                      list[p] # S!NoJob \/ S!Kept(stored)[p] # S!NoJob
               PROVE  p \in disk
    BY DEF JobsHaveTheirPhotos, S!JobsHaveTheirPhotos
  <2> QED
    BY DEF StoreInv, PhotoKept, Pending
<1> QED
  BY <1>1, <1>2, StoreStep, PartsMoveStore, PTL DEF PartsSpec

(* When at most one storage call fails, no queue passes to another account     *)
(* within a process, whatever loads, saves and sign-outs are under way         *)
(* (ScanJobContext.tsx).                                                      *)
THEOREM StoreApart == MaxMishaps <= 1 => (PartsSpec => []QueuesStayApart)
<1> SUFFICES ASSUME MaxMishaps <= 1 PROVE PartsSpec => []QueuesStayApart
  OBVIOUS
<1>1. Parts => StoreInv /\ QueuesInv
  BY StoreStart, QueuesStart DEF Parts
<1>2. StoreInv /\ QueuesInv /\ [Moving]_<<part, vars, store, signIn>> => StoreInv' /\ QueuesInv'
  BY StoreStep, QueuesStep, PartsMoveStore
<1>3. QueuesInv => QueuesStayApart
  BY DEF QueuesInv, Good, Apart, QueuesStayApart, S!QueuesStayApart
<1> QED
  BY <1>1, <1>2, <1>3, PTL DEF PartsSpec

-----------------------------------------------------------------------------
(* AppSession.                                                               *)

Tokens == [s : Sessions, v : Nat]
MaybeToken == Tokens \cup {None}

Apps == [gate : {"waiting", "open", "shut"}, superseded : BOOLEAN, changed : BOOLEAN,
         loading : BOOLEAN, authed : BOOLEAN, left : BOOLEAN, spilt : BOOLEAN]
Leaves == [at : {Idle, "revoking", "deleting"}, todo : SUBSET {"access", "refresh"},
           failed : BOOLEAN]
Rotations == [at : {Idle, "reading", "posting", "writing access", "writing refresh",
                    "dropping access", "dropping refresh", "signing out"},
              old : BOOLEAN, tok : MaybeToken, new : MaybeToken]
CallStates == [at : {Idle, "opening", "sent", "refused", "refreshing", "signing out", "answered",
                     "rejected"},
               old : BOOLEAN, tok : MaybeToken, again : BOOLEAN, revoked : BOOLEAN]

KeychainTyped == access \in MaybeToken /\ refresh \in MaybeToken
WorldTyped ==
  /\ marker \in {"none", "pending", "done"} /\ faults \in Nat
  /\ server \in [cur : [Sessions -> Nat], dead : SUBSET Sessions]
  /\ issued \in Sessions /\ mine \subseteq Sessions
  /\ login = "posting" => issued < MaxSession
StepsKnown ==
  /\ check \in {Idle, "reading", "excusing", "adopting", "flagging", "looking", "erasing access",
                "erasing refresh", "marking", "over"}
  /\ entry \in {Idle, "checking", "confirming", "clearing access", "clearing refresh"}
  /\ login \in {Idle, "posting", "superseding", "storing access", "storing refresh", "marking"}
  /\ out \in {Idle, "access", "refresh", "calling back"}
RotationTyped ==
  /\ rotation \in Rotations
  /\ rotation.at \in {"posting", "writing access", "writing refresh", "dropping access",
                      "dropping refresh"} => rotation.tok \in Tokens
  /\ rotation.at \in {"writing access", "writing refresh", "dropping access", "dropping refresh"} =>
       rotation.new \in Tokens /\ rotation.new.s = rotation.tok.s

SessionTyped ==
  /\ KeychainTyped /\ WorldTyped /\ StepsKnown /\ RotationTyped
  /\ app \in Apps /\ leave \in Leaves /\ calls \in [Calls -> CallStates]

\* A login has its answer, and has yet to store all of it.
Storing == login \notin {Idle, "posting"}

Erasing == check \in {"erasing access", "erasing refresh"}

(* A process that has ended runs nothing; until the check is over, or late,   *)
(* nothing else has begun.                                                   *)
Starting ==
  /\ ~up => app = Waiting /\ check = Idle /\ entry = Idle
  /\ up => (app.loading <=> entry # Idle)
  /\ app.loading => ~app.authed
  /\ app.gate = "waiting" => ~up \/ entry = "checking"
  /\ ~up \/ entry = "checking" =>
       /\ login = Idle /\ leave.at = Idle /\ out = Idle /\ rotation.at = Idle
       /\ ~app.superseded /\ ~app.changed /\ ~app.left /\ \A c \in Calls : calls[c].at = Idle
  /\ up /\ (\/ app.gate = "open" \/ app.authed \/ entry \notin {Idle, "checking"}
            \/ leave.at # Idle \/ app.left \/ rotation.at # Idle \/ out # Idle) =>
       check = "over" \/ app.superseded

(* While nobody is signed in, an open gate lets only the launch's own request  *)
(* through; what a shut one has not stopped is of an earlier epoch.           *)
Gated ==
  /\ up /\ ~app.authed /\ app.gate = "open" =>
       \A c \in Calls : calls[c].at = Idle \/ (c = "me" /\ entry = "confirming")
  /\ app.changed /\ ~app.authed => app.gate = "shut"
  /\ leave.at = "deleting" => app.gate = "shut"
  /\ leave.at = "revoking" => app.authed
  /\ app.left => app.changed /\ app.gate = "shut" /\ ~app.authed
  /\ app.gate # "open" /\ rotation.at # Idle => rotation.old

(* A refresh has a request that waits for it, a sign-out one or a refresh.     *)
Waited ==
  /\ rotation.at # Idle => \E c \in Calls : calls[c].at = "refreshing"
  /\ out # Idle => rotation.at = "signing out" \/ \E c \in Calls : calls[c].at = "signing out"
  /\ rotation.at = "signing out" => out # Idle
  /\ rotation.at \in {"dropping access", "dropping refresh"} => rotation.old

(* A login, once answered, has the Keychain for itself.                       *)
LoginAlone ==
  /\ login # Idle => up /\ ~app.loading /\ ~app.authed
  /\ Storing =>
       /\ out = Idle /\ leave.at = Idle /\ ~app.left /\ app.superseded /\ issued \in mine
       /\ rotation.at = Idle \/ (rotation.at = "posting" /\ rotation.old)
  /\ login \in {"storing refresh", "marking"} => access = [s |-> issued, v |-> 0]
  /\ login = "marking" => refresh = [s |-> issued, v |-> 0]
  /\ app.superseded /\ login # "superseding" => ~Erasing

Phases == Starting /\ Gated /\ Waited /\ LoginAlone

(* Between the end of a login and the next sign-out.                          *)
InSession == up /\ app.authed /\ app.changed /\ leave.at # "deleting"

Of(token, session) == token # None /\ token.s = session

(* A token may be gone once the server has ended the session, as a sign-out    *)
(* that the request layer has begun always has seen.                         *)
HoldsItsTokens ==
  InSession =>
    /\ app.superseded
    /\ access = None \/ Of(access, issued)
    /\ refresh = None \/ Of(refresh, issued)
    /\ issued \notin server.dead => access # None /\ refresh # None
    /\ out # Idle => issued \in server.dead
    /\ rotation.at \notin {Idle, "posting"} => ~rotation.old
    /\ rotation.at \notin {Idle, "reading"} /\ ~rotation.old => rotation.tok.s = issued

(* The server says token_revoked only of a session it has revoked.             *)
Refusals ==
  \A c \in Calls :
    calls[c].at = "refused" /\ calls[c].revoked => calls[c].tok # None /\ calls[c].tok.s \in server.dead

(* A token is gone, or a refresh that was overtaken has just written it and    *)
(* is to take it back.                                                       *)
AccessGone ==
  access = None \/ (rotation.at \in {"writing refresh", "dropping access"} /\ access = rotation.new)
RefreshGone ==
  refresh = None \/ (rotation.at \in {"dropping access", "dropping refresh"} /\ refresh = rotation.new)

LeavesNothing ==
  /\ leave.at = "deleting" =>
       /\ "access" \in leave.todo \/ leave.failed \/ app.spilt \/ AccessGone
       /\ "refresh" \in leave.todo \/ leave.failed \/ app.spilt \/ RefreshGone
  /\ app.left => app.spilt \/ (AccessGone /\ RefreshGone) \/ marker = "pending"

(* The Keychain holds a token of an earlier install.                          *)
Foreign == (access # None /\ access.s \notin mine) \/ (refresh # None /\ refresh.s \notin mine)

(* What the check has erased stays erased until a login.                      *)
Erased ==
  /\ check = "erasing refresh" => access = None
  /\ check = "marking" /\ ~app.superseded => access = None /\ refresh = None

(* Such a token is met by a marker that has it wiped, before anything may      *)
(* read it.                                                                  *)
Met ==
  /\ marker # "done" /\ app.gate # "open" /\ rotation.at = Idle
  /\ check = "adopting" => app.superseded
  /\ up /\ app.superseded => Storing
  /\ marker = "none" /\ ~up => ~others
  /\ marker = "none" /\ up /\ (others \/ check \notin {"reading", "flagging", "excusing"}) => Storing

(* A refresh that may still write.                                            *)
Rotating == rotation.at \notin {Idle, "reading"} /\ ~(rotation.at = "posting" /\ rotation.old)

(* Unless a login was cut short, or the check's 'pending' was not written.     *)
WipedFirst ==
  /\ Erased
  /\ ~torn /\ Foreign => Met
  /\ ~torn /\ Rotating => rotation.tok.s \in mine

LEMMA SessionConstants ==
  /\ MaxSession \in Nat /\ MaxSession >= 1 /\ "me" \in Calls /\ None \notin Tokens
  /\ None \in MaybeToken /\ Tokens \subseteq MaybeToken
  /\ NoCall \in CallStates /\ NoRotation \in Rotations /\ Waiting \in Apps
  /\ NoCall.at = Idle /\ NoRotation.at = Idle
  /\ [at |-> Idle, todo |-> {}, failed |-> FALSE] \in Leaves
  /\ [at |-> "deleting", todo |-> {"access", "refresh"}, failed |-> FALSE] \in Leaves
BY SessionOK DEF ConstantsOK, Tokens, MaybeToken, Sessions, NoCall, CallStates, NoRotation, Rotations,
                 Waiting, Apps, Leaves, Idle

(* A refresh that stops says so in spilt; the rest of app it leaves alone.      *)
SameApp ==
  /\ app'.gate = app.gate /\ app'.superseded = app.superseded /\ app'.changed = app.changed
  /\ app'.loading = app.loading /\ app'.authed = app.authed /\ app'.left = app.left

LEMMA RotationApp == SessionTyped /\ Rotation => SameApp
BY DEF SessionTyped, Apps, SameApp, Rotation, RotateRead, RotateFail, RotateRefused, RotateWrite, RotateDrop,
       RotateStops, RotateAnswer

LEMMA SessionStart == Init => SessionTyped /\ Phases
<1> SUFFICES ASSUME Init PROVE SessionTyped /\ Phases
  OBVIOUS
<1>1. SessionTyped
  <2>1. access \in Tokens /\ refresh \in Tokens /\ 1 \in Sessions
    BY SessionConstants DEF Init, Tokens, Sessions
  <2>2. KeychainTyped /\ WorldTyped
    BY <2>1, SessionConstants DEF Init, KeychainTyped, WorldTyped, Idle
  <2>3. StepsKnown /\ RotationTyped
    BY SessionConstants DEF Init, StepsKnown, RotationTyped, Idle
  <2>4. app \in Apps /\ leave \in Leaves /\ calls \in [Calls -> CallStates]
    BY SessionConstants DEF Init
  <2> QED
    BY <2>2, <2>3, <2>4 DEF SessionTyped
<1>2. Starting /\ Gated /\ Waited /\ LoginAlone
  BY DEF Init, Starting, Gated, Waited, LoginAlone, Storing, Erasing, Waiting, NoRotation, NoCall, Idle
<1> QED
  BY <1>1, <1>2 DEF Phases

LEMMA AppsStep == SessionTyped /\ [Next]_vars => app' \in Apps /\ leave' \in Leaves
<1> SUFFICES ASSUME SessionTyped, [Next]_vars PROVE app' \in Apps /\ leave' \in Leaves
  OBVIOUS
<1>0. app \in Apps /\ leave \in Leaves
  BY DEF SessionTyped
<1> USE DEF storage, world, procs, OtherThanCheck, Idle
<1>1. CASE Phone
  BY <1>0, <1>1, SessionConstants DEF Phone, Launch, Kill, Reinstall, WriteOther, Stop
<1>2. CASE Check
  BY <1>0, <1>2 DEF Apps, Check, CheckRead, CheckWrite, CheckLook, CheckErase, CheckLate, Over, MarkerWritten
<1>3. CASE Entry
  BY <1>0, <1>3 DEF Apps, Entry, EntryStart, EntryAnswer, EntryLate, EntryClear, Enter
<1>4. CASE Login \/ LoginAnswer \/ LoginStore \/ LoginFails \/ LoginEnd
  BY <1>0, <1>4 DEF Apps, Login, LoginAnswer, LoginStore, LoginFails, LoginEnd
<1>a. /\ [app EXCEPT !.gate = "shut"] \in Apps
      /\ \A spilt \in BOOLEAN :
           [app EXCEPT !.gate = "shut", !.changed = TRUE, !.authed = FALSE, !.left = TRUE, !.spilt = spilt] \in Apps
      /\ leave.failed \in BOOLEAN /\ app.spilt \in BOOLEAN
  BY <1>0 DEF Apps, Leaves
<1>b. [leave EXCEPT !.at = "revoking"] \in Leaves /\ [leave EXCEPT !.at = Idle] \in Leaves
  BY <1>0 DEF Leaves
<1>5. CASE PressSignOut \/ Revoke \/ LeaveEnd
  BY <1>0, <1>5, <1>a, <1>b, SessionConstants DEF PressSignOut, Revoke, LogOut, LeaveEnd
<1>6. ASSUME NEW slot \in {"access", "refresh"}, LeaveDelete(slot)
      PROVE  app' \in Apps /\ leave' \in Leaves
  BY <1>0, <1>6 DEF Apps, Leaves, LeaveDelete
<1>7. CASE OutDelete \/ OutFails \/ OutEnd
  BY <1>0, <1>7, <1>a, SessionConstants DEF OutDelete, OutFails, OutEnd
<1>8. ASSUME NEW c \in Calls, \/ Open(c) \/ Send(c) \/ Answer(c) \/ Handle(c) \/ HandleFails(c) \/ Reject(c)
                              \/ \E revoked \in BOOLEAN : Unauthorised(c, revoked)
      PROVE  UNCHANGED <<app, leave>>
  BY <1>8 DEF Open, Send, Answer, Handle, HandleFails, Reject, Unauthorised
<1>9. CASE Rotation
  BY <1>0, <1>9 DEF Apps, Rotation, RotateRead, RotateFail, RotateRefused, RotateWrite, RotateDrop, RotateStops, RotateAnswer
<1> QED
  BY <1>0, <1>1, <1>2, <1>3, <1>4, <1>5, <1>6, <1>7, <1>8, <1>9 DEF Next, User, Requests, vars

\* What moves a refresh: it alone, a request that starts it, and what ends epochs.
LEMMA RotationStep == SessionTyped /\ [Next]_vars => RotationTyped'
<1> SUFFICES ASSUME SessionTyped, [Next]_vars PROVE RotationTyped'
  OBVIOUS
<1>0. RotationTyped /\ KeychainTyped /\ WorldTyped
  BY DEF SessionTyped
<1> USE DEF storage, world, procs, OtherThanCheck, Idle
<1>a. CASE UNCHANGED rotation
  BY <1>0, <1>a DEF RotationTyped
<1>b. CASE rotation' = NoRotation
  BY <1>b, SessionConstants DEF RotationTyped
<1>c. CASE rotation' = [rotation EXCEPT !.old = TRUE]
  BY <1>0, <1>c DEF RotationTyped, Rotations
<1>1. CASE Phone
  BY <1>1, <1>a, <1>b DEF Phone, Launch, Kill, Reinstall, WriteOther, Stop
<1>2. CASE Check
  BY <1>2, <1>a DEF Check, CheckRead, CheckWrite, CheckLook, CheckErase, CheckLate
<1>3. CASE Entry
  BY <1>3, <1>a DEF Entry, EntryStart, EntryAnswer, EntryLate, EntryClear
<1>4. CASE Login \/ LoginAnswer \/ LoginStore \/ LoginFails \/ LoginEnd
  BY <1>4, <1>a, <1>c DEF Login, LoginAnswer, LoginStore, LoginFails, LoginEnd, Bump
<1>5. CASE PressSignOut \/ Revoke \/ LeaveEnd \/ \E slot \in {"access", "refresh"} : LeaveDelete(slot)
  BY <1>5, <1>a, <1>c DEF PressSignOut, Revoke, LogOut, LeaveEnd, LeaveDelete, Bump
<1>6. CASE OutDelete \/ OutFails \/ OutEnd
  BY <1>6, <1>a, <1>b, <1>c DEF OutDelete, OutFails, OutEnd
<1>7. ASSUME NEW c \in Calls, \/ Open(c) \/ Send(c) \/ Answer(c) \/ Reject(c)
                              \/ \E revoked \in BOOLEAN : Unauthorised(c, revoked)
      PROVE  RotationTyped'
  BY <1>7, <1>a DEF Open, Send, Answer, Reject, Unauthorised
<1>14. ASSUME NEW c \in Calls, HandleFails(c) PROVE RotationTyped'
  BY <1>14, <1>a DEF HandleFails
<1>8. ASSUME NEW c \in Calls, Handle(c) PROVE RotationTyped'
  <2>1. UNCHANGED rotation \/ rotation' = [NoRotation EXCEPT !.at = "reading"]
    BY <1>8 DEF Handle
  <2>2. CASE rotation' = [NoRotation EXCEPT !.at = "reading"]
    BY <2>2, SessionConstants DEF RotationTyped, Rotations, NoRotation
  <2> QED
    BY <1>a, <2>1, <2>2
<1>9. CASE RotateFail \/ RotateDrop \/ RotateStops
  <2>1. CASE rotation.at = "dropping access" /\ rotation' = [rotation EXCEPT !.at = "dropping refresh"]
    BY <1>0, <2>1 DEF RotationTyped, Rotations
  <2> QED
    BY <1>9, <1>b, <2>1 DEF RotateFail, RotateDrop, RotateStops, Settled
<1>10. CASE RotateRead
  <2>1. CASE refresh # None /\ rotation' = [rotation EXCEPT !.at = "posting", !.tok = refresh]
    BY <1>0, <2>1 DEF RotationTyped, Rotations, KeychainTyped, MaybeToken
  <2> QED
    BY <1>10, <1>b, <2>1 DEF RotateRead, Settled, SettledInError
<1>11. CASE RotateRefused
  <2>1. CASE rotation' = [rotation EXCEPT !.at = "signing out"]
    BY <1>0, <2>1 DEF RotationTyped, Rotations
  <2> QED
    BY <1>11, <1>b, <2>1 DEF RotateRefused, Settled
<1>12. CASE RotateWrite
  <2>1. CASE rotation.at = "writing access" /\ rotation' = [rotation EXCEPT !.at = "writing refresh"]
    BY <1>0, <2>1 DEF RotationTyped, Rotations
  <2>2. CASE rotation.at = "writing refresh" /\ rotation' = [rotation EXCEPT !.at = "dropping access"]
    BY <1>0, <2>2 DEF RotationTyped, Rotations
  <2> QED
    BY <1>12, <1>b, <2>1, <2>2 DEF RotateWrite, Settled
<1>13. ASSUME NEW lost \in BOOLEAN, RotateAnswer(lost) PROVE RotationTyped'
  <2> DEFINE new == [s |-> rotation.tok.s, v |-> server.cur[rotation.tok.s] + 1]
  <2>1. CASE rotation.at = "posting" /\ rotation' = [rotation EXCEPT !.at = "writing access", !.new = new]
    <3>1. rotation.tok \in Tokens
      BY <1>0, <2>1 DEF RotationTyped
    <3>2. new \in Tokens /\ new.s = rotation.tok.s
      BY <1>0, <3>1 DEF WorldTyped, Tokens
    <3> HIDE DEF new
    <3> QED
      BY <1>0, <2>1, <3>1, <3>2, SessionConstants DEF RotationTyped, Rotations
  <2> QED
    BY <1>13, <1>b, <2>1 DEF RotateAnswer, Settled
<1> QED
  BY <1>a, <1>1, <1>2, <1>3, <1>4, <1>5, <1>6, <1>7, <1>8, <1>9, <1>10, <1>11, <1>12, <1>13, <1>14
     DEF Next, User, Requests, Rotation, vars

LEMMA CallsStep == SessionTyped /\ [Next]_vars => calls' \in [Calls -> CallStates]
<1> SUFFICES ASSUME SessionTyped, [Next]_vars PROVE calls' \in [Calls -> CallStates]
  OBVIOUS
<1>0. calls \in [Calls -> CallStates] /\ KeychainTyped /\ RotationTyped
  BY DEF SessionTyped
<1> USE DEF storage, world, procs, OtherThanCheck, Idle
<1>a. CASE UNCHANGED calls
  BY <1>0, <1>a
<1>b. CASE calls' = [c \in Calls |-> [calls[c] EXCEPT !.old = TRUE]]
  BY <1>0, <1>b DEF CallStates
<1>c. ASSUME NEW c \in Calls, NEW state \in CallStates, calls' = [calls EXCEPT ![c] = state]
      PROVE  calls' \in [Calls -> CallStates]
  BY <1>0, <1>c
<1>d. ASSUME NEW token \in MaybeToken, Settled(token) PROVE calls' \in [Calls -> CallStates]
  BY <1>0, <1>d DEF Settled, CallStates
<1>e. SettledInError => calls' \in [Calls -> CallStates]
  <2>1. ASSUME NEW c \in Calls PROVE [calls[c] EXCEPT !.at = "answered"] \in CallStates
    BY <1>0 DEF CallStates
  <2> QED
    BY <1>0, <2>1 DEF SettledInError
<1>1. CASE Phone
  BY <1>1, <1>a, SessionConstants DEF Phone, Launch, Kill, Reinstall, WriteOther, Stop
<1>2. CASE Check
  BY <1>2, <1>a DEF Check, CheckRead, CheckWrite, CheckLook, CheckErase, CheckLate
<1>3. CASE Entry
  <2>1. /\ [NoCall EXCEPT !.at = "opening"] \in CallStates /\ NoCall \in CallStates /\ "me" \in Calls
    BY SessionConstants DEF NoCall, CallStates
  <2> QED
    BY <1>3, <1>a, <1>c, <2>1 DEF Entry, EntryStart, EntryAnswer, EntryLate, EntryClear
<1>4. CASE Login \/ LoginAnswer \/ LoginStore \/ LoginFails \/ LoginEnd
  BY <1>4, <1>a, <1>b DEF Login, LoginAnswer, LoginStore, LoginFails, LoginEnd, Bump
<1>5. CASE PressSignOut \/ Revoke \/ LeaveEnd \/ \E slot \in {"access", "refresh"} : LeaveDelete(slot)
  BY <1>5, <1>a, <1>b DEF PressSignOut, Revoke, LogOut, LeaveEnd, LeaveDelete, Bump
<1>6. CASE OutDelete \/ OutFails \/ OutEnd
  <2>1. ASSUME NEW c \in Calls PROVE /\ [calls[c] EXCEPT !.at = "rejected", !.old = TRUE] \in CallStates
                                      /\ [calls[c] EXCEPT !.old = TRUE] \in CallStates
                                      /\ [calls[c] EXCEPT !.at = "answered"] \in CallStates
    BY <1>0 DEF CallStates
  <2> QED
    BY <1>0, <1>6, <1>a, <2>1 DEF OutDelete, OutFails, OutEnd
<1>7. ASSUME NEW c \in Calls, Open(c) \/ Reject(c) PROVE calls' \in [Calls -> CallStates]
  <2>1. [NoCall EXCEPT !.at = "opening"] \in CallStates /\ NoCall \in CallStates
    BY SessionConstants DEF NoCall, CallStates
  <2> QED
    BY <1>7, <1>c, <2>1 DEF Open, Reject
<1>9. ASSUME NEW c \in Calls, NEW how \in {"answered", "rejected"}, Done(c, how)
      PROVE  calls' \in [Calls -> CallStates]
  <2>1. [NoCall EXCEPT !.at = how] \in CallStates /\ NoCall \in CallStates
    BY SessionConstants DEF NoCall, CallStates
  <2> QED
    BY <1>9, <1>c, <2>1 DEF Done
<1>8. ASSUME NEW c \in Calls, Send(c) PROVE calls' \in [Calls -> CallStates]
  <2> DEFINE state == [calls[c] EXCEPT !.at = "sent", !.old = FALSE,
                                       !.tok = IF app.gate = "open" THEN access ELSE None]
  <2>1. state \in CallStates
    BY <1>0, SessionConstants DEF CallStates, KeychainTyped
  <2>2. calls' = [calls EXCEPT ![c] = state] \/ Done(c, "answered")
    BY <1>0, <1>8 DEF Send
  <2> HIDE DEF state
  <2> QED
    BY <1>9, <1>c, <2>1, <2>2
<1>10. ASSUME NEW c \in Calls, \/ Answer(c) \/ HandleFails(c)
                              \/ \E revoked \in BOOLEAN : Unauthorised(c, revoked)
      PROVE  calls' \in [Calls -> CallStates]
  <2>1. ASSUME NEW revoked \in BOOLEAN
        PROVE  [calls[c] EXCEPT !.at = "refused", !.revoked = revoked] \in CallStates
    BY <1>0 DEF CallStates
  <2>2. ASSUME NEW revoked \in BOOLEAN, Unauthorised(c, revoked)
        PROVE  calls' = [calls EXCEPT ![c] = [calls[c] EXCEPT !.at = "refused", !.revoked = revoked]]
    BY <1>0, <2>2 DEF Unauthorised
  <2> QED
    BY <1>9, <1>10, <1>c, <2>1, <2>2 DEF Answer, HandleFails
<1>11. ASSUME NEW c \in Calls, Handle(c) PROVE calls' \in [Calls -> CallStates]
  <2>1. \/ Done(c, "rejected")
        \/ calls' = [calls EXCEPT ![c].at = "signing out"]
        \/ calls' = [calls EXCEPT ![c].at = "sent", ![c].again = TRUE, ![c].tok = access]
        \/ calls' = [calls EXCEPT ![c].at = "refreshing", ![c].again = TRUE]
    BY <1>11 DEF Handle
  <2>2. /\ [calls[c] EXCEPT !.at = "signing out"] \in CallStates
        /\ [calls[c] EXCEPT !.at = "sent", !.again = TRUE, !.tok = access] \in CallStates
        /\ [calls[c] EXCEPT !.at = "refreshing", !.again = TRUE] \in CallStates
    BY <1>0 DEF CallStates, KeychainTyped
  <2>3. \/ Done(c, "rejected")
        \/ calls' = [calls EXCEPT ![c] = [calls[c] EXCEPT !.at = "signing out"]]
        \/ calls' = [calls EXCEPT ![c] = [calls[c] EXCEPT !.at = "sent", !.again = TRUE, !.tok = access]]
        \/ calls' = [calls EXCEPT ![c] = [calls[c] EXCEPT !.at = "refreshing", !.again = TRUE]]
    BY <1>0, <2>1
  <2> QED
    BY <1>9, <1>c, <2>2, <2>3
<1>12. CASE RotateFail \/ RotateDrop \/ RotateStops \/ RotateRead \/ RotateRefused
  BY <1>12, <1>a, <1>d, <1>e, SessionConstants DEF RotateFail, RotateDrop, RotateStops, RotateRead, RotateRefused
<1>13. CASE RotateWrite
  <2>1. rotation.new \in MaybeToken
    BY <1>0 DEF RotationTyped, Rotations
  <2> QED
    BY <1>13, <1>a, <1>d, <2>1 DEF RotateWrite
<1>14. ASSUME NEW lost \in BOOLEAN, RotateAnswer(lost) PROVE calls' \in [Calls -> CallStates]
  BY <1>14, <1>a, <1>d, SessionConstants DEF RotateAnswer
<1> QED
  BY <1>a, <1>1, <1>2, <1>3, <1>4, <1>5, <1>6, <1>7, <1>8, <1>10, <1>11, <1>12, <1>13, <1>14
     DEF Next, User, Requests, Rotation, vars


\* What changes in the Keychain: each token stays, goes, or is one just issued.
LEMMA KeychainStep == SessionTyped /\ [Next]_vars => KeychainTyped'
<1> SUFFICES ASSUME SessionTyped, [Next]_vars PROVE KeychainTyped'
  OBVIOUS
<1>0. /\ KeychainTyped /\ [s |-> issued, v |-> 0] \in MaybeToken /\ None \in MaybeToken
      /\ rotation.at \in {"writing access", "writing refresh"} => rotation.new \in MaybeToken
  BY SessionConstants DEF SessionTyped, WorldTyped, RotationTyped, Tokens, MaybeToken
<1> USE <1>0 DEF storage, world, procs, OtherThanCheck, Idle, KeychainTyped
<1>1. CASE Phone
  BY <1>1 DEF Phone, Launch, Kill, Reinstall, WriteOther, Stop
<1>2. CASE Check
  BY <1>2 DEF Check, CheckRead, CheckWrite, CheckLook, CheckErase, CheckLate
<1>3. CASE Entry
  BY <1>3 DEF Entry, EntryStart, EntryAnswer, EntryLate, EntryClear
<1>4. CASE Login \/ LoginAnswer \/ LoginStore \/ LoginFails \/ LoginEnd
  BY <1>4 DEF Login, LoginAnswer, LoginStore, LoginFails, LoginEnd
<1>5. CASE PressSignOut \/ Revoke \/ LeaveEnd \/ \E slot \in {"access", "refresh"} : LeaveDelete(slot)
  BY <1>5 DEF PressSignOut, Revoke, LeaveEnd, LeaveDelete
<1>6. CASE Requests
  BY <1>6 DEF Requests, Open, Send, Answer, Handle, HandleFails, Reject, Unauthorised, OutDelete, OutFails, OutEnd
<1>7. CASE Rotation
  BY <1>7 DEF Rotation, RotateRead, RotateFail, RotateRefused, RotateWrite, RotateDrop, RotateStops, RotateAnswer
<1> QED
  BY <1>1, <1>2, <1>3, <1>4, <1>5, <1>6, <1>7 DEF Next, User, vars

LEMMA WorldStep == SessionTyped /\ [Next]_vars => WorldTyped'
<1> SUFFICES ASSUME SessionTyped, [Next]_vars PROVE WorldTyped'
  OBVIOUS
<1>0. WorldTyped /\ KeychainTyped /\ RotationTyped
  BY DEF SessionTyped
<1>c. MaxSession \in Nat /\ MaxFaults \in Nat /\ None \notin Tokens
  BY SessionOK, SessionConstants DEF ConstantsOK
<1> USE DEF storage, world, procs, OtherThanCheck, Idle
<1>a. ASSUME UNCHANGED <<server, issued, mine>>, login' = "posting" => login = "posting" \/ issued < MaxSession,
             marker' \in {marker, "none", "pending", "done"}, faults' \in {faults, 0, faults + 1}
      PROVE  WorldTyped'
  BY <1>0, <1>a DEF WorldTyped
<1>1. CASE Launch \/ Kill \/ WriteOther
  BY <1>1, <1>a DEF Launch, Kill, Stop, WriteOther
<1>r. CASE Reinstall
  BY <1>0, <1>r DEF Reinstall, WorldTyped
<1>2. CASE Check
  BY <1>2, <1>a DEF Check, CheckRead, CheckWrite, CheckLook, CheckErase, CheckLate, Fault, NoFault, MarkerWritten
<1>3. CASE Entry
  BY <1>3, <1>a DEF Entry, EntryStart, EntryAnswer, EntryLate, EntryClear, Fault, NoFault
<1>4. CASE Login \/ LoginStore \/ LoginFails \/ LoginEnd
  BY <1>4, <1>a DEF Login, LoginStore, LoginFails, LoginEnd, Fault, NoFault
<1>5. CASE LoginAnswer
  BY <1>0, <1>5, <1>c DEF LoginAnswer, WorldTyped, Sessions
<1>6. CASE PressSignOut \/ LeaveEnd \/ \E slot \in {"access", "refresh"} : LeaveDelete(slot)
  BY <1>6, <1>a DEF PressSignOut, LeaveEnd, LeaveMark, LeaveDelete, Fault, NoFault
<1>7. CASE Revoke
  <2>1. refresh # None => [server EXCEPT !.dead = @ \cup {refresh.s}] \in [cur : [Sessions -> Nat], dead : SUBSET Sessions]
    BY <1>0 DEF WorldTyped, KeychainTyped, MaybeToken, Tokens
  <2> QED
    BY <1>0, <1>7, <2>1 DEF Revoke, WorldTyped
<1>8. CASE Requests
  BY <1>8, <1>a DEF Requests, Open, Send, Answer, Handle, HandleFails, Reject, Unauthorised, OutDelete, OutFails, OutEnd,
                   Fault, NoFault
<1>9. CASE RotateRead \/ RotateFail \/ RotateWrite \/ RotateDrop \/ RotateStops
  BY <1>9, <1>a DEF RotateRead, RotateFail, RotateWrite, RotateDrop, RotateStops, Fault, NoFault
<1>s. rotation.at = "posting" => rotation.tok.s \in Sessions
  BY <1>0 DEF RotationTyped, Tokens
<1>10. CASE RotateRefused
  <2>1. [server EXCEPT !.dead = @ \cup {rotation.tok.s}] \in [cur : [Sessions -> Nat], dead : SUBSET Sessions]
    BY <1>0, <1>10, <1>s DEF WorldTyped, RotateRefused
  <2> QED
    BY <1>0, <1>10, <2>1 DEF RotateRefused, WorldTyped
<1>11. ASSUME NEW lost \in BOOLEAN, RotateAnswer(lost) PROVE WorldTyped'
  <2>1. [server EXCEPT !.cur[rotation.tok.s] = @ + 1] \in [cur : [Sessions -> Nat], dead : SUBSET Sessions]
    BY <1>0, <1>11, <1>s DEF WorldTyped, RotateAnswer
  <2> QED
    BY <1>0, <1>11, <2>1 DEF RotateAnswer, WorldTyped
<1> QED
  BY <1>a, <1>1, <1>r, <1>2, <1>3, <1>4, <1>5, <1>6, <1>7, <1>8, <1>9, <1>10, <1>11
     DEF Next, Phone, User, Rotation, vars

LEMMA StepsStep == SessionTyped /\ [Next]_vars => StepsKnown'
<1> SUFFICES ASSUME SessionTyped, [Next]_vars PROVE StepsKnown'
  OBVIOUS
<1>0. StepsKnown
  BY DEF SessionTyped
<1> USE <1>0 DEF storage, world, procs, OtherThanCheck, Idle, StepsKnown
<1>1. CASE Phone
  BY <1>1 DEF Phone, Launch, Kill, Reinstall, WriteOther, Stop
<1>2. CASE Check
  BY <1>2 DEF Check, CheckRead, CheckWrite, CheckLook, CheckErase, CheckLate, Over
<1>3. CASE Entry
  BY <1>3 DEF Entry, EntryStart, EntryAnswer, EntryLate, EntryClear, Enter
<1>4. CASE Login \/ LoginAnswer \/ LoginStore \/ LoginFails \/ LoginEnd
  BY <1>4 DEF Login, LoginAnswer, LoginStore, LoginFails, LoginEnd
<1>5. CASE PressSignOut \/ Revoke \/ LeaveEnd \/ \E slot \in {"access", "refresh"} : LeaveDelete(slot)
  BY <1>5 DEF PressSignOut, Revoke, LeaveEnd, LeaveDelete
<1>6. CASE OutDelete \/ OutFails \/ OutEnd
  BY <1>6 DEF OutDelete, OutFails, OutEnd
<1>8. ASSUME NEW c \in Calls, \/ Open(c) \/ Send(c) \/ Answer(c) \/ Handle(c) \/ HandleFails(c) \/ Reject(c)
                              \/ \E revoked \in BOOLEAN : Unauthorised(c, revoked)
      PROVE  StepsKnown'
  BY <1>8 DEF Open, Send, Answer, Handle, HandleFails, Reject, Unauthorised
<1>7. CASE Rotation
  <2>1. CASE RotateRead \/ RotateFail \/ RotateWrite \/ RotateDrop \/ RotateStops
    BY <2>1 DEF RotateRead, RotateFail, RotateWrite, RotateDrop, RotateStops
  <2>2. CASE RotateRefused
    BY <2>2 DEF RotateRefused
  <2>3. ASSUME NEW lost \in BOOLEAN, RotateAnswer(lost) PROVE StepsKnown'
    BY <2>3 DEF RotateAnswer
  <2> QED
    BY <1>7, <2>1, <2>2, <2>3 DEF Rotation
<1> QED
  BY <1>1, <1>2, <1>3, <1>4, <1>5, <1>6, <1>7, <1>8 DEF Next, User, Requests, vars

LEMMA SessionTypedStep == SessionTyped /\ [Next]_vars => SessionTyped'
BY KeychainStep, WorldStep, StepsStep, RotationStep, AppsStep, CallsStep DEF SessionTyped


\* The places of the requests, where a step moves one of them.
LEMMA CallMoves ==
  ASSUME calls \in [Calls -> CallStates], NEW c \in Calls, NEW state, calls' = [calls EXCEPT ![c] = state]
  PROVE  calls'[c] = state /\ \A d \in Calls \ {c} : calls'[d] = calls[d]
OBVIOUS

LEMMA StartingStep == SessionTyped /\ Phases /\ [Next]_vars => Starting'
<1> SUFFICES ASSUME SessionTyped, Phases, [Next]_vars PROVE Starting'
  OBVIOUS
<1>0. /\ Starting /\ Gated /\ Waited /\ LoginAlone
      /\ app \in Apps /\ leave \in Leaves /\ calls \in [Calls -> CallStates]
      /\ StepsKnown /\ RotationTyped /\ rotation \in Rotations
  BY DEF Phases, SessionTyped, RotationTyped
<1> USE DEF storage, world, procs, OtherThanCheck, Idle
<1>1. CASE Launch
  BY <1>0, <1>1 DEF Launch, Starting, Waiting
<1>2. CASE Kill
  BY <1>0, <1>2, SessionConstants DEF Kill, Stop, Starting, Waiting
<1>3. CASE Reinstall \/ WriteOther
  BY <1>0, <1>3 DEF Reinstall, WriteOther, Starting
<1>4. CASE CheckRead \/ CheckWrite
  BY <1>0, <1>4 DEF Starting, CheckRead, CheckWrite, Over, Apps, Waiting
<1>5. CASE CheckLook \/ CheckErase
  BY <1>0, <1>5 DEF Starting, CheckLook, CheckErase, Over, Apps, Waiting
<1>6. CASE CheckLate
  BY <1>0, <1>6 DEF Starting, CheckLate, Apps
<1>7. CASE EntryStart
  BY <1>0, <1>7 DEF Starting, EntryStart, Enter, Apps
<1>8. CASE EntryAnswer
  BY <1>0, <1>8 DEF Starting, EntryAnswer, Enter, Apps
<1>9. CASE EntryLate \/ EntryClear
  BY <1>0, <1>9 DEF Starting, EntryLate, EntryClear, Enter, Apps
<1>10. CASE Login \/ LoginAnswer \/ LoginStore \/ LoginFails
  BY <1>0, <1>10 DEF Starting, Login, LoginAnswer, LoginStore, LoginFails, LoginAlone, Apps
<1>11. CASE LoginEnd
  BY <1>0, <1>11 DEF Starting, LoginEnd, LoginAlone, Storing, Apps, Rotations, Bump
<1>12. CASE PressSignOut \/ Revoke \/ LeaveEnd
  <2>1. CASE PressSignOut
    BY <1>0, <2>1 DEF Starting, PressSignOut, Leaves
  <2>2. CASE Revoke
    BY <1>0, <2>2 DEF Starting, Revoke, LogOut, Bump, Gated, Apps, Leaves, Rotations
  <2>3. CASE LeaveEnd
    <3>1. /\ app'.gate = "shut" /\ ~app'.authed /\ app'.superseded = app.superseded
          /\ app'.loading = app.loading
      BY <1>0, <2>3 DEF LeaveEnd, Apps
    <3>2. UNCHANGED <<up, check, entry>> /\ leave.at # Idle
      BY <2>3 DEF LeaveEnd
    <3> QED
      BY <1>0, <3>1, <3>2 DEF Starting
  <2> QED
    BY <1>12, <2>1, <2>2, <2>3
<1>13. ASSUME NEW slot \in {"access", "refresh"}, LeaveDelete(slot)
      PROVE  Starting'
  BY <1>0, <1>13 DEF Starting, LeaveDelete, Leaves
<1>14. CASE OutDelete \/ OutFails
  <2>1. out # Idle /\ UNCHANGED <<up, app, check, entry, login, leave>>
    BY <1>14 DEF OutDelete, OutFails
  <2> QED
    BY <1>0, <2>1 DEF Starting
<1>15. CASE OutEnd
  BY <1>0, <1>15 DEF OutEnd, Starting, Apps, Rotations
<1>16. ASSUME NEW c \in Calls, \/ Open(c) \/ Send(c) \/ Answer(c) \/ Handle(c) \/ HandleFails(c) \/ Reject(c)
                              \/ \E revoked \in BOOLEAN : Unauthorised(c, revoked)
      PROVE  Starting'
  <2>1. up /\ entry # "checking"
    BY <1>0, <1>16 DEF Starting, Open, Send, Answer, Handle, HandleFails, Reject, Unauthorised, Waiting
  <2>2. UNCHANGED <<up, app, check, entry, login, leave>>
    BY <1>16 DEF Open, Send, Answer, Handle, HandleFails, Reject, Unauthorised
  <2>3. out' # Idle \/ rotation'.at # Idle => out # Idle \/ rotation.at # Idle \/ app.gate = "open"
    BY <1>16 DEF Open, Send, Answer, Handle, HandleFails, Reject, Unauthorised
  <2> QED
    BY <1>0, <2>1, <2>2, <2>3 DEF Starting
<1>17. CASE Rotation
  <2>1. rotation.at # Idle /\ UNCHANGED <<up, check, entry, login, leave>>
    BY <1>17 DEF Rotation, RotateRead, RotateFail, RotateRefused, RotateWrite, RotateDrop, RotateStops, RotateAnswer
  <2>2. up /\ entry # "checking"
    BY <1>0, <2>1 DEF Starting, Waiting
  <2>3. SameApp
    BY <1>17, RotationApp
  <2> QED
    BY <1>0, <2>1, <2>2, <2>3 DEF Starting, SameApp
<1>18. CASE UNCHANGED vars
  BY <1>0, <1>18 DEF vars, Starting
<1> QED
  BY <1>1, <1>2, <1>3, <1>4, <1>5, <1>6, <1>7, <1>8, <1>9, <1>10, <1>11, <1>12, <1>13, <1>14, <1>15,
     <1>16, <1>17, <1>18 DEF Next, Phone, Check, Entry, User, Requests


LEMMA GatedStep == SessionTyped /\ Phases /\ [Next]_vars => Gated'
<1> SUFFICES ASSUME SessionTyped, Phases, [Next]_vars PROVE Gated'
  OBVIOUS
<1>0. /\ Starting /\ Gated /\ Waited /\ LoginAlone
      /\ app \in Apps /\ leave \in Leaves /\ calls \in [Calls -> CallStates]
      /\ StepsKnown /\ RotationTyped /\ rotation \in Rotations
  BY DEF Phases, SessionTyped, RotationTyped
<1> USE DEF storage, world, procs, OtherThanCheck, Idle
<1>1. CASE Launch
  BY <1>0, <1>1 DEF Launch, Starting, Gated, Waiting
<1>2. CASE Kill
  BY <1>0, <1>2, SessionConstants DEF Kill, Stop, Gated, Waiting
<1>3. CASE Reinstall \/ WriteOther
  BY <1>0, <1>3 DEF Reinstall, WriteOther, Gated
<1>4. CASE CheckRead \/ CheckWrite
  BY <1>0, <1>4 DEF Starting, Gated, CheckRead, CheckWrite, Over, Apps, Waiting
<1>5. CASE CheckLook \/ CheckErase
  BY <1>0, <1>5 DEF Starting, Gated, CheckLook, CheckErase, Over, Apps, Waiting
<1>6. CASE CheckLate
  BY <1>0, <1>6 DEF Starting, Gated, CheckLate, Apps
<1>7. CASE EntryStart
  BY <1>0, <1>7 DEF Starting, Gated, EntryStart, Enter, Apps
<1>8. CASE EntryAnswer
  <2>1. \A d \in Calls : calls'[d].at = Idle \/ (d # "me" /\ calls'[d] = calls[d])
    BY <1>0, <1>8, SessionConstants DEF EntryAnswer
  <2>2. \/ app' = app
        \/ app' = [app EXCEPT !.loading = FALSE, !.authed = IF app.changed THEN app.authed ELSE TRUE]
    BY <1>8 DEF EntryAnswer, Enter
  <2>3. entry = "confirming" /\ UNCHANGED <<up, leave, rotation>>
    BY <1>8 DEF EntryAnswer
  <2> QED
    BY <1>0, <2>1, <2>2, <2>3 DEF Starting, Gated, Apps
<1>9. CASE EntryLate
  BY <1>0, <1>9 DEF Starting, Gated, EntryLate, Enter, Apps
<1>19. CASE EntryClear
  BY <1>0, <1>19 DEF Starting, Gated, EntryClear, Enter, Apps
<1>10. CASE Login \/ LoginAnswer \/ LoginStore \/ LoginFails
  BY <1>0, <1>10 DEF Starting, Gated, Login, LoginAnswer, LoginStore, LoginFails, LoginAlone, Apps
<1>11. CASE LoginEnd
  BY <1>0, <1>11 DEF Starting, Gated, LoginEnd, LoginAlone, Storing, Apps, Rotations, Bump
<1>12. CASE PressSignOut \/ Revoke \/ LeaveEnd
  BY <1>0, <1>12 DEF Starting, PressSignOut, Revoke, LogOut, LeaveEnd, Bump, Gated, Apps, Leaves, Rotations
<1>13. ASSUME NEW slot \in {"access", "refresh"}, LeaveDelete(slot)
      PROVE  Gated'
  BY <1>0, <1>13 DEF Gated, LeaveDelete, Leaves
<1>14. CASE OutDelete
  BY <1>0, <1>14 DEF OutDelete, Gated
<1>20. CASE OutFails
  <2>1. UNCHANGED <<up, entry, leave, app>> /\ (rotation' = NoRotation \/ rotation' = rotation)
    BY <1>20 DEF OutFails
  <2>2. \A d \in Calls : calls'[d] = calls[d] \/ calls[d].at \in {"signing out", "refreshing"}
    BY <1>20 DEF OutFails, AwaitsSignOut
  <2> QED
    BY <1>0, <2>1, <2>2, SessionConstants DEF Gated
<1>15. CASE OutEnd
  <2>1. app' = [app EXCEPT !.gate = "shut"] /\ leave'.at = "deleting" /\ UNCHANGED <<up, entry>>
    BY <1>15 DEF OutEnd
  <2>2. rotation' = NoRotation \/ rotation' = [rotation EXCEPT !.old = TRUE]
    BY <1>15 DEF OutEnd
  <2> QED
    BY <1>0, <2>1, <2>2, SessionConstants DEF Gated, Apps, Rotations
<1>16. ASSUME NEW c \in Calls, \/ Open(c) \/ Send(c) \/ Answer(c) \/ Handle(c) \/ HandleFails(c) \/ Reject(c)
                              \/ \E revoked \in BOOLEAN : Unauthorised(c, revoked)
      PROVE  Gated'
  <2>1. UNCHANGED <<up, app, entry, leave>>
    BY <1>16 DEF Open, Send, Answer, Handle, HandleFails, Reject, Unauthorised
  <2>2. rotation' = rotation \/ app.gate = "open"
    BY <1>16 DEF Open, Send, Answer, Handle, HandleFails, Reject, Unauthorised
  <2>3. calls[c].at # Idle \/ app.authed
    BY <1>16 DEF Open, Send, Answer, Handle, HandleFails, Reject, Unauthorised
  <2>4. \A d \in Calls : calls'[d].at = Idle \/ d = c \/ calls'[d] = calls[d]
    BY <1>0, <1>16 DEF Open, Send, Answer, Handle, HandleFails, Reject, Unauthorised, Done
  <2> QED
    BY <1>0, <2>1, <2>2, <2>3, <2>4 DEF Gated
<1>17. CASE Rotation
  <2>1. UNCHANGED <<up, entry, leave>> /\ SameApp
    BY <1>17, RotationApp DEF Rotation, RotateRead, RotateFail, RotateRefused, RotateWrite, RotateDrop, RotateStops, RotateAnswer
  <2>2. \A d \in Calls : calls'[d].at = calls[d].at \/ calls[d].at = "refreshing"
    BY <1>0, <1>17 DEF Rotation, RotateRead, RotateFail, RotateRefused, RotateWrite, RotateDrop, RotateStops, RotateAnswer, Settled, SettledInError
  <2>3. rotation.at # Idle
    BY <1>17 DEF Rotation, RotateRead, RotateFail, RotateRefused, RotateWrite, RotateDrop, RotateStops, RotateAnswer
  <2>4. rotation' = NoRotation \/ rotation'.old = rotation.old
    BY <1>0, <1>17 DEF Rotation, RotateRead, RotateFail, RotateRefused, RotateWrite, RotateDrop, RotateStops, RotateAnswer, Settled,
         SettledInError, Rotations
  <2> QED
    BY <1>0, <2>1, <2>2, <2>3, <2>4, SessionConstants DEF Gated, SameApp
<1>18. CASE UNCHANGED vars
  BY <1>0, <1>18 DEF vars, Gated
<1> QED
  BY <1>1, <1>2, <1>3, <1>4, <1>5, <1>6, <1>7, <1>8, <1>9, <1>10, <1>11, <1>12, <1>13, <1>14, <1>15,
     <1>16, <1>17, <1>18, <1>19, <1>20 DEF Next, Phone, Check, Entry, User, Requests


LEMMA WaitedStep == SessionTyped /\ Phases /\ [Next]_vars => Waited'
<1> SUFFICES ASSUME SessionTyped, Phases, [Next]_vars PROVE Waited'
  OBVIOUS
<1>0. /\ Starting /\ Gated /\ Waited /\ LoginAlone
      /\ calls \in [Calls -> CallStates] /\ rotation \in Rotations
  BY DEF Phases, SessionTyped, RotationTyped
<1> USE DEF storage, world, procs, OtherThanCheck, Idle
<1>a. ASSUME UNCHANGED <<rotation, out>>,
             \A c \in Calls : calls[c].at \in {"refreshing", "signing out"} => calls'[c].at = calls[c].at
      PROVE  Waited'
  BY <1>0, <1>a DEF Waited
<1>1. CASE Launch
  BY <1>a, <1>1 DEF Launch
<1>2. CASE Kill
  BY <1>2, SessionConstants DEF Kill, Stop, Waited
<1>3. CASE Reinstall \/ WriteOther \/ Check
  BY <1>a, <1>3 DEF Reinstall, WriteOther, Check, CheckRead, CheckWrite, CheckLook, CheckErase, CheckLate
<1>4. CASE EntryStart
  BY <1>0, <1>a, <1>4 DEF EntryStart, Starting
<1>5. CASE EntryAnswer \/ EntryLate \/ EntryClear
  BY <1>0, <1>a, <1>5 DEF EntryAnswer, EntryLate, EntryClear
<1>b. ASSUME Bump, UNCHANGED out PROVE Waited'
  BY <1>0, <1>b DEF Waited, Bump, Rotations, CallStates
<1>6. CASE LoginEnd \/ Revoke \/ LeaveEnd
  BY <1>b, <1>6 DEF LoginEnd, Revoke, LogOut, LeaveEnd
<1>7. CASE Login \/ LoginAnswer \/ LoginStore \/ LoginFails \/ PressSignOut
  BY <1>a, <1>7 DEF Login, LoginAnswer, LoginStore, LoginFails, PressSignOut
<1>8. ASSUME NEW slot \in {"access", "refresh"}, LeaveDelete(slot)
      PROVE  Waited'
  BY <1>a, <1>8 DEF LeaveDelete
<1>9. CASE OutDelete
  BY <1>0, <1>9 DEF OutDelete, Waited
<1>18. CASE OutFails
  <2>1. out' = Idle
    BY <1>18 DEF OutFails
  <2>2. CASE rotation.at = "signing out"
    BY <1>18, <2>1, <2>2, SessionConstants DEF OutFails, Waited
  <2>3. CASE rotation.at # "signing out"
    <3>1. rotation' = rotation
      BY <1>18, <2>3 DEF OutFails
    <3>2. \A c \in Calls : calls[c].at = "refreshing" => calls'[c].at = "refreshing"
      BY <1>0, <1>18, <2>3 DEF OutFails, AwaitsSignOut, CallStates
    <3> QED
      BY <1>0, <2>1, <2>3, <3>1, <3>2 DEF Waited
  <2> QED
    BY <2>2, <2>3
<1>10. CASE OutEnd
  <2>1. out' = Idle
    BY <1>10 DEF OutEnd
  <2>2. CASE rotation.at = "signing out"
    BY <1>10, <2>1, <2>2, SessionConstants DEF OutEnd, Waited
  <2>3. CASE rotation.at # "signing out"
    <3>1. rotation'.at = rotation.at /\ rotation'.old
      BY <1>0, <1>10, <2>3 DEF OutEnd, Rotations
    <3>2. \A c \in Calls : calls[c].at = "refreshing" => calls'[c].at = "refreshing"
      BY <1>0, <1>10, <2>3 DEF OutEnd, AwaitsSignOut, CallStates
    <3> QED
      BY <1>0, <2>1, <2>3, <3>1, <3>2 DEF Waited
  <2> QED
    BY <2>2, <2>3
<1>11. ASSUME NEW c \in Calls, \/ Open(c) \/ Send(c) \/ Answer(c) \/ HandleFails(c) \/ Reject(c)
                              \/ \E revoked \in BOOLEAN : Unauthorised(c, revoked)
      PROVE  Waited'
  BY <1>0, <1>a, <1>11 DEF Open, Send, Answer, HandleFails, Reject, Unauthorised, Done
<1>12. ASSUME NEW c \in Calls, Handle(c) PROVE Waited'
  <2>1. \A d \in Calls : calls[d].at \in {"refreshing", "signing out"} => calls'[d].at = calls[d].at
    BY <1>0, <1>12 DEF Handle, Done
  <2>2. \/ UNCHANGED <<out, rotation>>
        \/ /\ out' # Idle /\ UNCHANGED rotation /\ calls' = [calls EXCEPT ![c].at = "signing out"]
           /\ out # Idle => out' = out
        \/ /\ rotation' = rotation \/ rotation' = [NoRotation EXCEPT !.at = "reading"]
           /\ rotation.at # Idle => rotation' = rotation
           /\ calls' = [calls EXCEPT ![c].at = "refreshing", ![c].again = TRUE] /\ UNCHANGED out
    BY <1>12 DEF Handle
  <2>3. CASE UNCHANGED <<out, rotation>>
    BY <1>a, <2>1, <2>3
  <2>4. CASE out' # Idle /\ UNCHANGED rotation /\ calls' = [calls EXCEPT ![c].at = "signing out"]
    <3>1. calls'[c].at = "signing out"
      BY <1>0, <2>4 DEF CallStates
    <3> QED
      BY <1>0, <2>1, <2>4, <3>1 DEF Waited
  <2>5. CASE /\ rotation' = rotation \/ rotation' = [NoRotation EXCEPT !.at = "reading"]
             /\ rotation.at # Idle => rotation' = rotation
             /\ calls' = [calls EXCEPT ![c].at = "refreshing", ![c].again = TRUE] /\ UNCHANGED out
    <3>1. calls'[c].at = "refreshing"
      BY <1>0, <2>5 DEF CallStates
    <3>2. rotation' = rotation \/ (rotation'.at = "reading" /\ rotation.at = Idle)
      BY <2>5 DEF NoRotation
    <3> QED
      BY <1>0, <2>1, <2>5, <3>1, <3>2 DEF Waited
  <2> QED
    BY <2>2, <2>3, <2>4, <2>5
<1>c. ASSUME SettledInError \/ \E token \in MaybeToken : Settled(token), UNCHANGED out,
             rotation.at # "signing out"
      PROVE  Waited'
  <2>1. rotation'.at = Idle
    BY <1>c, SessionConstants DEF Settled, SettledInError
  <2>2. \A c \in Calls : calls[c].at = "signing out" => calls'[c].at = "signing out"
    BY <1>0, <1>c DEF Settled, SettledInError
  <2> QED
    BY <1>0, <1>c, <2>1, <2>2 DEF Waited
<1>d. ASSUME rotation.at # Idle, rotation' \in Rotations, rotation'.at \notin {"signing out", Idle},
             rotation'.at \in {"dropping access", "dropping refresh"} => rotation'.old,
             UNCHANGED <<calls, out>>, rotation.at # "signing out"
      PROVE  Waited'
  BY <1>0, <1>d DEF Waited
<1>e. SessionTyped' 
  BY SessionTypedStep
<1>f. rotation' \in Rotations
  BY <1>e DEF SessionTyped, RotationTyped
<1>13. CASE RotateRead \/ RotateFail \/ RotateStops
  BY <1>0, <1>c, <1>d, <1>f, <1>13, SessionConstants DEF RotateRead, RotateFail, RotateStops, Rotations
<1>19. CASE RotateDrop
  <2>1. rotation.at \in {"dropping access", "dropping refresh"} /\ rotation.old /\ UNCHANGED out
    BY <1>0, <1>19 DEF RotateDrop, Waited
  <2>2. \/ Settled(None)
        \/ rotation' = [rotation EXCEPT !.at = "dropping refresh"] /\ UNCHANGED calls
    BY <1>19 DEF RotateDrop
  <2>3. CASE rotation' = [rotation EXCEPT !.at = "dropping refresh"] /\ UNCHANGED calls
    BY <1>0, <1>d, <1>f, <2>1, <2>3 DEF Rotations
  <2> QED
    BY <1>c, <2>1, <2>2, <2>3, SessionConstants
<1>17. CASE RotateWrite
  <2>1. rotation.at \in {"writing access", "writing refresh"} /\ UNCHANGED out
    BY <1>17 DEF RotateWrite
  <2>2. \/ Settled(rotation.new)
        \/ rotation' = [rotation EXCEPT !.at = "writing refresh"] /\ UNCHANGED calls
        \/ rotation' = [rotation EXCEPT !.at = "dropping access"] /\ rotation.old /\ UNCHANGED calls
    BY <1>17 DEF RotateWrite, Outdated
  <2>3. CASE rotation' = [rotation EXCEPT !.at = "writing refresh"] /\ UNCHANGED calls
    BY <1>0, <1>d, <1>f, <2>1, <2>3 DEF Rotations
  <2>4. CASE rotation' = [rotation EXCEPT !.at = "dropping access"] /\ rotation.old /\ UNCHANGED calls
    BY <1>0, <1>d, <1>f, <2>1, <2>4 DEF Rotations
  <2>5. rotation.new \in MaybeToken
    BY <1>0 DEF Rotations
  <2> QED
    BY <1>c, <2>1, <2>2, <2>3, <2>4, <2>5
<1>14. ASSUME NEW lost \in BOOLEAN, RotateAnswer(lost) PROVE Waited'
  BY <1>0, <1>c, <1>d, <1>f, <1>14, SessionConstants DEF RotateAnswer, Rotations
<1>15. CASE RotateRefused
  <2>1. CASE rotation' = [rotation EXCEPT !.at = "signing out"] /\ UNCHANGED calls /\ out' # Idle
    BY <1>0, <1>15, <2>1 DEF Waited, RotateRefused, Rotations
  <2> QED
    BY <1>c, <1>15, <2>1, SessionConstants DEF RotateRefused
<1>16. CASE UNCHANGED vars
  BY <1>a, <1>16 DEF vars
<1> QED
  BY <1>1, <1>2, <1>3, <1>4, <1>5, <1>6, <1>7, <1>8, <1>9, <1>10, <1>11, <1>12, <1>13, <1>14, <1>15,
     <1>16, <1>17, <1>18, <1>19 DEF Next, Phone, Entry, User, Requests, Rotation


LEMMA LoginAloneStep == SessionTyped /\ Phases /\ [Next]_vars => LoginAlone'
<1> SUFFICES ASSUME SessionTyped, Phases, [Next]_vars PROVE LoginAlone'
  OBVIOUS
<1>0. /\ Starting /\ Gated /\ Waited /\ LoginAlone /\ StepsKnown
      /\ app \in Apps /\ leave \in Leaves /\ calls \in [Calls -> CallStates] /\ rotation \in Rotations
  BY DEF Phases, SessionTyped, RotationTyped
<1> USE DEF storage, world, procs, OtherThanCheck, Idle
<1>1. CASE Launch
  BY <1>0, <1>1 DEF Launch, Starting, LoginAlone, Storing, Erasing, Waiting
<1>2. CASE Kill
  BY <1>2 DEF Kill, Stop, LoginAlone, Storing, Erasing, Waiting
<1>3. CASE Reinstall
  BY <1>0, <1>3 DEF Reinstall, LoginAlone, Storing, Erasing
<1>4. CASE WriteOther
  BY <1>0, <1>4 DEF WriteOther, LoginAlone, Storing, Erasing
<1>5. CASE CheckRead \/ CheckWrite
  BY <1>0, <1>5 DEF Starting, LoginAlone, Storing, Erasing, CheckRead, CheckWrite, Over, Apps
<1>6. CASE CheckLook
  BY <1>0, <1>6 DEF LoginAlone, Storing, Erasing, CheckLook, Over, Superseded, Apps
<1>7. CASE CheckErase
  BY <1>0, <1>7 DEF LoginAlone, Storing, Erasing, CheckErase, Over, Apps
<1>8. CASE CheckLate
  BY <1>0, <1>8 DEF LoginAlone, Storing, Erasing, CheckLate, Apps
<1>9. CASE EntryStart
  BY <1>0, <1>9 DEF Starting, LoginAlone, Storing, Erasing, EntryStart, Enter, Apps
<1>10. CASE EntryAnswer
  BY <1>0, <1>10 DEF Starting, LoginAlone, Storing, Erasing, EntryAnswer, Enter, Apps
<1>11. CASE EntryLate \/ EntryClear
  BY <1>0, <1>11 DEF Starting, LoginAlone, Storing, Erasing, EntryLate, EntryClear, Enter, Apps
<1>12. CASE Login
  BY <1>0, <1>12 DEF Login, LoginAlone, Storing, Erasing
<1>13. CASE LoginAnswer
  <2>1. /\ up /\ ~app.authed /\ entry = Idle
        /\ out = Idle /\ leave.at = Idle
    BY <1>0, <1>13 DEF LoginAnswer, LoginAlone, InStorage, Starting
  <2>2. rotation.at \in {Idle, "posting"}
    BY <1>0, <1>13, <2>1 DEF LoginAnswer, InStorage, Waited, Rotations
  <2>3. rotation.at = "posting" => rotation.old
    BY <1>0, <2>1, <2>2 DEF Gated, Waited
  <2>4. /\ UNCHANGED <<up, out, leave, rotation, check>> /\ login' = "superseding"
        /\ app' = [app EXCEPT !.superseded = TRUE, !.left = FALSE]
        /\ issued' \in mine' /\ login = "posting"
    BY <1>13 DEF LoginAnswer
  <2> QED
    BY <1>0, <2>1, <2>2, <2>3, <2>4 DEF LoginAlone, Storing, Erasing, Apps
<1>14. CASE LoginStore \/ LoginFails
  BY <1>0, <1>14 DEF LoginStore, LoginFails, LoginAlone, Storing, Erasing, DeletesDone
<1>15. CASE LoginEnd
  BY <1>0, <1>15 DEF LoginEnd, LoginAlone, Storing, Erasing, Apps, Rotations, Bump
<1>16. CASE PressSignOut \/ Revoke \/ LeaveEnd
  BY <1>0, <1>16 DEF Starting, Gated, PressSignOut, Revoke, LogOut, LeaveEnd, Bump, LoginAlone, Storing, Erasing, Apps, Leaves
<1>17. ASSUME NEW slot \in {"access", "refresh"}, LeaveDelete(slot)
      PROVE  LoginAlone'
  BY <1>0, <1>17 DEF LeaveDelete, Gated, LoginAlone, Storing, Erasing, Leaves
<1>18. CASE OutDelete \/ OutFails
  <2>1. out # Idle /\ UNCHANGED <<issued, mine, up, app, check, login, leave>>
    BY <1>18 DEF OutDelete, OutFails
  <2> QED
    BY <1>0, <2>1 DEF LoginAlone, Storing, Erasing
<1>19. CASE OutEnd
  BY <1>0, <1>19 DEF OutEnd, LoginAlone, Storing, Erasing, Apps
<1>20. ASSUME NEW c \in Calls, \/ Open(c) \/ Send(c) \/ Answer(c) \/ Handle(c) \/ HandleFails(c) \/ Reject(c)
                              \/ \E revoked \in BOOLEAN : Unauthorised(c, revoked)
      PROVE  LoginAlone'
  <2>1. UNCHANGED <<access, refresh, issued, mine, up, app, check, login, leave>>
    BY <1>20 DEF Open, Send, Answer, Handle, HandleFails, Reject, Unauthorised
  <2>2. UNCHANGED <<out, rotation>> \/ (app.gate = "open" /\ calls[c].at = "refused")
    BY <1>20 DEF Open, Send, Answer, Handle, HandleFails, Reject, Unauthorised
  <2>3. login # Idle => UNCHANGED <<out, rotation>> \/ (c = "me" /\ entry = "confirming")
    BY <1>0, <2>2 DEF Gated, LoginAlone
  <2>4. login # Idle => UNCHANGED <<out, rotation>>
    BY <1>0, <2>3 DEF Starting, LoginAlone
  <2> QED
    BY <1>0, <2>1, <2>4 DEF LoginAlone, Storing, Erasing
<1>21. CASE Rotation
  <2>1. UNCHANGED <<issued, mine, up, check, login, leave>> /\ SameApp
    BY <1>21, RotationApp DEF Rotation, RotateRead, RotateFail, RotateRefused, RotateWrite, RotateDrop, RotateStops, RotateAnswer
  <2>2. Storing => rotation.at = "posting" /\ rotation.old
    BY <1>0, <1>21 DEF LoginAlone, Rotation, RotateRead, RotateFail, RotateRefused, RotateWrite, RotateDrop, RotateStops, RotateAnswer
  <2>3. Storing => rotation' = NoRotation /\ UNCHANGED <<access, refresh, out>>
    BY <2>2, <1>21 DEF Rotation, RotateRead, RotateFail, RotateRefused, RotateWrite, RotateDrop, RotateStops, RotateAnswer, Settled
  <2> QED
    BY <1>0, <2>1, <2>3, SessionConstants DEF LoginAlone, Storing, Erasing, SameApp
<1>22. CASE UNCHANGED vars
  BY <1>0, <1>22 DEF vars, LoginAlone, Storing, Erasing
<1> QED
  BY <1>1, <1>2, <1>3, <1>4, <1>5, <1>6, <1>7, <1>8, <1>9, <1>10, <1>11, <1>12, <1>13, <1>14, <1>15,
     <1>16, <1>17, <1>18, <1>19, <1>20, <1>21, <1>22 DEF Next, Phone, Check, Entry, User, Requests

LEMMA PhasesStep == SessionTyped /\ Phases /\ [Next]_vars => Phases'
BY StartingStep, GatedStep, WaitedStep, LoginAloneStep DEF Phases


(* What a step keeps of a refused request.                                    *)
KeepsRefused(c) ==
  calls'[c].at = "refused" =>
    calls[c].at = "refused" /\ calls'[c].tok = calls[c].tok /\ calls'[c].revoked = calls[c].revoked

LEMMA RefusalsStep == SessionTyped /\ Refusals /\ [Next]_vars => Refusals'
<1> SUFFICES ASSUME SessionTyped, Refusals, [Next]_vars PROVE Refusals'
  OBVIOUS
<1>0. calls \in [Calls -> CallStates] /\ server \in [cur : [Sessions -> Nat], dead : SUBSET Sessions]
  BY DEF SessionTyped, WorldTyped
<1> USE DEF storage, world, procs, OtherThanCheck, Idle
<1>a. ASSUME server.dead \subseteq server'.dead, \A c \in Calls : KeepsRefused(c) PROVE Refusals'
  BY <1>a DEF Refusals, KeepsRefused
<1>b. CASE UNCHANGED <<server, calls>>
  BY <1>a, <1>b DEF KeepsRefused
<1>c. ASSUME server' = server, NEW c \in Calls, NEW state, state.at # "refused", calls' = [calls EXCEPT ![c] = state]
      PROVE  Refusals'
  BY <1>0, <1>a, <1>c DEF KeepsRefused
<1>d. ASSUME server.dead \subseteq server'.dead, calls' = [c \in Calls |-> [calls[c] EXCEPT !.old = TRUE]]
      PROVE  Refusals'
  BY <1>0, <1>a, <1>d DEF KeepsRefused, CallStates
<1>e. ASSUME server.dead \subseteq server'.dead, NEW token, Settled(token) PROVE Refusals'
  BY <1>0, <1>a, <1>e DEF KeepsRefused, CallStates, Settled
<1>1. CASE Phone
  <2>1. UNCHANGED <<server, calls>> \/ (server' = server /\ calls' = [c \in Calls |-> NoCall])
    BY <1>1 DEF Phone, Launch, Kill, Reinstall, WriteOther, Stop
  <2> QED
    BY <1>0, <1>a, <1>b, <2>1, SessionConstants DEF KeepsRefused
<1>2. CASE Check
  BY <1>2, <1>b DEF Check, CheckRead, CheckWrite, CheckLook, CheckErase, CheckLate
<1>3. CASE Entry
  <2>1. [NoCall EXCEPT !.at = "opening"].at # "refused" /\ NoCall.at # "refused"
    BY DEF NoCall
  <2> QED
    BY <1>3, <1>b, <1>c, <2>1, SessionConstants DEF Entry, EntryStart, EntryAnswer, EntryLate, EntryClear
<1>4. CASE Login \/ LoginAnswer \/ LoginStore \/ LoginFails \/ LoginEnd
  BY <1>4, <1>b, <1>d DEF Login, LoginAnswer, LoginStore, LoginFails, LoginEnd, Bump
<1>5. CASE PressSignOut \/ Revoke \/ LeaveEnd \/ \E slot \in {"access", "refresh"} : LeaveDelete(slot)
  <2>1. Revoke => server.dead \subseteq server'.dead
    BY <1>0 DEF Revoke
  <2> QED
    BY <1>5, <1>b, <1>d, <2>1 DEF PressSignOut, Revoke, LogOut, LeaveEnd, LeaveDelete, Bump
<1>6. CASE OutDelete
  BY <1>6, <1>b DEF OutDelete
<1>7. CASE OutFails \/ OutEnd
  <2>1. server' = server
    BY <1>7 DEF OutFails, OutEnd
  <2>2. ASSUME NEW c \in Calls PROVE KeepsRefused(c)
    <3>1. /\ [calls[c] EXCEPT !.at = "answered"].at # "refused"
          /\ [calls[c] EXCEPT !.at = "rejected", !.old = TRUE].at # "refused"
          /\ [calls[c] EXCEPT !.old = TRUE].at = calls[c].at
          /\ [calls[c] EXCEPT !.old = TRUE].tok = calls[c].tok
          /\ [calls[c] EXCEPT !.old = TRUE].revoked = calls[c].revoked
      BY <1>0 DEF CallStates
    <3>2. calls'[c] \in {calls[c], [calls[c] EXCEPT !.at = "answered"], [calls[c] EXCEPT !.old = TRUE],
                         [calls[c] EXCEPT !.at = "rejected", !.old = TRUE]}
      BY <1>7 DEF OutFails, OutEnd
    <3> QED
      BY <3>1, <3>2 DEF KeepsRefused
  <2> QED
    BY <1>a, <2>1, <2>2
<1>8. ASSUME NEW c \in Calls, NEW revoked \in BOOLEAN, Unauthorised(c, revoked) PROVE Refusals'
  <2>1. calls' = [calls EXCEPT ![c] = [@ EXCEPT !.at = "refused", !.revoked = revoked]] /\ server' = server
    BY <1>8 DEF Unauthorised
  <2>2. calls'[c].tok = calls[c].tok /\ calls'[c].revoked = revoked
        /\ \A d \in Calls \ {c} : calls'[d] = calls[d]
    BY <1>0, <2>1 DEF CallStates
  <2>3. revoked => calls[c].tok # None /\ calls[c].tok.s \in server.dead
    BY <1>8 DEF Unauthorised
  <2> QED
    BY <2>1, <2>2, <2>3 DEF Refusals
<1>9. ASSUME NEW c \in Calls, Open(c) \/ Send(c) \/ Answer(c) \/ Handle(c) \/ HandleFails(c) \/ Reject(c)
      PROVE  Refusals'
  <2>1. server' = server
    BY <1>9 DEF Open, Send, Answer, Handle, HandleFails, Reject
  <2>3. SUFFICES ASSUME ~Handle(c) \/ Done(c, "rejected") PROVE Refusals'
    <3>1. ASSUME Handle(c), ~Done(c, "rejected") PROVE Refusals'
      <4>1. \/ calls' = [calls EXCEPT ![c].at = "signing out"]
            \/ calls' = [calls EXCEPT ![c].at = "sent", ![c].again = TRUE, ![c].tok = access]
            \/ calls' = [calls EXCEPT ![c].at = "refreshing", ![c].again = TRUE]
        BY <3>1 DEF Handle
      <4>2. calls'[c].at # "refused" /\ \A d \in Calls \ {c} : calls'[d] = calls[d]
        <5>1. CASE calls' = [calls EXCEPT ![c].at = "signing out"]
          BY <1>0, <5>1 DEF CallStates
        <5>2. CASE calls' = [calls EXCEPT ![c].at = "sent", ![c].again = TRUE, ![c].tok = access]
          <6>1. calls'[c] = [[[calls[c] EXCEPT !.at = "sent"] EXCEPT !.again = TRUE] EXCEPT !.tok = access]
            BY <1>0, <5>2
          <6>2. calls'[c].at = "sent"
            <7> DEFINE sent == [calls[c] EXCEPT !.at = "sent"]
                       again == [sent EXCEPT !.again = TRUE]
            <7>1. sent \in CallStates /\ sent.at = "sent"
              BY <1>0 DEF CallStates
            <7>2. again \in CallStates /\ again.at = "sent"
              <8> HIDE DEF sent
              <8> QED
                BY <7>1 DEF CallStates
            <7>3. calls'[c] = [again EXCEPT !.tok = access]
              BY <6>1
            <7> HIDE DEF again
            <7> QED
              BY <7>2, <7>3 DEF CallStates
          <6>3. \A d \in Calls \ {c} : calls'[d] = calls[d]
            BY <1>0, <5>2
          <6> QED
            BY <6>2, <6>3
        <5>3. CASE calls' = [calls EXCEPT ![c].at = "refreshing", ![c].again = TRUE]
          <6>1. calls'[c] = [[calls[c] EXCEPT !.at = "refreshing"] EXCEPT !.again = TRUE]
            BY <1>0, <5>3
          <6> QED
            BY <1>0, <5>3, <6>1 DEF CallStates
        <5> QED
          BY <4>1, <5>1, <5>2, <5>3
      <4> QED
        BY <1>a, <2>1, <4>2 DEF KeepsRefused
    <3> QED
      BY <3>1
  <2>2. \E state : state.at # "refused" /\ calls' = [calls EXCEPT ![c] = state]
    <3>1. /\ NoCall.at # "refused" /\ [NoCall EXCEPT !.at = "opening"].at # "refused"
          /\ [NoCall EXCEPT !.at = "answered"].at # "refused" /\ [NoCall EXCEPT !.at = "rejected"].at # "refused"
      BY DEF NoCall
    <3>2. \A how \in {"answered", "rejected"} :
            Done(c, how) => \E state : state.at # "refused" /\ calls' = [calls EXCEPT ![c] = state]
      BY <3>1 DEF Done
    <3>3. CASE Open(c) \/ Answer(c) \/ HandleFails(c) \/ Reject(c)
      BY <3>1, <3>2, <3>3 DEF Open, Answer, HandleFails, Reject
    <3>4. CASE Send(c)
      <4>1. ASSUME NEW tok PROVE [calls[c] EXCEPT !.at = "sent", !.old = FALSE, !.tok = tok].at = "sent"
        BY <1>0 DEF CallStates
      <4> QED
        BY <3>2, <3>4, <4>1 DEF Send
    <3>5. CASE Handle(c) /\ Done(c, "rejected")
      BY <3>2, <3>5
    <3> QED
      BY <1>9, <3>3, <3>4, <3>5, <2>3
  <2> QED
    BY <1>c, <2>1, <2>2
<1>10. CASE Rotation
  <2>1. server.dead \subseteq server'.dead
    BY <1>0, <1>10 DEF Rotation, RotateRead, RotateFail, RotateRefused, RotateWrite, RotateDrop, RotateStops, RotateAnswer
  <2>2. UNCHANGED calls \/ SettledInError \/ \E token : Settled(token)
    BY <1>10 DEF Rotation, RotateRead, RotateFail, RotateRefused, RotateWrite, RotateDrop, RotateStops, RotateAnswer
  <2>3. SettledInError => \A c \in Calls : KeepsRefused(c)
    <3>1. ASSUME SettledInError, NEW c \in Calls PROVE KeepsRefused(c)
      <4>1. calls'[c] \in {calls[c], [calls[c] EXCEPT !.at = "answered"]}
        BY <3>1 DEF SettledInError
      <4>2. [calls[c] EXCEPT !.at = "answered"].at # "refused"
        BY <1>0 DEF CallStates
      <4> QED
        BY <4>1, <4>2 DEF KeepsRefused
    <3> QED
      BY <3>1
  <2> QED
    BY <1>a, <1>e, <2>1, <2>2, <2>3 DEF KeepsRefused
<1>11. CASE UNCHANGED vars
  BY <1>11, <1>b DEF vars
<1> QED
  BY <1>1, <1>2, <1>3, <1>4, <1>5, <1>6, <1>7, <1>8, <1>9, <1>10, <1>11 DEF Next, User, Requests

LEMMA HoldsStep ==
  SessionTyped /\ Phases /\ Refusals /\ HoldsItsTokens /\ [Next]_vars => HoldsItsTokens'
<1> SUFFICES ASSUME SessionTyped, Phases, Refusals, HoldsItsTokens, [Next]_vars, InSession'
             PROVE  HoldsItsTokens'
  BY DEF HoldsItsTokens
<1>0. /\ Starting /\ Gated /\ Waited /\ LoginAlone /\ RotationTyped
      /\ app \in Apps /\ leave \in Leaves /\ rotation \in Rotations /\ calls \in [Calls -> CallStates]
      /\ server \in [cur : [Sessions -> Nat], dead : SUBSET Sessions]
  BY DEF Phases, SessionTyped, RotationTyped, WorldTyped
<1> USE DEF storage, world, procs, OtherThanCheck, Idle
<1>a. ASSUME InSession, app'.superseded = app.superseded, UNCHANGED <<access, refresh, issued, rotation>>,
             out' # Idle => out # Idle, server.dead \subseteq server'.dead
      PROVE  HoldsItsTokens'
  BY <1>a DEF HoldsItsTokens
<1>1. CASE Phone
  <2>1. app' = Waiting \/ UNCHANGED <<up, app, leave, out, rotation, access, refresh, issued, server>>
    BY <1>1 DEF Phone, Launch, Kill, Reinstall, WriteOther, Stop
  <2>2. app' # Waiting
    BY DEF InSession, Waiting
  <2>3. UNCHANGED <<up, app, leave, out, rotation, access, refresh, issued, server>>
    BY <2>1, <2>2
  <2>4. InSession
    BY <2>3 DEF InSession
  <2> QED
    BY <1>a, <2>3, <2>4
<1>2. CASE Check
  <2>1. UNCHANGED <<up, out, leave, issued, rotation, login, server>> /\ app'.authed = app.authed
        /\ app'.changed = app.changed /\ app'.superseded = app.superseded
    BY <1>0, <1>2 DEF Check, CheckRead, CheckWrite, CheckLook, CheckErase, CheckLate, Over, Apps
  <2>2. InSession
    BY <2>1 DEF InSession
  <2>3. ~Erasing
    BY <1>0, <2>2 DEF HoldsItsTokens, LoginAlone, InSession
  <2>4. UNCHANGED <<access, refresh>>
    BY <1>2, <2>3 DEF Check, CheckRead, CheckWrite, CheckLook, CheckErase, CheckLate, Erasing
  <2> QED
    BY <1>a, <2>1, <2>2, <2>4
<1>3. CASE Entry
  <2>1. UNCHANGED <<up, out, leave>> /\ entry # Idle
        /\ app'.changed = app.changed /\ (app.changed => app'.authed = app.authed)
    BY <1>0, <1>3 DEF Entry, EntryStart, EntryAnswer, EntryLate, EntryClear, Enter, Apps
  <2> QED
    BY <1>0, <2>1 DEF InSession, Starting
<1>4. CASE Login \/ LoginAnswer \/ LoginStore \/ LoginFails
  BY <1>0, <1>4 DEF Login, LoginAnswer, LoginStore, LoginFails, LoginAlone, InSession, Apps
<1>5. CASE LoginEnd
  <2>1. access' = [s |-> issued', v |-> 0] /\ refresh' = [s |-> issued', v |-> 0]
    BY <1>0, <1>5 DEF LoginEnd, LoginAlone
  <2>2. Of(access', issued') /\ Of(refresh', issued')
    <3>1. [s |-> issued', v |-> 0] \in Tokens
      BY <1>5 DEF LoginEnd, SessionTyped, WorldTyped, Tokens
    <3> QED
      BY <2>1, <3>1, SessionConstants DEF Of
  <2>3. app'.superseded /\ out' = Idle
    BY <1>0, <1>5 DEF LoginEnd, LoginAlone, Storing, Apps
  <2>4. rotation' = [rotation EXCEPT !.old = TRUE] /\ rotation.at \in {Idle, "posting"}
    BY <1>0, <1>5 DEF LoginEnd, LoginAlone, Storing, Bump
  <2>5. rotation'.at \in {Idle, "posting"} /\ rotation'.old
    BY <1>0, <2>4 DEF Rotations
  <2> QED
    BY <2>2, <2>3, <2>5 DEF HoldsItsTokens, Of
<1>6. CASE PressSignOut
  <2>1. leave.at = Idle /\ UNCHANGED <<up, app, out, rotation, access, refresh, issued, server>>
    BY <1>6 DEF PressSignOut
  <2> QED
    BY <1>a, <2>1 DEF InSession
<1>12. CASE Revoke \/ LeaveEnd
  <2>1. Revoke => leave'.at = "deleting"
    BY DEF Revoke, LogOut
  <2>2. LeaveEnd => ~app'.authed
    BY <1>0 DEF LeaveEnd, Apps
  <2> QED
    BY <1>12, <2>1, <2>2 DEF InSession
<1>7. ASSUME NEW slot \in {"access", "refresh"}, LeaveDelete(slot)
      PROVE  HoldsItsTokens'
  BY <1>0, <1>7 DEF LeaveDelete, InSession, Leaves
<1>8. CASE OutDelete \/ OutFails
  <2>1. /\ UNCHANGED <<up, app, leave, issued, server>> /\ out # Idle
        /\ access' \in {access, None} /\ refresh' \in {refresh, None}
        /\ rotation' = rotation \/ rotation' = NoRotation
    BY <1>8 DEF OutDelete, OutFails
  <2>2. InSession
    BY <2>1 DEF InSession
  <2> QED
    BY <2>1, <2>2, SessionConstants DEF HoldsItsTokens
<1>13. CASE OutEnd
  <2>1. leave' = [at |-> "deleting", todo |-> {"access", "refresh"}, failed |-> FALSE]
    BY <1>13 DEF OutEnd
  <2> QED
    BY <2>1 DEF InSession
<1>9. ASSUME NEW c \in Calls, \/ Open(c) \/ Send(c) \/ Answer(c) \/ Handle(c) \/ HandleFails(c) \/ Reject(c)
                              \/ \E revoked \in BOOLEAN : Unauthorised(c, revoked)
      PROVE  HoldsItsTokens'
  <2>1. UNCHANGED <<access, refresh, issued, up, app, leave, server>>
    BY <1>9 DEF Open, Send, Answer, Handle, HandleFails, Reject, Unauthorised
  <2>2. InSession
    BY <2>1 DEF InSession
  <2>3. rotation' = rotation \/ rotation' = [NoRotation EXCEPT !.at = "reading"]
    BY <1>9 DEF Open, Send, Answer, Handle, HandleFails, Reject, Unauthorised
  <2>4. out' # Idle => out # Idle \/ issued \in server.dead
    <3> SUFFICES ASSUME out' # Idle, out = Idle PROVE issued \in server.dead
      OBVIOUS
    <3>1. calls[c].at = "refused" /\ calls[c].revoked /\ ~Stale(c)
      BY <1>9 DEF Open, Send, Answer, Handle, HandleFails, Reject, Unauthorised
    <3>2. calls[c].tok = access /\ access # None /\ access.s \in server.dead
      BY <3>1 DEF Stale, Refusals
    <3> QED
      BY <2>2, <3>2 DEF HoldsItsTokens, Of
  <2> QED
    BY <2>1, <2>2, <2>3, <2>4 DEF NoRotation, HoldsItsTokens
<1>10. CASE Rotation
  <2>1. UNCHANGED <<issued, up, leave>> /\ SameApp /\ server.dead \subseteq server'.dead
    BY <1>0, <1>10, RotationApp DEF Rotation, RotateRead, RotateFail, RotateRefused, RotateWrite, RotateDrop, RotateStops,
       RotateAnswer
  <2>2. InSession
    BY <2>1 DEF InSession, SameApp
  <2>3. /\ app'.superseded
        /\ access = None \/ Of(access, issued)
        /\ refresh = None \/ Of(refresh, issued)
        /\ issued \notin server'.dead => access # None /\ refresh # None
        /\ out # Idle => issued \in server'.dead
        /\ rotation.at \notin {Idle, "posting"} => ~rotation.old
        /\ rotation.at \notin {Idle, "reading"} /\ ~rotation.old => rotation.tok.s = issued
    BY <2>1, <2>2 DEF HoldsItsTokens, SameApp
  <2>a. ASSUME rotation' = NoRotation \/ ~rotation'.old,
               rotation'.at \in {Idle, "reading"} \/ rotation'.tok.s = issued,
               UNCHANGED <<access, refresh>>, out' # Idle => out # Idle \/ issued \in server'.dead
        PROVE  HoldsItsTokens'
    BY <2>1, <2>3, <2>a, SessionConstants DEF HoldsItsTokens
  <2>b. \A token : Settled(token) => rotation' = NoRotation /\ rotation'.at = Idle
    BY SessionConstants DEF Settled
  <2>c. SettledInError => rotation' = NoRotation /\ rotation'.at = Idle
    BY SessionConstants DEF SettledInError
  <2>4. CASE RotateRead
    <3>1. CASE rotation' = [rotation EXCEPT !.at = "posting", !.tok = refresh] /\ refresh # None
      <4>1. rotation'.at = "posting" /\ rotation'.tok = refresh /\ ~rotation'.old
        BY <1>0, <2>3, <2>4, <3>1 DEF RotateRead, Rotations
      <4> QED
        BY <2>3, <2>4, <2>a, <3>1, <4>1 DEF RotateRead, Of
    <3>2. UNCHANGED <<access, refresh, out>>
      BY <2>4 DEF RotateRead
    <3> QED
      BY <2>4, <2>a, <2>b, <2>c, <3>1, <3>2 DEF RotateRead
  <2>5. CASE RotateFail \/ RotateStops
    BY <2>5, <2>a, <2>b DEF RotateFail, RotateStops
  <2>6. CASE RotateRefused
    <3>1. CASE rotation.old
      BY <2>6, <2>a, <2>b, <3>1 DEF RotateRefused
    <3>2. CASE ~rotation.old
      <4>1. rotation'.tok = rotation.tok /\ ~rotation'.old /\ rotation.tok.s = issued
        BY <1>0, <2>3, <2>6, <3>2 DEF RotateRefused, Rotations
      <4>2. issued \in server'.dead
        BY <1>0, <2>6, <4>1 DEF RotateRefused
      <4> QED
        BY <2>6, <2>a, <4>1, <4>2 DEF RotateRefused
    <3> QED
      BY <3>1, <3>2
  <2>7. CASE RotateWrite
    <3>1. ~rotation.old /\ Of(rotation.new, issued)
      BY <1>0, <2>3, <2>7, SessionConstants DEF RotateWrite, RotationTyped, Of
    <3>2. out' = out
      BY <2>7 DEF RotateWrite
    <3>3. CASE /\ access' = rotation.new /\ UNCHANGED refresh
               /\ rotation' = [rotation EXCEPT !.at = "writing refresh"] /\ rotation.at = "writing access"
      <4>1. rotation'.tok = rotation.tok /\ ~rotation'.old /\ rotation.tok.s = issued
        BY <1>0, <2>3, <3>1, <3>3 DEF Rotations
      <4> QED
        BY <2>1, <2>3, <3>1, <3>2, <3>3, <4>1 DEF HoldsItsTokens, Of
    <3>4. CASE refresh' = rotation.new /\ UNCHANGED access /\ Settled(rotation.new)
      <4>1. rotation'.at = Idle
        BY <2>b, <3>4
      <4> QED
        BY <2>1, <2>3, <3>1, <3>2, <3>4, <4>1 DEF HoldsItsTokens, Of
    <3> QED
      BY <2>7, <3>1, <3>3, <3>4 DEF RotateWrite, Outdated
  <2>8. CASE RotateDrop
    BY <1>0, <2>3, <2>8 DEF RotateDrop, Waited
  <2>9. ASSUME NEW lost \in BOOLEAN, RotateAnswer(lost) PROVE HoldsItsTokens'
    <3> DEFINE new == [s |-> rotation.tok.s, v |-> server.cur[rotation.tok.s] + 1]
    <3>1. UNCHANGED <<access, refresh, out>>
      BY <2>9 DEF RotateAnswer
    <3>2. CASE ~rotation.old /\ rotation.at = "posting" /\ rotation' = [rotation EXCEPT !.at = "writing access", !.new = new]
      <4> HIDE DEF new
      <4>1. rotation'.tok = rotation.tok /\ ~rotation'.old /\ rotation.tok.s = issued
        BY <1>0, <2>3, <3>2 DEF Rotations
      <4> QED
        BY <2>a, <3>1, <4>1
    <3>3. CASE Settled(None)
      BY <2>a, <2>b, <3>1, <3>3
    <3> QED
      BY <2>9, <3>2, <3>3 DEF RotateAnswer
  <2> QED
    BY <1>10, <2>4, <2>5, <2>6, <2>7, <2>8, <2>9 DEF Rotation
<1>11. CASE UNCHANGED vars
  BY <1>a, <1>11 DEF vars, InSession
<1> QED
  BY <1>1, <1>2, <1>3, <1>4, <1>5, <1>6, <1>7, <1>8, <1>9, <1>10, <1>11, <1>12, <1>13 DEF Next, User, Requests


LEMMA LeavesStep == SessionTyped /\ Phases /\ LeavesNothing /\ [Next]_vars => LeavesNothing'
<1> SUFFICES ASSUME SessionTyped, Phases, LeavesNothing, [Next]_vars PROVE LeavesNothing'
  OBVIOUS
<1>0. /\ Starting /\ Gated /\ Waited /\ LoginAlone /\ LeavesNothing
      /\ app \in Apps /\ leave \in Leaves /\ rotation \in Rotations
  BY DEF Phases, SessionTyped, RotationTyped
<1> USE DEF storage, world, procs, OtherThanCheck, Idle
\* What a step takes away, or leaves as it was.
<1>a. ASSUME AccessGone => AccessGone', RefreshGone => RefreshGone', leave' = leave, app.spilt => app'.spilt,
             app'.left => app.left /\ marker' = marker
      PROVE  LeavesNothing'
  BY <1>0, <1>a DEF LeavesNothing
<1>b. ASSUME access' \in {access, None}, refresh' \in {refresh, None},
             \/ rotation' = rotation
             \/ rotation.at \notin {"writing refresh", "dropping access", "dropping refresh"}
      PROVE  (AccessGone => AccessGone') /\ (RefreshGone => RefreshGone')
  BY <1>b DEF AccessGone, RefreshGone
\* No sign-out has begun.
<1>c. ASSUME app.gate = "open", leave' = leave, app'.left = app.left PROVE LeavesNothing'
  BY <1>0, <1>c DEF LeavesNothing, Gated
<1>1. CASE Launch \/ Kill \/ Reinstall
  <2>1. ~app'.left /\ leave'.at = Idle
    BY <1>0, <1>1 DEF Launch, Kill, Stop, Reinstall, Starting, Waiting
  <2> QED
    BY <2>1 DEF LeavesNothing
<1>2. CASE WriteOther
  BY <1>a, <1>b, <1>2 DEF WriteOther
<1>3. CASE Check
  <2>1. /\ access' \in {access, None} /\ refresh' \in {refresh, None}
        /\ UNCHANGED <<leave, rotation>> /\ (check = "over" => marker' = marker)
        /\ app.superseded => marker' = marker
    BY <1>3 DEF Check, CheckRead, CheckWrite, CheckLook, CheckErase, CheckLate, MarkerWritten, Fault, NoFault
  <2>2. app'.left = app.left /\ app'.spilt = app.spilt
    BY <1>0, <1>3 DEF Check, CheckRead, CheckWrite, CheckLook, CheckErase, CheckLate, Over, Apps
  <2>3. app.left => marker' = marker
    BY <1>0, <2>1 DEF Starting, Waiting
  <2> QED
    BY <1>a, <1>b, <2>1, <2>2, <2>3
<1>4. CASE Entry
  <2>1. /\ access' \in {access, None} /\ refresh' \in {refresh, None}
        /\ UNCHANGED <<leave, rotation, marker>>
    BY <1>4 DEF Entry, EntryStart, EntryAnswer, EntryLate, EntryClear
  <2>2. app'.left = app.left /\ app'.spilt = app.spilt
    BY <1>0, <1>4 DEF Entry, EntryStart, EntryAnswer, EntryLate, EntryClear, Enter, Apps
  <2> QED
    BY <1>a, <1>b, <2>1, <2>2
<1>5. CASE Login
  BY <1>a, <1>b, <1>5 DEF Login
<1>6. CASE LoginAnswer \/ LoginStore \/ LoginFails \/ LoginEnd
  <2>1. leave'.at = Idle
    BY <1>0, <1>6 DEF LoginAnswer, LoginStore, LoginFails, LoginEnd, InStorage, LoginAlone, Storing
  <2>2. ~app'.left
    BY <1>0, <1>6 DEF LoginAnswer, LoginStore, LoginFails, LoginEnd, LoginAlone, Storing, Apps
  <2> QED
    BY <2>1, <2>2 DEF LeavesNothing
<1>7. CASE PressSignOut
  <2>1. /\ leave'.at = "revoking" /\ UNCHANGED <<app, access, refresh, rotation, marker>>
    BY <1>0, <1>7 DEF PressSignOut, Leaves
  <2> QED
    BY <1>0, <2>1 DEF LeavesNothing, AccessGone, RefreshGone
<1>8. CASE Revoke
  <2>1. leave' = [at |-> "deleting", todo |-> {"access", "refresh"}, failed |-> FALSE]
    BY <1>8 DEF Revoke, LogOut
  <2>2. app' = [app EXCEPT !.gate = "shut"] /\ leave.at = "revoking"
    BY <1>8 DEF Revoke, LogOut
  <2>3. ~app'.left
    BY <1>0, <2>2 DEF Gated, Apps
  <2> QED
    BY <2>1, <2>3 DEF LeavesNothing
<1>9. ASSUME NEW slot \in {"access", "refresh"}, LeaveDelete(slot)
      PROVE  LeavesNothing'
  <2>1. UNCHANGED <<app, marker, rotation>> /\ leave.at = "deleting"
        /\ access' \in {access, None} /\ refresh' \in {refresh, None}
    BY <1>9 DEF LeaveDelete
  <2>2. (AccessGone => AccessGone') /\ (RefreshGone => RefreshGone')
    BY <1>b, <2>1
  <2>3. CASE leave' = [leave EXCEPT !.todo = @ \ {slot}]
             /\ access' = (IF slot = "access" THEN None ELSE access)
             /\ refresh' = (IF slot = "refresh" THEN None ELSE refresh)
    <3>1. slot = "access" => AccessGone'
      BY <2>3 DEF AccessGone
    <3>2. slot = "refresh" => RefreshGone'
      BY <2>3 DEF RefreshGone
    <3>3. leave'.failed = leave.failed /\ leave'.todo = leave.todo \ {slot}
      BY <1>0, <2>3 DEF Leaves
    <3> QED
      BY <1>0, <2>1, <2>2, <3>1, <3>2, <3>3 DEF LeavesNothing
  <2>4. CASE leave' = [leave EXCEPT !.todo = @ \ {slot}, !.failed = TRUE]
    <3>1. leave'.failed
      BY <1>0, <2>4 DEF Leaves
    <3> QED
      BY <1>0, <2>1, <2>2, <3>1 DEF LeavesNothing
  <2> QED
    BY <1>9, <2>3, <2>4 DEF LeaveDelete
<1>10. CASE LeaveEnd
  <2>1. rotation' = [rotation EXCEPT !.old = TRUE] /\ UNCHANGED <<access, refresh>>
    BY <1>10 DEF LeaveEnd, Bump
  <2>2. (AccessGone => AccessGone') /\ (RefreshGone => RefreshGone')
    BY <1>0, <2>1 DEF AccessGone, RefreshGone, Rotations
  <2>3. leave.at = "deleting" /\ leave.todo = {}
    BY <1>10 DEF LeaveEnd
  <2>4. leave'.at = Idle
    BY <1>0, <1>10 DEF LeaveEnd, Leaves
  <2>5. app.spilt \/ (leave.failed /\ marker' # "pending") => app'.spilt
    BY <1>0, <1>10 DEF LeaveEnd, Apps
  <2> QED
    BY <1>0, <2>2, <2>3, <2>4, <2>5 DEF LeavesNothing
<1>11. CASE OutDelete \/ OutFails
  <2>1. /\ access' \in {access, None} /\ refresh' \in {refresh, None} /\ UNCHANGED <<leave, app, marker>>
        /\ rotation' = rotation \/ rotation.at = "signing out"
    BY <1>11 DEF OutDelete, OutFails
  <2> QED
    BY <1>a, <1>b, <2>1
<1>12. CASE OutEnd
  <2>1. leave' = [at |-> "deleting", todo |-> {"access", "refresh"}, failed |-> FALSE]
    BY <1>12 DEF OutEnd
  <2>2. /\ app' = [app EXCEPT !.gate = "shut"] /\ UNCHANGED <<access, refresh, marker>>
        /\ \/ rotation.at = "signing out"
           \/ rotation' = [rotation EXCEPT !.old = TRUE]
    BY <1>12 DEF OutEnd
  <2>3. (AccessGone => AccessGone') /\ (RefreshGone => RefreshGone')
    BY <1>0, <2>2 DEF AccessGone, RefreshGone, Rotations
  <2>4. app'.left = app.left /\ app'.spilt = app.spilt
    BY <1>0, <2>2 DEF Apps
  <2> QED
    BY <1>0, <2>1, <2>2, <2>3, <2>4 DEF LeavesNothing
<1>13. ASSUME NEW c \in Calls, \/ Open(c) \/ Send(c) \/ Answer(c) \/ Handle(c) \/ HandleFails(c) \/ Reject(c)
                              \/ \E revoked \in BOOLEAN : Unauthorised(c, revoked)
      PROVE  LeavesNothing'
  <2>1. UNCHANGED <<leave, app, marker, access, refresh>>
        /\ (rotation' = rotation \/ rotation.at = Idle)
    BY <1>13 DEF Open, Send, Answer, Handle, HandleFails, Reject, Unauthorised
  <2> QED
    BY <1>a, <1>b, <2>1
<1>14. CASE Rotation
  <2>1. UNCHANGED <<leave, marker>> /\ rotation.at # Idle
    BY <1>14 DEF Rotation, RotateRead, RotateFail, RotateRefused, RotateWrite, RotateDrop, RotateStops, RotateAnswer
  <2>2. CASE RotateRead \/ RotateFail \/ RotateRefused \/ \E lost \in BOOLEAN : RotateAnswer(lost)
    <3>1. UNCHANGED <<access, refresh, app>> /\ rotation.at \in {"reading", "posting"}
      BY <2>2 DEF RotateRead, RotateFail, RotateRefused, RotateAnswer
    <3> QED
      BY <1>a, <1>b, <2>1, <3>1
  <2>3. CASE RotateDrop
    <3>1. app' = app
      BY <2>3 DEF RotateDrop
    <3>2. CASE /\ rotation.at = "dropping access" /\ access' = (IF access = rotation.new THEN None ELSE access)
               /\ rotation' = [rotation EXCEPT !.at = "dropping refresh"] /\ UNCHANGED refresh
      <4>1. rotation'.at = "dropping refresh" /\ rotation'.new = rotation.new
        BY <1>0, <3>2 DEF Rotations
      <4>2. (AccessGone => AccessGone') /\ (RefreshGone => RefreshGone')
        BY <3>2, <4>1 DEF AccessGone, RefreshGone
      <4> QED
        BY <1>a, <2>1, <3>1, <4>2
    <3>3. CASE /\ rotation.at = "dropping refresh" /\ UNCHANGED access
               /\ refresh' = (IF refresh = rotation.new THEN None ELSE refresh)
      <4>1. (AccessGone => AccessGone') /\ (RefreshGone => RefreshGone')
        BY <3>3 DEF AccessGone, RefreshGone
      <4> QED
        BY <1>a, <2>1, <3>1, <4>1
    <3> QED
      BY <2>3, <3>2, <3>3 DEF RotateDrop
  <2>4. CASE RotateWrite
    <3>1. app' = app
      BY <2>4 DEF RotateWrite
    <3>2. CASE rotation.at = "writing access" /\ access' = rotation.new /\ UNCHANGED refresh
               /\ rotation' = [rotation EXCEPT !.at = "writing refresh"]
      <4>1. rotation'.at = "writing refresh" /\ rotation'.new = rotation.new
        BY <1>0, <3>2 DEF Rotations
      <4>2. (AccessGone => AccessGone') /\ (RefreshGone => RefreshGone')
        BY <3>2, <4>1 DEF AccessGone, RefreshGone
      <4> QED
        BY <1>a, <2>1, <3>1, <4>2
    <3>3. CASE rotation.at = "writing refresh" /\ refresh' = rotation.new /\ UNCHANGED access
               /\ rotation' = [rotation EXCEPT !.at = "dropping access"]
      <4>1. rotation'.at = "dropping access" /\ rotation'.new = rotation.new
        BY <1>0, <3>3 DEF Rotations
      <4>2. (AccessGone => AccessGone') /\ (RefreshGone => RefreshGone')
        BY <3>3, <4>1 DEF AccessGone, RefreshGone
      <4> QED
        BY <1>a, <2>1, <3>1, <4>2
    <3>4. CASE ~Outdated
      <4>1. app.gate = "open"
        BY <1>0, <2>1, <3>4 DEF Gated, Outdated
      <4> QED
        BY <1>c, <2>1, <3>1, <4>1
    <3> QED
      BY <2>4, <3>2, <3>3, <3>4 DEF RotateWrite
  <2>5. CASE RotateStops
    <3>1. /\ app'.left = app.left /\ UNCHANGED <<access, refresh>>
          /\ app.spilt \/ (rotation.old /\ rotation.at # "writing access") => app'.spilt
      BY <1>0, <2>5 DEF RotateStops, Apps
    <3>2. CASE rotation.at = "writing access"
      BY <1>a, <1>b, <2>1, <3>1, <3>2
    <3>3. CASE rotation.at # "writing access" /\ rotation.old
      BY <2>1, <3>1, <3>3 DEF LeavesNothing
    <3>4. CASE ~rotation.old
      <4>1. app.gate = "open"
        BY <1>0, <2>1, <3>4 DEF Gated
      <4> QED
        BY <1>c, <2>1, <3>1, <4>1
    <3> QED
      BY <3>2, <3>3, <3>4
  <2> QED
    BY <1>14, <2>2, <2>3, <2>4, <2>5 DEF Rotation
<1>15. CASE UNCHANGED vars
  BY <1>a, <1>b, <1>15 DEF vars
<1> QED
  BY <1>1, <1>2, <1>3, <1>4, <1>5, <1>6, <1>7, <1>8, <1>9, <1>10, <1>11, <1>12, <1>13, <1>14, <1>15
     DEF Next, Phone, User, Requests


LEMMA ErasedStep == SessionTyped /\ Phases /\ Erased /\ [Next]_vars => Erased'
<1> SUFFICES ASSUME SessionTyped, Phases, Erased, [Next]_vars PROVE Erased'
  OBVIOUS
<1>0. /\ Starting /\ LoginAlone /\ app \in Apps
  BY DEF Phases, SessionTyped
<1> USE DEF storage, world, procs, OtherThanCheck, Idle
<1>a. ASSUME access' \in {access, None}, refresh' \in {refresh, None},
             check' = check, ~app'.superseded => ~app.superseded
      PROVE  Erased'
  BY <1>a DEF Erased
\* Whoever writes a token has the check over, or superseded.
<1>b. rotation.at \in {"writing access", "writing refresh"} \/ login \in {"storing access", "storing refresh"} =>
        check \notin {"erasing refresh", "marking"} \/ (check = "marking" /\ app.superseded)
  <2>1. CASE rotation.at \in {"writing access", "writing refresh"}
    <3>1. check = "over" \/ (up /\ app.superseded)
      BY <1>0, <2>1 DEF Starting
    <3> QED
      BY <1>0, <2>1, <3>1 DEF LoginAlone, Erasing, Storing
  <2>2. CASE login \in {"storing access", "storing refresh"}
    BY <1>0, <2>2 DEF LoginAlone, Erasing, Storing
  <2> QED
    BY <2>1, <2>2
<1>1. CASE Launch \/ Kill
  BY <1>1 DEF Launch, Kill, Stop, Erased
<1>2. CASE Reinstall \/ WriteOther
  BY <1>a, <1>2 DEF Reinstall, WriteOther
<1>3. CASE Check
  <2>1. app'.superseded = app.superseded
    BY <1>0, <1>3 DEF Check, CheckRead, CheckWrite, CheckLook, CheckErase, CheckLate, Over, Apps
  <2>2. CASE CheckErase
    BY <2>1, <2>2 DEF CheckErase, Over, Erased
  <2> QED
    BY <1>3, <2>1, <2>2 DEF Check, CheckRead, CheckWrite, CheckLook, CheckLate, Over, Erased
<1>4. CASE Entry
  <2>1. app'.superseded = app.superseded
    BY <1>0, <1>4 DEF Entry, EntryStart, EntryAnswer, EntryLate, EntryClear, Enter, Apps
  <2> QED
    BY <1>a, <1>4, <2>1 DEF Entry, EntryStart, EntryAnswer, EntryLate, EntryClear
<1>5. CASE Login \/ LoginAnswer \/ LoginFails \/ LoginEnd
  BY <1>0, <1>a, <1>5 DEF Login, LoginAnswer, LoginFails, LoginEnd, Apps
<1>6. CASE LoginStore
  BY <1>b, <1>6, <1>a DEF LoginStore, Erased
<1>7. CASE PressSignOut \/ Revoke \/ LeaveEnd
  BY <1>0, <1>a, <1>7 DEF PressSignOut, Revoke, LogOut, LeaveEnd, Apps
<1>8. ASSUME NEW slot \in {"access", "refresh"}, LeaveDelete(slot)
      PROVE  Erased'
  BY <1>a, <1>8 DEF LeaveDelete
<1>9. CASE OutDelete \/ OutFails
  BY <1>a, <1>9 DEF OutDelete, OutFails
<1>10. CASE OutEnd
  BY <1>0, <1>a, <1>10 DEF OutEnd, Apps
<1>11. ASSUME NEW c \in Calls, \/ Open(c) \/ Send(c) \/ Answer(c) \/ Handle(c) \/ HandleFails(c) \/ Reject(c)
                              \/ \E revoked \in BOOLEAN : Unauthorised(c, revoked)
      PROVE  Erased'
  BY <1>a, <1>11 DEF Open, Send, Answer, Handle, HandleFails, Reject, Unauthorised
<1>12. CASE Rotation
  <2>1. SameApp /\ check' = check
    BY <1>12, RotationApp DEF Rotation, RotateRead, RotateFail, RotateRefused, RotateWrite, RotateDrop, RotateStops,
       RotateAnswer
  <2>2. CASE RotateWrite
    BY <1>b, <2>1, <2>2 DEF Erased, RotateWrite, SameApp
  <2>3. CASE ~RotateWrite
    <3>1. access' \in {access, None} /\ refresh' \in {refresh, None}
      BY <1>12, <2>3 DEF Rotation, RotateRead, RotateFail, RotateRefused, RotateDrop, RotateStops, RotateAnswer
    <3> QED
      BY <1>a, <2>1, <3>1 DEF SameApp
  <2> QED
    BY <2>2, <2>3
<1>13. CASE UNCHANGED vars
  BY <1>a, <1>13 DEF vars
<1> QED
  BY <1>1, <1>2, <1>3, <1>4, <1>5, <1>6, <1>7, <1>8, <1>9, <1>10, <1>11, <1>12, <1>13
     DEF Next, Phone, User, Requests


LEMMA MetStep ==
  SessionTyped /\ Phases /\ WipedFirst /\ [Next]_vars => (~torn' /\ Foreign' => Met')
<1> SUFFICES ASSUME SessionTyped, Phases, WipedFirst, [Next]_vars, ~torn', Foreign'
             PROVE  Met'
  OBVIOUS
<1>0. /\ Starting /\ Gated /\ Waited /\ LoginAlone /\ Erased /\ StepsKnown
      /\ app \in Apps /\ rotation \in Rotations
      /\ ~torn /\ Foreign => Met
  BY DEF Phases, SessionTyped, RotationTyped, WipedFirst
<1> USE DEF storage, world, procs, OtherThanCheck, Idle
<1>a. ASSUME access' \in {access, None}, refresh' \in {refresh, None}, mine \subseteq mine', ~torn
      PROVE  Foreign /\ Met
  BY <1>0, <1>a DEF Foreign
<1>1. CASE Launch
  <2>1. Foreign /\ Met
    BY <1>1, <1>a DEF Launch
  <2> QED
    BY <1>0, <1>1, <2>1 DEF Launch, Starting, Met, Waiting
<1>2. CASE Kill
  <2>1. ~torn /\ ~Storing
    BY <1>2 DEF Kill, Storing
  <2>2. Foreign /\ Met
    BY <1>2, <1>a, <2>1 DEF Kill
  <2> QED
    BY <1>0, <1>2, <2>1, <2>2, SessionConstants DEF Kill, Stop, Met, Waiting
<1>3. CASE Reinstall
  BY <1>0, <1>3 DEF Reinstall, Starting, Met, Waiting
<1>4. CASE WriteOther
  <2>1. Foreign /\ Met
    BY <1>4, <1>a DEF WriteOther
  <2> QED
    BY <1>4, <2>1 DEF WriteOther, Met, Storing
<1>5. CASE Check
  <2>a. /\ access' \in {access, None} /\ refresh' \in {refresh, None} /\ mine' = mine
    BY <1>5 DEF Check, CheckRead, CheckWrite, CheckLook, CheckErase, CheckLate, MarkerWritten
  <2>b. ~torn
    <3>1. ASSUME torn PROVE check = "erasing refresh" /\ refresh' = None /\ UNCHANGED access
      <4>1. CASE CheckErase
        BY <3>1, <4>1 DEF CheckErase
      <4>2. CASE CheckWrite
        BY <3>1, <4>2 DEF CheckWrite, MarkerWritten
      <4> QED
        BY <1>5, <3>1, <4>1, <4>2 DEF Check, CheckRead, CheckLook, CheckLate
    <3> QED
      BY <1>0, <3>1 DEF Erased, Foreign
  <2>1. Foreign /\ Met
    BY <1>a, <2>a, <2>b
  <2>2. UNCHANGED <<others, mine, up, login, rotation>> /\ (Storing' <=> Storing)
    BY <1>5 DEF Check, CheckRead, CheckWrite, CheckLook, CheckErase, CheckLate, Storing
  <2>3. app'.superseded = app.superseded
    BY <1>0, <1>5 DEF Check, CheckRead, CheckWrite, CheckLook, CheckErase, CheckLate, Over, Apps
  <2>4. app.superseded => app.gate # "waiting"
    BY <1>0 DEF Starting, Waiting
  <2>5. up
    BY <1>0, <1>5 DEF Starting, Check, CheckRead, CheckWrite, CheckLook, CheckErase, CheckLate
  <2>7. CASE CheckRead
    <3>1. marker' = marker /\ marker # "done" /\ check = "reading"
      BY <2>1, <2>7 DEF CheckRead, Met
    <3>2. app'.gate = app.gate
      BY <2>7, <3>1 DEF CheckRead
    <3>3. \/ check' = "excusing"
          \/ check' = "looking" /\ marker = "pending"
          \/ check' = "adopting" /\ marker # "pending" /\ others
          \/ check' = "flagging" /\ ~others
      BY <1>0, <2>7, <3>1 DEF CheckRead, WipeUnfinished
    <3>4. marker = "none" /\ others => Storing
      BY <1>0, <2>1, <2>5, <3>1 DEF Met
    <3>5. Storing => app.superseded
      BY <1>0 DEF LoginAlone
    <3>6. marker \in {"none", "pending"}
      BY <3>1 DEF SessionTyped, WorldTyped
    <3> QED
      BY <2>1, <2>2, <2>3, <2>5, <3>1, <3>2, <3>3, <3>4, <3>5, <3>6 DEF Met
  <2>8. CASE CheckWrite
    <3>1. CASE app.superseded
      <4>1. Storing /\ marker' = marker /\ check' # "adopting"
        BY <2>1, <2>5, <2>8, <3>1 DEF CheckWrite, MarkerWritten, Over, Met
      <4>2. app'.gate = app.gate
        BY <1>0, <2>4, <2>8, <3>1 DEF CheckWrite, Over, Apps
      <4> QED
        BY <2>1, <2>2, <2>3, <2>5, <3>1, <4>1, <4>2 DEF Met
    <3>2. CASE ~app.superseded
      <4>1. check \in {"excusing", "flagging"}
        BY <1>0, <2>1, <2>8, <3>2 DEF CheckWrite, Met, Erased, Foreign
      <4>2. marker' \in {marker, "pending"} /\ marker' # "none"
        BY <1>0, <2>8, <3>2, <4>1 DEF CheckWrite, MarkerWritten
      <4>3. app'.gate # "open" /\ check' \in {"looking", "over"}
        BY <1>0, <2>1, <2>8, <4>1 DEF CheckWrite, Over, Apps, Met
      <4> QED
        BY <2>1, <2>2, <2>3, <2>5, <3>2, <4>2, <4>3 DEF Met
    <3> QED
      BY <3>1, <3>2
  <2>9. CASE CheckLook \/ CheckErase
    <3>1. /\ marker' = marker /\ check \in {"looking", "erasing access", "erasing refresh"}
          /\ check' \in {"erasing access", "erasing refresh", "marking", "over"}
      BY <2>9 DEF CheckLook, CheckErase, Over
    <3>2. app'.gate # "open"
      BY <1>0, <2>1, <2>9 DEF CheckLook, CheckErase, Over, Apps, Met
    <3>3. marker = "none" => Storing
      BY <2>1, <2>5, <3>1 DEF Met
    <3> QED
      BY <2>1, <2>2, <2>3, <2>5, <3>1, <3>2, <3>3 DEF Met
  <2>10. CASE CheckLate
    <3>1. app'.gate = "shut" /\ UNCHANGED <<marker, check>>
      BY <1>0, <2>10 DEF CheckLate, Apps
    <3> QED
      BY <2>1, <2>2, <2>3, <3>1 DEF Met
  <2> QED
    BY <1>5, <2>7, <2>8, <2>9, <2>10 DEF Check
\* The rest leaves the marker and the check as they are.
<1>b. ASSUME Foreign, Met, UNCHANGED <<others, up, check>>, marker' \in {marker, "pending"},
             app'.superseded = app.superseded, app'.gate \in {app.gate, "shut"}, rotation'.at = Idle, Storing' = Storing
      PROVE  Met'
  BY <1>0, <1>b DEF Met
<1>6. CASE Entry
  <2>a. /\ access' \in {access, None} /\ refresh' \in {refresh, None}
        /\ UNCHANGED <<torn, mine>>
    BY <1>6 DEF Entry, EntryStart, EntryAnswer, EntryLate, EntryClear
  <2>1. Foreign /\ Met
    BY <1>a, <2>a
  <2>2. /\ UNCHANGED <<others, up, check, marker, rotation, login>>
    BY <1>6 DEF Entry, EntryStart, EntryAnswer, EntryLate, EntryClear
  <2>3. app'.superseded = app.superseded /\ app'.gate = app.gate
    BY <1>0, <1>6 DEF Entry, EntryStart, EntryAnswer, EntryLate, EntryClear, Enter, Apps
  <2> QED
    BY <1>b, <2>1, <2>2, <2>3 DEF Met, Storing
<1>7. CASE Login
  <2>1. Foreign /\ Met
    BY <1>7, <1>a DEF Login
  <2> QED
    BY <1>b, <1>7, <2>1 DEF Login, Met, Storing
<1>8. CASE LoginAnswer
  <2>1. Foreign /\ Met
    BY <1>8, <1>a DEF LoginAnswer
  <2> QED
    BY <1>0, <1>8, <2>1 DEF LoginAnswer, Met, Storing, Apps
<1>9. CASE LoginStore
  <2>1. issued \in mine /\ Storing /\ [s |-> issued, v |-> 0].s = issued
    BY <1>0, <1>9 DEF LoginAlone, Storing, LoginStore
  <2>2. Foreign
    BY <1>9, <2>1 DEF LoginStore, Foreign
  <2>3. UNCHANGED <<others, up, check, marker, app, rotation, torn>> /\ Storing'
    BY <1>9 DEF LoginStore, Storing
  <2> QED
    BY <1>0, <1>b, <2>1, <2>2, <2>3 DEF Met
<1>10. CASE LoginFails \/ LoginEnd
  <2>1. ~LoginFails
    <3>1. LoginFails => torn'
      BY DEF LoginFails
    <3> QED
      BY <3>1
  <2>2. CASE LoginEnd
    BY <1>0, <2>2 DEF LoginEnd, LoginAlone, Storing, Foreign
  <2> QED
    BY <1>10, <2>1, <2>2
<1>11. CASE PressSignOut \/ Revoke \/ LeaveEnd
  <2>1. Foreign /\ Met
    BY <1>11, <1>a DEF PressSignOut, Revoke, LeaveEnd
  <2>2. /\ UNCHANGED <<others, up, check, login>> /\ marker' \in {marker, "pending"}
    BY <1>11 DEF PressSignOut, Revoke, LeaveEnd, LeaveMark
  <2>3. app'.superseded = app.superseded /\ app'.gate \in {app.gate, "shut"}
    BY <1>0, <1>11 DEF PressSignOut, Revoke, LogOut, LeaveEnd, Apps
  <2>4. rotation'.at = rotation.at
    BY <1>0, <1>11 DEF PressSignOut, Revoke, LogOut, LeaveEnd, Bump, Rotations
  <2> QED
    BY <1>b, <2>1, <2>2, <2>3, <2>4 DEF Met, Storing
<1>12. ASSUME NEW slot \in {"access", "refresh"}, LeaveDelete(slot)
      PROVE  Met'
  <2>1. Foreign /\ Met
    BY <1>12, <1>a DEF LeaveDelete
  <2> QED
    BY <1>b, <1>12, <2>1 DEF LeaveDelete, Met, Storing
<1>13. CASE OutDelete \/ OutFails
  <2>a. access' \in {access, None} /\ refresh' \in {refresh, None} /\ UNCHANGED <<torn, mine>>
    BY <1>13 DEF OutDelete, OutFails
  <2>1. Foreign /\ Met
    BY <2>a, <1>a
  <2>2. /\ UNCHANGED <<others, up, check, login, marker, app>>
        /\ rotation' = rotation \/ rotation' = NoRotation
    BY <1>13 DEF OutDelete, OutFails
  <2> QED
    BY <1>b, <2>1, <2>2, SessionConstants DEF Met, Storing
<1>14. CASE OutEnd
  <2>1. Foreign /\ Met
    BY <1>14, <1>a DEF OutEnd
  <2>2. /\ UNCHANGED <<others, up, check, login, marker>> /\ app' = [app EXCEPT !.gate = "shut"]
        /\ rotation' = NoRotation \/ rotation' = [rotation EXCEPT !.old = TRUE]
    BY <1>14 DEF OutEnd
  <2>3. rotation'.at = Idle
    BY <1>0, <2>1, <2>2, SessionConstants DEF Met, Rotations
  <2> QED
    BY <1>0, <1>b, <2>1, <2>2, <2>3 DEF Storing, Apps
<1>15. ASSUME NEW c \in Calls, \/ Open(c) \/ Send(c) \/ Answer(c) \/ Handle(c) \/ HandleFails(c) \/ Reject(c)
                              \/ \E revoked \in BOOLEAN : Unauthorised(c, revoked)
      PROVE  Met'
  <2>1. /\ UNCHANGED <<storage, world, app, check, login>>
        /\ rotation' = rotation \/ app.gate = "open"
    BY <1>15 DEF Open, Send, Answer, Handle, HandleFails, Reject, Unauthorised
  <2>2. Foreign /\ Met
    BY <1>a, <2>1
  <2> QED
    BY <1>b, <2>1, <2>2 DEF Met, Storing
<1>16. CASE Rotation
  <2>1. rotation.at # Idle /\ UNCHANGED <<torn, mine>>
    BY <1>16 DEF Rotation, RotateRead, RotateFail, RotateRefused, RotateWrite, RotateDrop, RotateStops, RotateAnswer
  <2>2. ~Foreign
    BY <1>0, <2>1 DEF Met
  <2>3. CASE RotateWrite
    <3>1. rotation.at \in {"writing access", "writing refresh"}
      BY <2>3 DEF RotateWrite
    <3>2. rotation.tok.s \in mine
      BY <2>1, <3>1 DEF WipedFirst, Rotating
    <3>3. rotation.new.s \in mine
      BY <3>1, <3>2 DEF SessionTyped, RotationTyped
    <3> QED
      BY <2>1, <2>2, <2>3, <3>3 DEF RotateWrite, Foreign
  <2>4. CASE ~RotateWrite
    BY <1>16, <2>1, <2>2, <2>4 DEF Rotation, RotateRead, RotateFail, RotateRefused, RotateDrop, RotateStops, RotateAnswer, Foreign
  <2> QED
    BY <2>3, <2>4
<1>17. CASE UNCHANGED vars
  <2>1. Foreign /\ Met
    BY <1>17, <1>a DEF vars
  <2> QED
    BY <1>b, <1>17, <2>1 DEF vars, Met, Storing
<1> QED
  BY <1>1, <1>2, <1>3, <1>4, <1>5, <1>6, <1>7, <1>8, <1>9, <1>10, <1>11, <1>12, <1>13, <1>14, <1>15,
     <1>16, <1>17 DEF Next, Phone, User, Requests


LEMMA RotatingStep == SessionTyped /\ Phases /\ WipedFirst /\ [Next]_vars => (~torn' /\ Rotating' => rotation'.tok.s \in mine')
<1> SUFFICES ASSUME SessionTyped, Phases, WipedFirst, [Next]_vars, ~torn', Rotating'
             PROVE  rotation'.tok.s \in mine'
  OBVIOUS
<1>0. /\ Starting /\ Gated /\ Waited /\ LoginAlone
      /\ rotation \in Rotations /\ RotationTyped
      /\ ~torn /\ Foreign => Met
      /\ ~torn /\ Rotating => rotation.tok.s \in mine
  BY DEF Phases, SessionTyped, RotationTyped, WipedFirst
<1> USE DEF storage, world, procs, OtherThanCheck, Idle
<1>a. ASSUME UNCHANGED <<rotation, torn>>, mine \subseteq mine'
      PROVE  rotation'.tok.s \in mine'
  BY <1>0, <1>a DEF Rotating
<1>b. ASSUME rotation' = [rotation EXCEPT !.old = TRUE], UNCHANGED <<torn, mine>>
      PROVE  rotation'.tok.s \in mine'
  BY <1>0, <1>b DEF Rotating, Rotations
<1>c. rotation'.at # Idle
  BY DEF Rotating
<1>1. CASE Phone
  <2>1. CASE Reinstall
    BY <1>0, <1>c, <2>1 DEF Reinstall, Starting
  <2> QED
    BY <1>1, <1>a, <1>c, <2>1, SessionConstants DEF Phone, Launch, Kill, Stop, WriteOther
<1>2. CASE Check
  <2>1. rotation' = rotation /\ mine' = mine
    BY <1>2 DEF Check, CheckRead, CheckWrite, CheckLook, CheckErase, CheckLate
  <2>3. torn => torn' \/ check = "erasing refresh"
    <3>1. CASE CheckWrite
      BY <3>1 DEF CheckWrite, MarkerWritten
    <3>2. CASE CheckErase
      BY <3>2 DEF CheckErase
    <3> QED
      BY <1>2, <3>1, <3>2 DEF Check, CheckRead, CheckLook, CheckLate
  <2>2. check # "erasing refresh"
    <3> SUFFICES ASSUME check = "erasing refresh" PROVE FALSE
      OBVIOUS
    <3>1. rotation.at # Idle /\ ~(rotation.at = "posting" /\ rotation.old)
      BY <2>1 DEF Rotating
    <3>2. app.superseded
      BY <1>0, <3>1 DEF Starting
    <3>3. Storing
      BY <1>0, <3>2 DEF LoginAlone, Erasing, Storing
    <3> QED
      BY <1>0, <3>1, <3>3 DEF LoginAlone
  <2> QED
    BY <1>0, <2>1, <2>2, <2>3 DEF Rotating
<1>3. CASE Entry
  BY <1>3, <1>a DEF Entry, EntryStart, EntryAnswer, EntryLate, EntryClear
<1>4. CASE Login \/ LoginAnswer \/ LoginStore \/ LoginFails
  BY <1>4, <1>a DEF Login, LoginAnswer, LoginStore, LoginFails
<1>5. CASE LoginEnd
  <2>1. rotation' = [rotation EXCEPT !.old = TRUE] /\ Storing
    BY <1>5 DEF LoginEnd, Bump, Storing
  <2> QED
    BY <1>0, <2>1 DEF LoginAlone, Rotating, Rotations
<1>6. CASE PressSignOut \/ Revoke \/ LeaveEnd
  BY <1>6, <1>a, <1>b DEF PressSignOut, Revoke, LogOut, LeaveEnd, Bump
<1>7. ASSUME NEW slot \in {"access", "refresh"}, LeaveDelete(slot)
      PROVE  rotation'.tok.s \in mine'
  BY <1>a, <1>7 DEF LeaveDelete
<1>8. CASE OutDelete \/ OutFails \/ OutEnd
  BY <1>8, <1>a, <1>b, <1>c, SessionConstants DEF OutDelete, OutFails, OutEnd
<1>9. ASSUME NEW c \in Calls, \/ Open(c) \/ Send(c) \/ Answer(c) \/ Handle(c) \/ HandleFails(c) \/ Reject(c)
                              \/ \E revoked \in BOOLEAN : Unauthorised(c, revoked)
      PROVE  rotation'.tok.s \in mine'
  <2>1. UNCHANGED <<torn, mine>> /\ (rotation' = rotation \/ rotation' = [NoRotation EXCEPT !.at = "reading"])
    BY <1>9 DEF Open, Send, Answer, Handle, HandleFails, Reject, Unauthorised
  <2> QED
    BY <1>a, <2>1 DEF Rotating, NoRotation
<1>10. CASE Rotation
  <2>1. rotation.at # Idle /\ UNCHANGED <<torn, mine>>
    BY <1>10 DEF Rotation, RotateRead, RotateFail, RotateRefused, RotateWrite, RotateDrop, RotateStops, RotateAnswer
  <2>2. ~torn /\ ~Foreign
    BY <1>0, <2>1 DEF Met
  <2>a. ASSUME NEW token, Settled(token) PROVE FALSE
    BY <1>c, <2>a, SessionConstants DEF Settled
  <2>b. ~SettledInError
    BY <1>c, SessionConstants DEF SettledInError
  <2>3. CASE RotateRead
    BY <1>0, <2>1, <2>2, <2>3, <2>a, <2>b DEF RotateRead, Foreign, Rotations
  <2>4. CASE RotateFail \/ RotateStops
    BY <2>4, <2>a DEF RotateFail, RotateStops
  <2>8. CASE RotateDrop
    <3>1. rotation'.tok = rotation.tok /\ rotation.at = "dropping access"
      BY <1>0, <2>8, <2>a DEF RotateDrop, Rotations
    <3> QED
      BY <1>0, <2>1, <2>2, <3>1 DEF Rotating
  <2>5. CASE RotateRefused
    BY <1>0, <2>1, <2>2, <2>5, <2>a DEF RotateRefused, Rotating, Rotations
  <2>6. CASE RotateWrite
    <3>1. rotation'.tok = rotation.tok /\ rotation.at \in {"writing access", "writing refresh"}
      BY <1>0, <2>6, <2>a DEF RotateWrite, Rotations
    <3> QED
      BY <1>0, <2>1, <2>2, <3>1 DEF Rotating
  <2>7. ASSUME NEW lost \in BOOLEAN, RotateAnswer(lost) PROVE rotation'.tok.s \in mine'
    <3>1. rotation'.tok = rotation.tok /\ rotation.at = "posting" /\ ~rotation.old
      BY <1>0, <2>7, <2>a DEF RotateAnswer, Rotations
    <3> QED
      BY <1>0, <2>1, <2>2, <3>1 DEF Rotating
  <2> QED
    BY <1>10, <2>3, <2>4, <2>5, <2>6, <2>7, <2>8 DEF Rotation
<1>11. CASE UNCHANGED vars
  BY <1>a, <1>11 DEF vars
<1> QED
  BY <1>1, <1>2, <1>3, <1>4, <1>5, <1>6, <1>7, <1>8, <1>9, <1>10, <1>11 DEF Next, User, Requests

LEMMA WipedStep == SessionTyped /\ Phases /\ WipedFirst /\ [Next]_vars => WipedFirst'
BY ErasedStep, MetStep, RotatingStep DEF WipedFirst

LEMMA SpeaksStep == SessionTyped /\ Phases /\ WipedFirst /\ [Next]_vars => SpeaksForThisInstall \/ UNCHANGED vars
<1> SUFFICES ASSUME SessionTyped, Phases, WipedFirst, Next, ~torn
             PROVE  /\ \A c \in Calls : calls'[c].tok \notin {None, calls[c].tok} => calls'[c].tok.s \in mine
                    /\ rotation'.tok \notin {None, rotation.tok} => rotation'.tok.s \in mine
  BY DEF SpeaksForThisInstall
<1>0. /\ rotation \in Rotations /\ RotationTyped /\ calls \in [Calls -> CallStates]
      /\ Foreign => Met
      /\ Rotating => rotation.tok.s \in mine
  BY DEF Phases, SessionTyped, RotationTyped, WipedFirst
<1> USE DEF storage, world, procs, OtherThanCheck, Idle
<1>n. NoCall.tok = None /\ NoRotation.tok = None /\ [NoCall EXCEPT !.at = "opening"].tok = None
      /\ \A how : [NoCall EXCEPT !.at = how].tok = None
  BY DEF NoCall, NoRotation
\* No token on a request or with the refresh, or the one it had.
<1> DEFINE SameToken(c) == calls'[c].tok \in {None, calls[c].tok}
           SameTokens == rotation'.tok \in {None, rotation.tok} /\ \A c \in Calls : SameToken(c)
<1>o. \A c \in Calls : [calls[c] EXCEPT !.old = TRUE].tok = calls[c].tok
  BY <1>0 DEF CallStates
<1>b. Bump => SameTokens
  <2>1. [rotation EXCEPT !.old = TRUE].tok = rotation.tok
    BY <1>0 DEF Rotations
  <2> QED
    BY <1>o, <2>1 DEF Bump
<1>s. ASSUME Settled(None) PROVE SameTokens
  <2>1. rotation' = NoRotation
    BY <1>s DEF Settled
  <2>2. ASSUME NEW c \in Calls PROVE SameToken(c)
    <3>1. calls'[c] = calls[c] \/ calls'[c] = [calls[c] EXCEPT !.at = "rejected"]
      BY <1>s DEF Settled
    <3>2. [calls[c] EXCEPT !.at = "rejected"].tok = calls[c].tok
      BY <1>0 DEF CallStates
    <3> QED
      BY <3>1, <3>2
  <2> QED
    BY <1>n, <2>1, <2>2
<1>e. ASSUME SettledInError PROVE SameTokens
  <2>1. rotation' = NoRotation
    BY <1>e DEF SettledInError
  <2>2. ASSUME NEW c \in Calls PROVE SameToken(c)
    <3>1. calls'[c] = calls[c] \/ calls'[c] = [calls[c] EXCEPT !.at = "answered"]
      BY <1>e DEF SettledInError
    <3>2. [calls[c] EXCEPT !.at = "answered"].tok = calls[c].tok
      BY <1>0 DEF CallStates
    <3> QED
      BY <3>1, <3>2
  <2> QED
    BY <1>n, <2>1, <2>2
<1>m. ASSUME NEW c \in Calls, NEW state, calls' = [calls EXCEPT ![c] = state], state.tok \in {None, calls[c].tok}
      PROVE  \A d \in Calls : SameToken(d)
  BY <1>0, <1>m
<1>1. CASE Phone
  BY <1>1, <1>n DEF Phone, Launch, Kill, Stop, Reinstall, WriteOther
<1>2. CASE Check
  BY <1>2 DEF Check, CheckRead, CheckWrite, CheckLook, CheckErase, CheckLate
<1>3. CASE Entry
  BY <1>0, <1>3, <1>n DEF Entry, EntryStart, EntryAnswer, EntryLate, EntryClear
<1>4. CASE Login \/ LoginAnswer \/ LoginStore \/ LoginFails \/ LoginEnd
  BY <1>4, <1>b DEF Login, LoginAnswer, LoginStore, LoginFails, LoginEnd
<1>5. CASE PressSignOut \/ Revoke \/ LeaveEnd \/ \E slot \in {"access", "refresh"} : LeaveDelete(slot)
  BY <1>5, <1>b DEF PressSignOut, Revoke, LogOut, LeaveEnd, LeaveDelete
<1>6. CASE OutDelete
  BY <1>6 DEF OutDelete
<1>13. CASE OutFails
  <2>1. rotation' = NoRotation \/ rotation' = rotation
    BY <1>13 DEF OutFails
  <2>2. \A c \in Calls : calls'[c] = [calls[c] EXCEPT !.at = "answered"] \/ calls'[c] = calls[c]
    BY <1>13 DEF OutFails
  <2>3. \A c \in Calls : [calls[c] EXCEPT !.at = "answered"].tok = calls[c].tok
    BY <1>0 DEF CallStates
  <2>4. \A c \in Calls : SameToken(c)
    BY <2>2, <2>3
  <2> QED
    BY <1>n, <2>1, <2>4
<1>7. CASE OutEnd
  <2>1. rotation' = NoRotation \/ rotation' = [rotation EXCEPT !.old = TRUE]
    BY <1>7 DEF OutEnd
  <2>2. \A c \in Calls : calls'[c] = [calls[c] EXCEPT !.at = "rejected", !.old = TRUE]
                         \/ calls'[c] = [calls[c] EXCEPT !.old = TRUE]
    BY <1>7 DEF OutEnd
  <2>3. \A c \in Calls : [calls[c] EXCEPT !.at = "rejected", !.old = TRUE].tok = calls[c].tok
    BY <1>0 DEF CallStates
  <2>4. \A c \in Calls : SameToken(c)
    BY <1>o, <2>2, <2>3
  <2>5. [rotation EXCEPT !.old = TRUE].tok = rotation.tok
    BY <1>0 DEF Rotations
  <2> QED
    BY <1>n, <2>1, <2>4, <2>5
<1>8. ASSUME NEW c \in Calls, \/ Open(c) \/ Answer(c) \/ HandleFails(c) \/ Reject(c)
                              \/ \E revoked \in BOOLEAN : Unauthorised(c, revoked)
      PROVE  SameTokens
  <2>1. \/ calls' = [calls EXCEPT ![c] = NoCall]
        \/ \E how : calls' = [calls EXCEPT ![c] = [NoCall EXCEPT !.at = how]]
        \/ \E revoked \in BOOLEAN : calls' = [calls EXCEPT ![c].at = "refused", ![c].revoked = revoked]
    BY <1>8 DEF Open, Answer, HandleFails, Reject, Unauthorised, Done
  <2>2. UNCHANGED rotation
    BY <1>8 DEF Open, Answer, HandleFails, Reject, Unauthorised
  <2>3. ASSUME NEW revoked \in BOOLEAN, calls' = [calls EXCEPT ![c].at = "refused", ![c].revoked = revoked]
        PROVE  \A d \in Calls : SameToken(d)
    <3> DEFINE state == [calls[c] EXCEPT !.at = "refused", !.revoked = revoked]
    <3>1. calls' = [calls EXCEPT ![c] = state] /\ state.tok = calls[c].tok
      BY <1>0, <2>3 DEF CallStates
    <3> HIDE DEF state
    <3> QED
      BY <1>m, <3>1
  <2> QED
    BY <1>m, <1>n, <2>1, <2>2, <2>3
<1>9. ASSUME NEW c \in Calls, Send(c) \/ Handle(c)
      PROVE  SameTokens \/ (app.gate = "open" /\ rotation' = rotation /\ \A d \in Calls : SameToken(d) \/ calls'[d].tok = access)
  <2>1. CASE Send(c)
    <3>1. rotation' = rotation
      BY <2>1 DEF Send
    <3>2. CASE Done(c, "answered")
      BY <1>m, <1>n, <3>1, <3>2 DEF Done
    <3>3. CASE calls' = [calls EXCEPT ![c] = [@ EXCEPT !.at = "sent", !.old = FALSE,
                                                     !.tok = IF app.gate = "open" THEN access ELSE None]]
      BY <1>0, <3>1, <3>3 DEF CallStates
    <3> QED
      BY <2>1, <3>2, <3>3 DEF Send
  <2>2. CASE Handle(c)
    <3>1. \/ UNCHANGED rotation /\ calls' = [calls EXCEPT ![c] = NoCall]
          \/ UNCHANGED rotation /\ calls' = [calls EXCEPT ![c] = [NoCall EXCEPT !.at = "rejected"]]
          \/ UNCHANGED rotation /\ calls' = [calls EXCEPT ![c].at = "signing out"]
          \/ UNCHANGED rotation /\ app.gate = "open"
             /\ calls' = [calls EXCEPT ![c].at = "sent", ![c].again = TRUE, ![c].tok = access]
          \/ /\ calls' = [calls EXCEPT ![c].at = "refreshing", ![c].again = TRUE]
             /\ rotation' = rotation \/ rotation' = [NoRotation EXCEPT !.at = "reading"]
      BY <2>2 DEF Handle, Done
    <3>2. [NoRotation EXCEPT !.at = "reading"].tok = None
      BY DEF NoRotation
    <3>3. CASE calls' = [calls EXCEPT ![c].at = "signing out"]
      <4>1. calls' = [calls EXCEPT ![c] = [calls[c] EXCEPT !.at = "signing out"]]
        BY <1>0, <3>3
      <4>2. [calls[c] EXCEPT !.at = "signing out"].tok = calls[c].tok
        BY <1>0 DEF CallStates
      <4> QED
        BY <1>m, <3>1, <3>2, <4>1, <4>2
    <3>4. CASE calls' = [calls EXCEPT ![c].at = "sent", ![c].again = TRUE, ![c].tok = access]
               /\ app.gate = "open" /\ UNCHANGED rotation
      <4> DEFINE state == [calls[c] EXCEPT !.at = "sent", !.again = TRUE, !.tok = access]
      <4>1. calls' = [calls EXCEPT ![c] = state] /\ state.tok = access
        BY <1>0, <3>4 DEF CallStates
      <4> HIDE DEF state
      <4> QED
        BY <1>0, <3>4, <4>1
    <3>5. CASE calls' = [calls EXCEPT ![c].at = "refreshing", ![c].again = TRUE]
      <4>1. calls' = [calls EXCEPT ![c] = [calls[c] EXCEPT !.at = "refreshing", !.again = TRUE]]
        BY <1>0, <3>5
      <4>2. [calls[c] EXCEPT !.at = "refreshing", !.again = TRUE].tok = calls[c].tok
        BY <1>0 DEF CallStates
      <4> QED
        BY <1>m, <3>1, <3>2, <4>1, <4>2
    <3> QED
      BY <1>m, <1>n, <3>1, <3>3, <3>4, <3>5
  <2> QED
    BY <1>9, <2>1, <2>2
<1>10. app.gate = "open" => ~Foreign
  BY <1>0 DEF Met
<1>11. ASSUME NEW c \in Calls, Send(c) \/ Handle(c)
       PROVE  /\ \A d \in Calls : calls'[d].tok \notin {None, calls[d].tok} => calls'[d].tok.s \in mine
              /\ rotation'.tok \notin {None, rotation.tok} => rotation'.tok.s \in mine
  BY <1>9, <1>10, <1>11 DEF Foreign
<1>12. CASE Rotation
  <2>1. rotation.at # Idle
    BY <1>12 DEF Rotation, RotateRead, RotateFail, RotateRefused, RotateWrite, RotateDrop, RotateStops, RotateAnswer
  <2>2. ~Foreign
    BY <1>0, <2>1 DEF Met
  <2>3. CASE RotateRead
    <3>1. CASE refresh # None /\ rotation' = [rotation EXCEPT !.at = "posting", !.tok = refresh] /\ UNCHANGED calls
      BY <1>0, <2>2, <3>1 DEF Foreign, Rotations
    <3> QED
      BY <1>e, <1>s, <2>3, <3>1 DEF RotateRead
  <2>4. CASE RotateFail \/ RotateStops
    BY <2>4, <1>s DEF RotateFail, RotateStops
  <2>8. CASE RotateDrop
    BY <1>0, <2>8, <1>s DEF RotateDrop, Rotations
  <2>5. CASE RotateRefused
    BY <1>0, <2>5, <1>s DEF RotateRefused, Rotations
  <2>6. ASSUME NEW lost \in BOOLEAN, RotateAnswer(lost) PROVE SameTokens
    BY <1>0, <2>6, <1>s DEF RotateAnswer, Rotations
  <2>7. CASE RotateWrite
    <3>1. rotation.at \in {"writing access", "writing refresh"}
      BY <2>7 DEF RotateWrite
    <3>2. rotation.new.s \in mine
      BY <1>0, <3>1 DEF Rotating, RotationTyped
    <3>3. \/ UNCHANGED calls /\ rotation' = [rotation EXCEPT !.at = "writing refresh"]
          \/ UNCHANGED calls /\ rotation' = [rotation EXCEPT !.at = "dropping access"]
          \/ Settled(rotation.new)
      BY <2>7 DEF RotateWrite
    <3>4. CASE Settled(rotation.new)
      BY <1>0, <1>n, <3>2, <3>4 DEF Settled, CallStates
    <3> QED
      BY <1>0, <3>3, <3>4 DEF Rotations
  <2> QED
    BY <1>12, <2>3, <2>4, <2>5, <2>6, <2>7, <2>8 DEF Rotation
<1> QED
  BY <1>1, <1>2, <1>3, <1>4, <1>5, <1>6, <1>7, <1>8, <1>11, <1>12, <1>13 DEF Next, User, Requests


\* After a sign-out nothing of the session is left on the phone, or the marker
\* says pending, for any calls, sign-ins, launches and versions, whatever storage
\* calls fail; excused while `spilt`, as SignedOutIsEmpty says.
THEOREM SessionSignsOut == Spec => []SignedOutIsEmpty
<1>1. Init => SessionTyped /\ Phases /\ LeavesNothing
  <2>1. Init => LeavesNothing
    BY DEF Init, LeavesNothing, Waiting, Idle
  <2> QED
    BY <2>1, SessionStart
<1>2. SessionTyped /\ Phases /\ LeavesNothing /\ [Next]_vars => (SessionTyped /\ Phases /\ LeavesNothing)'
  BY SessionTypedStep, PhasesStep, LeavesStep
<1>3. LeavesNothing => SignedOutIsEmpty
  BY DEF LeavesNothing, SignedOutIsEmpty, Quiet, AccessGone, RefreshGone, Idle
<1> QED
  BY <1>1, <1>2, <1>3, PTL DEF Spec

\* Between a login and the next sign-out the Keychain holds the tokens of that
\* session and no other's, both of them until the server ends the session,
\* whatever the check, refreshes, late answers and failing storage calls do.
THEOREM SessionSignsIn == Spec => []SignedInHoldsItsTokens
<1>1. Init => SessionTyped /\ Phases /\ Refusals /\ HoldsItsTokens
  <2>1. Init => Refusals /\ HoldsItsTokens
    BY DEF Init, Refusals, NoCall, HoldsItsTokens, InSession, Idle
  <2> QED
    BY <2>1, SessionStart
<1>2. SessionTyped /\ Phases /\ Refusals /\ HoldsItsTokens /\ [Next]_vars =>
        (SessionTyped /\ Phases /\ Refusals /\ HoldsItsTokens)'
  BY SessionTypedStep, PhasesStep, RefusalsStep, HoldsStep
<1>3. HoldsItsTokens => SignedInHoldsItsTokens
  BY DEF HoldsItsTokens, SignedInHoldsItsTokens, InSession, Of, Quiet, Idle
<1> QED
  BY <1>1, <1>2, <1>3, PTL DEF Spec

\* No token that an earlier install left in the Keychain goes on a request or
\* into a refresh, whatever storage calls fail and wherever the process ends;
\* excused while `torn`, as SpeaksForThisInstall says.
THEOREM SessionSpeaks == Spec => OldInstallNeverSpeaks
<1>1. Init => SessionTyped /\ Phases /\ WipedFirst
  <2>1. Init => Erased /\ ~Rotating
    BY DEF Init, Erased, Rotating, NoRotation, Idle
  <2>2. Init /\ Foreign => Met
    BY DEF Init, Foreign, Met, Waiting, NoRotation, Idle
  <2> QED
    BY <2>1, <2>2, SessionStart DEF WipedFirst
<1>2. SessionTyped /\ Phases /\ WipedFirst /\ [Next]_vars => (SessionTyped /\ Phases /\ WipedFirst)'
  BY SessionTypedStep, PhasesStep, WipedStep
<1>3. SessionTyped /\ Phases /\ WipedFirst /\ [Next]_vars => [SpeaksForThisInstall]_vars
  BY SpeaksStep
<1> QED
  BY <1>1, <1>2, <1>3, PTL DEF Spec, OldInstallNeverSpeaks

=============================================================================
