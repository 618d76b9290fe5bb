---------------------------- MODULE RefreshFamily ----------------------------
(***************************************************************************)
(* The sessions of one user: refresh-token families, rotation, replay       *)
(* detection and sign-out (src/backend/app/api/auth.py,                     *)
(* auth/refresh_family.py, auth/sessions.py) and the daily clean-up.        *)
(*                                                                         *)
(* A request is one execution of a handler.  What it reads before it holds  *)
(* a lock is one action, its transaction another; /auth/refresh and         *)
(* revoke_all_sessions serialise on the user row, the sign-in and the       *)
(* logout do not take it.  Any token ever issued may be presented at any    *)
(* time, by any number of requests: retries, duplicates, other holders.     *)
(***************************************************************************)
EXTENDS Naturals, FiniteSets

CONSTANTS
    Requests,   \* the executions of the /auth handlers
    Tokens,     \* the refresh tokens (jti) that may be issued
    Legacy,     \* tokens from before #689: no tv claim, no family
    NoToken     \* a NULL reference

ASSUME ConstantsOK ==
    /\ Legacy \subseteq Tokens /\ NoToken \notin Tokens
    /\ IsFiniteSet(Requests)

VARIABLES
    \* the requests
    pc,          \* where the handler is
    token,       \* the token it was given
    seen,        \* the token was already rotated when first read (seen_rotated)
    at,          \* the token_version it read or acted on
    outcome,     \* what it answered
    \* table refresh_tokens
    row,         \* the rows that exist
    revoked,     \* rows with revoked_at
    used,        \* rows with used_at
    displaced,   \* rows with displaced_at
    next,        \* replaced_by_id
    family,      \* family_id (family_of for rows without one)
    tv,          \* the version a token was minted at (its tv claim)
    version,     \* users.token_version
    \* time
    inGrace,     \* rotated less than refresh_reuse_grace_seconds ago
    expired,     \* past expires_at
    \* history
    issued,      \* every token ever issued
    parent,      \* the token that was presented for it
    mints        \* how often a token was answered with a fresh pair

requestVars == <<pc, token, seen, at, outcome>>
rowVars     == <<row, revoked, used, displaced, next, family, tv>>
timeVars    == <<inGrace, expired>>
historyVars == <<issued, parent, mints>>
vars == <<requestVars, rowVars, version, timeVars, historyVars>>

Phases   == {"idle", "signing", "locking", "leaving", "revoking", "done"}
Outcomes == {"none", "pair", "refused", "revoked", "reused", "expired", "out", "failed"}

TypeOK ==
    /\ pc \in [Requests -> Phases]
    /\ token \in [Requests -> Tokens \cup {NoToken}]
    /\ seen \in [Requests -> BOOLEAN]
    /\ at \in [Requests -> Nat]
    /\ outcome \in [Requests -> Outcomes]
    /\ row \subseteq issued /\ issued \subseteq Tokens
    /\ used \subseteq revoked /\ revoked \subseteq issued
    /\ displaced \subseteq used
    /\ next \in [Tokens -> Tokens \cup {NoToken}]
    /\ family \in [Tokens -> Tokens \cup {NoToken}]
    /\ tv \in [Tokens -> Nat]
    /\ version \in Nat
    /\ inGrace \subseteq used /\ expired \subseteq issued
    /\ parent \in [Tokens -> Tokens \cup {NoToken}]
    /\ mints \in [Tokens -> Nat]

Init ==
    /\ pc = [q \in Requests |-> "idle"]
    /\ token = [q \in Requests |-> NoToken]
    /\ seen = [q \in Requests |-> FALSE]
    /\ at = [q \in Requests |-> 0]
    /\ outcome = [q \in Requests |-> "none"]
    /\ row = Legacy /\ issued = Legacy
    /\ revoked = {} /\ used = {} /\ displaced = {}
    /\ next = [t \in Tokens |-> NoToken]
    /\ family = [t \in Tokens |-> IF t \in Legacy THEN t ELSE NoToken]
    /\ tv = [t \in Tokens |-> 0]
    /\ version = 0
    /\ inGrace = {} /\ expired = {}
    /\ parent = [t \in Tokens |-> NoToken]
    /\ mints = [t \in Tokens |-> 0]

-----------------------------------------------------------------------------
(* refresh_family.py: is_live, is_rotated; a row revoked in any other way.  *)
Live(t)    == t \in row /\ t \notin revoked
Rotated(t) == t \in row /\ t \in used
PlainlyRevoked(t) == t \in row /\ t \in revoked \ used

End(q, answer) ==
    /\ pc' = [pc EXCEPT ![q] = "done"]
    /\ outcome' = [outcome EXCEPT ![q] = answer]

(* A new row of family f at version v, handed out for token t.              *)
Issue(s, f, v, t) ==
    /\ s \notin issued
    /\ issued' = issued \cup {s}
    /\ row' = row \cup {s}
    /\ family' = [family EXCEPT ![s] = f]
    /\ tv' = [tv EXCEPT ![s] = v]
    /\ parent' = [parent EXCEPT ![s] = t]

-----------------------------------------------------------------------------
(* Sign-in.  The user row is read, without a lock, before the first row of a
   new family is inserted: issue_session_tokens.                            *)
SignInRead(q) ==
    /\ pc[q] = "idle"
    /\ pc' = [pc EXCEPT ![q] = "signing"]
    /\ at' = [at EXCEPT ![q] = version]
    /\ UNCHANGED <<token, seen, outcome, rowVars, version, timeVars, historyVars>>

SignInInsert(q, s) ==
    /\ pc[q] = "signing"
    /\ Issue(s, s, at[q], NoToken)
    /\ End(q, "pair")
    /\ UNCHANGED <<token, seen, at, revoked, used, displaced, next, version,
                   timeVars, mints>>

-----------------------------------------------------------------------------
(* POST /auth/refresh, before the user row is locked.                       *)
Present(q, t) ==
    /\ pc[q] = "idle" /\ t \in issued
    /\ token' = [token EXCEPT ![q] = t]
    /\ seen' = [seen EXCEPT ![q] = Rotated(t)]
    /\ IF t \in expired THEN End(q, "expired")
       ELSE IF t \notin row \/ PlainlyRevoked(t) THEN End(q, "refused")
       ELSE pc' = [pc EXCEPT ![q] = "locking"] /\ UNCHANGED outcome
    /\ UNCHANGED <<at, rowVars, version, timeVars, historyVars>>

(* The user row and the presented row are locked and read again.            *)
Locked(q) ==
    /\ pc[q] = "locking"
    /\ at' = [at EXCEPT ![q] = version]
    /\ UNCHANGED <<token, seen>>

(* Gone, or signed out while the request waited.                            *)
RefuseGone(q) ==
    /\ Locked(q)
    /\ token[q] \notin row \/ PlainlyRevoked(token[q])
    /\ End(q, "refused")
    /\ UNCHANGED <<rowVars, version, timeVars, historyVars>>

(* The tv claim is current; a legacy token is read as tv = 0.               *)
Current(t) == tv[t] = version

RefuseStale(q) ==
    LET t == token[q] IN
    /\ Locked(q)
    /\ Live(t) /\ ~Current(t)
    /\ revoked' = revoked \cup {t}
    /\ End(q, "revoked")
    /\ UNCHANGED <<row, used, displaced, next, family, tv, version, timeVars,
                   historyVars>>

(* A legacy row is revoked without used_at, so a replay of it is plain.     *)
Marked(t) == {t} \ Legacy

(* Rotation: the old row is revoked and used, its successor is live.        *)
Rotate(q, s) ==
    LET t == token[q] IN
    /\ Locked(q)
    /\ Live(t) /\ Current(t)
    /\ Issue(s, family[t], version, t)
    /\ revoked' = revoked \cup {t}
    /\ used' = used \cup Marked(t)
    /\ inGrace' = inGrace \cup Marked(t)
    /\ next' = [next EXCEPT ![t] = s]
    /\ mints' = [mints EXCEPT ![t] = @ + 1]
    /\ End(q, "pair")
    /\ UNCHANGED <<displaced, version, expired>>

HasLiveSuccessor(t)    == next[t] # NoToken /\ Live(next[t])
HasRotatedSuccessor(t) == next[t] # NoToken /\ Rotated(next[t])

(* Mutated form: what was read before the lock is not used.                 *)
IgnoresRace(q) ==
    LET t == token[q] IN
    IF t \in displaced \/ t \notin inGrace THEN "reuse"
    ELSE IF HasLiveSuccessor(t) THEN "retry"
    ELSE IF HasRotatedSuccessor(t) THEN "reuse" ELSE "ended"
(* classify_replay: what a rotated token presented again is.                *)
Classify(q) ==
    LET t == token[q] IN
    IF t \in displaced \/ (seen[q] /\ t \notin inGrace) THEN "reuse"
    ELSE IF HasLiveSuccessor(t) THEN IF seen[q] THEN "retry" ELSE "race"
    ELSE IF HasRotatedSuccessor(t) THEN "reuse" ELSE "ended"

(* _refresh_rotated_token, with its rows locked.                            *)
Replayed(q) == Locked(q) /\ Rotated(token[q])

(* Every session was already revoked.                                       *)
ReplayStale(q) ==
    /\ Replayed(q) /\ ~Current(token[q])
    /\ End(q, "revoked")
    /\ UNCHANGED <<rowVars, version, timeVars, historyVars>>

(* Mutated form: the successor stays valid beside its replacement.          *)
KeepsSuccessor(old, new) ==
    displaced' = displaced \cup {old} /\ UNCHANGED <<revoked, used, inGrace, next>>
(* The successor that its holder may never have received is displaced; the
   presented row keeps pointing at it.                                      *)
DisplaceRow(old, new) ==
    /\ revoked' = revoked \cup {old}
    /\ used' = used \cup {old}
    /\ displaced' = displaced \cup {old}
    /\ inGrace' = inGrace \cup {old}
    /\ next' = [next EXCEPT ![old] = new]

(* RACE and RETRY: a fresh pair in the same family.                         *)
Displace(q, s) ==
    LET t == token[q] IN
    /\ Replayed(q) /\ Current(t)
    /\ Classify(q) \in {"race", "retry"}
    /\ Issue(s, family[t], version, t)
    /\ DisplaceRow(next[t], s)
    /\ mints' = [mints EXCEPT ![t] = @ + 1]
    /\ End(q, "pair")
    /\ UNCHANGED <<version, expired>>

ReplayEnded(q) ==
    /\ Replayed(q) /\ Current(token[q])
    /\ Classify(q) = "ended"
    /\ End(q, "refused")
    /\ UNCHANGED <<rowVars, version, timeVars, historyVars>>

(* Mutated form: the refresh rows are left alone.                           *)
BumpsOnly == version' = version + 1 /\ UNCHANGED revoked
(* sessions.py: bump token_version and revoke every row that is not revoked. *)
RevokeAllSessions ==
    /\ version' = version + 1
    /\ revoked' = revoked \cup row

(* REUSE: someone else holds a copy.  One alert.                            *)
ReplayReused(q) ==
    /\ Replayed(q) /\ Current(token[q])
    /\ Classify(q) = "reuse"
    /\ RevokeAllSessions
    /\ End(q, "reused")
    /\ UNCHANGED <<row, used, displaced, next, family, tv, timeVars, historyVars>>

-----------------------------------------------------------------------------
(* POST /auth/logout: read without a lock, then revoke that row.            *)
LogoutRead(q, t) ==
    /\ pc[q] = "idle" /\ t \in issued
    /\ token' = [token EXCEPT ![q] = t]
    /\ IF t \notin expired /\ Live(t)
       THEN pc' = [pc EXCEPT ![q] = "leaving"] /\ UNCHANGED outcome
       ELSE End(q, "out")
    /\ UNCHANGED <<seen, at, rowVars, version, timeVars, historyVars>>

(* The row may have been rotated since (it stays rotated) or purged.        *)
LogoutWrite(q) ==
    LET t == token[q] IN
    /\ pc[q] = "leaving"
    /\ revoked' = revoked \cup ({t} \cap row)
    /\ End(q, IF t \in row THEN "out" ELSE "failed")
    /\ UNCHANGED <<token, seen, at, row, used, displaced, next, family, tv,
                   version, timeVars, historyVars>>

(* POST /auth/logout-all: get_current_user accepts an access token of the
   current version, later the sessions are revoked.                         *)
LogoutAllCheck(q) ==
    /\ pc[q] = "idle"
    /\ \E t \in issued \ Legacy : tv[t] = version
    /\ pc' = [pc EXCEPT ![q] = "revoking"]
    /\ UNCHANGED <<token, seen, at, outcome, rowVars, version, timeVars, historyVars>>

LogoutAllCommit(q) ==
    /\ pc[q] = "revoking"
    /\ RevokeAllSessions
    /\ End(q, "out")
    /\ UNCHANGED <<token, seen, at, row, used, displaced, next, family, tv,
                   timeVars, historyVars>>

-----------------------------------------------------------------------------
(* A request fails before its commit: timeout, disconnect, restart.         *)
Fail(q) ==
    /\ pc[q] \notin {"idle", "done"}
    /\ End(q, "failed")
    /\ UNCHANGED <<token, seen, at, rowVars, version, timeVars, historyVars>>

(* The window of a rotated row ends, those before it in the chain first.    *)
GraceEnds(t) ==
    /\ t \in inGrace
    /\ \A p \in inGrace : next[p] # t
    /\ inGrace' = inGrace \ {t}
    /\ UNCHANGED <<requestVars, rowVars, version, expired, historyVars>>

(* A token reaches expires_at, after those it descends from.                *)
Expire(t) ==
    /\ t \in issued \ expired
    /\ parent[t] \in expired \cup {NoToken}
    /\ expired' = expired \cup {t}
    /\ UNCHANGED <<requestVars, rowVars, version, inGrace, historyVars>>

(* Expired, or revoked without having been rotated.                         *)
Purgeable(t) == t \in row /\ (t \in expired \/ PlainlyRevoked(t))

(* purge_refresh_tokens; a reference to a deleted row becomes NULL.         *)
Purge(t) ==
    /\ Purgeable(t)
    /\ row' = row \ {t}
    /\ next' = [p \in Tokens |-> IF next[p] = t THEN NoToken ELSE next[p]]
    /\ UNCHANGED <<requestVars, revoked, used, displaced, family, tv, version,
                   timeVars, historyVars>>

-----------------------------------------------------------------------------
SignIn(q)  == SignInRead(q) \/ \E s \in Tokens : SignInInsert(q, s)
Refresh(q) ==
    \/ \E t \in Tokens : Present(q, t) \/ Rotate(q, t) \/ Displace(q, t)
    \/ RefuseGone(q) \/ RefuseStale(q)
    \/ ReplayStale(q) \/ ReplayEnded(q) \/ ReplayReused(q)
Logout(q)  == LogoutWrite(q) \/ \E t \in Tokens : LogoutRead(q, t)
LogoutAll(q) == LogoutAllCheck(q) \/ LogoutAllCommit(q)
CleanUp == \E t \in Tokens : GraceEnds(t) \/ Expire(t) \/ Purge(t)

Next ==
    \/ \E q \in Requests : \/ SignIn(q) \/ Refresh(q) \/ Logout(q)
                           \/ LogoutAll(q) \/ Fail(q)
    \/ CleanUp

Spec == Init /\ [][Next]_vars

-----------------------------------------------------------------------------
(* Properties.                                                              *)

(* At most one token of a family is valid, however requests with copies of
   it race, are retried or are answered twice (refresh_family.py: only one
   of the two pairs stays usable).                                          *)
OneLivePerFamily ==
    \A s, t \in Tokens : Live(s) /\ Live(t) /\ family[s] = family[t] => s = t

(* A token is answered with a pair at most twice, a displaced one never, and
   of the two pairs only one ever goes on: two holders cannot take turns
   (refresh_family.py, docs/api.md).                                        *)
OneBranchGoesOn ==
    /\ \A t \in Tokens : mints[t] <= IF t \in displaced THEN 0
                                     ELSE IF t \in Legacy THEN 1 ELSE 2
    /\ \A s, t \in Tokens :
         /\ parent[s] = parent[t] /\ parent[s] # NoToken
         /\ mints[s] > 0 /\ mints[t] > 0
         => s = t

(* No chain of refreshes crosses a sign-out everywhere: whatever raced the
   bump, every token of a family was minted at one version (sessions.py).   *)
FamilyKeepsVersion ==
    \A s, t \in issued : family[s] = family[t] => tv[s] = tv[t]

(* A valid row of an earlier version can only be what a sign-in that raced the
   bump inserted, and it never minted anything (auth.py: the tv claim).     *)
StaleOnlyFromSignIn ==
    \A t \in Tokens : Live(t) /\ tv[t] # version => parent[t] = NoToken /\ mints[t] = 0

(* Reuse is answered, and alerted, at most once per token_version: later
   replays find everything revoked (auth.py: no second alert).              *)
OneAlertPerVersion ==
    \A q, r \in Requests :
        /\ outcome[q] = "reused" /\ outcome[r] = "reused" /\ at[q] = at[r]
        => q = r

(* Two concurrent requests with one valid token never end all sessions: that
   takes a third request with the token, or one with its successor
   (refresh_family.py: RACE).                                               *)
TwinsKeepTheSession ==
    \A q \in Requests :
        /\ outcome[q] = "reused" /\ ~seen[q] /\ token[q] \notin displaced
        => \E r1, r2 \in Requests \ {q} :
              /\ r1 # r2 /\ outcome[r1] = "pair" /\ outcome[r2] = "pair"
              /\ token[r1] = token[q]
              /\ token[r2] \in {token[q]} \cup {s \in Tokens : parent[s] = token[q]}

(* While its token can still be decoded, a rotated row is not forgotten, so a
   copy of it presented again is recognised (token_cleanup.py).             *)
RotatedIsRemembered == used \subseteq row \cup expired

(* What the code promises of a session, as Sessions states it.              *)
ValidTokens == [f \in Tokens |-> {t \in row \ revoked : family[t] = f}]
StartedAt   == [f \in Tokens |-> IF family[f] = f THEN tv[f] ELSE 0]

Promise == INSTANCE Sessions WITH valid <- ValidTokens, started <- StartedAt

(* Every step of the handlers is a step of a session, or none of it.        *)
KeepsPromise == Promise!Spec

-----------------------------------------------------------------------------
(* The inductive invariant behind the theorems of RefreshFamilyProofs.      *)

(* References are to tokens that were issued.                               *)
IssuedInv ==
    /\ Legacy \subseteq issued
    /\ \A t \in issued : family[t] \in issued /\ family[family[t]] = family[t]
    /\ \A t \in Tokens : next[t] \in issued \cup {NoToken}
    /\ \A t \in Tokens : parent[t] \in issued \cup {NoToken}
    /\ \A t \in Tokens \ issued : /\ mints[t] = 0
                                   /\ parent[t] = NoToken /\ next[t] = NoToken
                                   /\ family[t] = NoToken

(* A pointer to a successor stays in the family; one that was not moved by a
   displacement leads to the child it was set for.                          *)
ChainInv ==
    /\ \A t \in Tokens : next[t] # NoToken => next[t] # t /\ family[next[t]] = family[t]
    /\ \A t \in Tokens : parent[t] # NoToken => mints[parent[t]] > 0
    /\ \A t \in Tokens : t \notin displaced /\ next[t] # NoToken => parent[next[t]] = t
    /\ \A s, t \in Tokens :
          mints[t] = 1 /\ parent[s] = t /\ next[t] # NoToken => s = next[t]

(* How often a token was answered, by its state.                            *)
MintsInv ==
    /\ Legacy \cap used \subseteq displaced
    /\ \A t \in Tokens \ revoked : mints[t] = 0
    /\ \A t \in displaced : mints[t] = 0
    /\ \A t \in Legacy : mints[t] <= 1
    /\ \A t \in used \ displaced : mints[t] \in 1..2
    /\ \A t \in Tokens : mints[t] <= 2
    /\ \A t \in Tokens : mints[t] = 2 => next[t] \in displaced \cup {NoToken}
    /\ \A t \in Tokens \ displaced : next[t] \in displaced => mints[t] = 2

(* Of the children of a token all but one are displaced.                    *)
SiblingInv ==
    \A s, t \in Tokens \ displaced :
        parent[s] = parent[t] /\ parent[s] # NoToken => s = t

(* Who was answered with the pairs.                                         *)
Paired(q, t) == outcome[q] = "pair" /\ token[q] = t
PairInv ==
    /\ \A q \in Requests : outcome[q] # "none" => pc[q] = "done"
    /\ \A t \in Tokens : mints[t] >= 1 => \E q \in Requests : Paired(q, t)
    /\ \A t \in Tokens : mints[t] = 2 =>
          \E q, r \in Requests : q # r /\ Paired(q, t) /\ Paired(r, t)

(* A reuse of an issued token belongs to a version that is over; a sign-in
   under way read a version that was reached.                               *)
AlertInv ==
    /\ \A q \in Requests : outcome[q] = "reused" => token[q] \in issued /\ at[q] < version
    /\ \A q \in Requests : pc[q] = "signing" => at[q] <= version

RowInv ==
    /\ IssuedInv /\ ChainInv /\ MintsInv /\ SiblingInv
    /\ OneLivePerFamily /\ FamilyKeepsVersion /\ StaleOnlyFromSignIn
    /\ RotatedIsRemembered

RequestInv == PairInv /\ AlertInv /\ OneAlertPerVersion /\ TwinsKeepTheSession

IInv == TypeOK /\ RowInv /\ RequestInv

=============================================================================
