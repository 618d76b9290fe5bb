------------------------- MODULE RefreshFamilyProofs -------------------------
(***************************************************************************)
(* Proofs about RefreshFamily for any sets of requests and tokens: types,   *)
(* the inductive invariant, the safety properties it implies, and that the  *)
(* handlers keep the promise of module Sessions.                            *)
(***************************************************************************)
EXTENDS RefreshFamily, TLAPS

(* Answering a request keeps the request's variables typed.                 *)
LEMMA EndTyped ==
    ASSUME TypeOK, NEW q \in Requests, NEW answer \in Outcomes, End(q, answer)
    PROVE  pc' \in [Requests -> Phases] /\ outcome' \in [Requests -> Outcomes]
BY DEF TypeOK, End, Phases

(* A handler that writes no row keeps the types.                            *)
LEMMA ReadTyped ==
    ASSUME TypeOK, NEW q \in Requests,
           UNCHANGED <<rowVars, version, timeVars, historyVars>>,
           pc' \in [Requests -> Phases], outcome' \in [Requests -> Outcomes],
           token' \in [Requests -> Tokens \cup {NoToken}],
           seen' \in [Requests -> BOOLEAN], at' \in [Requests -> Nat]
    PROVE  TypeOK'
BY DEF TypeOK, rowVars, timeVars, historyVars

(* The sign-in keeps the types.                                             *)
LEMMA SignInTyped ==
    ASSUME TypeOK, NEW q \in Requests, SignIn(q)
    PROVE  TypeOK'
<1> USE DEF rowVars, timeVars, historyVars
<1>1. CASE SignInRead(q)
  BY <1>1 DEF SignInRead, TypeOK, Phases
<1>2. ASSUME NEW s \in Tokens, SignInInsert(q, s) PROVE TypeOK'
  <2>1. pc' \in [Requests -> Phases] /\ outcome' \in [Requests -> Outcomes]
    BY <1>2, EndTyped DEF SignInInsert, Outcomes
  <2>2. at[q] \in Nat
    BY DEF TypeOK
  <2> QED BY <1>2, <2>1, <2>2 DEF SignInInsert, Issue, TypeOK
<1> QED BY <1>1, <1>2 DEF SignIn

(* Taking the locks keeps the request typed.                                *)
LEMMA LockedTyped ==
    ASSUME TypeOK, NEW q \in Requests, Locked(q)
    PROVE  /\ token' \in [Requests -> Tokens \cup {NoToken}]
           /\ seen' \in [Requests -> BOOLEAN] /\ at' \in [Requests -> Nat]
BY DEF TypeOK, Locked

(* The refreshes that add a row keep the types.                             *)
LEMMA IssueTyped ==
    ASSUME TypeOK, NEW q \in Requests, NEW s \in Tokens,
           Rotate(q, s) \/ Displace(q, s)
    PROVE  TypeOK'
<1>1. pc' \in [Requests -> Phases] /\ outcome' \in [Requests -> Outcomes]
  BY EndTyped DEF Rotate, Displace, Outcomes
<1>2. /\ token' \in [Requests -> Tokens \cup {NoToken}]
      /\ seen' \in [Requests -> BOOLEAN] /\ at' \in [Requests -> Nat]
  BY LockedTyped DEF Rotate, Displace, Replayed
<1>3. CASE Rotate(q, s)
  <2> DEFINE t == token[q]
  <2>1. t \in row /\ t \in Tokens
    BY <1>3 DEF Rotate, Live, TypeOK
  <2>2. mints' \in [Tokens -> Nat] /\ next' \in [Tokens -> Tokens \cup {NoToken}]
    BY <1>3, <2>1 DEF Rotate, TypeOK
  <2>3. /\ family' \in [Tokens -> Tokens \cup {NoToken}] /\ tv' \in [Tokens -> Nat]
        /\ parent' \in [Tokens -> Tokens \cup {NoToken}]
        /\ row' \subseteq issued' /\ issued' = issued \cup {s}
    BY <1>3, <2>1 DEF Rotate, Issue, TypeOK
  <2>4. /\ used' \subseteq revoked' /\ revoked' \subseteq issued' /\ displaced' \subseteq used'
        /\ inGrace' \subseteq used' /\ expired' \subseteq issued'
    BY <1>3, <2>1, <2>3 DEF Rotate, Marked, TypeOK
  <2> QED BY <1>1, <1>2, <1>3, <2>2, <2>3, <2>4 DEF Rotate, TypeOK
<1>4. CASE Displace(q, s)
  <2> DEFINE t == token[q]
             old == next[token[q]]
  <2>1. t \in row /\ t \in Tokens /\ old \in row /\ old \in Tokens
    <3>1. t \in row /\ t \in Tokens
      BY <1>4 DEF Displace, Replayed, Rotated, TypeOK
    <3>2. old \in row
      BY <1>4 DEF Displace, Classify, HasLiveSuccessor, Live
    <3> QED BY <3>1, <3>2 DEF TypeOK
  <2>2. mints' \in [Tokens -> Nat] /\ next' \in [Tokens -> Tokens \cup {NoToken}]
    BY <1>4, <2>1 DEF Displace, DisplaceRow, TypeOK
  <2>3. /\ family' \in [Tokens -> Tokens \cup {NoToken}] /\ tv' \in [Tokens -> Nat]
        /\ parent' \in [Tokens -> Tokens \cup {NoToken}]
        /\ row' \subseteq issued' /\ issued' = issued \cup {s}
    BY <1>4, <2>1 DEF Displace, Issue, TypeOK
  <2>4. /\ used' \subseteq revoked' /\ revoked' \subseteq issued' /\ displaced' \subseteq used'
        /\ inGrace' \subseteq used' /\ expired' \subseteq issued'
    BY <1>4, <2>1, <2>3 DEF Displace, DisplaceRow, TypeOK
  <2> QED BY <1>1, <1>2, <1>4, <2>2, <2>3, <2>4 DEF Displace, TypeOK
<1> QED BY <1>3, <1>4

(* Revoking all sessions keeps the types.                                   *)
LEMMA RevokeAllTyped ==
    ASSUME TypeOK, RevokeAllSessions
    PROVE  /\ version' \in Nat /\ revoked' \subseteq issued /\ revoked \subseteq revoked'
BY DEF TypeOK, RevokeAllSessions

(* Every refresh keeps the types.                                           *)
LEMMA RefreshTyped ==
    ASSUME TypeOK, NEW q \in Requests, Refresh(q)
    PROVE  TypeOK'
<1> USE DEF rowVars, timeVars, historyVars
<1>1. ASSUME NEW t \in Tokens, Present(q, t) PROVE TypeOK'
  <2>1. pc' \in [Requests -> Phases] /\ outcome' \in [Requests -> Outcomes]
    BY <1>1, EndTyped DEF Present, TypeOK, Phases, Outcomes
  <2>2. /\ token' \in [Requests -> Tokens \cup {NoToken}] /\ seen' \in [Requests -> BOOLEAN]
        /\ at' = at
    BY <1>1 DEF Present, TypeOK, Rotated
  <2> QED BY <1>1, <2>1, <2>2, ReadTyped DEF Present, TypeOK
<1>2. ASSUME NEW s \in Tokens, Rotate(q, s) \/ Displace(q, s) PROVE TypeOK'
  BY <1>2, IssueTyped
<1>3. CASE RefuseGone(q) \/ ReplayStale(q) \/ ReplayEnded(q)
  <2>1. pc' \in [Requests -> Phases] /\ outcome' \in [Requests -> Outcomes]
    BY <1>3, EndTyped DEF RefuseGone, ReplayStale, ReplayEnded, Outcomes
  <2>2. Locked(q) /\ UNCHANGED <<rowVars, version, timeVars, historyVars>>
    BY <1>3 DEF RefuseGone, ReplayStale, ReplayEnded, Replayed
  <2> QED BY <2>1, <2>2, LockedTyped, ReadTyped
<1>4. CASE RefuseStale(q)
  <2>1. pc' \in [Requests -> Phases] /\ outcome' \in [Requests -> Outcomes]
    BY <1>4, EndTyped DEF RefuseStale, Outcomes
  <2>2. token[q] \in row /\ Locked(q)
    BY <1>4 DEF RefuseStale, Live
  <2> QED BY <1>4, <2>1, <2>2, LockedTyped DEF RefuseStale, TypeOK
<1>5. CASE ReplayReused(q)
  <2>1. pc' \in [Requests -> Phases] /\ outcome' \in [Requests -> Outcomes]
    BY <1>5, EndTyped DEF ReplayReused, Outcomes
  <2>2. Locked(q) /\ RevokeAllSessions
    BY <1>5 DEF ReplayReused, Replayed
  <2> QED BY <1>5, <2>1, <2>2, LockedTyped, RevokeAllTyped DEF ReplayReused, TypeOK
<1> QED BY <1>1, <1>2, <1>3, <1>4, <1>5 DEF Refresh

(* The sign-outs keep the types.                                            *)
LEMMA LogoutTyped ==
    ASSUME TypeOK, NEW q \in Requests, Logout(q) \/ LogoutAll(q) \/ Fail(q)
    PROVE  TypeOK'
<1> USE DEF rowVars, timeVars, historyVars
<1>1. ASSUME NEW t \in Tokens, LogoutRead(q, t) PROVE TypeOK'
  <2>1. pc' \in [Requests -> Phases] /\ outcome' \in [Requests -> Outcomes]
    BY <1>1, EndTyped DEF LogoutRead, TypeOK, Phases, Outcomes
  <2>2. token' \in [Requests -> Tokens \cup {NoToken}] /\ UNCHANGED <<seen, at>>
    BY <1>1 DEF LogoutRead, TypeOK
  <2> QED BY <1>1, <2>1, <2>2, ReadTyped DEF LogoutRead, TypeOK
<1>2. CASE LogoutWrite(q)
  <2>1. pc' \in [Requests -> Phases] /\ outcome' \in [Requests -> Outcomes]
    <3>1. CASE End(q, "out")
      BY <3>1, EndTyped DEF Outcomes
    <3>2. CASE End(q, "failed")
      BY <3>2, EndTyped DEF Outcomes
    <3> QED BY <1>2, <3>1, <3>2 DEF LogoutWrite
  <2> QED BY <1>2, <2>1 DEF LogoutWrite, TypeOK
<1>3. CASE LogoutAllCheck(q)
  BY <1>3 DEF LogoutAllCheck, TypeOK, Phases
<1>4. CASE LogoutAllCommit(q)
  <2>1. pc' \in [Requests -> Phases] /\ outcome' \in [Requests -> Outcomes]
    BY <1>4, EndTyped DEF LogoutAllCommit, Outcomes
  <2> QED BY <1>4, <2>1, RevokeAllTyped DEF LogoutAllCommit, TypeOK
<1>5. CASE Fail(q)
  <2>1. pc' \in [Requests -> Phases] /\ outcome' \in [Requests -> Outcomes]
    BY <1>5, EndTyped DEF Fail, Outcomes
  <2> QED BY <1>5, <2>1, ReadTyped DEF Fail, TypeOK
<1> QED BY <1>1, <1>2, <1>3, <1>4, <1>5 DEF Logout, LogoutAll

(* Time and the purge keep the types.                                       *)
LEMMA CleanUpTyped ==
    ASSUME TypeOK, CleanUp
    PROVE  TypeOK'
<1> USE DEF requestVars, rowVars, timeVars, historyVars
<1>1. ASSUME NEW t \in Tokens, GraceEnds(t) \/ Expire(t) PROVE TypeOK'
  BY <1>1 DEF GraceEnds, Expire, TypeOK
<1>2. ASSUME NEW t \in Tokens, Purge(t) PROVE TypeOK'
  BY <1>2 DEF Purge, TypeOK
<1> QED BY <1>1, <1>2 DEF CleanUp

(* Every step keeps the types.                                              *)
LEMMA NextTyped ==
    ASSUME TypeOK, [Next]_vars
    PROVE  TypeOK'
<1>1. CASE UNCHANGED vars
  BY <1>1 DEF TypeOK, vars, requestVars, rowVars, timeVars, historyVars
<1> QED BY <1>1, SignInTyped, RefreshTyped, LogoutTyped, CleanUpTyped DEF Next

(* At the start no request has run and only legacy rows exist.              *)
LEMMA InitTyped == Init => TypeOK
BY ConstantsOK DEF Init, TypeOK, Phases, Outcomes

(* Types are correct in every reachable state.                              *)
THEOREM TypeCorrect == Spec => []TypeOK
<1>1. TypeOK /\ [Next]_vars => TypeOK'
  BY NextTyped
<1> QED BY InitTyped, <1>1, PTL DEF Spec
-----------------------------------------------------------------------------
(* The rows.                                                                *)

(* What a sign-in adds: the first row of a family of its own.               *)
LEMMA SignInRows ==
    ASSUME TypeOK, RowInv, NEW q \in Requests, NEW s \in Tokens, SignInInsert(q, s)
    PROVE  RowInv'
<1>t. /\ at[q] \in Nat /\ s \in Tokens \ issued /\ s # NoToken
      /\ row \subseteq issued /\ revoked \subseteq issued /\ used \subseteq revoked
      /\ displaced \subseteq used
      /\ family \in [Tokens -> Tokens \cup {NoToken}] /\ tv \in [Tokens -> Nat]
      /\ parent \in [Tokens -> Tokens \cup {NoToken}] /\ issued \subseteq Tokens
  BY ConstantsOK DEF TypeOK, SignInInsert, Issue
<1>p. /\ row' = row \cup {s} /\ issued' = issued \cup {s}
      /\ family' = [family EXCEPT ![s] = s] /\ tv' = [tv EXCEPT ![s] = at[q]]
      /\ parent' = [parent EXCEPT ![s] = NoToken]
      /\ UNCHANGED <<revoked, used, displaced, next, version, mints, expired>>
  BY DEF SignInInsert, Issue, timeVars
<1>1. IssuedInv'
  BY <1>t, <1>p DEF RowInv, IssuedInv
<1>2. ChainInv'
  BY <1>t, <1>p DEF RowInv, IssuedInv, ChainInv
<1>3. MintsInv'
  BY <1>t, <1>p DEF RowInv, IssuedInv, MintsInv
<1>4. SiblingInv'
  BY <1>t, <1>p DEF RowInv, SiblingInv
<1>5. OneLivePerFamily'
  BY <1>t, <1>p DEF RowInv, IssuedInv, OneLivePerFamily, Live
<1>6. FamilyKeepsVersion'
  BY <1>t, <1>p DEF RowInv, IssuedInv, FamilyKeepsVersion
<1>7. StaleOnlyFromSignIn'
  BY <1>t, <1>p DEF RowInv, IssuedInv, StaleOnlyFromSignIn, Live
<1>8. RotatedIsRemembered'
  BY <1>t, <1>p DEF RowInv, RotatedIsRemembered
<1> QED BY <1>1, <1>2, <1>3, <1>4, <1>5, <1>6, <1>7, <1>8 DEF RowInv

(* A rotation replaces the live row of its family, which was never answered
   before.                                                                  *)
LEMMA RotateRows ==
    ASSUME TypeOK, RowInv, NEW q \in Requests, NEW s \in Tokens, Rotate(q, s)
    PROVE  RowInv'
<1> DEFINE t == token[q]
<1>t. /\ s \in Tokens \ issued /\ s # NoToken /\ t \in Tokens /\ t \in issued /\ s # t
      /\ row \subseteq issued /\ revoked \subseteq issued /\ used \subseteq revoked
      /\ displaced \subseteq used /\ issued \subseteq Tokens
      /\ family \in [Tokens -> Tokens \cup {NoToken}] /\ tv \in [Tokens -> Nat]
      /\ parent \in [Tokens -> Tokens \cup {NoToken}]
      /\ next \in [Tokens -> Tokens \cup {NoToken}]
      /\ mints \in [Tokens -> Nat]
  BY ConstantsOK DEF TypeOK, Rotate, Issue, Live
<1>p. /\ row' = row \cup {s} /\ issued' = issued \cup {s}
      /\ family' = [family EXCEPT ![s] = family[t]] /\ tv' = [tv EXCEPT ![s] = version]
      /\ parent' = [parent EXCEPT ![s] = t]
      /\ revoked' = revoked \cup {t} /\ used' = used \cup ({t} \ Legacy)
      /\ next' = [next EXCEPT ![t] = s] /\ mints' = [mints EXCEPT ![t] = mints[t] + 1]
      /\ UNCHANGED <<displaced, version, expired>>
  BY DEF Rotate, Issue, Marked
<1>f. /\ t \in row /\ t \notin revoked /\ tv[t] = version /\ mints[t] = 0
      /\ \A x \in Tokens : parent[x] # t
  <2>1. t \in row /\ t \notin revoked /\ tv[t] = version
    BY DEF Rotate, Live, Current
  <2>2. mints[t] = 0
    BY <2>1, <1>t DEF RowInv, MintsInv
  <2> QED BY <2>1, <2>2, <1>t, ConstantsOK DEF RowInv, ChainInv
<1>m. mints' = [mints EXCEPT ![t] = 1]
  BY <1>p, <1>f
<1>1. IssuedInv'
  BY <1>t, <1>p, <1>m DEF RowInv, IssuedInv
<1>2. ChainInv'
  BY <1>t, <1>p, <1>f, <1>m DEF RowInv, IssuedInv, ChainInv
<1>3. MintsInv'
  BY <1>t, <1>p, <1>f, <1>m DEF RowInv, IssuedInv, MintsInv
<1>4. SiblingInv'
  BY <1>t, <1>p, <1>f DEF RowInv, SiblingInv
<1>5. OneLivePerFamily'
  BY <1>t, <1>p, <1>f DEF RowInv, IssuedInv, OneLivePerFamily, Live
<1>6. FamilyKeepsVersion'
  BY <1>t, <1>p, <1>f DEF RowInv, IssuedInv, FamilyKeepsVersion
<1>7. StaleOnlyFromSignIn'
  BY <1>t, <1>p, <1>f, <1>m DEF RowInv, IssuedInv, StaleOnlyFromSignIn, Live
<1>8. RotatedIsRemembered'
  BY <1>t, <1>p, <1>f DEF RowInv, RotatedIsRemembered
<1> QED BY <1>1, <1>2, <1>3, <1>4, <1>5, <1>6, <1>7, <1>8 DEF RowInv

(* What a displacement finds: the token was answered once, and its successor
   is live and its only child.                                              *)
LEMMA DisplaceFinds ==
    ASSUME TypeOK, RowInv, NEW q \in Requests, NEW s \in Tokens, Displace(q, s)
    PROVE  LET t == token[q]  old == next[token[q]] IN
           /\ t \in Tokens /\ t \in row /\ t \in used \ displaced /\ tv[t] = version
           /\ old \in Tokens /\ old \in row /\ old \notin revoked /\ old # t
           /\ mints[t] = 1 /\ mints[old] = 0
           /\ parent[old] = t /\ family[old] = family[t]
           /\ \A x \in Tokens : parent[x] = t => x = old
           /\ \A x \in Tokens : parent[x] # old
<1> DEFINE t == token[q]
           old == next[token[q]]
<1>1. /\ t \in Tokens /\ t \in row /\ t \in used \ displaced /\ tv[t] = version
      /\ old # NoToken /\ old \in row /\ old \notin revoked
  BY DEF TypeOK, Displace, Replayed, Rotated, Current, Classify, HasLiveSuccessor, Live
<1>2. old \in Tokens
  BY <1>1 DEF TypeOK
<1>3. mints[t] \in 1..2 /\ (mints[t] = 2 => old \in displaced \cup {NoToken}) /\ mints[old] = 0
  BY <1>1, <1>2 DEF RowInv, MintsInv
<1>4. mints[t] = 1
  BY <1>1, <1>3 DEF TypeOK
<1>5. parent[old] = t /\ family[old] = family[t] /\ old # t
  BY <1>1 DEF RowInv, ChainInv
<1>6. \A x \in Tokens : parent[x] = t => x = old
  BY <1>1, <1>4 DEF RowInv, ChainInv
<1>7. \A x \in Tokens : parent[x] # old
  BY <1>1, <1>2, <1>3 DEF RowInv, ChainInv
<1> QED BY <1>1, <1>2, <1>3, <1>4, <1>5, <1>6, <1>7

(* A displacement replaces the live row of its family.                      *)
LEMMA DisplaceRows ==
    ASSUME TypeOK, RowInv, NEW q \in Requests, NEW s \in Tokens, Displace(q, s)
    PROVE  RowInv'
<1> DEFINE t == token[q]
           old == next[token[q]]
<1>f. /\ t \in Tokens /\ t \in row /\ t \in used \ displaced /\ tv[t] = version
      /\ old \in Tokens /\ old \in row /\ old \notin revoked /\ old # t
      /\ mints[t] = 1 /\ mints[old] = 0
      /\ parent[old] = t /\ family[old] = family[t]
      /\ \A x \in Tokens : parent[x] = t => x = old
      /\ \A x \in Tokens : parent[x] # old
  BY DisplaceFinds
<1>t. /\ s \in Tokens \ issued /\ s # NoToken /\ s # t /\ s # old /\ NoToken \notin Tokens
      /\ row \subseteq issued /\ revoked \subseteq issued /\ used \subseteq revoked
      /\ displaced \subseteq used /\ issued \subseteq Tokens
      /\ family \in [Tokens -> Tokens \cup {NoToken}] /\ tv \in [Tokens -> Nat]
      /\ parent \in [Tokens -> Tokens \cup {NoToken}]
      /\ next \in [Tokens -> Tokens \cup {NoToken}]
      /\ mints \in [Tokens -> Nat]
  BY <1>f, ConstantsOK DEF TypeOK, Displace, Issue
<1>p. /\ row' = row \cup {s} /\ issued' = issued \cup {s}
      /\ family' = [family EXCEPT ![s] = family[t]] /\ tv' = [tv EXCEPT ![s] = version]
      /\ parent' = [parent EXCEPT ![s] = t]
      /\ revoked' = revoked \cup {old} /\ used' = used \cup {old}
      /\ displaced' = displaced \cup {old}
      /\ next' = [next EXCEPT ![old] = s]
      /\ UNCHANGED <<version, expired>>
  BY DEF Displace, DisplaceRow, Issue
<1>m. mints' = [mints EXCEPT ![t] = 2]
  BY <1>f DEF Displace
<1>1. IssuedInv'
  BY <1>t, <1>p, <1>m, <1>f DEF RowInv, IssuedInv
<1>2. ChainInv'
  BY <1>t, <1>p, <1>f, <1>m DEF RowInv, IssuedInv, ChainInv
<1>3. MintsInv'
  <2>1. \A u \in Tokens \ displaced' : next'[u] \in displaced' => mints'[u] = 2
    BY <1>t, <1>p, <1>f, <1>m DEF RowInv, ChainInv, MintsInv
  <2> QED BY <2>1, <1>t, <1>p, <1>f, <1>m DEF RowInv, IssuedInv, MintsInv
<1>4. SiblingInv'
  BY <1>t, <1>p, <1>f DEF RowInv, SiblingInv
<1>5. OneLivePerFamily'
  BY <1>t, <1>p, <1>f DEF RowInv, IssuedInv, OneLivePerFamily, Live
<1>6. FamilyKeepsVersion'
  BY <1>t, <1>p, <1>f DEF RowInv, IssuedInv, FamilyKeepsVersion
<1>7. StaleOnlyFromSignIn'
  BY <1>t, <1>p, <1>f, <1>m DEF RowInv, IssuedInv, StaleOnlyFromSignIn, Live
<1>8. RotatedIsRemembered'
  BY <1>t, <1>p, <1>f DEF RowInv, RotatedIsRemembered
<1> QED BY <1>1, <1>2, <1>3, <1>4, <1>5, <1>6, <1>7, <1>8 DEF RowInv

(* Revoking some rows at one version, or all of them.                       *)
LEMMA RevokeRows ==
    ASSUME TypeOK, RowInv, NEW X \in SUBSET row, revoked' = revoked \cup X,
           version' = version \/ X = row,
           UNCHANGED <<row, used, displaced, next, family, tv, expired, historyVars>>
    PROVE  RowInv'
<1> USE DEF historyVars
<1>1. IssuedInv' /\ ChainInv' /\ SiblingInv'
  BY DEF RowInv, IssuedInv, ChainInv, SiblingInv
<1>2. MintsInv'
  BY DEF RowInv, MintsInv
<1>3. OneLivePerFamily' /\ FamilyKeepsVersion' /\ RotatedIsRemembered'
  BY DEF RowInv, OneLivePerFamily, FamilyKeepsVersion, RotatedIsRemembered, Live
<1>4. StaleOnlyFromSignIn'
  BY DEF RowInv, StaleOnlyFromSignIn, Live
<1> QED BY <1>1, <1>2, <1>3, <1>4 DEF RowInv

(* Time and the purge.                                                      *)
LEMMA CleanUpRows ==
    ASSUME TypeOK, RowInv, CleanUp
    PROVE  RowInv'
<1>1. ASSUME NEW t \in Tokens, GraceEnds(t) \/ Expire(t) PROVE RowInv'
  <2>1. UNCHANGED <<rowVars, version, historyVars>> /\ expired \subseteq expired'
    BY <1>1 DEF GraceEnds, Expire
  <2>2. IssuedInv' /\ ChainInv' /\ SiblingInv' /\ MintsInv'
    BY <2>1 DEF RowInv, IssuedInv, ChainInv, SiblingInv, MintsInv, rowVars, historyVars
  <2>3. OneLivePerFamily' /\ FamilyKeepsVersion' /\ RotatedIsRemembered' /\ StaleOnlyFromSignIn'
    BY <2>1 DEF RowInv, OneLivePerFamily, FamilyKeepsVersion, RotatedIsRemembered,
       StaleOnlyFromSignIn, Live, rowVars, historyVars
  <2> QED BY <2>2, <2>3 DEF RowInv
<1>2. ASSUME NEW t \in Tokens, Purge(t) PROVE RowInv'
  <2>p. /\ row' = row \ {t} /\ (t \in used => t \in expired)
        /\ next' = [p \in Tokens |-> IF next[p] = t THEN NoToken ELSE next[p]]
        /\ UNCHANGED <<revoked, used, displaced, family, tv, version, expired, historyVars>>
    BY <1>2 DEF Purge, Purgeable, PlainlyRevoked, timeVars
  <2>t. next \in [Tokens -> Tokens \cup {NoToken}] /\ issued \subseteq Tokens
    BY DEF TypeOK
  <2>1. IssuedInv'
    BY <2>p, <2>t DEF RowInv, IssuedInv, historyVars
  <2>2. ChainInv'
    BY <2>p, <2>t DEF RowInv, ChainInv, historyVars
  <2>3. MintsInv'
    BY <2>p, <2>t, ConstantsOK DEF RowInv, MintsInv, historyVars, TypeOK
  <2>4. SiblingInv' /\ OneLivePerFamily' /\ FamilyKeepsVersion' /\ RotatedIsRemembered'
    BY <2>p DEF RowInv, SiblingInv, OneLivePerFamily, FamilyKeepsVersion,
       RotatedIsRemembered, Live, historyVars
  <2>5. StaleOnlyFromSignIn'
    BY <2>p DEF RowInv, StaleOnlyFromSignIn, Live, historyVars
  <2> QED BY <2>1, <2>2, <2>3, <2>4, <2>5 DEF RowInv
<1> QED BY <1>1, <1>2 DEF CleanUp

(* A step that leaves the rows alone.                                       *)
LEMMA RowsUntouched ==
    ASSUME RowInv, UNCHANGED <<rowVars, version, expired, historyVars>>
    PROVE  RowInv'
<1> USE DEF rowVars, historyVars
<1>1. IssuedInv' /\ ChainInv' /\ SiblingInv' /\ MintsInv'
  BY DEF RowInv, IssuedInv, ChainInv, SiblingInv, MintsInv
<1>2. OneLivePerFamily' /\ FamilyKeepsVersion' /\ RotatedIsRemembered' /\ StaleOnlyFromSignIn'
  BY DEF RowInv, OneLivePerFamily, FamilyKeepsVersion, RotatedIsRemembered,
     StaleOnlyFromSignIn, Live
<1> QED BY <1>1, <1>2 DEF RowInv

(* Every request keeps the invariant of the rows.                           *)
LEMMA RequestRows ==
    ASSUME TypeOK, RowInv, NEW q \in Requests,
           SignIn(q) \/ Refresh(q) \/ Logout(q) \/ LogoutAll(q) \/ Fail(q)
    PROVE  RowInv'
<1>1. CASE \/ SignInRead(q) \/ RefuseGone(q) \/ ReplayStale(q) \/ ReplayEnded(q)
           \/ LogoutAllCheck(q) \/ Fail(q)
           \/ \E t \in Tokens : Present(q, t) \/ LogoutRead(q, t)
  <2>1. UNCHANGED <<rowVars, version, timeVars, historyVars>>
    BY <1>1 DEF SignInRead, RefuseGone, ReplayStale, ReplayEnded, LogoutAllCheck, Fail,
       Present, LogoutRead
  <2> QED BY <2>1, RowsUntouched DEF timeVars
<1>2. ASSUME NEW s \in Tokens, SignInInsert(q, s) PROVE RowInv'
  BY <1>2, SignInRows
<1>3. ASSUME NEW s \in Tokens, Rotate(q, s) PROVE RowInv'
  BY <1>3, RotateRows
<1>4. ASSUME NEW s \in Tokens, Displace(q, s) PROVE RowInv'
  BY <1>4, DisplaceRows
<1>5. CASE RefuseStale(q)
  <2> DEFINE X == {token[q]}
  <2>1. X \in SUBSET row /\ revoked' = revoked \cup X
    BY <1>5 DEF RefuseStale, Live
  <2> HIDE DEF X
  <2> QED BY <1>5, <2>1, RevokeRows DEF RefuseStale, timeVars
<1>6. CASE LogoutWrite(q)
  <2> DEFINE X == {token[q]} \cap row
  <2>1. X \in SUBSET row /\ revoked' = revoked \cup X
    BY <1>6 DEF LogoutWrite
  <2> HIDE DEF X
  <2> QED BY <1>6, <2>1, RevokeRows DEF LogoutWrite, timeVars
<1>7. CASE ReplayReused(q) \/ LogoutAllCommit(q)
  <2>1. row \in SUBSET row /\ revoked' = revoked \cup row
    BY <1>7 DEF ReplayReused, LogoutAllCommit, RevokeAllSessions
  <2> QED BY <1>7, <2>1, RevokeRows DEF ReplayReused, LogoutAllCommit, timeVars
<1> QED BY <1>1, <1>2, <1>3, <1>4, <1>5, <1>6, <1>7 DEF SignIn, Refresh, Logout, LogoutAll

-----------------------------------------------------------------------------
(* The requests.                                                            *)

(* A step of request q, which had not answered, is seen by no other.        *)
Acts(q) ==
    /\ pc[q] # "done"
    /\ \A r \in Requests \ {q} :
          /\ pc'[r] = pc[r] /\ token'[r] = token[r] /\ seen'[r] = seen[r]
          /\ at'[r] = at[r] /\ outcome'[r] = outcome[r]
    /\ outcome'[q] # outcome[q] => pc'[q] = "done"

(* Every action of a request is a step of it alone.                         *)
LEMMA ActsAlone ==
    ASSUME TypeOK, NEW q \in Requests,
           SignIn(q) \/ Refresh(q) \/ Logout(q) \/ LogoutAll(q) \/ Fail(q)
    PROVE  Acts(q)
<1>1. CASE SignIn(q)
  BY <1>1 DEF Acts, TypeOK, SignIn, SignInRead, SignInInsert, End
<1>2. ASSUME NEW t \in Tokens, Present(q, t) PROVE Acts(q)
  BY <1>2 DEF Acts, TypeOK, Present, End
<1>3. ASSUME NEW s \in Tokens, Rotate(q, s) \/ Displace(q, s) PROVE Acts(q)
  BY <1>3 DEF Acts, TypeOK, Rotate, Displace, Replayed, Locked, End
<1>4. CASE RefuseGone(q) \/ RefuseStale(q) \/ ReplayStale(q) \/ ReplayEnded(q) \/ ReplayReused(q)
  <2>1. Locked(q) /\ \E a \in Outcomes : End(q, a)
    BY <1>4 DEF RefuseGone, RefuseStale, ReplayStale, ReplayEnded, ReplayReused, Replayed,
       Outcomes
  <2> QED BY <2>1 DEF Acts, TypeOK, Locked, End
<1>5. ASSUME NEW t \in Tokens, LogoutRead(q, t) PROVE Acts(q)
  BY <1>5 DEF Acts, TypeOK, LogoutRead, End
<1>6. CASE LogoutWrite(q)
  BY <1>6 DEF Acts, TypeOK, LogoutWrite, End
<1>7. CASE LogoutAll(q)
  BY <1>7 DEF Acts, TypeOK, LogoutAll, LogoutAllCheck, LogoutAllCommit, End
<1>8. CASE Fail(q)
  BY <1>8 DEF Acts, TypeOK, Fail, End
<1> QED BY <1>1, <1>2, <1>3, <1>4, <1>5, <1>6, <1>7, <1>8 DEF Refresh, Logout

(* A request that has not answered is recorded with no answer.              *)
LEMMA NotAnswered ==
    ASSUME RequestInv, NEW q \in Requests, Acts(q)
    PROVE  outcome[q] = "none"
BY DEF RequestInv, PairInv, Acts

(* Who was answered stays on record; a new pair is recorded with its token. *)
LEMMA PairStep ==
    ASSUME TypeOK, RequestInv, NEW q \in Requests, Acts(q),
           \/ mints' = mints
           \/ /\ outcome'[q] = "pair" /\ token'[q] \in Tokens
              /\ mints' = [mints EXCEPT ![token'[q]] = @ + 1]
    PROVE  PairInv'
<1>1. outcome[q] = "none"
  BY NotAnswered
<1>2. \A r \in Requests, t \in Tokens : Paired(r, t) => r # q /\ Paired(r, t)'
  BY <1>1 DEF Acts, Paired
<1>3. \A r \in Requests : outcome'[r] # "none" => pc'[r] = "done"
  BY <1>1 DEF Acts, RequestInv, PairInv
<1>4. CASE mints' = mints
  BY <1>2, <1>3, <1>4 DEF RequestInv, PairInv
<1>5. ASSUME NEW t \in Tokens, outcome'[q] = "pair", token'[q] = t,
             mints' = [mints EXCEPT ![t] = @ + 1]
      PROVE  PairInv'
  <2>1. Paired(q, t)'
    BY <1>5 DEF Paired
  <2>2. \A u \in Tokens : u # t => mints'[u] = mints[u]
    BY <1>5 DEF TypeOK
  <2>3. mints'[t] = mints[t] + 1 /\ mints[t] \in Nat
    BY <1>5 DEF TypeOK
  <2>4. ASSUME NEW u \in Tokens, mints'[u] >= 1
        PROVE  \E r \in Requests : Paired(r, u)'
    <3>1. CASE u = t
      BY <2>1, <3>1
    <3>2. CASE u # t
      <4>1. PICK r \in Requests : Paired(r, u)
        BY <2>2, <2>4, <3>2 DEF RequestInv, PairInv
      <4> QED BY <1>2, <4>1
    <3> QED BY <3>1, <3>2
  <2>5. ASSUME NEW u \in Tokens, mints'[u] = 2
        PROVE  \E r1, r2 \in Requests : r1 # r2 /\ Paired(r1, u)' /\ Paired(r2, u)'
    <3>1. CASE u = t
      <4>1. mints[t] >= 1
        BY <2>3, <2>5, <3>1
      <4>2. PICK r \in Requests : Paired(r, t)
        BY <4>1 DEF RequestInv, PairInv
      <4> QED BY <1>2, <2>1, <3>1, <4>2
    <3>2. CASE u # t
      <4>1. PICK r1, r2 \in Requests : r1 # r2 /\ Paired(r1, u) /\ Paired(r2, u)
        BY <2>2, <2>5, <3>2 DEF RequestInv, PairInv
      <4> QED BY <1>2, <4>1
    <3> QED BY <3>1, <3>2
  <2> QED BY <1>3, <2>4, <2>5 DEF PairInv
<1> QED BY <1>4, <1>5

(* A step that is not a new alert keeps what is known of the old ones.      *)
LEMMA NoAlertStep ==
    ASSUME TypeOK, RowInv, RequestInv, NEW q \in Requests, Acts(q),
           outcome'[q] # "reused", version' >= version, version' \in Nat,
           pc'[q] = "signing" => at'[q] <= version',
           issued \subseteq issued', displaced \subseteq displaced',
           parent' \in [Tokens -> Tokens \cup {NoToken}],
           \A s \in issued : parent'[s] = parent[s]
    PROVE  AlertInv' /\ OneAlertPerVersion' /\ TwinsKeepTheSession'
<1>1. outcome[q] = "none"
  BY NotAnswered
<1>2. ASSUME NEW r \in Requests, outcome'[r] = "reused"
      PROVE  /\ r # q /\ outcome[r] = "reused" /\ token'[r] = token[r] /\ at'[r] = at[r]
             /\ seen'[r] = seen[r] /\ token[r] \in issued /\ at[r] < version
  BY <1>2 DEF Acts, RequestInv, AlertInv
<1>3. AlertInv'
  <2>1. \A r \in Requests : outcome'[r] = "reused" => token'[r] \in issued' /\ at'[r] < version'
    BY <1>2 DEF TypeOK
  <2>2. \A r \in Requests : pc'[r] = "signing" => at'[r] <= version'
    BY DEF Acts, RequestInv, AlertInv, TypeOK
  <2> QED BY <2>1, <2>2 DEF AlertInv
<1>4. OneAlertPerVersion'
  BY <1>2 DEF RequestInv, OneAlertPerVersion
<1>5. TwinsKeepTheSession'
  <2> SUFFICES ASSUME NEW r \in Requests, outcome'[r] = "reused", ~seen'[r],
                      token'[r] \notin displaced'
               PROVE  \E r1, r2 \in Requests \ {r} :
                         /\ r1 # r2 /\ outcome'[r1] = "pair" /\ outcome'[r2] = "pair"
                         /\ token'[r1] = token'[r]
                         /\ token'[r2] \in {token'[r]} \cup
                                           {s \in Tokens : parent'[s] = token'[r]}
    BY DEF TwinsKeepTheSession
  <2>1. /\ outcome[r] = "reused" /\ ~seen[r] /\ token[r] \notin displaced
        /\ token[r] \in issued /\ token'[r] = token[r]
    BY <1>2
  <2>2. PICK r1, r2 \in Requests \ {r} :
              /\ r1 # r2 /\ outcome[r1] = "pair" /\ outcome[r2] = "pair"
              /\ token[r1] = token[r]
              /\ token[r2] \in {token[r]} \cup {s \in Tokens : parent[s] = token[r]}
    BY <2>1 DEF RequestInv, TwinsKeepTheSession
  <2>3. /\ r1 # q /\ r2 # q /\ outcome'[r1] = "pair" /\ outcome'[r2] = "pair"
        /\ token'[r1] = token[r1] /\ token'[r2] = token[r2]
    BY <1>1, <2>2 DEF Acts
  <2>4. ASSUME NEW s \in Tokens, parent[s] = token[r] PROVE parent'[s] = token[r]
    <3>1. s \in issued
      BY <2>1, <2>4, ConstantsOK DEF RowInv, IssuedInv, TypeOK
    <3> QED BY <2>4, <3>1
  <2> QED BY <2>1, <2>2, <2>3, <2>4
<1> QED BY <1>3, <1>4, <1>5

(* Two requests can be named for what a reuse found that the request itself
   cannot have caused.                                                      *)
LEMMA ReuseFinds ==
    ASSUME TypeOK, RowInv, RequestInv, NEW q \in Requests, ReplayReused(q),
           ~seen[q], token[q] \notin displaced
    PROVE  \E r1, r2 \in Requests :
              /\ r1 # r2 /\ outcome[r1] = "pair" /\ outcome[r2] = "pair"
              /\ token[r1] = token[q]
              /\ token[r2] \in {token[q]} \cup {s \in Tokens : parent[s] = token[q]}
<1> DEFINE t == token[q]
           n == next[token[q]]
<1>1. /\ t \in Tokens /\ t \in used \ displaced
      /\ n # NoToken /\ n \in used
  BY DEF ReplayReused, Replayed, Rotated, Classify, HasLiveSuccessor, HasRotatedSuccessor, TypeOK
<1>2. n \in Tokens /\ n # t /\ parent[n] = t
  BY <1>1 DEF TypeOK, RowInv, ChainInv
<1>3. mints[t] \in 1..2
  BY <1>1 DEF RowInv, MintsInv
<1>4. CASE mints[t] = 2
  BY <1>1, <1>4 DEF RequestInv, PairInv, Paired
<1>5. CASE mints[t] = 1
  <2>1. n \notin displaced
    BY <1>1, <1>5 DEF RowInv, MintsInv
  <2>2. mints[n] \in 1..2
    BY <1>1, <1>2, <2>1 DEF RowInv, MintsInv
  <2>3. PICK r1 \in Requests : Paired(r1, t)
    BY <1>1, <1>5 DEF RequestInv, PairInv
  <2>4. PICK r2 \in Requests : Paired(r2, n)
    BY <1>2, <2>2 DEF RequestInv, PairInv
  <2> QED BY <1>2, <2>3, <2>4 DEF Paired
<1> QED BY <1>3, <1>4, <1>5

(* The alert of a reuse is the only one of the version it ends.             *)
LEMMA ReuseStep ==
    ASSUME TypeOK, RowInv, RequestInv, NEW q \in Requests, ReplayReused(q)
    PROVE  RequestInv'
<1>a. Acts(q)
  BY ActsAlone DEF Refresh
<1>1. outcome[q] = "none"
  BY <1>a, NotAnswered
<1>p. /\ outcome'[q] = "reused" /\ at'[q] = version /\ token' = token /\ seen' = seen
      /\ pc'[q] = "done" /\ version' = version + 1 /\ version \in Nat
      /\ UNCHANGED <<mints, issued, parent, displaced>> /\ token[q] \in issued
  BY DEF ReplayReused, Replayed, Locked, Rotated, End, RevokeAllSessions, TypeOK, historyVars
<1>2. PairInv'
  BY <1>a, <1>p, PairStep
<1>3. ASSUME NEW r \in Requests, r # q, outcome'[r] = "reused"
      PROVE  outcome[r] = "reused" /\ at'[r] = at[r] /\ at[r] < version /\ token[r] \in issued
  BY <1>3, <1>a DEF Acts, RequestInv, AlertInv
<1>4. AlertInv'
  <2>1. \A r \in Requests : outcome'[r] = "reused" => token'[r] \in issued' /\ at'[r] < version'
    BY <1>3, <1>p DEF TypeOK
  <2>2. \A r \in Requests : pc'[r] = "signing" => at'[r] <= version'
    BY <1>a, <1>p DEF Acts, RequestInv, AlertInv, TypeOK
  <2> QED BY <2>1, <2>2 DEF AlertInv
<1>5. OneAlertPerVersion'
  <2>1. \A r \in Requests : r # q /\ outcome'[r] = "reused" => at'[r] < version
    BY <1>3
  <2>2. ASSUME NEW r1 \in Requests, NEW r2 \in Requests, outcome'[r1] = "reused",
               outcome'[r2] = "reused", at'[r1] = at'[r2]
        PROVE  r1 = r2
    <3>1. CASE r1 # q /\ r2 # q
      BY <1>3, <2>2, <3>1 DEF RequestInv, OneAlertPerVersion
    <3>2. CASE r1 = q \/ r2 = q
      BY <1>p, <2>1, <2>2, <3>2
    <3> QED BY <3>1, <3>2
  <2> QED BY <2>2 DEF OneAlertPerVersion
<1>6. TwinsKeepTheSession'
  <2> SUFFICES ASSUME NEW r \in Requests, outcome'[r] = "reused", ~seen'[r],
                      token'[r] \notin displaced'
               PROVE  \E r1, r2 \in Requests \ {r} :
                         /\ r1 # r2 /\ outcome'[r1] = "pair" /\ outcome'[r2] = "pair"
                         /\ token'[r1] = token'[r]
                         /\ token'[r2] \in {token'[r]} \cup
                                           {s \in Tokens : parent'[s] = token'[r]}
    BY DEF TwinsKeepTheSession
  <2>1. \E r1, r2 \in Requests \ {r} :
              /\ r1 # r2 /\ outcome[r1] = "pair" /\ outcome[r2] = "pair"
              /\ token[r1] = token[r]
              /\ token[r2] \in {token[r]} \cup {s \in Tokens : parent[s] = token[r]}
    <3>1. CASE r = q
      BY <1>1, <1>p, <3>1, ReuseFinds
    <3>2. CASE r # q
      BY <1>3, <1>p, <3>2 DEF RequestInv, TwinsKeepTheSession
    <3> QED BY <3>1, <3>2
  <2> QED BY <1>1, <1>a, <1>p, <2>1 DEF Acts
<1> QED BY <1>2, <1>4, <1>5, <1>6 DEF RequestInv

(* Every other step of a request.                                           *)
LEMMA RequestStep ==
    ASSUME TypeOK, RowInv, RequestInv, NEW q \in Requests,
           SignIn(q) \/ Refresh(q) \/ Logout(q) \/ LogoutAll(q) \/ Fail(q)
    PROVE  RequestInv'
<1>a. Acts(q)
  BY ActsAlone
<1>t. /\ version \in Nat /\ issued \subseteq Tokens /\ NoToken \notin Tokens
      /\ parent \in [Tokens -> Tokens \cup {NoToken}] /\ pc \in [Requests -> Phases]
      /\ outcome \in [Requests -> Outcomes] /\ at \in [Requests -> Nat]
      /\ next \in [Tokens -> Tokens \cup {NoToken}] /\ row \subseteq issued
      /\ outcome[q] = "none"
  BY <1>a, ConstantsOK, NotAnswered DEF TypeOK
<1>1. CASE ReplayReused(q)
  BY <1>1, ReuseStep
<1>2. CASE \/ RefuseGone(q) \/ RefuseStale(q) \/ ReplayStale(q) \/ ReplayEnded(q)
           \/ LogoutAll(q) \/ LogoutWrite(q) \/ Fail(q)
           \/ \E t \in Tokens : Present(q, t) \/ LogoutRead(q, t)
  <2>1. UNCHANGED <<mints, issued, parent, displaced>>
    BY <1>2 DEF RefuseGone, RefuseStale, ReplayStale, ReplayEnded, LogoutAll, LogoutAllCheck,
       LogoutAllCommit, LogoutWrite, Fail, Present, LogoutRead, rowVars, historyVars
  <2>2. version' >= version /\ version' \in Nat
    BY <1>2, <1>t DEF RefuseGone, RefuseStale, ReplayStale, ReplayEnded, LogoutAll,
       LogoutAllCheck, LogoutAllCommit, RevokeAllSessions, LogoutWrite, Fail, Present, LogoutRead
  <2>3. pc'[q] # "signing" /\ outcome'[q] # "reused"
    <3>1. CASE \E a \in Outcomes \ {"reused"} : End(q, a)
      BY <1>t, <3>1 DEF End
    <3>2. CASE \E p \in {"locking", "leaving", "revoking"} :
                  pc' = [pc EXCEPT ![q] = p] /\ UNCHANGED outcome
      BY <1>t, <3>2
    <3>3. CASE \E t \in Tokens : Present(q, t) \/ LogoutRead(q, t)
      BY <3>1, <3>2, <3>3 DEF Present, LogoutRead, Outcomes
    <3>4. CASE RefuseGone(q) \/ RefuseStale(q) \/ ReplayStale(q) \/ ReplayEnded(q)
      BY <3>1, <3>4 DEF RefuseGone, RefuseStale, ReplayStale, ReplayEnded, Outcomes
    <3>5. CASE LogoutAll(q) \/ LogoutWrite(q) \/ Fail(q)
      BY <3>1, <3>2, <3>5 DEF LogoutAll, LogoutAllCheck, LogoutAllCommit, LogoutWrite, Fail,
         Outcomes
    <3> QED BY <1>2, <3>3, <3>4, <3>5
  <2>4. AlertInv' /\ OneAlertPerVersion' /\ TwinsKeepTheSession'
    BY <1>a, <1>t, <2>1, <2>2, <2>3, NoAlertStep
  <2>5. PairInv'
    BY <1>a, <2>1, PairStep
  <2> QED BY <2>4, <2>5 DEF RequestInv
<1>3. CASE SignInRead(q)
  <2>1. /\ UNCHANGED <<mints, issued, parent, displaced, version>>
        /\ at'[q] = version /\ outcome'[q] # "reused"
    BY <1>3, <1>t DEF SignInRead, rowVars, historyVars
  <2>2. AlertInv' /\ OneAlertPerVersion' /\ TwinsKeepTheSession'
    BY <1>a, <1>t, <2>1, NoAlertStep
  <2>3. PairInv'
    BY <1>a, <2>1, PairStep
  <2> QED BY <2>2, <2>3 DEF RequestInv
<1>4. ASSUME NEW s \in Tokens, SignInInsert(q, s) \/ Rotate(q, s) \/ Displace(q, s)
      PROVE  RequestInv'
  <2>1. Issue(s, s, at[q], NoToken) \/ Issue(s, family[token[q]], version, token[q])
    BY <1>4 DEF SignInInsert, Rotate, Displace
  <2>2. /\ s \in Tokens \ issued /\ issued' = issued \cup {s}
        /\ \A x \in issued : parent'[x] = parent[x]
    BY <1>t, <2>1 DEF Issue
  <2>3. outcome'[q] = "pair" /\ pc'[q] = "done" /\ UNCHANGED version
    BY <1>4, <1>t DEF SignInInsert, Rotate, Displace, End
  <2>4. displaced \subseteq displaced'
    BY <1>4 DEF SignInInsert, Rotate, Displace, DisplaceRow
  <2>5. parent' \in [Tokens -> Tokens \cup {NoToken}]
    BY <1>4, IssueTyped, SignInTyped DEF SignIn, TypeOK
  <2>6. AlertInv' /\ OneAlertPerVersion' /\ TwinsKeepTheSession'
    BY <1>a, <1>t, <2>2, <2>3, <2>4, <2>5, NoAlertStep
  <2>7. \/ mints' = mints
        \/ token'[q] \in Tokens /\ mints' = [mints EXCEPT ![token'[q]] = @ + 1]
    <3>1. CASE SignInInsert(q, s)
      BY <3>1 DEF SignInInsert
    <3>2. CASE Rotate(q, s)
      BY <1>t, <3>2 DEF Rotate, Locked, Live
    <3>3. CASE Displace(q, s)
      BY <1>t, <3>3 DEF Displace, Replayed, Rotated, Locked
    <3> QED BY <1>4, <3>1, <3>2, <3>3
  <2>8. PairInv'
    BY <1>a, <2>3, <2>7, PairStep
  <2> QED BY <2>6, <2>8 DEF RequestInv
<1> QED BY <1>1, <1>2, <1>3, <1>4 DEF SignIn, Refresh, Logout

(* Time and the purge answer no request.                                    *)
LEMMA CleanUpRequests ==
    ASSUME RequestInv, CleanUp
    PROVE  RequestInv'
<1>1. UNCHANGED <<requestVars, version, displaced, historyVars>>
  BY DEF CleanUp, GraceEnds, Expire, Purge, rowVars
<1> QED BY <1>1 DEF RequestInv, PairInv, Paired, AlertInv, OneAlertPerVersion,
     TwinsKeepTheSession, requestVars, historyVars

(* The invariant is inductive.                                              *)
LEMMA InvStep ==
    ASSUME IInv, [Next]_vars
    PROVE  IInv'
<1>1. TypeOK'
  BY NextTyped DEF IInv
<1>2. CASE UNCHANGED vars
  <2>1. RowInv'
    BY <1>2, RowsUntouched DEF IInv, vars, timeVars
  <2>2. RequestInv'
    BY <1>2 DEF IInv, RequestInv, PairInv, Paired, AlertInv, OneAlertPerVersion,
       TwinsKeepTheSession, vars, requestVars, rowVars, historyVars
  <2> QED BY <1>1, <2>1, <2>2 DEF IInv
<1>3. ASSUME NEW q \in Requests,
             SignIn(q) \/ Refresh(q) \/ Logout(q) \/ LogoutAll(q) \/ Fail(q)
      PROVE  IInv'
  BY <1>1, <1>3, RequestRows, RequestStep DEF IInv
<1>4. CASE CleanUp
  BY <1>1, <1>4, CleanUpRows, CleanUpRequests DEF IInv
<1> QED BY <1>2, <1>3, <1>4 DEF Next

(* The invariant holds at the start.                                        *)
LEMMA InvInit == Init => IInv
<1> SUFFICES ASSUME Init PROVE IInv
  OBVIOUS
<1>1. TypeOK
  BY InitTyped
<1>2. IssuedInv /\ ChainInv /\ MintsInv /\ SiblingInv
  BY ConstantsOK DEF Init, IssuedInv, ChainInv, MintsInv, SiblingInv
<1>3. OneLivePerFamily /\ FamilyKeepsVersion /\ StaleOnlyFromSignIn /\ RotatedIsRemembered
  BY ConstantsOK DEF Init, OneLivePerFamily, FamilyKeepsVersion, StaleOnlyFromSignIn,
     RotatedIsRemembered, Live
<1>4. RequestInv
  BY DEF Init, RequestInv, PairInv, Paired, AlertInv, OneAlertPerVersion, TwinsKeepTheSession
<1> QED BY <1>1, <1>2, <1>3, <1>4 DEF IInv, RowInv

(* The inductive invariant holds in every reachable state.                  *)
THEOREM Invariant == Spec => []IInv
<1>1. IInv /\ [Next]_vars => IInv'
  BY InvStep
<1> QED BY InvInit, <1>1, PTL DEF Spec

-----------------------------------------------------------------------------
(* What follows from it.                                                    *)

(* However many copies of a family's tokens are presented, in whatever order,
   at most one of its tokens is valid.                                      *)
THEOREM OneValidToken == Spec => []OneLivePerFamily
<1>1. IInv => OneLivePerFamily
  BY DEF IInv, RowInv
<1> QED BY Invariant, <1>1, PTL

(* Of the pairs a token was answered with, only one can ever be used to go
   on.                                                                      *)
LEMMA BranchFollows == IInv => OneBranchGoesOn
<1> SUFFICES ASSUME IInv PROVE OneBranchGoesOn
  OBVIOUS
<1>1. ASSUME NEW t \in Tokens
      PROVE  mints[t] <= IF t \in displaced THEN 0 ELSE IF t \in Legacy THEN 1 ELSE 2
  BY DEF IInv, TypeOK, RowInv, MintsInv
<1>2. ASSUME NEW s \in Tokens, NEW t \in Tokens, parent[s] = parent[t],
             parent[s] # NoToken, mints[s] > 0, mints[t] > 0
      PROVE  s = t
  <2>1. s \notin displaced /\ t \notin displaced
    BY <1>2 DEF IInv, RowInv, MintsInv
  <2> QED BY <1>2, <2>1 DEF IInv, RowInv, SiblingInv
<1> QED BY <1>1, <1>2 DEF OneBranchGoesOn

THEOREM TwoHoldersCannotTakeTurns == Spec => []OneBranchGoesOn
BY Invariant, BranchFollows, PTL

(* No chain of refreshes crosses a sign-out everywhere.                     *)
THEOREM SignOutEverywhereEndsFamilies == Spec => [](FamilyKeepsVersion /\ StaleOnlyFromSignIn)
<1>1. IInv => FamilyKeepsVersion /\ StaleOnlyFromSignIn
  BY DEF IInv, RowInv
<1> QED BY Invariant, <1>1, PTL

(* One alert for a reuse, and none for two requests that only raced.        *)
THEOREM AlertsAreMeant == Spec => [](OneAlertPerVersion /\ TwinsKeepTheSession)
<1>1. IInv => OneAlertPerVersion /\ TwinsKeepTheSession
  BY DEF IInv, RequestInv
<1> QED BY Invariant, <1>1, PTL

(* A rotated token stays known while it can be decoded.                     *)
THEOREM RotatedStaysKnown == Spec => []RotatedIsRemembered
<1>1. IInv => RotatedIsRemembered
  BY DEF IInv, RowInv
<1> QED BY Invariant, <1>1, PTL

-----------------------------------------------------------------------------
(* The handlers implement Sessions.                                         *)

(* The valid token of a family in use is the only one.                      *)
LEMMA ValidIsOne ==
    ASSUME IInv, NEW t \in Tokens, Live(t)
    PROVE  /\ family[t] \in Tokens
           /\ ValidTokens[family[t]] = {t}
<1>1. family[t] \in Tokens
  BY DEF IInv, TypeOK, RowInv, IssuedInv, Live
<1>2. \A x \in row : x \in Tokens
  BY DEF IInv, TypeOK
<1>3. \A x \in row \ revoked : family[x] = family[t] => x = t
  BY <1>2 DEF IInv, RowInv, OneLivePerFamily, Live
<1> QED BY <1>1, <1>3 DEF ValidTokens, Live

(* A family started at the version of every token of it.                    *)
LEMMA StartedOf ==
    ASSUME IInv, NEW t \in issued
    PROVE  StartedAt[family[t]] = tv[t]
<1>1. t \in Tokens /\ family[t] \in Tokens /\ family[family[t]] = family[t] /\ family[t] \in issued
  BY DEF IInv, TypeOK, RowInv, IssuedInv
<1>2. tv[family[t]] = tv[t]
  BY <1>1 DEF IInv, RowInv, FamilyKeepsVersion
<1> QED BY <1>1, <1>2 DEF StartedAt

(* A sign-in starts a session.                                              *)
LEMMA SignInStarts ==
    ASSUME IInv, NEW q \in Requests, NEW s \in Tokens, SignInInsert(q, s)
    PROVE  Promise!Start(s)
<1>p. /\ row' = row \cup {s} /\ issued' = issued \cup {s} /\ s \notin issued
      /\ family' = [family EXCEPT ![s] = s] /\ tv' = [tv EXCEPT ![s] = at[q]]
      /\ UNCHANGED <<revoked, version>>
  BY DEF SignInInsert, Issue
<1>t. /\ row \subseteq issued /\ revoked \subseteq issued /\ issued \subseteq Tokens
      /\ family \in [Tokens -> Tokens \cup {NoToken}] /\ tv \in [Tokens -> Nat]
      /\ at[q] \in 0..version
      /\ \A t \in issued : family[t] # s
      /\ \A t \in Tokens \ issued : family[t] = NoToken
      /\ NoToken \notin Tokens
  BY ConstantsOK DEF IInv, TypeOK, RowInv, IssuedInv, RequestInv, AlertInv, SignInInsert, Issue
<1>1. ValidTokens' = [ValidTokens EXCEPT ![s] = {s}]
  <2>1. ASSUME NEW f \in Tokens, f # s
        PROVE  {t \in row' \ revoked' : family'[t] = f} = {t \in row \ revoked : family[t] = f}
    BY <1>p, <1>t, <2>1
  <2>2. {t \in row' \ revoked' : family'[t] = s} = {s}
    BY <1>p, <1>t
  <2> QED BY <2>1, <2>2 DEF ValidTokens
<1>2. StartedAt' = [StartedAt EXCEPT ![s] = at[q]]
  <2>1. ASSUME NEW f \in Tokens, f # s PROVE family'[f] = family[f] /\ tv'[f] = tv[f]
    BY <1>p, <1>t, <2>1
  <2>2. family'[s] = s /\ tv'[s] = at[q]
    BY <1>p, <1>t
  <2> QED BY <2>1, <2>2 DEF StartedAt
<1> QED BY <1>p, <1>t, <1>1, <1>2 DEF Promise!Start

(* A refresh that answers with a pair exchanges the valid token of a session
   that nobody signed out of, whichever token was presented.                *)
LEMMA PairExchanges ==
    ASSUME IInv, NEW q \in Requests, NEW s \in Tokens, Rotate(q, s) \/ Displace(q, s)
    PROVE  \E f \in Tokens : Promise!Exchange(f, s)
<1> DEFINE old == IF Rotate(q, s) THEN token[q] ELSE next[token[q]]
           f == family[token[q]]
<1>1. /\ old \in Tokens /\ Live(old) /\ family[old] = f /\ token[q] \in issued
      /\ tv[token[q]] = version
  <2>1. CASE Rotate(q, s)
    BY <2>1 DEF Rotate, Live, Current, IInv, TypeOK
  <2>2. CASE ~Rotate(q, s)
    BY <2>2, DisplaceFinds DEF IInv, Live, TypeOK
  <2> QED BY <2>1, <2>2
<1>p. /\ row' = row \cup {s} /\ issued' = issued \cup {s} /\ s \notin issued
      /\ family' = [family EXCEPT ![s] = f] /\ tv' = [tv EXCEPT ![s] = version]
      /\ revoked' = revoked \cup {old}
      /\ UNCHANGED version
  BY DEF Rotate, Displace, DisplaceRow, Issue
<1> HIDE DEF old
<1>v. f \in Tokens /\ ValidTokens[f] = {old}
  BY <1>1, ValidIsOne
<1>t. /\ row \subseteq issued /\ revoked \subseteq issued /\ issued \subseteq Tokens
      /\ family \in [Tokens -> Tokens \cup {NoToken}] /\ tv \in [Tokens -> Nat]
      /\ family[s] = NoToken /\ NoToken \notin Tokens /\ f # s
  BY <1>1, <1>p, ConstantsOK DEF IInv, TypeOK, RowInv, IssuedInv
<1>2. StartedAt[f] = version
  BY <1>1, StartedOf
<1>3. ValidTokens' = [ValidTokens EXCEPT ![f] = {s}]
  <2>1. ASSUME NEW g \in Tokens, g # f
        PROVE  {t \in row' \ revoked' : family'[t] = g} = {t \in row \ revoked : family[t] = g}
    <3>1. \A t \in row' \ revoked' : family'[t] = g => t \in row \ revoked /\ family[t] = g
      BY <1>p, <1>t, <2>1
    <3>2. \A t \in row \ revoked : family[t] = g => t \in row' \ revoked' /\ family'[t] = g
      BY <1>p, <1>t, <1>1, <2>1
    <3> QED BY <3>1, <3>2
  <2>2. {t \in row' \ revoked' : family'[t] = f} = {s}
    <3>1. \A t \in row \ revoked : family[t] = f => t = old
      BY <1>v DEF ValidTokens
    <3>2. \A t \in row' \ revoked' : family'[t] = f => t = s
      BY <1>p, <1>t, <3>1
    <3>3. s \in row' \ revoked' /\ family'[s] = f
      BY <1>p, <1>t, <1>1 DEF Live
    <3> QED BY <3>2, <3>3
  <2> QED BY <2>1, <2>2 DEF ValidTokens
<1>4. StartedAt' = StartedAt
  <2>1. ASSUME NEW g \in Tokens, g # s PROVE family'[g] = family[g] /\ tv'[g] = tv[g]
    BY <1>p, <1>t, <2>1
  <2>2. family'[s] # s /\ family[s] # s
    BY <1>p, <1>t
  <2> QED BY <2>1, <2>2 DEF StartedAt
<1>5. Promise!Exchange(f, s)
  BY <1>p, <1>v, <1>2, <1>3, <1>4 DEF Promise!Exchange
<1> QED BY <1>v, <1>5

(* A live token that is revoked, or whose row is deleted, ends its session.  *)
LEMMA LossEnds ==
    ASSUME IInv, NEW t \in Tokens, Live(t),
           row' \ revoked' = (row \ revoked) \ {t},
           UNCHANGED <<family, tv, version, issued>>
    PROVE  Promise!End(family[t])
<1>1. family[t] \in Tokens /\ ValidTokens[family[t]] = {t}
  BY ValidIsOne
<1>2. ValidTokens' = [ValidTokens EXCEPT ![family[t]] = {}]
  <2>1. ASSUME NEW g \in Tokens, g # family[t]
        PROVE  {x \in row' \ revoked' : family'[x] = g} = {x \in row \ revoked : family[x] = g}
    BY <2>1
  <2>2. {x \in row' \ revoked' : family'[x] = family[t]} = {}
    <3>1. \A x \in row \ revoked : family[x] = family[t] => x = t
      BY <1>1 DEF ValidTokens
    <3>2. \A x \in row' \ revoked' : x \in row \ revoked /\ x # t /\ family'[x] = family[x]
      OBVIOUS
    <3> QED BY <3>1, <3>2
  <2> DEFINE V(g) == {x \in row' \ revoked' : family'[x] = g}
  <2>3. \A g \in Tokens : V(g) = [ValidTokens EXCEPT ![family[t]] = {}][g]
    BY <1>1, <2>1, <2>2 DEF ValidTokens
  <2>4. ValidTokens' = [g \in Tokens |-> V(g)]
    BY DEF ValidTokens
  <2> HIDE DEF V
  <2>5. [ValidTokens EXCEPT ![family[t]] = {}] =
          [g \in Tokens |-> [ValidTokens EXCEPT ![family[t]] = {}][g]]
    BY DEF ValidTokens
  <2> QED BY <2>3, <2>4, <2>5
<1>3. StartedAt' = StartedAt
  BY DEF StartedAt
<1> QED BY <1>1, <1>2, <1>3 DEF Promise!End

(* What touches no valid row is no step of a session.                       *)
LEMMA NothingValid ==
    ASSUME row' \ revoked' = row \ revoked, UNCHANGED <<family, tv, version, issued>>
    PROVE  UNCHANGED Promise!vars
BY DEF Promise!vars, ValidTokens, StartedAt

(* Signing out everywhere ends every session.                               *)
LEMMA AllEnd ==
    ASSUME RevokeAllSessions, UNCHANGED <<row, family, tv, issued>>
    PROVE  Promise!EndAll
<1>1. row' \ revoked' = {}
  BY DEF RevokeAllSessions
<1>2. ValidTokens' = [s \in Tokens |-> {}]
  BY <1>1 DEF ValidTokens
<1>3. StartedAt' = StartedAt
  BY DEF StartedAt
<1> QED BY <1>2, <1>3 DEF Promise!EndAll, RevokeAllSessions

(* Every step is a step of Sessions or a stutter.                           *)
LEMMA StepMaps ==
    ASSUME IInv, [Next]_vars
    PROVE  [Promise!Next]_(Promise!vars)
<1> USE DEF Promise!Next
<1>0. CASE UNCHANGED vars
  BY <1>0, NothingValid DEF vars, rowVars, historyVars
<1>1. ASSUME NEW q \in Requests, NEW s \in Tokens, SignInInsert(q, s)
      PROVE  Promise!Next
  BY <1>1, SignInStarts
<1>2. ASSUME NEW q \in Requests, NEW s \in Tokens, Rotate(q, s) \/ Displace(q, s)
      PROVE  Promise!Next
  BY <1>2, PairExchanges
<1>3. ASSUME NEW q \in Requests,
             \/ SignInRead(q) \/ RefuseGone(q) \/ ReplayStale(q) \/ ReplayEnded(q)
             \/ LogoutAllCheck(q) \/ Fail(q)
             \/ \E t \in Tokens : Present(q, t) \/ LogoutRead(q, t)
      PROVE  UNCHANGED Promise!vars
  <2>1. UNCHANGED <<rowVars, version, timeVars, historyVars>>
    BY <1>3 DEF SignInRead, RefuseGone, ReplayStale, ReplayEnded, LogoutAllCheck, Fail,
       Present, LogoutRead
  <2> QED BY <2>1, NothingValid DEF rowVars, historyVars
<1>4. ASSUME NEW q \in Requests, RefuseStale(q) PROVE Promise!Next
  <2> DEFINE t == token[q]
  <2>1. /\ t \in Tokens /\ Live(t) /\ row' \ revoked' = (row \ revoked) \ {t}
        /\ UNCHANGED <<family, tv, version, issued>>
    BY <1>4 DEF RefuseStale, Live, IInv, TypeOK, historyVars
  <2>2. family[t] \in Tokens /\ Promise!End(family[t])
    BY <2>1, LossEnds, ValidIsOne
  <2> QED BY <2>2
<1>5. ASSUME NEW q \in Requests, LogoutWrite(q) PROVE [Promise!Next]_(Promise!vars)
  <2> DEFINE t == token[q]
  <2>1. revoked' = revoked \cup ({t} \cap row) /\ UNCHANGED <<row, family, tv, version, issued>>
    BY <1>5 DEF LogoutWrite, historyVars
  <2>2. CASE Live(t)
    <3>1. t \in Tokens /\ row' \ revoked' = (row \ revoked) \ {t}
      BY <2>1, <2>2 DEF Live, IInv, TypeOK
    <3>2. family[t] \in Tokens /\ Promise!End(family[t])
      BY <2>1, <2>2, <3>1, LossEnds, ValidIsOne
    <3> QED BY <3>2
  <2>3. CASE ~Live(t)
    <3>1. row' \ revoked' = row \ revoked
      BY <2>1, <2>3 DEF Live
    <3> QED BY <2>1, <3>1, NothingValid
  <2> QED BY <2>2, <2>3
<1>6. ASSUME NEW q \in Requests, ReplayReused(q) \/ LogoutAllCommit(q) PROVE Promise!Next
  <2>1. RevokeAllSessions /\ UNCHANGED <<row, family, tv, issued>>
    BY <1>6 DEF ReplayReused, LogoutAllCommit, historyVars
  <2> QED BY <2>1, AllEnd
<1>7. ASSUME NEW t \in Tokens, GraceEnds(t) \/ Expire(t) PROVE UNCHANGED Promise!vars
  <2>1. UNCHANGED <<row, revoked, family, tv, version, issued>>
    BY <1>7 DEF GraceEnds, Expire, rowVars, historyVars
  <2> QED BY <2>1, NothingValid
<1>8. ASSUME NEW t \in Tokens, Purge(t) PROVE [Promise!Next]_(Promise!vars)
  <2>1. row' = row \ {t} /\ UNCHANGED <<revoked, family, tv, version, issued>>
    BY <1>8 DEF Purge, historyVars
  <2>2. CASE Live(t)
    <3>1. row' \ revoked' = (row \ revoked) \ {t}
      BY <2>1
    <3>2. family[t] \in Tokens /\ Promise!End(family[t])
      BY <2>1, <2>2, <3>1, LossEnds, ValidIsOne
    <3> QED BY <3>2
  <2>3. CASE ~Live(t)
    <3>1. row' \ revoked' = row \ revoked
      BY <2>1, <2>3 DEF Live
    <3> QED BY <2>1, <3>1, NothingValid
  <2> QED BY <2>2, <2>3
<1>9. CASE CleanUp
  BY <1>7, <1>8, <1>9 DEF CleanUp
<1>10. ASSUME NEW q \in Requests, SignIn(q) \/ Logout(q) \/ LogoutAll(q) \/ Fail(q)
       PROVE  [Promise!Next]_(Promise!vars)
  BY <1>1, <1>3, <1>5, <1>6, <1>10 DEF SignIn, Logout, LogoutAll
<1>11. ASSUME NEW q \in Requests, Refresh(q) PROVE [Promise!Next]_(Promise!vars)
  BY <1>2, <1>3, <1>4, <1>6, <1>11 DEF Refresh
<1> QED BY <1>0, <1>9, <1>10, <1>11 DEF Next

(* The rows at the start are sessions at the start.                         *)
LEMMA InitMaps == Init => Promise!Init
<1> SUFFICES ASSUME Init PROVE Promise!Init
  OBVIOUS
<1>1. ASSUME NEW f \in Tokens
      PROVE  {t \in row \ revoked : family[t] = f} = {f} \cap Legacy
  BY <1>1, ConstantsOK DEF Init
<1>2. ValidTokens = [s \in Tokens |-> {s} \cap Legacy]
  BY <1>1 DEF ValidTokens
<1>3. StartedAt = [s \in Tokens |-> 0]
  BY DEF Init, StartedAt
<1> QED BY <1>2, <1>3 DEF Init, Promise!Init

(* Whatever requests race, are repeated or fail, a session has one valid
   token, is continued only at the version it started at, and once ended
   never comes back.                                                        *)
THEOREM Refinement == Spec => KeepsPromise
<1>1. IInv /\ [Next]_vars => [Promise!Next]_(Promise!vars)
  BY StepMaps
<1> QED BY Invariant, InitMaps, <1>1, PTL DEF Spec, KeepsPromise, Promise!Spec
=============================================================================
