------------------------------- MODULE Sessions -------------------------------
(***************************************************************************)
(* What the backend promises of a user's sessions, without a word on how:   *)
(* docs/api.md and the comments of auth/refresh_family.py.                  *)
(*                                                                         *)
(* A session is named by its first token.  It has at most one valid token;  *)
(* a refresh exchanges that token for one never seen before, and only while *)
(* nobody signed out everywhere since the session started.  A session that  *)
(* ended never comes back.                                                  *)
(***************************************************************************)
EXTENDS Naturals

CONSTANTS Tokens, Legacy

VARIABLES
    valid,     \* the valid token of each session, if it has one
    started,   \* the token_version at which it started
    version,   \* how often the user signed out everywhere
    issued     \* the tokens handed out so far

vars == <<valid, started, version, issued>>

Init ==
    /\ valid = [s \in Tokens |-> {s} \cap Legacy]
    /\ started = [s \in Tokens |-> 0]
    /\ version = 0
    /\ issued = Legacy

(* A session may start at a version that has just ended: it can be signed
   out of, but never refreshed.                                             *)
Start(s) ==
    /\ s \in Tokens \ issued
    /\ valid' = [valid EXCEPT ![s] = {s}]
    /\ \E v \in 0..version : started' = [started EXCEPT ![s] = v]
    /\ issued' = issued \cup {s}
    /\ UNCHANGED version

Exchange(s, t) ==
    /\ valid[s] # {} /\ started[s] = version
    /\ t \in Tokens \ issued
    /\ valid' = [valid EXCEPT ![s] = {t}]
    /\ issued' = issued \cup {t}
    /\ UNCHANGED <<started, version>>

End(s) ==
    /\ valid[s] # {}
    /\ valid' = [valid EXCEPT ![s] = {}]
    /\ UNCHANGED <<started, version, issued>>

EndAll ==
    /\ valid' = [s \in Tokens |-> {}]
    /\ version' = version + 1
    /\ UNCHANGED <<started, issued>>

Next ==
    \/ \E s \in Tokens : Start(s) \/ End(s)
    \/ \E s, t \in Tokens : Exchange(s, t)
    \/ EndAll

Spec == Init /\ [][Next]_vars
=============================================================================
