----------------------------- MODULE AppSession ------------------------------
(* The app's session: the token pair in the Keychain, the install marker in   *)
(* AsyncStorage, the launch check, the request gate, the shared refresh, and  *)
(* signing in and out, as steps that interleave at every await.  The Keychain *)
(* survives an uninstall, AsyncStorage does not; a kill may end the process   *)
(* at any moment, and any call of either storage may fail.                    *)
(* The server keeps one live version per session (Sessions and RefreshFamily  *)
(* model it in full).                                                         *)
EXTENDS Naturals

CONSTANTS MaxSession,    \* sign-ins, the one before the first launch included
          MaxVersion,    \* rotations of one session
          MaxLaunches, MaxInstalls,
          MaxFaults,     \* storage calls that fail in one launch
          Calls,         \* requests in flight at once; "me" is GET /auth/me
          None

\* The session before the first launch is one; a token is a record, so no None.
ConstantsOK ==
    /\ {MaxSession, MaxVersion, MaxLaunches, MaxInstalls, MaxFaults} \subseteq Nat
    /\ MaxSession >= 1 /\ "me" \in Calls /\ None \notin [s : Nat, v : Nat]

VARIABLES access, refresh,   \* the Keychain: None or a token [s, v]
          marker,            \* "none", "pending" or "done"
          others,            \* whether AsyncStorage holds other keys
          server,            \* [cur, dead]: live version per session, revoked ones
          issued, mine,      \* sessions so far; those signed in on this install
          torn,              \* an old install's tokens may pass for this one's
          up, launches, installs, faults,
          app,               \* [gate, superseded, changed, loading, authed, left, spilt]
          check,             \* the install check
          entry,             \* AuthProvider's launch effect
          login, leave, out, \* storeSession; logout; lib/api's signOut
          rotation,          \* refreshAccessToken
          calls

storage == <<access, refresh, marker, others>>
world == <<server, issued, mine, torn, up, launches, installs>>
procs == <<app, check, entry, login, leave, out, rotation, calls>>
vars == <<storage, world, faults, procs>>

Sessions == 1..MaxSession
Idle == "idle"
NoCall == [at |-> Idle, old |-> FALSE, tok |-> None, again |-> FALSE, revoked |-> FALSE]
NoRotation == [at |-> Idle, old |-> FALSE, tok |-> None, new |-> None]
Waiting == [gate |-> "waiting", superseded |-> FALSE, changed |-> FALSE,
            loading |-> TRUE, authed |-> FALSE, left |-> FALSE, spilt |-> FALSE]

\* A storage call fails; MaxFaults bounds the failures of a launch.
Fault == faults < MaxFaults /\ faults' = faults + 1
NoFault == faults' = faults

\* gateStoredSession and resumeStoredSession: what began before is from then on
\* of an earlier epoch.
Bump ==
    /\ rotation' = [rotation EXCEPT !.old = TRUE]
    /\ calls' = [c \in Calls |-> [calls[c] EXCEPT !.old = TRUE]]

-----------------------------------------------------------------------------
\* A process starts, with the check begun while AuthProvider first renders.
Launch ==
    /\ ~up /\ launches < MaxLaunches
    /\ up' = TRUE /\ launches' = launches + 1 /\ faults' = 0
    /\ app' = Waiting /\ check' = "reading" /\ entry' = "checking"
    /\ UNCHANGED <<storage, server, issued, mine, torn, installs, login, leave, out, rotation, calls>>

Stop ==
    /\ up' = FALSE
    /\ app' = Waiting /\ check' = Idle /\ entry' = Idle /\ login' = Idle
    /\ leave' = [at |-> Idle, todo |-> {}, failed |-> FALSE] /\ out' = Idle
    /\ rotation' = NoRotation /\ calls' = [c \in Calls |-> NoCall]

\* torn, for a login: it has superseded the check, and is cut short before both
\* its tokens are written.
Kill ==
    /\ up /\ Stop
    /\ torn' = (torn \/ login \notin {Idle, "posting"})
    /\ UNCHANGED <<storage, server, issued, mine, launches, installs, faults>>

\* The app is removed and installed again: the Keychain keeps the tokens.
Reinstall ==
    /\ ~up /\ installs < MaxInstalls
    /\ installs' = installs + 1 /\ marker' = "none" /\ others' = FALSE /\ mine' = {}
    /\ torn' = FALSE
    /\ UNCHANGED <<access, refresh, server, issued, up, launches, faults, procs>>

\* ScanJobProvider saves its list once it has loaded it.  AsyncStorage runs calls
\* in the order they are issued: the check's read of all keys comes before that
\* load, and the marker it then writes before that save.
WriteOther ==
    /\ up /\ check \notin {"reading", "flagging", "excusing"} /\ ~others
    /\ others' = TRUE
    /\ UNCHANGED <<access, refresh, marker, world, faults, procs>>

-----------------------------------------------------------------------------
\* The check's result reaches the gate unless the 5 s are over or a login has
\* put another gate in its place.
Over(usable) ==
    /\ check' = "over"
    /\ app' = [app EXCEPT !.gate = IF @ # "waiting" THEN @ ELSE IF usable THEN "open" ELSE "shut"]

OtherThanCheck ==
    <<server, issued, mine, up, launches, installs, entry, login, leave, out, rotation, calls>>

\* Mutant: an install with other keys is an upgrade, whatever its marker.
UpgradeFirst == marker = "pending" /\ ~others

WipeUnfinished == marker = "pending"

\* runInstallCheck: the keys and the marker are read.
CheckRead ==
    /\ check = "reading"
    /\ \/ Fault /\ check' = "excusing" /\ UNCHANGED app
       \/ /\ NoFault
          /\ IF marker = "done" THEN Over(TRUE)
             ELSE /\ check' = IF WipeUnfinished THEN "looking"
                              ELSE IF others THEN "adopting" ELSE "flagging"
                  /\ UNCHANGED app
    /\ UNCHANGED <<storage, torn, OtherThanCheck>>

\* writeMarker with fromCheck: skipped once a login has superseded the check,
\* and best effort: a 'pending' that is not written leaves no trace of the wipe
\* that is due.
MarkerWritten(value) ==
    IF app.superseded THEN NoFault /\ UNCHANGED <<marker, torn>>
    ELSE \/ NoFault /\ marker' = value /\ UNCHANGED torn
         \/ /\ Fault /\ UNCHANGED marker
            /\ torn' = (torn \/ (value = "pending" /\ marker = "none"))

CheckWrite ==
    /\ check \in {"excusing", "adopting", "flagging", "marking"}
    /\ MarkerWritten(IF check \in {"excusing", "flagging"} THEN "pending" ELSE "done")
    /\ IF check = "flagging" THEN check' = "looking" /\ UNCHANGED app
       ELSE Over(check # "excusing")
    /\ UNCHANGED <<access, refresh, others, OtherThanCheck>>

Superseded == app.superseded

\* wipeTokens.
CheckLook ==
    /\ check = "looking"
    /\ \/ Superseded /\ NoFault /\ Over(FALSE)
       \/ ~Superseded /\ NoFault /\ check' = "erasing access" /\ UNCHANGED app
       \/ Fault /\ Over(FALSE)
    /\ UNCHANGED <<storage, torn, OtherThanCheck>>

CheckErase ==
    /\ check \in {"erasing access", "erasing refresh"}
    /\ \/ /\ NoFault
          /\ IF check = "erasing access"
             THEN access' = None /\ check' = "erasing refresh" /\ UNCHANGED <<refresh, torn>>
             ELSE refresh' = None /\ check' = "marking" /\ torn' = FALSE /\ UNCHANGED access
          /\ UNCHANGED app
       \/ Fault /\ Over(FALSE) /\ UNCHANGED <<access, refresh, torn>>
    /\ UNCHANGED <<marker, others, OtherThanCheck>>

\* INSTALL_CHECK_TIMEOUT_MS is over; the check goes on.
CheckLate ==
    /\ up /\ app.gate = "waiting"
    /\ app' = [app EXCEPT !.gate = "shut"]
    /\ UNCHANGED <<storage, torn, faults, check, OtherThanCheck>>

-----------------------------------------------------------------------------
\* The launch effect: loading ends, and the user's own sign-in or sign-out
\* meanwhile stands.
Enter(authed) ==
    /\ entry' = Idle
    /\ app' = [app EXCEPT !.loading = FALSE, !.authed = IF app.changed THEN @ ELSE authed]

EntryStart ==
    /\ entry = "checking" /\ app.gate # "waiting"
    /\ \/ NoFault /\ (app.gate = "shut" \/ access = None) /\ Enter(FALSE) /\ UNCHANGED calls
       \/ Fault /\ app.gate = "open" /\ Enter(FALSE) /\ UNCHANGED calls
       \/ /\ NoFault /\ app.gate = "open" /\ access # None
          /\ entry' = "confirming"
          /\ calls' = [calls EXCEPT !["me"] = [NoCall EXCEPT !.at = "opening"]]
          /\ UNCHANGED app
    /\ UNCHANGED <<storage, world, check, login, leave, out, rotation>>

\* checkSession has its answer: dead when a 401 left a token missing.
EntryAnswer ==
    /\ entry = "confirming" /\ calls["me"].at \in {"answered", "rejected"}
    /\ calls' = [calls EXCEPT !["me"] = NoCall]
    /\ \/ /\ NoFault
          /\ IF calls["me"].at = "rejected" /\ (access = None \/ refresh = None)
             THEN entry' = "clearing access" /\ UNCHANGED app
             ELSE Enter(TRUE)
       \/ calls["me"].at = "rejected" /\ Fault /\ Enter(TRUE)
    /\ UNCHANGED <<storage, world, check, login, leave, out, rotation>>

\* SESSION_CHECK_TIMEOUT_MS is over: unknown, so signed in.
EntryLate ==
    /\ entry = "confirming" /\ Enter(TRUE)
    /\ UNCHANGED <<storage, world, faults, check, login, leave, out, rotation, calls>>

\* A dead session's tokens are deleted, as far as the storage does it.
EntryClear ==
    /\ entry \in {"clearing access", "clearing refresh"}
    /\ \/ /\ NoFault
          /\ IF entry = "clearing access"
             THEN access' = None /\ entry' = "clearing refresh" /\ UNCHANGED <<refresh, app>>
             ELSE refresh' = None /\ Enter(FALSE) /\ UNCHANGED access
       \/ Fault /\ Enter(FALSE) /\ UNCHANGED <<access, refresh>>
    /\ UNCHANGED <<marker, others, world, check, login, leave, out, rotation, calls>>

-----------------------------------------------------------------------------
\* Whether a process of the request layer or a sign-out is between two storage
\* calls.  Storage is prompt: a sign-in, which goes to Google and the server and
\* back, does not fit between two of them.
InStorage ==
    \/ out # Idle \/ leave.at # Idle
    \/ rotation.at \in {"reading", "writing access", "writing refresh",
                        "dropping access", "dropping refresh"}

\* The login screen shows once loading has ended signed out.
Login ==
    /\ up /\ login = Idle /\ ~app.loading /\ ~app.authed /\ leave.at = Idle
    /\ issued < MaxSession
    /\ login' = "posting"
    /\ UNCHANGED <<storage, world, faults, app, check, entry, leave, out, rotation, calls>>

\* POST /auth/google answers, and storeSession supersedes the check.
LoginAnswer ==
    /\ login = "posting" /\ ~InStorage
    /\ issued' = issued + 1 /\ mine' = mine \cup {issued + 1}
    /\ login' = "superseding" /\ app' = [app EXCEPT !.superseded = TRUE, !.left = FALSE]
    /\ UNCHANGED <<storage, server, torn, up, launches, installs, faults, check, entry, leave, out,
                   rotation, calls>>

\* Mutant: a login does not wait for the deletes the check has started.
NoWait == TRUE

DeletesDone == check \notin {"erasing access", "erasing refresh"}

LoginStore ==
    /\ \/ /\ login = "superseding" /\ DeletesDone
          /\ login' = "storing access" /\ UNCHANGED <<access, refresh>>
       \/ /\ login = "storing access"
          /\ access' = [s |-> issued, v |-> 0] /\ login' = "storing refresh" /\ UNCHANGED refresh
       \/ /\ login = "storing refresh"
          /\ refresh' = [s |-> issued, v |-> 0] /\ login' = "marking" /\ UNCHANGED access
    /\ UNCHANGED <<marker, others, world, faults, app, check, entry, leave, out, rotation, calls>>

\* A token cannot be written: the login is rejected, and the check it superseded
\* stays so.
LoginFails ==
    /\ login \in {"storing access", "storing refresh"} /\ Fault
    /\ login' = Idle /\ torn' = TRUE
    /\ UNCHANGED <<storage, server, issued, mine, up, launches, installs, app, check, entry, leave,
                   out, rotation, calls>>

\* markInstallDone, then the gate is lifted.
LoginEnd ==
    /\ login = "marking"
    /\ \/ NoFault /\ marker' = "done"
       \/ Fault /\ UNCHANGED marker
    /\ login' = Idle /\ torn' = FALSE /\ Bump
    /\ app' = [app EXCEPT !.changed = TRUE, !.gate = "open", !.authed = TRUE, !.spilt = FALSE]
    /\ UNCHANGED <<access, refresh, others, server, issued, mine, up, launches, installs, check,
                   entry, leave, out>>

-----------------------------------------------------------------------------
\* logout: the gate is closed, then both deletes run.
LogOut ==
    /\ leave' = [at |-> "deleting", todo |-> {"access", "refresh"}, failed |-> FALSE]
    /\ app' = [app EXCEPT !.gate = "shut"]
    /\ Bump

\* The Settings button: serverLogout waits for a refresh in flight, or for its
\* 5 s, and revokes the refresh token it reads, or fails.
PressSignOut ==
    /\ up /\ app.authed /\ ~app.loading /\ leave.at = Idle /\ out = Idle /\ login = Idle
    /\ leave' = [leave EXCEPT !.at = "revoking"]
    /\ UNCHANGED <<storage, world, faults, app, check, entry, login, out, rotation, calls>>

Revoke ==
    /\ leave.at = "revoking"
    /\ \/ /\ rotation.at = Idle /\ refresh # None
          /\ server' = [server EXCEPT !.dead = @ \cup {refresh.s}]
       \/ UNCHANGED server
    /\ LogOut
    /\ UNCHANGED <<storage, issued, mine, torn, up, launches, installs, faults, check, entry, login,
                   out>>

LeaveDelete(slot) ==
    /\ leave.at = "deleting" /\ slot \in leave.todo
    /\ \/ /\ NoFault
          /\ access' = IF slot = "access" THEN None ELSE access
          /\ refresh' = IF slot = "refresh" THEN None ELSE refresh
          /\ leave' = [leave EXCEPT !.todo = @ \ {slot}]
       \/ /\ Fault /\ UNCHANGED <<access, refresh>>
          /\ leave' = [leave EXCEPT !.todo = @ \ {slot}, !.failed = TRUE]
    /\ UNCHANGED <<marker, others, world, app, check, entry, login, out, rotation, calls>>

\* Mutant: a delete that failed is not marked for the next launch.
LeavesUnmarked == UNCHANGED marker /\ NoFault

LeaveMark ==
    IF ~leave.failed THEN UNCHANGED marker /\ NoFault
    ELSE \/ NoFault /\ marker' = "pending"
         \/ Fault /\ UNCHANGED marker

\* spilt, for a sign-out: its wipe is due, and no marker says so.
LeaveEnd ==
    /\ leave.at = "deleting" /\ leave.todo = {}
    /\ LeaveMark
    /\ leave' = [leave EXCEPT !.at = Idle] /\ Bump
    /\ app' = [app EXCEPT !.gate = "shut", !.changed = TRUE, !.authed = FALSE, !.left = TRUE,
                          !.spilt = @ \/ (leave.failed /\ marker' # "pending")]
    /\ UNCHANGED <<access, refresh, others, world, check, entry, login, out>>

\* signOut of the request layer: both tokens, then AuthProvider's logout.
OutDelete ==
    /\ \/ out = "access" /\ access' = None /\ out' = "refresh" /\ UNCHANGED refresh
       \/ out = "refresh" /\ refresh' = None /\ out' = "calling back" /\ UNCHANGED access
    /\ UNCHANGED <<marker, others, world, faults, app, check, entry, login, leave, rotation,
                   calls>>

AwaitsSignOut(c) ==
    \/ calls[c].at = "signing out"
    \/ calls[c].at = "refreshing" /\ rotation.at = "signing out"

\* A delete fails: what awaited the sign-out ends with that error, which is no
\* 401, and the app stays signed in.
OutFails ==
    /\ out \in {"access", "refresh"} /\ Fault /\ out' = Idle
    /\ rotation' = IF rotation.at = "signing out" THEN NoRotation ELSE rotation
    /\ calls' = [c \in Calls |->
                    IF AwaitsSignOut(c) THEN [calls[c] EXCEPT !.at = "answered"] ELSE calls[c]]
    /\ UNCHANGED <<storage, world, app, check, entry, login, leave>>

\* What awaited the sign-out goes on.
OutEnd ==
    /\ out = "calling back" /\ out' = Idle
    /\ leave' = [at |-> "deleting", todo |-> {"access", "refresh"}, failed |-> FALSE]
    /\ app' = [app EXCEPT !.gate = "shut"]
    /\ rotation' = IF rotation.at = "signing out" THEN NoRotation
                   ELSE [rotation EXCEPT !.old = TRUE]
    /\ calls' = [c \in Calls |->
                    IF AwaitsSignOut(c) THEN [calls[c] EXCEPT !.at = "rejected", !.old = TRUE]
                    ELSE [calls[c] EXCEPT !.old = TRUE]]
    /\ UNCHANGED <<storage, world, faults, check, entry, login>>

-----------------------------------------------------------------------------
\* A request of a signed-in screen, or the launch's own: it waits for the gate
\* and carries the stored access token when the gate is open.
Open(c) ==
    /\ up /\ app.authed /\ c # "me" /\ calls[c].at = Idle
    /\ calls' = [calls EXCEPT ![c] = [NoCall EXCEPT !.at = "opening"]]
    /\ UNCHANGED <<storage, world, faults, app, check, entry, login, leave, out, rotation>>

\* A call ends; only checkSession looks at how.
Done(c, how) ==
    calls' = [calls EXCEPT ![c] =
                 IF c = "me" /\ entry = "confirming" THEN [NoCall EXCEPT !.at = how] ELSE NoCall]

Send(c) ==
    /\ calls[c].at = "opening" /\ app.gate # "waiting"
    /\ \/ /\ NoFault
          /\ calls' = [calls EXCEPT ![c] = [@ EXCEPT !.at = "sent", !.old = FALSE,
                                              !.tok = IF app.gate = "open" THEN access ELSE None]]
       \/ app.gate = "open" /\ Fault /\ Done(c, "answered")
    /\ UNCHANGED <<storage, world, app, check, entry, login, leave, out, rotation>>

\* 200, or a failure that is no 401 (repeating an idempotent call changes
\* nothing here).
Answer(c) ==
    /\ calls[c].at = "sent" /\ calls[c].tok # None
    /\ calls[c].tok.s \notin server.dead
    /\ Done(c, "answered")
    /\ UNCHANGED <<storage, world, faults, app, check, entry, login, leave, out, rotation>>

\* 401: the token has expired, or its session is revoked.
Unauthorised(c, revoked) ==
    /\ calls[c].at = "sent"
    /\ revoked => calls[c].tok # None /\ calls[c].tok.s \in server.dead
    /\ calls' = [calls EXCEPT ![c].at = "refused", ![c].revoked = revoked]
    /\ UNCHANGED <<storage, world, faults, app, check, entry, login, leave, out, rotation>>

Stale(c) == calls[c].tok # None /\ calls[c].tok # access

\* The response interceptor's 401 branch, the stored token read.
Handle(c) ==
    /\ calls[c].at = "refused"
    /\ IF app.gate # "open" \/ calls[c].old \/ (calls[c].revoked /\ Stale(c))
           \/ (~calls[c].revoked /\ (calls[c].again \/ (Stale(c) /\ access = None)))
       THEN Done(c, "rejected") /\ UNCHANGED <<out, rotation>>
       ELSE IF calls[c].revoked
       THEN /\ out' = IF out = Idle THEN "access" ELSE out
            /\ calls' = [calls EXCEPT ![c].at = "signing out"]
            /\ UNCHANGED rotation
       ELSE IF Stale(c)
       THEN /\ calls' = [calls EXCEPT ![c].at = "sent", ![c].again = TRUE, ![c].tok = access]
            /\ UNCHANGED <<out, rotation>>
       ELSE /\ rotation' = IF rotation.at = Idle THEN [NoRotation EXCEPT !.at = "reading"]
                           ELSE rotation
            /\ calls' = [calls EXCEPT ![c].at = "refreshing", ![c].again = TRUE]
            /\ UNCHANGED out
    /\ UNCHANGED <<storage, world, faults, app, check, entry, login, leave>>

\* That read fails: the call ends with an error that is no 401.
HandleFails(c) ==
    /\ calls[c].at = "refused" /\ app.gate = "open" /\ ~calls[c].old
    /\ Fault /\ Done(c, "answered")
    /\ UNCHANGED <<storage, world, app, check, entry, login, leave, out, rotation>>

\* A refused call whose sign-out or refresh was the last thing it waited for.
Reject(c) ==
    /\ calls[c].at \in {"rejected", "answered"} /\ ~(c = "me" /\ entry = "confirming")
    /\ calls' = [calls EXCEPT ![c] = NoCall]
    /\ UNCHANGED <<storage, world, faults, app, check, entry, login, leave, out, rotation>>

\* The refresh settles: those that shared it go on with its token, or without,
\* or end with its error.
Settled(token) ==
    /\ rotation' = NoRotation
    /\ calls' = [c \in Calls |->
                    IF calls[c].at # "refreshing" THEN calls[c]
                    ELSE IF token = None THEN [calls[c] EXCEPT !.at = "rejected"]
                    ELSE [calls[c] EXCEPT !.at = "sent", !.tok = token]]

SettledInError ==
    /\ rotation' = NoRotation
    /\ calls' = [c \in Calls |->
                    IF calls[c].at # "refreshing" THEN calls[c]
                    ELSE [calls[c] EXCEPT !.at = "answered"]]

RotateRead ==
    /\ rotation.at = "reading"
    /\ \/ NoFault /\ refresh = None /\ Settled(None)
       \/ /\ NoFault /\ refresh # None
          /\ rotation' = [rotation EXCEPT !.at = "posting", !.tok = refresh] /\ UNCHANGED calls
       \/ Fault /\ SettledInError
    /\ UNCHANGED <<storage, world, app, check, entry, login, leave, out>>

\* The server rotates the pair and the answer comes, or is lost.
RotateAnswer(lost) ==
    LET s == rotation.tok.s
        new == [s |-> s, v |-> server.cur[s] + 1]
    IN  /\ rotation.at = "posting" /\ s \notin server.dead /\ server.cur[s] < MaxVersion
        /\ server' = [server EXCEPT !.cur[s] = @ + 1]
        /\ IF lost \/ rotation.old THEN Settled(None)
           ELSE rotation' = [rotation EXCEPT !.at = "writing access", !.new = new] /\ UNCHANGED calls
        /\ UNCHANGED <<storage, issued, mine, torn, up, launches, installs, faults, app, check, entry,
                       login, leave, out>>

\* 429, 5xx or no network: the tokens stay.
RotateFail ==
    /\ rotation.at = "posting" /\ Settled(None)
    /\ UNCHANGED <<storage, world, faults, app, check, entry, login, leave, out>>

\* 401: the session is over, for a reused token every one of it.
RotateRefused ==
    /\ rotation.at = "posting"
    /\ rotation.tok.s \in server.dead \/ rotation.tok.v < server.cur[rotation.tok.s]
    /\ server' = [server EXCEPT !.dead = @ \cup {rotation.tok.s}]
    /\ IF rotation.old THEN Settled(None) /\ UNCHANGED out
       ELSE /\ rotation' = [rotation EXCEPT !.at = "signing out"]
            /\ out' = (IF out = Idle THEN "access" ELSE out) /\ UNCHANGED calls
    /\ UNCHANGED <<storage, issued, mine, torn, up, launches, installs, faults, app, check, entry,
                   login, leave>>

\* Mutant: what a refresh wrote while a sign-out began stays.
Kept == FALSE

Outdated == rotation.old

RotateWrite ==
    /\ \/ /\ rotation.at = "writing access" /\ access' = rotation.new
          /\ rotation' = [rotation EXCEPT !.at = "writing refresh"]
          /\ UNCHANGED <<refresh, calls>>
       \/ /\ rotation.at = "writing refresh" /\ refresh' = rotation.new
          /\ IF Outdated THEN rotation' = [rotation EXCEPT !.at = "dropping access"] /\ UNCHANGED calls
             ELSE Settled(rotation.new)
          /\ UNCHANGED access
    /\ UNCHANGED <<marker, others, world, faults, app, check, entry, login, leave, out>>

\* dropWrittenTokens: only what this refresh wrote.
RotateDrop ==
    /\ \/ /\ rotation.at = "dropping access"
          /\ access' = IF access = rotation.new THEN None ELSE access
          /\ rotation' = [rotation EXCEPT !.at = "dropping refresh"]
          /\ UNCHANGED <<refresh, calls>>
       \/ /\ rotation.at = "dropping refresh"
          /\ refresh' = IF refresh = rotation.new THEN None ELSE refresh
          /\ Settled(None) /\ UNCHANGED access
    /\ UNCHANGED <<marker, others, world, faults, app, check, entry, login, leave, out>>

\* A write or a delete of those fails: the refresh gives no token.  spilt, for a
\* refresh: a sign-out has overtaken it, and what it wrote stays.
RotateStops ==
    /\ rotation.at \in {"writing access", "writing refresh", "dropping access", "dropping refresh"}
    /\ Fault /\ Settled(None)
    /\ app' = [app EXCEPT !.spilt = @ \/ (rotation.old /\ rotation.at # "writing access")]
    /\ UNCHANGED <<storage, world, check, entry, login, leave, out>>

-----------------------------------------------------------------------------
\* Before the first launch modelled: an install of this build, one of an earlier
\* build (no marker), or a new install on a phone with an old one's tokens.
Init ==
    /\ access = [s |-> 1, v |-> 0] /\ refresh = [s |-> 1, v |-> 0]
    /\ \/ marker = "done" /\ others = TRUE /\ mine = {1}
       \/ marker = "none" /\ others = TRUE /\ mine = {1}
       \/ marker = "none" /\ others = FALSE /\ mine = {}
    /\ server = [cur |-> [s \in Sessions |-> 0], dead |-> {}]
    /\ issued = 1 /\ torn = FALSE /\ up = FALSE /\ launches = 0 /\ installs = 1 /\ faults = 0
    /\ app = Waiting /\ check = Idle /\ entry = Idle /\ login = Idle
    /\ leave = [at |-> Idle, todo |-> {}, failed |-> FALSE] /\ out = Idle
    /\ rotation = NoRotation /\ calls = [c \in Calls |-> NoCall]

Phone == Launch \/ Kill \/ Reinstall \/ WriteOther

Check == CheckRead \/ CheckWrite \/ CheckLook \/ CheckErase \/ CheckLate

Entry == EntryStart \/ EntryAnswer \/ EntryLate \/ EntryClear

User ==
    \/ Login \/ LoginAnswer \/ LoginStore \/ LoginFails \/ LoginEnd
    \/ PressSignOut \/ Revoke \/ LeaveEnd \/ \E slot \in {"access", "refresh"} : LeaveDelete(slot)

Requests ==
    \/ \E c \in Calls :
          \/ Open(c) \/ Send(c) \/ Answer(c) \/ Handle(c) \/ HandleFails(c) \/ Reject(c)
          \/ \E revoked \in BOOLEAN : Unauthorised(c, revoked)
    \/ OutDelete \/ OutFails \/ OutEnd

Rotation ==
    \/ RotateRead \/ RotateFail \/ RotateRefused \/ RotateWrite \/ RotateDrop \/ RotateStops
    \/ \E lost \in BOOLEAN : RotateAnswer(lost)

Next == Phone \/ Check \/ Entry \/ User \/ Requests \/ Rotation

Spec == Init /\ [][Next]_vars

-----------------------------------------------------------------------------
Quiet == out = Idle /\ leave.at = Idle /\ login = Idle /\ rotation.at = Idle

\* After a sign-out nothing of the session is left on the phone, whatever
\* refresh was writing its tokens at that moment; or, when a delete failed, the
\* next launch will wipe it.  Excused while `spilt`: the sign-out could neither
\* delete nor mark, or the overtaken refresh could not take back what it wrote.
SignedOutIsEmpty ==
    up /\ app.left /\ Quiet /\ ~app.spilt =>
        (access = None /\ refresh = None) \/ marker = "pending"

\* Once a login has stored its session, no launch check, refresh or late 401 of
\* an earlier one takes a token of it away or puts another's there, whatever
\* storage calls fail: until the server ends the session, both are there.
SignedInHoldsItsTokens ==
    up /\ app.authed /\ app.changed /\ Quiet =>
        /\ access # None => access.s = issued
        /\ refresh # None => refresh.s = issued
        /\ issued \notin server.dead => access # None /\ refresh # None

\* No token left in the Keychain by an earlier install is ever put on a request
\* or used to refresh, whatever storage calls fail and wherever the process is
\* killed.  Excused while `torn`, until a login stores both tokens, a wipe ends
\* or the app is installed anew: a login was cut short, or the 'pending' of a
\* check that had yet to wipe was not written.
SpeaksForThisInstall ==
    ~torn =>
    /\ \A c \in Calls : calls'[c].tok \notin {None, calls[c].tok} => calls'[c].tok.s \in mine
    /\ rotation'.tok \notin {None, rotation.tok} => rotation'.tok.s \in mine

\* No old install's token is sent, as above, in every step.
OldInstallNeverSpeaks == [][SpeaksForThisInstall]_vars
=============================================================================
