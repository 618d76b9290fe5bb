# A TLA+ model of BookshelfAI

BookshelfAI is a FastAPI backend (`src/backend/app`) with a Postgres database and
an Expo / React Native app (`src/frontend`). A user photographs a shelf; the app
queues the photo and posts it to `/scan`; the backend asks an AI provider which
books it shows, looks them up in the open book catalogues, and the user adds them
to a library. The hard part of the code is not the recognition: it is keeping
counters, leases, sessions and saved answers right while requests race, replies
are lost and processes die. That is what this project models.

## 1. Inventory

| Component | State it keeps | Operations | Interacts with |
|---|---|---|---|
| AI scan allowance (`ai/quota/*`, `ai/breaker.py`) | `ai_inflight` (one lease row per user), `ai_quota` (found / no-match units per user and day), `ai_spend_daily` (reserved and settled micros), `ai_usage` (ledger), `ai_enhanced_zero_results` (sliding window) | `reserve`, `refund`, `release` (settle), `renew_lease`, move to no-match, record a zero result | the scan request calls it around one provider call |
| Scan request (`api/scan.py`, `services/scan/*`, `core/file_*.py`, `ai/images.py`) | one snapshot of the settings per request, `scan_requests`, the pool of image workers | kill switch, count, bot check, file checks, decode, saved answer, reserve, call, settle | nearly every other part of the service |
| Provider gateway (`ai/gateway.py`, `ai/providers/*`, `ai/prices.py`) | none | send, retry, time out, read a reply, price it | the provider; the scan request |
| Saved scan records (`ai/scan_records.py`, `services/scan/records.py`) | `scan_records`, one row per user and photo fingerprint | look up, save the AI step, save the enrichment, evict, purge | `POST /scan` serves repeats of a photo from it, free of charge |
| Scan corrections (`ai/scan_corrections.py`) | `scan_corrections` | record, evict, purge | review screen |
| Usage ledger, spend alerts, nightly clean-up (`ai/ledger.py`, `ai/breaker.py`, `ai/quota/settle.py`, `services/token_cleanup.py`) | `ai_usage`, `ai_usage_daily`, a bit per threshold on `ai_spend_daily` | settle, claim, send; roll up in batches, purge | Sentry; every table with a retention |
| AI settings (`ai/settings/*`) | `ai_settings` rows, a per-process cache | read with TTL, refuse when stale, `set`, `switch`, seed | every scan |
| Sessions (`api/auth.py`, `auth/refresh_family.py`, `auth/sessions.py`) | `refresh_tokens` (families of rotated tokens), `users.token_version` | issue, rotate, classify a replay, logout, logout-all, clean-up | the app's token refresh |
| Sign-in identity and key cache (`auth/identity.py`, `auth/google.py`, `auth/jwks_cache.py`) | `users`, Google's key set with its age | verify an ID token, fetch keys, find or create the user | sessions |
| Device and bot checks (`core/attestation.py`, `api/_bot_check.py`) | signed nonces | challenge, verify | the scan request |
| Catalogue and ownership (`services/wishlist.py`, `services/deduplication.py`, `core/catalog_token.py`, `services/edition_check.py`) | `books`, `editions`; signed results | sign, check, find or create book, edition and entry in one transaction | library, enrichment |
| Enrichment (`services/enrichment/*`, `services/open_library.py`, `services/google_books.py`) | none | look readings up at two providers, match, build | external book services; the scan request |
| Library and trash (`api/user_books.py`, `services/trash.py`, `services/unverified_books.py`) | `user_books`, `user_custom_books` | add, edit, soft delete, restore, evict, purge | catalogue |
| App scan queue (`hooks/useScanQueue.ts`, `lib/scan/*`, `contexts/ScanJobContext.tsx`) | the jobs, their retry schedule, in-flight refs | start, drain, retry, restart the schedule, sign out | `POST /scan` |
| Persistence of the queue (`contexts/ScanJobContext.tsx`, `lib/scanJobStorage.ts`, `hooks/useScanCapture.ts`) | the list in memory, its copy in AsyncStorage, image files | capture, save, load, sweep, purge, dismiss, clear | the queue; the camera |
| App session (`contexts/AuthContext.tsx`, `lib/api.ts`, `lib/freshInstall.ts`, `lib/signOut.ts`) | tokens in the Keychain, the install marker, the gate and its epoch | check the install, sign in, refresh once for many callers, sign out | sessions |
| Review sheet and library screens | React state | review, edit, undo | library |
| Rate limits, configuration, logging; migrations, evaluation and performance harness | settings read at start | - | - |

How they meet: the app posts a photo with its access token (app session, queue); the
scan request takes the settings, the allowance and the saved answer, calls the gateway,
settles with the ledger, looks the readings up (enrichment) and signs the results; the
user adds one (catalogue, library). Sessions and sign-in stand under all of it.

What makes each of them correct, and where it is hard:

* **Allowance.** One provider call per user at a time; the counters equal what was
  answered; a unit never comes back twice and is never lost silently; the spend is
  exact. Hard because every operation is several transactions, each of which can commit
  without the handler learning of it, can be retried, cut off by a time bound, or be the
  last thing a process does - while the lease expires and another request takes it over.
* **Scan request and gateway.** A unit is kept exactly for a reply that can be used, books
  or the honest answer that there are none, and the app is never told to try a charged
  scan again; the spend follows the bill; no call outlives the lease. Hard because two
  adapters read broken, cut-off and refused replies differently, because the operator
  changes settings under running requests, and because the answer is put together after
  the charge.
* **Ledger.** A row counts once across retries, restarts and two instances; a threshold
  is announced once a day.
* **Settings.** No value older than the bounds is used; provider and model match.
* **Sessions.** A stolen refresh token that is replayed ends the family; two honest
  requests that race, or a lost reply that is retried, do not; no token of a revoked
  generation yields an access token.
* **Sign-in.** One user per Google subject through races and address changes; the key
  fetches are throttled for every path.
* **Saved records.** An enhanced answer is never replaced by a standard one, an
  enrichment never lands on a newer answer, a correction counts once for as long as its
  raw row is kept.
* **Catalogue and library.** One live entry per work and user, although works merge and
  the unique index sees single rows; rows only from signed results; the trash is frozen
  and leaves by its rules.
* **Enrichment.** No other volume of the series, no other author's book; what is shown
  together belongs together.
* **App session.** Signed out is empty, signed in keeps its tokens, and what an earlier
  install left is never sent - with steps that interleave at every await, failing
  storage and kills.
* **Scan queue and its storage.** One upload per photo, every photo sent or answered, no
  photo deleted while a job needs it, nothing of one account in the next one's queue.

The hazards are listed one by one, with their lines, in `PROJECT.json`.

## 2. The allowance: `ScanQuota`

One action per database transaction; requests interleave between transactions.

| Action | Code |
|---|---|
| `CheckGlobal` | entitlement and the service-wide count (`reservations.py`, before anything is taken) |
| `ReserveCost` | `breaker.reserve`: the day's `reserved_micros` grows by the estimate, under the Free ceiling |
| `AcquireLease` | `acquire_lease`: insert the user's `ai_inflight` row or take over an expired one |
| `GiveBackCost` | `give_back_cost` after a refused or failed lease |
| `CheckThrottle` | `zero_result_throttle` for enhanced scans |
| `TakeUnit` | `take_unit`: the flag on the own lease row and the conditional increment, one commit |
| `Renew` | `renew_lease`, then the provider call starts under its deadline |
| `Answer` | `_run_provider`: how the call ended decides price, refund or settle |
| `GiveBackUnit`, `LeaseLost`, `RefundUnit` | `_return_unit`: the gated give-back, the lost lease, the ungated fallback; one retry, one time bound |
| `Settle` | the settle transaction: ledger row (`ON CONFLICT DO NOTHING`), spend, zero-result row, no-match move (savepoints), lease delete |
| `Unlease`, `SpendAfterLease` | `settle_after_lease`, its two commits |
| `Crash`, `Tick`, `AgeOut` | the process dies; time passes; a zero-result row leaves the window |

A transaction ends `acked`, `lost` (committed, then raised), `failed`, or - where
the code has a time bound - cut off before or after its commit. Everything but
`acked` spends one of `MaxFaults`. The state has two history variables: `unit[r]`
says in which counter the unit of request `r` is, `estimate[r]` where its estimate
is. No action reads them; properties compare the counters with them.

A lease is a holder and a time to live. The provider call has its own timer: the
gateway's deadline ends it (`Tick` cannot pass it). Nothing bounds the other steps,
so a lease may expire between any two of them. A request that was told
`scan_in_progress` waits and is sent again, as the app does
(`lib/scan/executeScan.ts`); each POST is a fresh execution of `CheckGlobal`.

Abstractions: one UTC day (the reservation carries its day into the settle, so a
settle after midnight still lands on the day it was reserved); time in abstract
ticks; prices from a small set; the ledger row is the fact that it exists. The
spend alert that follows the settle commit and the retention purge are in
`UsageLedger`, `count_scan_request` in `ScanRequest`.

### Runs

| Run | Instance | Shows |
|---|---|---|
| `quota_faults` | two requests of one user, three faults, every provider outcome | one call per user, exact counters, exact settled spend |
| `quota_limits` | two requests of a Free user with one found unit and no no-match unit, one of a Premium user, costs above and below the estimate, one fault | answered calls are bounded by both limits together |
| `quota_live` | three enhanced scans, threshold two, throttle on, one fault, fairness | one warning per window, with rows leaving it; every started request ends |

Bounds. Two requests of one user give every race of the lease (it is per user, and
a request only ever meets one other holder); the third request is used where a
limit must be reached and passed. Three faults allow a lost take, a failed
give-back and a failed settle in one behaviour - the longest chain of retries the
code has. `Timeout = Grace = 1` still lets a lease expire at every step that the
code leaves unbounded.

Fairness of `quota_live`: a handler that was started is run by the event loop
(weak fairness of its next step, which includes the app's repeat of a request told
to wait), and time passes. No request has to arrive, no fault has to stop: faults
are bounded. The app repeats only `MAX_IN_PROGRESS_RETRIES` times before it tells
the user that the scan is still being processed; the property says that a waiting
request is never blocked for ever, so a later repeat gets through.

### Theorems

`ScanQuotaProofs` and `ScanQuotaCounterProofs` prove, for every value of the
constants that `ConstantsOK` allows, that `Spec` keeps the properties. The
argument has three layers, each inductive relative to the one before; together
they are `IInv`, on which the sum of the spend then rests.

1. *The lease.* `OneCallPerUser` is not inductive: nothing in it stops a second request
   from taking the lease over during a call. `LeaseCoversCall` adds that a running
   call holds its row and that the row lives at least `Grace` longer than the call's
   own deadline. `Renew` establishes it, `Tick` lowers both sides together and cannot
   run past the deadline, and `LeaseFree` asks for a negative time to live.
2. *The unit.* `UnitInv`: the flag of a lease row is set exactly when the unit of its
   holder is in the found counter (`FlagInv`), and what each phase knows of its unit
   (`UnitPhaseInv`) - in particular that a first give-back attempt of a request that
   knows it took its unit still finds the unit there, which is what makes the ungated
   fallback safe. With it each counter step moves one request between two sets, and
   the counters are the cardinalities of those sets.
3. *The estimate.* `EstimateInv`: what each phase knows of its estimate, that a ledger
   row proves the estimate spent and the lease gone, and that the estimates which may
   never be released are no more than the faults.

4. *The spend.* `SettledExact` says that `settled_micros` is a sum over the requests
   with a ledger row, which the model writes as a fold over a set. `CHOOSE` fixes some
   order of adding, so the lemmas first show that there is a function that adds up every
   finite set (`AddsUpExists`), then that any element may be taken first (`AnyFirst`), and
   so that one more request adds its price (`TotalPlus`). Each is an induction on the size
   of a set, made without an induction theorem: a least size for which it failed would
   not be least (`UpTo`). What is left is about the code: a settle adds the price in the
   transaction that writes the row, and a row is never written twice (`SettlesOnce`).

`AllowanceSafe` follows from layer 2 with the limits. `WarningSafe` has an invariant
of its own. The proofs rest on `ConstantsOK` only. Only `RequestsEnd` (liveness) stays
with TLC.

## 3. Sessions: `Sessions`, `RefreshFamily`

`Sessions` is the promise, in four actions: a session has at most one valid token,
a refresh exchanges it for one never seen before and only while nobody signed out
everywhere since the session started, and a session that ended never comes back.
`RefreshFamily` is the code, for one user.

| Action | Code |
|---|---|
| `SignInRead`, `SignInInsert` | `issue_session_tokens`: the user row is read without a lock, the first row of a family is inserted later |
| `Present` | `POST /auth/refresh` before the user row is locked: decode, first read of the row, `seen_rotated` |
| `RefuseGone`, `RefuseStale`, `Rotate` | the locked re-read: gone, an old `tv` claim, or the rotation |
| `ReplayStale`, `Displace`, `ReplayEnded`, `ReplayReused` | `_refresh_rotated_token` and `classify_replay`: race, retry, ended, reuse |
| `LogoutRead`, `LogoutWrite` | `POST /auth/logout`, which takes no user lock |
| `LogoutAllCheck`, `LogoutAllCommit` | the access token is accepted, later every session is revoked |
| `Fail` | the request ends before its commit |
| `GraceEnds`, `Expire`, `Purge` | the grace window, `expires_at`, the daily clean-up |

Any token ever issued may be presented at any time by any number of requests, which
covers retries, lost replies, duplicates and a second holder. A legacy token (from
before the `tv` claim and families) is a member of `Legacy`. `/auth/refresh` and the
revocations serialise on the user row, so each of their transactions is one action;
the single row locks inside them, and the deadlocks those could cause with the
clean-up, are not modelled. The history variables `issued`, `parent` and `mints` say
which token was handed out for which; no action's guard needs `parent` or `mints`
except `Expire`, whose order of expiry follows them (a successor is younger).

`sessions_race` checks `OneLivePerFamily`, `TwinsKeepTheSession` and the refinement
`KeepsPromise` with four requests (four are needed for a race, a retry and a third
holder in one family), five tokens, one of them legacy. There is no bound on
anything else; the state space is finite because tokens are. No liveness: nothing
here has to happen.

### Theorems

`RefreshFamilyProofs` proves all of it for any sets of requests and tokens. `IInv`
has a part about rows and one about requests. About rows: references lead to issued
tokens of the same family; a row that was rotated and not displaced points along the
chain to the only row of the family that may be live; a row that is not displaced has
minted no more than its history allows. About requests: who was answered with a pair
stays on record, so the third holder that `TwinsKeepTheSession` asks for can be
named. `Refinement` shows that every step of a handler is a step of `Sessions`, or
none of it.

## 4. Saved answers: `ScanRecords`

One user. A request is one execution of `POST /scan` on a photo, followed by the save
of the "Add it yourself" entry its response may lead to. Statements that may wait for
a row lock are separate actions, so the steps of overlapping saves interleave inside
their transactions.

| Action | Code |
|---|---|
| `Repeat`, `Look` | `_serve_saved_answer`: the row serves the request, or the normal path |
| `Reserve`, `Answer` | the in-flight lease and the provider call, reduced to what `ScanQuota` proves of them |
| `Stamp`, `Upsert`, `Evict`, `Save` | `save_ai_step`: `now` is taken, the conditional upsert locks the row, the eviction selects its victims, the delete waits for locked ones, the commit |
| `SaveUnacknowledged`, `SaveFails` | the commit lands but raises; error, or ended as a deadlock's victim |
| `Enrich`, `EnrichLater`, `Name` | `save_enrichment_step` (matched on `created_at`), `record_id` |
| `CorrectRead`, `CorrectWrite` | `scan_corrections.record`: the reading, then insert and totals in one transaction |
| `Age`, `PurgeSelect`, `PurgeDelete` | the retention passes; `purge_old` selects, waits, deletes by id |
| `AgeCorrections`, `PurgeCorrections` | 30 days pass for the raw corrections; the ledger's clean-up deletes them in batches, whatever becomes of their records (`ledger.py:287`) |

How PostgreSQL's READ COMMITTED is modelled: a statement sees what is committed when
it starts and its own transaction's writes; a delete that waited for a row re-checks
the ids its subquery returned and not the order or the age they were chosen by; a
circle of saves that wait for one another is ended by failing one of them. Stamps are
values of a clock; two saves never get the same one (the code's stamps are
microseconds and the lease keeps the calls apart).

Left out: the kill switch, validation and entitlement checks before the lookup (they
refuse without touching this state); the batch sizes of eviction and purge, which a
user's rows do not reach; the contents of the day's totals.

A record may outlive its corrections: a re-scan keeps its id and makes it new. `counted`
therefore lists with each count how often the record's correction had been purged before
(`purges`, history), and `CountedOnce` allows one count for each value, no matter what
else goes or is replaced.

| Run | Instance | Shows |
|---|---|---|
| `records_answers` | two standard scans and an enhanced one of one photo, all corrected, retention, both purges, one fault | the enrichment fits the answer, a candidate counts once until its raw row is purged |
| `records_saves` | two photos, each scanned standard and enhanced, a cap of one row | every save ends, also in a circle of waits; a save that runs alone restores the cap |

One photo is enough for the first run because only the cap relates photos; the cap
has the second. `MaxAge` bounds how many stamps pass the retention, `MaxFaults` the
failures. Fairness (`records_saves`): the event loop continues a save whose statement
does not wait, and PostgreSQL's `deadlock_timeout` ends a circle.

`ScanRecordsProofs` proves `IInv`, `EnrichmentFits`, `CountedOnce` and `EnhancedKept`
for any number of requests and photos. The core is that a stamp names one answer
(`StampsFit`, over rows, open saves and requests), so matching on `created_at` matches
the answer; that an open save has its photo's row to itself (`LocksHold`); and that an
id is in use only after its insert committed (`IdsFit`), with which what was counted since
the last purge of its record still has its row, as long as the record has.

`CapComesBack` proves `CapRestored`, for any cap and any number of rows that earlier saves
left. `PhotosFit` adds that a row holds an answer about its photo; with `StampsFit` the
rows a save sees were then stamped at different times, so at most the cap of them have
fewer than the cap newer ones (`FewInFront`: the number of newer rows is an injection into
an interval). `CapFits` says that what an eviction will leave fits the cap from the moment
its victims are chosen: until its commit rows go (purge), keep their ids (enrichment) or
are locked, unless another save commits, which `overlapped` records. `SavesEnd` is
model-checked only.

## 5. The queue on the phone: `ScanQueue`

JavaScript runs to completion, so an action is the code between two awaits. Uploads
overlap: the one of the drain and those the user starts by hand (`Hands`). An upload
(`run[s]`) works with the copy of the job it was given, as `executeScan` does.

| Action | Code |
|---|---|
| `DrainNext`, `DrainOffline` | `drainPass`: one photo after its connectivity check, with every reason not to send it; `Finish` is what follows the last one (another pass, the drain asked for meanwhile, or none) |
| `RetryTimer`, `FallsDue` | the timer of the retry schedule |
| `Post`, `Answered`, `Busy`, `Refused`, `Unavailable`, `EnhancedRefused`, `Fails`, `Lost`, `DropsOut` | `runScan`: the token has come; each way the upload can end, with the `finally` of `executeScan` (`Ends`) |
| `StartScan`, `Checked` | `startScan` before and after its connectivity check |
| `RetryScan`, `QueueForLater`, `RestartSchedule`, `RequestEnhanced`, `DismissJob`, `ResumeQueue` | what the user does from banners, the review sheet and the queue screen |
| `SignOut`, `Relaunch` | the session is left; the app is killed and started again |
| `Connected`, `Disconnected` | NetInfo's events |

`left` is a history variable: the photos that a refusal, a lost connection or the user
put back until the next drain, whenever that is. No guard reads it; `QueueMoves` says
that once the phone is left alone every queued photo is sent or is one of those.
`LeftAlone` asks for a connection that stays and for no more restarts, hand-started
uploads, lost uploads or refusals, because each of them may put a photo back.

Switches. `Drops` and `Relaunches` turn the environment on. `StaleBanners` lets a
banner's action be used after its photo moved on, which the app allows (a banner with
an action stays until it is used or replaced, `components/InAppBanner.tsx`). Nothing
keeps such a use from sending a photo a second time, so the safety properties except that
photo (`late`, a history variable that no guard reads, emptied by a relaunch) and speak
of all others, and hold with the switch on and off. It is off in both runs to keep them
small: with it on the safety properties were checked for one photo with two hands and for
two photos with one. `QueueMoves` does depend on it, and section 9 says what happens then.

Abstractions: the order of photos within a pass is any order in which due ones come
first; `retryCount` and `MAX_RETRIES` are a choice between the two things `RetryScan`
can do; the connection is up or down (NetInfo's `null` behaves as up). Left out: text
searches and notices; the cap of the queue, the seven days of failed photos and the
storage writes are in `ScanStore`.

| Run | Instance | Shows |
|---|---|---|
| `queue_moves` | two photos, the drain and two uploads by hand, two attempts, one silent repeat, two passes, drops and restarts, fairness | one upload per photo, found books are never stranded, answers and posts of an earlier account are dropped, and the queue moves |
| `queue_reconnect` | two photos and one hand | see Findings |

Bounds. Two photos are what the rules between photos need (one waits or uploads, the
other is held back). Two attempts have a first, a scheduled and a last one. Two passes
have one that is followed by another and one that is not. With two of each the drain
meets every outcome of itself and of two other uploads.

Fairness: the event loop runs what is ready, timers fire, and an upload ends, since
its request has a time limit. Nothing is assumed of the user or of the connection.

### Theorems

`ScanQueueProofs` proves `TypeOK`, `OneRunPerPhoto` and `InFlightExact` for any sets of
photos and uploads, any bounds and either value of the switches, from `QueueAssumption`
alone. A banner used late lets two uploads hold its photo, and the first to end takes
the other's id off the in-flight set; the invariant follows that no other photo is touched
by it, although the drain, its list and the two uploads go on with both. None of the three
is inductive as it stands, so `IInv` adds three facts about the photos not in `late`:

- `RunsFit`: an upload is at work exactly while it holds a photo;
- `DrainFits`: the drain waits for its upload exactly while that is at work, and its
  upload is never a new capture's. So a drain that goes on has given its photo back;
- `StatusFits`: a photo in flight is `pending`, `searching` or gone. This is what keeps
  the user's actions off it, for they look at the status (failed, complete) and, but for
  `restartScanSchedule`, not at the in-flight set.

`TakeRuns` and `EndRuns` are the two moves of the in-flight set; `BeginStep`,
`OutcomeStep`, `JobsStep` and `QuietStep` lift them to the shapes the handlers share, and
there is one lemma per action.

`BooksStay` (`BooksNotStranded`) needs more, `JobsFit`: a job with books of a standard scan
is complete or gone, or is sent again for an enhanced one (`BookFit`), and what an
upload holds is still what its job says unless a sign-out dropped it (`RunFit`). The
second part is what makes the copy that `executeScan` works with harmless: an outcome is
applied to the job it was read from, or to none. `SignedOutIsSilent`
(`NothingPostedSignedOut`) and `LateAnswersHarmless` (`LateAnswersDropped`) say of each
step that an upload of an account signed out is not posted, neither after the wait for its
token nor at a silent repeat, and that its answer changes no job. The answer of a late
banner's second upload is dropped like any other; only its post is excepted, since the first
upload may have ended with the photo gone. Only `QueueMoves` (liveness) stays with TLC.

## 6. Library and catalogue: `Library`, `Catalogue`

`Library` is one user's entries and trash. A request is a transaction that reads, may
wait for a lock, and writes at its commit; `Begin` takes the user's row lock
(`FOR NO KEY UPDATE`) as every path but PATCH does.

| Action | Code |
|---|---|
| `CheckOwned`, `AddToWishlist` | the ownership check of `POST /wishlist`, then its insert or the unique index's refusal |
| `FindPurchased`, `AddPurchased` | `add_purchased`: a live entry is promoted, otherwise one is added |
| `CheckDraft`, `AddUnverified` | `POST /unverified`: the same book by title, author or ISBN, the cap, the custom book |
| `BeginPatch`, `PatchRead`, `PatchWrite`, `PatchMissed` | PATCH, with its row lock only: it may have waited for a DELETE |
| `DeleteRead`, `EvictSameBook`, `DeleteEntry` | soft delete, the copies of the same book without user data, `evict_over_cap` with SKIP LOCKED |
| `RestoreRead`, `Restore` | the trashed entry, the live one of its work, the cap of unverified books |
| `PurgeSkipped`, `PurgeSelect`, `PurgeDelete`, `PurgeFail` | the nightly purge: advisory lock, batches, SKIP LOCKED |
| `Fail`, `Tick` | a request ends before its commit; a day passes |

`Catalogue` is the shared part: a `POST /wishlist` of several users as one transaction
of lookups and inserts, in which a row is seen by its own transaction only and makes an
insert of the same key wait (`FindBook`, `InsertBook`, `FindEdition`, `InsertEdition`,
`CheckOwned`, `InsertEntry`, `Recheck`, `Commit`, `Fail`), the signing of results
(`Sign`, `Check`), the other writers of entries (`Purchase`, `Trash`) and `NextDay`.
Works start merged; the operator's merge itself is not modelled. The user's row lock, which
`Library` has, is here only as far as `Purchase` and `Trash` wait for an open add; so
`Recheck` can also find its entry gone, which the lock keeps from happening.

`library_moves` (`MCLibrary`) moves one of the two in a behaviour. *Library:* three row
ids, two rows of one work and an unverified book, two requests, two purges, a trash of
two, no retention, two days. Two requests overlap in every way two transactions of one
user can, and three rows let the trash pass its cap. `OneKind` keeps behaviours that are
about catalogue books apart from those about unverified ones, which share no rule but
the caps. *Catalogue:* two users, a work with a row merged into it and an edition, and
results that name another work, the merged volume, an ISBN-10 of the edition, or nothing
that could be signed; a token of one user, a token of an earlier release. Four book ids
leave two for the adds to create. Properties: `OneLivePerWork`, `TrashFrozen`,
`LeavesByTheRules`; `CatalogueIsSigned`, `EditionOfItsWork`.

### Theorems

`LibraryProofs` proves `TypeOK`, `OneLivePerWork` and `TrashFrozen` for any ids, merged
rows, drafts, requests, purges and caps, from `Instance` and `NoneIsNoRow`. Neither
property is inductive: an insert looks harmless or not by what its request read before.
`IInv` adds what makes the reading still true. `OpFits` says what each kind of request
names. `LockFits`: a request at work that is no PATCH holds the user's row lock, so at
most one of them is under way. `WorkFits`: under that lock a work found without a live
entry still has none, and an entry whose row lock is held is still live or still in the
trash. `PurgeFits`: a purge holds every row of its batch. The steps fall in two kinds.
*Calm* ones leave the set of live entries and their books alone, and no trashed row that
a request holds goes (`CalmFits`, `CalmOne`): reads, edits, promotions and the whole
purge, which deletes only rows it holds itself. The others - inserts, deletes, restores -
are taken under the user's lock, so only PATCHes can be at work beside them
(`AlonePatches`), and those hold the row they rely on. The unique index is not used in
the argument: the lock alone is enough.

`LeavingByRule` proves `LeavesByTheRules`: a row that goes for good is past the retention, is
a copy without user data of a book just trashed, or leaves a trash that has its cap of
newer rows. `LeaveInv` adds to `IInv` that a purge's cutoff is not later than
the clock allows (`CutoffFits`) and that the copies a delete has chosen are still of its
book (`CopiesFit`). The cap is a statement about ranks: `Place` is the number of rows
ahead of one in the trash, places are all different and fill an interval
(`PlacesTaken`: an injection into a set of the same size is onto), so the first `n` rows
are exactly `n` (`FirstPlaces`).

`OnlySignedBooks` and `EditionsFitTheirWork` prove `CatalogueIsSigned` and
`EditionOfItsWork` for any rows at the start that the constraints of the tables allow
(`ConstantsOK`), any results, tokens and requests, from `CatalogueInv`: the rows are sound
(`Sound`), each book and edition that was added goes back to a result signed for a user
on a day before the token's end (`BookSigned`, `EditionSigned`), an entry has the book and
edition of one work (`HasItsWork`), and a request knows of its work what it has looked up
or inserted so far (`AddFits`). `Grows`, `RollsBack` and `Settles` are the three ways the
tables change: a row of one's own transaction, its rollback, its commit. The run moves one
of the two modules in a behaviour, and its specification implies that of `Library`
(`RunIsSpec`), so the theorems speak of the run too.

## 7. The service around a scan: `ScanRequest`, `Replies`, `Matching`, `Enrichment`, `AiSettings`, `UsageLedger`

| Module | State and actions | Code |
|---|---|---|
| `ScanRequest` | each request from `Arrive` (one snapshot of the settings) over `Count`, `Check`, `Upload`, `Decode`, `Leave`, `Reserve`, `Send` to a `Settle` and from there to the answer (`Respond`, `FailsSettled`, `LeavesSettled`); `Fails` and `Leave` end it before the call; `Overloaded`, `Retry`, `Expire`, `OwnTimeout`, `Cancelled`, `Broke` are the ends of a provider call; `Switch` is the operator | `api/scan.py`, `services/scan/*`, `core/file_*.py`, `ai/images.py`, `api/_bot_check.py`, `ai/gateway.py` |
| `Replies` | operators: what each adapter makes of a reply's stop reason, form and items (`Parsed`, `Identified`, `Reported`, `Usable`) | `ai/providers/*` |
| `Matching` | operators: when titles and names agree, the score of a record, which record is kept, which ISBNs are confirmed | `services/enrichment/{titles,authors,scoring,isbn,service}.py` |
| `Enrichment` | per reading a task in the pool and a chain at each of two providers: `ByIsbn`, `ByTitle`, `Malformed`, `Cancelled`, `Build`; `Deadline`, `Return`, `Abandon` for the whole | `services/enrichment/service.py`, `open_library.py`, `google_books.py` |
| `AiSettings` | the table, the cache and reads in flight (`Begin`, `Load`, `Store`, `FailLoad`), the CLI between its read and its write (`SetRead`, `SetWrite`, `Switch`), the seeding | `ai/settings/*` |
| `UsageLedger` | a settle with its retries, fallback and claim of alerts; the clean-up's steps, batches and retries on each instance; `Restart` | `ai/ledger.py`, `ai/breaker.py`, `ai/quota/settle.py`, `services/token_cleanup.py` |

What they abstract. A title is the part before its separator and a kind of rest, a name
its initials and surname; an image or a reply is the record of the facts the checks ask
for. `ScanRequest` takes what the quota tables and the saved answers say as a choice
(`NotReserved`, `Repeat`), because `ScanQuota` and `ScanRecords` model them; a settle
lists what the call was charged, which `ScanQuota` books. The reads between taking the
lease and the call take less than the lease's grace, as their own time limits ensure. The
steps after the settle (record, lookups, library check, signing) are one wait, in which the
database may fail or the client leave; none of them touches what was settled.

`services_moves` (`MCServices`) moves one of them in a behaviour; they share no state in
the code either, but for the settings snapshot, which `ScanRequest` has. Bounds:

- *enrichment*: three readings and a pool of two, so one waits; the first reading is one
  of five (a volume of a series with another volume's ISBN, an ISBN without a title, no
  author, a surname written in two words, an ISBN-10 of another edition), the second has
  no usable ISBN; six records, any of which any request may return, in any order;
- *settings*: two processes' reads and two operators, two runs of the CLI, two tables
  (one edited by hand with values no validator takes), a cache of one second, a stale
  limit of two, two seconds;
- *ledger*: two calls, the second of which crosses the alert threshold, two instances of
  the clean-up, two attempts, batches of one row, two days (too few for a day's total to
  be purged, which the theorem covers);
- *request*: two requests of one user and one worker, both providers, every stop reason
  with every form of reply and up to two items, each way a file or proof is refused, one
  switch of the settings, and a clock that runs past the retry's own timeout.

Properties: `NeverAnotherBook`, `ShownAgrees`, `TakesEffectInTime`, `PairAnswered`,
`RowsCountOnce`, `AlertsOnce`, `CrossedIsClaimed`, `ChargedForAnAnswer`,
`SpendFollowsTheBill`, `LeaseOutlivesCall`.

### Theorems

`ServicesProofs` proves all ten, from the assumptions on the constants of each part.

- *Request* (`RequestCharges`, `RequestSpends`, `RequestLeased`). `RequestInv` gives each
  stage of a request its fields, a call its place in time (`InTime`: the provider's
  timeouts and the retry's own end before the lease does), and a settled one its unit and
  bill, which the answer that follows leaves alone. What a unit is kept for is decided by
  `Replies`, whose adapters read items until `MAX_BOOKS` are found. `RepliesRead` proves for
  replies of any length what the gateway reports of them, by induction on the items read.
- *Ledger* (`LedgerCounts`, `LedgerAlertsOnce`, `LedgerClaims`). `RowsFit`: a row in
  `ai_usage` is the one its call wrote, and a day's total plus its rows are the rows ever
  written on it (a batch moves from the one to the other in one transaction, whatever
  the retries and the other instance do). `OneSender`: who may
  send a threshold's alert won the bit of that day, alone. `Owed`: what the spend has
  passed is claimed or owed by a settle under way, unless one was lost that day.
- *Settings* (`SettingsInTime`, `SettingsPaired`, `PairSanitised`). `SettingsInv` carries
  for the cache and each read under way a time and a table that was current then
  (`Timely`), or later, so that an answer's age is bounded by when its read began; and that the
  rows were sanitised when they were loaded; `PairSanitised` says that sanitising any
  table gives a pair the provider serves.
- *Enrichment* (`NoOtherBook`, `ShownTogether`). `LookupInv`: a record a provider's chain
  ended with fits its reading by the rules of `Matching` (`RecordFits`), whichever of
  its requests found it, and what is shown was built of those (`BuiltOf`).

The run moves one of them in a behaviour; each theorem is about that specification or,
for `ScanRequest`, about the module's own `Spec`.

## 8. The phone's session and storage, and signing in: `AppSession`, `ScanStore`, `SignIn`

As in `ScanQueue`, an action is the code between two awaits; each Keychain or
AsyncStorage call is a step that may fail.

| Module | Actions | Code |
|---|---|---|
| `AppSession` | `Launch`, `Kill`, `Reinstall`; `CheckRead`, `CheckWrite`, `CheckLook`, `CheckErase`, `CheckLate` (the install check and its 5 s); `EntryStart`, `EntryAnswer`, `EntryLate`, `EntryClear` (the launch effect); `Login` to `LoginEnd`, `LoginFails`; `PressSignOut`, `Revoke`, `LeaveDelete`, `LeaveEnd`; `OutDelete`, `OutFails`, `OutEnd` (the request layer's sign-out); `Open`, `Send`, `Answer`, `Unauthorised`, `Handle`, `HandleFails` (the 401 branch); `RotateRead` to `RotateDrop`, `RotateStops` (the shared refresh) | `contexts/AuthContext.tsx`, `lib/api.ts`, `lib/freshInstall.ts`, `lib/signOut.ts`, `lib/storage.ts` |
| `ScanStore` | `Shoot`, `Shot`, `ShotFailed`, `Update`, `Dismiss`, `Purge`; `Persist`, `Write` (AsyncStorage carries out calls in the order they are issued, some time later); `Launch`, `LoadEnd`, `SignOut`, `SignIn`, `Kill` | `contexts/ScanJobContext.tsx`, `lib/scanJobStorage.ts`, `hooks/useScanCapture.ts`, `lib/scanJob.ts` |
| `SignIn` | `Present`, `ServeFast`, `Wait`, `Serve`, `GiveUp`, `Fetch`, `FetchDone`, `FetchFails` (the key cache: fresh, stale, throttled, behind one lock); `FindUser`, `FindHolder`, `Commit`, `LoseRace` (the identity in two attempts); `Rotate` is Google's | `auth/jwks_cache.py`, `auth/google.py`, `auth/identity.py`, `api/auth.py` |

An epoch (`Bump`) is the `old` mark on everything that began before it. The server's
side of a session is reduced to the live version per session and the revoked ones, which
`RefreshFamily` establishes. `mine` (sessions begun on this install), `torn`, `spilt`,
`owner`, `inherited`, `late`, `discarded` and `met` are history; no guard reads them but
`owner`'s first use.

Every call to the Keychain or AsyncStorage in `AppSession` may fail, and a kill may come
between any two, in any number of launches. Two marks say where the code then has nothing
left to tell the next launch, or the next request, what is due; the properties except
exactly these and section 9 lists them. `spilt`: a sign-out could neither delete a token
nor write 'pending', or a refresh it overtook could not take back what it wrote; until the
next login or launch. `torn`: a login was cut short or one of its writes failed, or the
'pending' of a check that had yet to wipe was not written; until a login stores both
tokens, a wipe ends, or the app is installed anew.

`phone_moves` (`MCPhone`) moves one of the three in a behaviour. *Session:* two
sign-ins, the first of which may be an earlier install's, two launches, one reinstall,
one failing storage call in each launch (`MaxFaults`), kills anywhere, `GET /auth/me` and
one other request, one rotation (`OneRotation`: a second session's rotation meets nothing of
the first's; it is not combined with a reinstall, and with a failing call only in the first
launch, where every one of them can meet it; without these limits the properties hold on
half as many states again). *Store:* two photos, two accounts, a queue of one, two launches,
one fault (`MaxMishaps`), one write AsyncStorage has yet to carry out, and at most one ended job at a
time (`OneEnded`). *Sign-in:* two requests, three subjects of whom two want one address
(spelled in two ways) and one has changed hers, keys that rotate once, five seconds with a
throttle of two. `next_account` is the store with two outstanding writes and no session;
with one, as in `phone_moves`, a sign-out never overlaps an outstanding save, which
`StoreApart` covers.

Two assumptions are stated where they are used. Storage is prompt: a whole sign-in,
which goes to Google and the server, does not fit between two consecutive storage calls
of another operation (`InStorage`). And AsyncStorage serves its calls in their order.

Properties: `SignedOutIsEmpty`, `SignedInHoldsItsTokens`, `OldInstallNeverSpeaks`;
`JobsHaveTheirPhotos`, `QueuesStayApart`; `ConflictIsReal`, `FetchesApart`.

### Theorems

`PhoneProofs` proves all seven for any photos, accounts, sign-ins, calls, launches,
sessions and times.

- *Session.* `SessionTyped` and `Phases` say which operations can be under way together:
  what a launch has not yet passed (`Starting`), what waits behind the gate (`Gated`),
  what the check's 5 s left behind (`Waited`), and that a login is alone with the storage
  it writes (`LoginAlone`). On them rest three invariants, one per property.
  `HoldsItsTokens` for `SessionSignsIn`: both tokens are the session's, or one is gone and
  the server has ended the session, for only then does the request layer begin a sign-out;
  and a refresh that may still write works with one of them or is marked `old`.
  `LeavesNothing` for `SessionSignsOut`: each token is gone, or its deletion is still to
  come in an operation under way, or the marker says pending, or the sign-out is `spilt`.
  `WipedFirst` for `SessionSpeaks`: unless `torn`, a foreign token in the Keychain is met
  by a marker or a check that has still to erase it, and nobody has got past the gate.
- *Store.* `StorePhotos` from `StoreInv`: whatever a sweep or a purge will delete at
  its turn is pending in no list and in no write before it (`PhotoKept`, `Deletes`).
  `StoreApart` from `QueuesInv`: the list in memory holds nothing of another account, and
  what AsyncStorage holds in the end will not either, because more writes without such a
  job follow the last one with it than storage calls may still fail (`WillSettle`).
- *Sign-in.* `SignInConflicts` and `SignInFetches` from `SignInInv`: one request fetches at
  a time and the cache's marks are those of the last fetch (`LastFetch`), and what a
  request read of the users was so while it ran (`Read`).

`StoreApart` has the hypothesis `MaxFaults <= 1`: at most one storage call fails. With
two, TLC finds it violated: a failed clear is made good by the save that follows, and if
that fails as well the old list is there at the next launch. The theorems about the session
bound no failures. `OldInstallNeverSpeaks` is a property of steps and not of states: a
call that began while `torn` keeps the old token it was given after a later
login has mended the Keychain, which the theorem's proof, and then TLC with three
sessions, showed of its first form.

## 9. Findings

Each is a sentence of the repository that the code does not keep; the run of the same
name shows it.

* `queue_reconnect`. `docs/features.md:196`: when the app comes online, the queued jobs
  are retried. A reconnect while a drain runs starts none and asks for none, so a photo
  queued offline after that drain listed its photos stays.
* `next_account`. `docs/storage-and-retention.md:78`: the queue is cleared at sign-out,
  by the button or a revoked session, and the next account starts with an empty one. A
  session found dead at launch was never signed in within that process, so nothing
  clears the queue, and it is uploaded for whoever signs in next.

Observations with no run of their own. The first four, and those about tokens, were each
seen as a counterexample of an earlier instance of these modules:

* `ai/quota/__init__.py:13` bounds the overshoot of the service-wide limit "to one per
  user". The count is compared before the lease is taken (`reservations.py`), so every
  request of a user between the two counts.
* `ai/scan_corrections.py:9`: a saved entry is compared with "what the form was
  pre-filled with". The reference names a row, and a re-scan replaces the row's answer
  under the same id.
* `ai/scan_corrections.py:36`: "a second save of the same candidate inserts nothing" and
  "counts nothing", and counting when the row is written "cannot lose or double-count a
  row". The nightly purge deletes raw rows after 30 days (`ai/ledger.py:287`), while a
  re-scan keeps the record and its id. A candidate saved again after that is counted
  again; `CountedOnce` says that nothing else lets it.
* A database error in the library check or the signing of a scan's books
  (`api/scan.py:417`, `:519-534`), or a client that leaves after the settle, ends a
  charged scan with 500 or 499 and its unit stays kept, with status ok. A retry of the
  photo is then normally served free from the record saved just before.
* `ai/scan_records.py:38`: a record is kept for the retention after `created_at`. The
  purge deletes by id what it selected by age (`:486`), so a save that refreshed the row
  while the purge waited for it loses its answer.
* `contexts/ScanJobContext.tsx:146`: a drain cannot send a job that is being sent. An
  old banner's action (`StaleBanners`) sends one the queue screen is sending already; the
  first of the two to end takes the id off `inFlightRef`, and the drain sends it again.
  `QueueMoves` fails with such banners too: a re-scan from one may end the wait that held
  other photos back without starting a drain.
* `stopDrainRef` is shared: a throttled enhanced re-scan by hand sets it to `enhanced`
  during a drain, and the check that holds other photos back while one waits for its
  retry asks for `none` (`hooks/useScanQueue.ts:152`).
* A drain asked for during a drain forgets the refusal that stopped the first one
  (`hooks/useScanQueue.ts:136`), so a refusal can cost a second request.
* The load at launch replaces the list (`ScanJobContext.tsx:284`): a capture made before
  it ends loses its job.
* A provider call that timed out may be billed and gives its unit back, so a user's calls
  can exceed the answered ones; only answered calls are bounded. Costs above the estimate
  can pass the Free ceiling.
* A reply without usage figures is priced 0, so `SpendFollowsTheBill` speaks of what the
  provider reported.
* A sign-in that races a sign-out everywhere leaves a row that is valid and refused at
  its first refresh (`StaleOnlyFromSignIn`). A logout revokes the row it read; a rotation
  of it meanwhile leaves the successor to the family's own rules (`api/auth.py:358`).
* A PATCH that waited for a DELETE still holds the row lock while the DELETE's successor
  cuts the trash; SKIP LOCKED passes over that row, so the trash may hold one more than
  its cap until the next delete.
* `POST /purchased` on an entry of a merged row promotes the entry with an edition of the
  survivor. `EditionOfItsWork` therefore speaks of the work, not of the row.
* Concurrent `set model` and `switch` can leave a provider with a model that is not its
  own; every read falls back to the defaults, which is what `PairAnswered` shows.
* A kill or a failed write between the two Keychain writes of a login can pair a new
  access token with an old refresh token (`torn`); the next login ends it, but for calls
  already under way with the old token. `OldInstallNeverSpeaks` excepts the steps meanwhile.
* `lib/freshInstall.ts:46` names gaps that need "two storage failures in one launch". One
  is enough: when the 'pending' of a fresh install is not written and the process ends
  before its wipe does, the next launch may find other keys, takes the install for an
  upgrade and uses the tokens an earlier one left (`torn`).
* A sign-out that begins between the two writes of a refresh leaves it to the refresh to
  take its tokens back (`lib/api.ts:195`). If its second write fails, or a call of
  `dropWrittenTokens` (`:150`), the error is swallowed, the tokens stay, and the marker
  does not say pending, because the sign-out's own deletes succeeded (`spilt`).
* `signOut` of the request layer (`lib/api.ts:144`) awaits its deletes before it tells
  anybody. If the second fails, `onAuthFailure` is not called, and the app stays signed in
  without its access token; the server has ended the session, so no token is lost that
  was worth anything, and `SignedInHoldsItsTokens` says just that.
* A refresh whose second write fails (`lib/api.ts:192`) keeps a refresh token that was
  used. Once the grace is over, the next refresh with it is a replay, which revokes every session.

## 10. Plan

Done: the allowance, sessions, saved answers and the queue; the library and catalogue, the
service around a scan, the phone's session and storage, and sign-in; and for each of them
the proof of every safety property its runs check. Left, in this order:

1. The locks of the refresh handlers one by one (`refresh_family.py:205`, `:216`: user
   row, family row, successor), with the clean-up's batches, for their deadlocks.
2. `AppSession` composed with `RefreshFamily` instead of its summary of the server.
3. An abstract allowance that `ScanQuota` implements, with the proof that it does.
4. The operator's merge of two works under running adds.

The runs are kept to twelve and their properties to forty, so that all of them can be
repeated after every change of the code. Types and invariants that are proved for every
instance are therefore not repeated as runs, and modules that share no state share a run.

## 11. What is only model-checked, and what is not modelled

Liveness under fairness is model-checked only: `RequestsEnd`, `SavesEnd`, `QueueMoves`. The
proof system's provers here do not reason about `ENABLED`. Every other property of a
passing run is a theorem, for every value of the constants that the named assumptions
allow; only `StoreApart` has a hypothesis of its own, `MaxFaults <= 1`. No induction theorem
with an operator as parameter can be used here; where a sum or a sequence asks for induction
over its size, the proofs take the least counterexample (`NatLessThanWellFounded` and
`WFMin` of the library). No module has a RECURSIVE operator. The two runs of section 9 that
find a sentence violated have no theorem, and a theorem says nothing of what the models
leave out.

Not modelled: text normalisation and the alignment of title strings (only what they
decide), prompts, JSON schemas and image encoding, HTTP clients, key derivation and
signature checks (an outcome), request rate limits, screens, logging and error reports,
configuration and migrations, the evaluation and performance harness. An App Attest key
is never stored, since the only verifier rejects, so no state of `device_keys` changes.
Two refusals are unreachable and left out: a feature disabled between snapshot and call
(there is one snapshot), and a model without a price (checked at import).
`AiSettings` reduces the settings to one feature and leaves out the second fall-back of
`spec_for` (`settings/view.py:95`), which would only hide a pair that does not match.
`PROJECT.json` lists each part with what of it is left out. Modelled from how the code
uses them: PostgreSQL's row locks, READ COMMITTED re-checks, unique indexes, SKIP LOCKED,
advisory locks and deadlock detection; the AI and book providers; Google; the Keychain,
AsyncStorage and NetInfo.

## 12. Running

    tlc -workers 2 -config ScanQuotaFaults.cfg MCScanQuota
    tlapm ScanQuotaProofs.tla

Every `.cfg` names its module by its prefix: `ScanQuota*`, `ScanRecords*`, `ScanQueue*`,
`RefreshFamily*` and `ScanStore*` go with the `MC` module of that name, `LibraryMoves`
with `MCLibrary`, `ServicesMoves` with `MCServices`, `PhoneMoves` with `MCPhone`. The
longest take about three minutes on two cores. Deadlock is not checked where all requests
end, or where a user may stop using the app: `RequestsEnd`, `SavesEnd` and `QueueMoves`
say instead what may not get stuck. Each property in the runs was seen to fail with a
definition replaced by the form beside it whose comment starts with "Mutant" or "Mutated
form" (`PROJECT.json`, "mutants").
