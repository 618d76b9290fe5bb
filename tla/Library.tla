------------------------------ MODULE Library ------------------------------
(***************************************************************************)
(* One user's library and its trash.  Requests of the user (adds, edits,   *)
(* deletes, restores) run as database transactions in parallel, and two    *)
(* instances may run the nightly purge.  What serialises them is modelled  *)
(* as the code takes it: the user's row lock, the row locks of single      *)
(* entries, SKIP LOCKED, the purge's advisory lock and the unique index.   *)
(* A transaction's writes appear at its commit.                            *)
(***************************************************************************)
EXTENDS Integers, FiniteSets, FiniteSetsExt

CONSTANTS
  Ids,         \* ids an entry may get, ordered as they break ties
  Books,       \* rows of the shared catalogue
  Survivor,    \* Survivor[b]: the row b was merged into, b itself if none
  Drafts,      \* title, author and ISBN of unverified entries
  Same,        \* pairs of Drafts with the same title and author, or ISBN
  Requests,    \* requests of the user that may be under way at once
  Purgers,     \* instances that run the nightly clean-up
  DraftCap,    \* unverified_books_per_user_max
  TrashCap,    \* trash_max_entries_per_user
  Retention,   \* trash_retention_days
  BatchSize,   \* PURGE_BATCH_SIZE
  MaxBatches,  \* PURGE_MAX_BATCHES
  MaxTime,     \* bound on the clock
  None

ASSUME Instance ==
  /\ Ids \subseteq Nat /\ IsFiniteSet(Ids) /\ Books \cap Drafts = {}
  /\ Survivor \in [Books -> Books]
  /\ \A b \in Books : Survivor[Survivor[b]] = Survivor[b]
  /\ Same \subseteq Drafts \X Drafts
  /\ \A d \in Drafts : <<d, d>> \in Same
  /\ \A pair \in Same : <<pair[2], pair[1]>> \in Same
  /\ {DraftCap, TrashCap, Retention, BatchSize, MaxBatches, MaxTime} \subseteq Nat
  /\ BatchSize > 0 /\ TrashCap > 0 /\ MaxTime > 0 /\ Requests \cap Purgers = {}
  /\ None \notin Requests \cup Purgers \cup Books \cup Drafts \cup Nat

VARIABLES
  entry,     \* entry[i]: the user_books row i, None if there is no such row
  custom,    \* custom[i]: the user_custom_books row of entry i
  clock,     \* now, in days
  userLock,  \* who holds FOR NO KEY UPDATE on the users row
  rowLock,   \* rowLock[i]: who holds FOR UPDATE on entry i
  advisory,  \* which purge holds PURGE_LOCK_KEY
  req,       \* req[p]: where request p stands
  purge      \* purge[q]: where clean-up q stands

vars == <<entry, custom, clock, userLock, rowLock, advisory, req, purge>>

\* deleted_at = 0 stands for NULL.  `data`: the row holds data of the user's,
\* a status past wishlisted or its dates, notes, a rating, an edition or an
\* override.
Entry == [book : Books \cup Drafts, data : BOOLEAN, deleted_at : 0 .. MaxTime]

ASSUME NoneIsNoRow == None \notin Entry

Ops == {"wishlist", "purchased", "unverified", "patch", "delete", "restore"}

TypeOK ==
  /\ entry \in [Ids -> Entry \cup {None}]
  /\ custom \in [Ids -> {"none", "live", "trashed"}]
  /\ clock \in 1 .. MaxTime
  /\ userLock \in Requests \cup {None}
  /\ rowLock \in [Ids -> Requests \cup Purgers \cup {None}]
  /\ advisory \in Purgers \cup {None}
  /\ req \in [Requests ->
       [pc : {"idle", "read", "write", "evict", "finish", "missed"},
        op : Ops \cup {None}, id : Ids \cup {None},
        book : Books \cup Drafts \cup {None}, ids : SUBSET Ids]]
  /\ purge \in [Purgers -> [pc : {"idle", "batch", "delete"}, ids : SUBSET Ids,
                            cutoff : Int, batches : 0 .. MaxBatches]]

Idle == [pc |-> "idle", op |-> None, id |-> None, book |-> None,
         ids |-> {}]
Resting == [pc |-> "idle", ids |-> {}, cutoff |-> 0, batches |-> 0]
---------------------------------------------------------------------------
(* What the queries select.                                                *)

Rows == {i \in Ids : entry[i] # None}
LiveRows == {i \in Rows : entry[i].deleted_at = 0}
Trash == {i \in Rows : entry[i].deleted_at # 0}
OfDraft(i) == entry[i].book \in Drafts
HasNoUserData(i) == ~entry[i].data

OfWork(i, b) == b \in Books /\ entry[i].book \in Books /\ Survivor[entry[i].book] = Survivor[b]
SameBook(i, d) == OfDraft(i) /\ <<entry[i].book, d>> \in Same

HasLiveEntryOfWork(b) == \E i \in LiveRows : OfWork(i, b)

\* Both ways an unverified entry is refused: a duplicate, or the cap.
CannotHold(d) ==
  \/ \E i \in LiveRows : SameBook(i, d)
  \/ Cardinality({i \in Ids : custom[i] = "live"}) >= DraftCap

Free(i, p) == rowLock[i] \in {None, p}

\* uq_user_books_user_book_live
Conflicts(b) == \E i \in LiveRows : entry[i].book = b

\* DELETE ... RETURNING custom_book_id, then the custom rows of those rows.
Erased(ids) == [i \in Ids |-> IF i \in ids THEN None ELSE entry[i]]

CustomErased(ids) == [i \in Ids |-> IF i \in ids THEN "none" ELSE custom[i]]

\* A transaction that ends gives back every lock it holds.
Release(p) ==
  /\ userLock' = IF userLock = p THEN None ELSE userLock
  /\ rowLock' = [i \in Ids |-> IF rowLock[i] = p THEN None ELSE rowLock[i]]

End(p) == Release(p) /\ req' = [req EXCEPT ![p] = Idle]
Refuse(p) == End(p) /\ UNCHANGED <<entry, custom>>
Others == UNCHANGED <<clock, advisory, purge>>
---------------------------------------------------------------------------
(* A request begins when it gets the user's row lock, and names a book or  *)
(* an entry that may be gone by then.  A merged row's id is redirected to  *)
(* the survivor.  PATCH takes no user lock: its query sees a live row,     *)
(* whose own lock it then waits for.                                       *)

Request(p) ==
  /\ req[p] = Idle
  /\ \E op \in Ops \ {"patch"}, i \in Ids \cup {None}, b \in Books \cup Drafts \cup {None} :
       /\ op \in {"delete", "restore"} <=> i # None
       /\ op \in {"wishlist", "purchased"} <=> b \in Books
       /\ op = "unverified" <=> b \in Drafts
       /\ req' = [req EXCEPT ![p] = [Idle EXCEPT !.pc = "read", !.op = op, !.id = i,
                     !.book = IF b \in Books THEN Survivor[b] ELSE b]]
  /\ UNCHANGED <<entry, custom, rowLock>> /\ Others

\* Mutant: lock_user is left out.
BeginUnlocked(p) == Request(p) /\ UNCHANGED userLock

Begin(p) == Request(p) /\ userLock = None /\ userLock' = p

BeginPatch(p) ==
  /\ req[p] = Idle
  /\ \E i \in LiveRows :
       req' = [req EXCEPT ![p] = [Idle EXCEPT !.pc = "read", !.op = "patch", !.id = i]]
  /\ UNCHANGED <<entry, custom, userLock, rowLock>> /\ Others

\* The connection or the process is lost: the transaction rolls back.
Fail(p) == req[p].pc # "idle" /\ Refuse(p) /\ Others
---------------------------------------------------------------------------
(* Adding a book.                                                          *)

\* Ids nobody has: they are random and never used again, so a request that
\* still names a deleted row does not find a new one under its id.
Fresh == {i \in Ids \ Rows : \A p \in Requests : req[p].id # i}

\* With no id left the insert fails, a bound of the model.
Insert(p, row, draft) ==
  IF Fresh = {} THEN Refuse(p)
  ELSE \E i \in Fresh :
         /\ entry' = [entry EXCEPT ![i] = row]
         /\ custom' = [custom EXCEPT ![i] = draft]
         /\ End(p)

\* _refuse_if_owned: a live entry on any row of the work.
CheckOwned(p) ==
  /\ req[p].pc = "read" /\ req[p].op = "wishlist"
  /\ IF HasLiveEntryOfWork(req[p].book) THEN Refuse(p)
     ELSE /\ req' = [req EXCEPT ![p].pc = "write"]
          /\ UNCHANGED <<entry, custom, userLock, rowLock>>
  /\ Others

\* The entry is added on the survivor of a merged row.
AddToWishlist(p) ==
  /\ req[p].pc = "write" /\ req[p].op = "wishlist"
  /\ LET b == req[p].book IN
     IF Conflicts(b) THEN Refuse(p)
     ELSE \E edition \in BOOLEAN :
            Insert(p, [book |-> b, data |-> edition, deleted_at |-> 0], "none")
  /\ Others

\* The live entry to promote: the survivor's own first.
ToPromote(b) ==
  LET mine == {i \in LiveRows : OfWork(i, b)}
      own == {i \in mine : entry[i].book = b}
  IN  IF own # {} THEN own ELSE mine

FindPurchased(p) ==
  /\ req[p].pc = "read" /\ req[p].op = "purchased"
  /\ IF ToPromote(req[p].book) = {}
     THEN req' = [req EXCEPT ![p].pc = "write"] /\ UNCHANGED rowLock
     ELSE \E i \in ToPromote(req[p].book) :
            /\ Free(i, p)
            /\ rowLock' = [rowLock EXCEPT ![i] = p]
            /\ req' = [req EXCEPT ![p].pc = "write", ![p].id = i]
  /\ UNCHANGED <<entry, custom, userLock>> /\ Others

AddPurchased(p) ==
  /\ req[p].pc = "write" /\ req[p].op = "purchased"
  /\ LET i == req[p].id IN
     IF i # None
     THEN entry' = [entry EXCEPT ![i].data = TRUE] /\ End(p) /\ UNCHANGED custom
     ELSE Insert(p, [book |-> req[p].book, data |-> TRUE,
                     deleted_at |-> 0], "none")
  /\ Others

CheckDraft(p) ==
  /\ req[p].pc = "read" /\ req[p].op = "unverified"
  /\ IF CannotHold(req[p].book) THEN Refuse(p)
     ELSE /\ req' = [req EXCEPT ![p].pc = "write"]
          /\ UNCHANGED <<entry, custom, userLock, rowLock>>
  /\ Others

AddUnverified(p) ==
  /\ req[p].pc = "write" /\ req[p].op = "unverified"
  /\ Insert(p, [book |-> req[p].book, data |-> FALSE, deleted_at |-> 0], "live")
  /\ Others
---------------------------------------------------------------------------
(* Editing an entry.  A PATCH that waited for a DELETE finds the row       *)
(* trashed: it answers 404, and holds the lock it got until it has.        *)

\* Mutant: the entry is read without UserBook.live().
PatchTrashed(p) ==
  /\ req[p].pc = "read" /\ req[p].op = "patch"
  /\ LET i == req[p].id IN
     IF i \in Rows
     THEN /\ Free(i, p)
          /\ rowLock' = [rowLock EXCEPT ![i] = p]
          /\ req' = [req EXCEPT ![p].pc = "write"]
          /\ UNCHANGED <<entry, custom, userLock>>
     ELSE Refuse(p)
  /\ Others

PatchRead(p) ==
  /\ req[p].pc = "read" /\ req[p].op = "patch"
  /\ LET i == req[p].id IN
     \/ /\ i \notin Rows /\ Refuse(p)
     \/ /\ i \in Rows /\ Free(i, p)
        /\ rowLock' = [rowLock EXCEPT ![i] = p]
        /\ req' = [req EXCEPT ![p].pc = IF i \in LiveRows THEN "write" ELSE "missed"]
        /\ UNCHANGED <<entry, custom, userLock>>
  /\ Others

\* Overrides of an unverified entry are refused, and nothing is written.  A
\* PATCH may set or, of overrides, clear what is the user's.
PatchWrite(p) ==
  /\ req[p].pc = "write" /\ req[p].op = "patch"
  /\ \E overrides, data \in BOOLEAN :
       IF overrides /\ OfDraft(req[p].id) THEN Refuse(p)
       ELSE /\ entry' = [entry EXCEPT ![req[p].id].data = data]
            /\ End(p) /\ UNCHANGED custom
  /\ Others

PatchMissed(p) == req[p].pc = "missed" /\ Refuse(p) /\ Others
---------------------------------------------------------------------------
(* Deleting an entry: to the trash, then the eviction of older empty       *)
(* copies of the book, then of what is over the cap.  The moment stamped   *)
(* is the transaction's.                                                   *)

DeleteRead(p) ==
  /\ req[p].pc = "read" /\ req[p].op = "delete"
  /\ LET i == req[p].id IN
     IF i \in LiveRows
     THEN /\ Free(i, p)
          /\ rowLock' = [rowLock EXCEPT ![i] = p]
          /\ req' = [req EXCEPT ![p].pc = "evict"]
          /\ UNCHANGED <<entry, custom, userLock>>
     ELSE Refuse(p)
  /\ Others

\* Catalogue copies are locked as they are selected, rows somebody else
\* holds are skipped.  Unverified copies are selected without a lock.
EvictSameBook(p) ==
  /\ req[p].pc = "evict"
  /\ LET i == req[p].id
         empty == {j \in Trash : HasNoUserData(j)}
         copies == IF OfDraft(i) THEN {j \in empty : SameBook(j, entry[i].book)}
                   ELSE {j \in empty : OfWork(j, entry[i].book) /\ Free(j, p)}
     IN  /\ req' = [req EXCEPT ![p].pc = "finish", ![p].ids = copies]
         /\ rowLock' = [j \in Ids |-> IF j \in copies /\ ~OfDraft(i) THEN p
                                      ELSE rowLock[j]]
  /\ UNCHANGED <<entry, custom, userLock>> /\ Others

\* A later deletion comes first in the trash, ties by id.
Newer(i, j) ==
  \/ entry[i].deleted_at > entry[j].deleted_at
  \/ entry[i].deleted_at = entry[j].deleted_at /\ i > j

\* Mutant: ORDER BY deleted_at without DESC.
OldestKept(kept) ==
  {i \in kept : Cardinality({j \in kept : Newer(i, j)}) >= TrashCap - 1}

\* What is over the cap among `kept` and the entry just trashed, which is the
\* newest.  OFFSET counts the rows that are not skipped.
OverCap(kept) ==
  {i \in kept : Cardinality({j \in kept : Newer(j, i)}) >= TrashCap - 1}

\* The DELETE waits for rows the purge holds, and checks them again.
DeleteEntry(p) ==
  /\ req[p].pc = "finish"
  /\ \A j \in req[p].ids : Free(j, p)
  /\ LET own == req[p].id
         evicted == {j \in req[p].ids \cap Trash : HasNoUserData(j)}
         gone == evicted \cup OverCap({j \in Trash \ evicted : Free(j, p)})
     IN  /\ entry' = [Erased(gone) EXCEPT ![own].deleted_at = clock]
         /\ custom' = [CustomErased(gone) EXCEPT ![own] =
                         IF OfDraft(own) THEN "trashed" ELSE @]
  /\ End(p) /\ Others
---------------------------------------------------------------------------
(* Restoring an entry.  It waits for a purge that holds the row.           *)

RestoreRead(p) ==
  /\ req[p].pc = "read" /\ req[p].op = "restore"
  /\ LET i == req[p].id IN
     IF i \in Trash
     THEN /\ Free(i, p)
          /\ rowLock' = [rowLock EXCEPT ![i] = p]
          /\ req' = [req EXCEPT ![p].pc = "write"]
          /\ UNCHANGED <<entry, custom, userLock>>
     ELSE Refuse(p)
  /\ Others

Restore(p) ==
  /\ req[p].pc = "write" /\ req[p].op = "restore"
  /\ LET i == req[p].id
         b == entry[i].book
         refused == IF OfDraft(i) THEN CannotHold(b)
                    ELSE HasLiveEntryOfWork(b) \/ Conflicts(b)
     IN  IF refused THEN Refuse(p)
         ELSE /\ entry' = [entry EXCEPT ![i].deleted_at = 0]
              /\ custom' = [custom EXCEPT ![i] = IF OfDraft(i) THEN "live" ELSE @]
              /\ End(p)
  /\ Others
---------------------------------------------------------------------------
(* The nightly purge.                                                      *)

Expired(i, cutoff) == i \in Trash /\ entry[i].deleted_at < cutoff

\* The cutoff is fixed when the purge starts.
Cutoff(q) == IF purge[q].pc = "idle" THEN clock - Retention ELSE purge[q].cutoff

\* Another instance holds the lock: this one stops.
PurgeSkipped(q) ==
  /\ purge[q].pc = "batch" /\ advisory # None
  /\ purge' = [purge EXCEPT ![q] = Resting]
  /\ UNCHANGED <<entry, custom, clock, userLock, rowLock, advisory, req>>

\* The oldest expired rows that nobody holds, at most a batch of them.
PurgeSelect(q) ==
  /\ purge[q].pc # "delete" /\ advisory = None
  /\ LET open == {i \in Ids : Expired(i, Cutoff(q)) /\ rowLock[i] = None}
         batch == {i \in open : Cardinality({j \in open : Newer(i, j)}) < BatchSize}
     IN  /\ rowLock' = [i \in Ids |-> IF i \in batch THEN q ELSE rowLock[i]]
         /\ purge' = [purge EXCEPT ![q] = [@ EXCEPT !.pc = "delete", !.ids = batch,
                                                    !.cutoff = Cutoff(q)]]
  /\ advisory' = q
  /\ UNCHANGED <<entry, custom, clock, userLock, req>>

PurgeEnd(q, next) ==
  /\ purge' = [purge EXCEPT ![q] = next]
  /\ advisory' = None
  /\ rowLock' = [i \in Ids |-> IF rowLock[i] = q THEN None ELSE rowLock[i]]
  /\ UNCHANGED <<clock, userLock, req>>

PurgeDelete(q) ==
  /\ purge[q].pc = "delete"
  /\ LET gone == {i \in purge[q].ids : Expired(i, purge[q].cutoff)} IN
     entry' = Erased(gone) /\ custom' = CustomErased(gone)
  /\ LET n == purge[q].batches + 1
         full == Cardinality(purge[q].ids) = BatchSize
     IN  PurgeEnd(q, IF full /\ n < MaxBatches
                     THEN [purge[q] EXCEPT !.pc = "batch", !.ids = {}, !.batches = n]
                     ELSE Resting)

\* The batch is lost with the instance; its locks go.
PurgeFail(q) ==
  /\ purge[q].pc = "delete"
  /\ PurgeEnd(q, Resting) /\ UNCHANGED <<entry, custom>>

Tick ==
  /\ clock < MaxTime /\ clock' = clock + 1
  /\ UNCHANGED <<entry, custom, userLock, rowLock, advisory, req, purge>>
---------------------------------------------------------------------------
\* Entries of a merged row are there from before its merge; all others are
\* added by requests.
Init ==
  /\ \E old \in [Ids -> {b \in Books : Survivor[b] # b} \cup {None}] :
       /\ \A i, j \in Ids : old[i] # None /\ old[j] # None => i = j
       /\ entry = [i \in Ids |->
            IF old[i] = None THEN None
            ELSE [book |-> old[i], data |-> FALSE, deleted_at |-> 0]]
  /\ custom = [i \in Ids |-> "none"]
  /\ clock = 1
  /\ userLock = None /\ rowLock = [i \in Ids |-> None] /\ advisory = None
  /\ req = [p \in Requests |-> Idle]
  /\ purge = [q \in Purgers |-> Resting]

Step(p) ==
  \/ CheckOwned(p) \/ AddToWishlist(p)
  \/ FindPurchased(p) \/ AddPurchased(p)
  \/ CheckDraft(p) \/ AddUnverified(p)
  \/ PatchRead(p) \/ PatchWrite(p) \/ PatchMissed(p)
  \/ DeleteRead(p) \/ EvictSameBook(p) \/ DeleteEntry(p)
  \/ RestoreRead(p) \/ Restore(p)

Purge(q) ==
  PurgeSkipped(q) \/ PurgeSelect(q) \/ PurgeDelete(q)

Next ==
  \/ \E p \in Requests : Begin(p) \/ BeginPatch(p) \/ Step(p) \/ Fail(p)
  \/ \E q \in Purgers : Purge(q) \/ PurgeFail(q)
  \/ Tick

Spec == Init /\ [][Next]_vars
---------------------------------------------------------------------------
(* Properties.                                                             *)

\* A library holds one live entry of a work, whichever of its rows the
\* entries name and however adds, restores and deletes overlap: the unique
\* index sees single rows only (wishlist.py, restore_user_book).
OneLivePerWork ==
  \A i, j \in LiveRows :
    ~OfDraft(i) /\ ~OfDraft(j) /\ OfWork(i, entry[j].book) => i = j

\* What is in the trash comes back exactly as it was deleted: no PATCH or
\* add that waited for the delete writes to it (restore_user_book).
TrashFrozen ==
  [][\A i \in Trash : i \in Rows' =>
       entry'[i] \in {entry[i], [entry[i] EXCEPT !.deleted_at = 0]}]_vars

\* A row is deleted only from the trash: past the retention, or when the
\* trash holds its cap of newer rows, or, if it holds nothing of the user's,
\* when a newer copy of the book is trashed (trash.py, module docstring).
LeavesByTheRules ==
  [][\A i \in Rows : i \notin Rows' =>
       /\ i \in Trash
       /\ \/ Expired(i, clock - Retention)
          \/ Cardinality({j \in Trash' : j \notin Trash \/ Newer(j, i)}) >= TrashCap
          \/ /\ HasNoUserData(i)
             /\ \E j \in Trash' \ Trash :
                  OfWork(i, entry[j].book) \/ SameBook(i, entry[j].book)]_vars
=============================================================================
