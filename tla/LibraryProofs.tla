--------------------------- MODULE LibraryProofs ----------------------------
(* Proofs about Library for any sets of ids, books, requests and purges and   *)
(* any caps: types, that a work has one live entry, that the trash is frozen  *)
(* and that rows leave it by the rules.  And about Catalogue for any rows at  *)
(* the start, results, tokens and requests: what enters it was signed, and an *)
(* entry's edition is one of its book's work.                                 *)
EXTENDS MCLibrary, TLAPS, FiniteSetTheorems

(* What a request is about, by the kind of operation.                        *)
OpFit(p) ==
  req[p].pc # "idle" =>
    /\ req[p].op \in {"wishlist", "purchased"} => req[p].book \in Books
    /\ req[p].op = "unverified" => req[p].book \in Drafts
    /\ req[p].op \in {"patch", "delete", "restore"} => req[p].id \in Ids
    /\ req[p].pc = "missed" => req[p].op = "patch"
    /\ req[p].pc \in {"evict", "finish"} => req[p].op = "delete"
    /\ req[p].pc = "read" /\ req[p].op = "purchased" => req[p].id = None
OpFits == \A p \in Requests : OpFit(p)

(* But for PATCH, a request at work holds the user's row lock, so there is   *)
(* one at a time.                                                            *)
LockFits ==
  \A p \in Requests : req[p].pc # "idle" /\ req[p].op # "patch" => userLock = p

(* What a request saw is still so when it writes: its locks keep it.         *)
Holding(p) == req[p].id \in Ids /\ rowLock[req[p].id] = p
Fits(p) ==
  /\ req[p].pc = "write" /\ req[p].op = "wishlist" => ~HasLiveEntryOfWork(req[p].book)
  /\ req[p].pc = "write" /\ req[p].op = "purchased" =>
       IF req[p].id = None THEN ~HasLiveEntryOfWork(req[p].book) ELSE req[p].id \in LiveRows
  /\ req[p].pc = "write" /\ req[p].op = "patch" => Holding(p) /\ req[p].id \in LiveRows
  /\ req[p].pc = "write" /\ req[p].op = "restore" => Holding(p) /\ req[p].id \in Trash
  /\ req[p].pc \in {"evict", "finish"} => Holding(p) /\ req[p].id \in LiveRows
WorkFits == \A p \in Requests : Fits(p)

(* A purge holds the rows it is to delete.                                   *)
PurgeFits ==
  \A q \in Purgers : purge[q].pc = "delete" => \A i \in purge[q].ids : rowLock[i] = q

IInv == TypeOK /\ OpFits /\ LockFits /\ WorkFits /\ PurgeFits /\ OneLivePerWork

-----------------------------------------------------------------------------
(* Types.                                                                    *)

Reqs == [pc : {"idle", "read", "write", "evict", "finish", "missed"},
         op : Ops \cup {None}, id : Ids \cup {None},
         book : Books \cup Drafts \cup {None}, ids : SUBSET Ids]
Purges == [pc : {"idle", "batch", "delete"}, ids : SUBSET Ids,
           cutoff : Int, batches : 0 .. MaxBatches]
Customs == {"none", "live", "trashed"}

RowsTyped == entry \in [Ids -> Entry \cup {None}] /\ custom \in [Ids -> Customs]
LocksTyped ==
  /\ userLock \in Requests \cup {None}
  /\ rowLock \in [Ids -> Requests \cup Purgers \cup {None}]
OthersTyped ==
  /\ clock \in 1 .. MaxTime /\ advisory \in Purgers \cup {None}
  /\ purge \in [Purgers -> Purges]
ReqTyped == req \in [Requests -> Reqs]

(* The type invariant in four parts.                                         *)
LEMMA Types == TypeOK <=> RowsTyped /\ LocksTyped /\ OthersTyped /\ ReqTyped
BY DEF TypeOK, RowsTyped, LocksTyped, OthersTyped, ReqTyped, Reqs, Purges, Customs

(* A request and a clean-up at rest are typed.                              *)
LEMMA IdleTyped == Idle \in Reqs
BY DEF Idle, Reqs

LEMMA RestingTyped == Resting \in Purges
BY Instance DEF Resting, Purges

(* A row is one of the entries, and one that is live is not in the trash.    *)
LEMMA RowTyped ==
  ASSUME RowsTyped, NEW i \in Ids
  PROVE  /\ i \in Rows <=> entry[i] \in Entry
         /\ i \in Rows <=> i \in LiveRows \/ i \in Trash
         /\ ~(i \in LiveRows /\ i \in Trash)
BY NoneIsNoRow DEF RowsTyped, Rows, LiveRows, Trash

(* A request that ends gives back typed locks.                               *)
LEMMA EndTyped ==
  ASSUME LocksTyped, ReqTyped, NEW p \in Requests, End(p)
  PROVE  LocksTyped' /\ ReqTyped'
<1>1. LocksTyped'
  BY DEF End, Release, LocksTyped
<1>2. ReqTyped'
  BY IdleTyped DEF End, ReqTyped
<1> QED
  BY <1>1, <1>2

(* Erased rows leave a typed table.                                         *)
LEMMA EraseTyped ==
  ASSUME RowsTyped, NEW gone
  PROVE  Erased(gone) \in [Ids -> Entry \cup {None}] /\ CustomErased(gone) \in [Ids -> Customs]
BY DEF RowsTyped, Erased, CustomErased, Customs

(* An insert is of a row nobody has.                                         *)
LEMMA InsertTyped ==
  ASSUME TypeOK, NEW p \in Requests, NEW row \in Entry, NEW draft \in Customs,
         Insert(p, row, draft)
  PROVE  RowsTyped' /\ LocksTyped' /\ ReqTyped'
<1>0. RowsTyped /\ LocksTyped /\ ReqTyped
  BY Types
<1>1. CASE Refuse(p)
  <2>1. End(p) /\ entry' = entry /\ custom' = custom
    BY <1>1 DEF Refuse
  <2>2. RowsTyped'
    BY <1>0, <2>1 DEF RowsTyped
  <2> QED
    BY <1>0, <2>1, <2>2, EndTyped
<1>2. ASSUME NEW i \in Ids, entry' = [entry EXCEPT ![i] = row],
             custom' = [custom EXCEPT ![i] = draft], End(p)
      PROVE  RowsTyped' /\ LocksTyped' /\ ReqTyped'
  <2>1. RowsTyped'
    BY <1>2, Types DEF RowsTyped
  <2> QED
    BY <1>2, <2>1, Types, EndTyped
<1> QED
  BY <1>1, <1>2 DEF Insert, Fresh

(* Every step keeps the types.                                               *)
LEMMA RequestTyped ==
  ASSUME TypeOK, OpFits, WorkFits, NEW p \in Requests,
         Begin(p) \/ BeginPatch(p) \/ Step(p) \/ Fail(p)
  PROVE  TypeOK'
<1> USE Types
<1> SUFFICES RowsTyped' /\ LocksTyped' /\ OthersTyped' /\ ReqTyped'
  BY DEF TypeOK, RowsTyped, LocksTyped, OthersTyped, ReqTyped, Reqs, Purges, Customs
<1> DEFINE Other == /\ UNCHANGED <<clock, advisory, purge>>
<1>0. ASSUME Other PROVE OthersTyped'
  BY <1>0 DEF OthersTyped
<1>r. ASSUME Refuse(p), Others PROVE RowsTyped' /\ LocksTyped' /\ OthersTyped' /\ ReqTyped'
  BY <1>r, <1>0, EndTyped DEF Refuse, RowsTyped, Others
<1>1. CASE Begin(p)
  <2>1. PICK op \in Ops \ {"patch"}, i \in Ids \cup {None}, b \in Books \cup Drafts \cup {None} :
          req' = [req EXCEPT ![p] = [Idle EXCEPT !.pc = "read", !.op = op, !.id = i,
                     !.book = IF b \in Books THEN Survivor[b] ELSE b]]
    BY <1>1 DEF Begin, Request
  <2>2. (IF b \in Books THEN Survivor[b] ELSE b) \in Books \cup Drafts \cup {None}
    BY Instance
  <2>3. ReqTyped'
    BY <2>1, <2>2 DEF ReqTyped, Reqs, Idle
  <2>4. RowsTyped' /\ LocksTyped' /\ Other
    BY <1>1 DEF Begin, Request, RowsTyped, LocksTyped, Others
  <2> QED
    BY <1>0, <2>3, <2>4
<1>2. CASE BeginPatch(p)
  <2>1. PICK i \in LiveRows : req' = [req EXCEPT ![p] =
                 [Idle EXCEPT !.pc = "read", !.op = "patch", !.id = i]]
    BY <1>2 DEF BeginPatch
  <2>2. ReqTyped'
    BY <2>1 DEF ReqTyped, Reqs, Idle, Ops, LiveRows, Rows
  <2>3. RowsTyped' /\ LocksTyped' /\ Other
    BY <1>2 DEF BeginPatch, RowsTyped, LocksTyped, Others
  <2> QED
    BY <1>0, <2>2, <2>3
<1>3. CASE Fail(p)
  BY <1>3, <1>r DEF Fail
<1>4. CASE CheckOwned(p) \/ CheckDraft(p)
  <2>1. CASE Refuse(p)
    BY <1>4, <2>1, <1>r DEF CheckOwned, CheckDraft
  <2>2. CASE /\ req' = [req EXCEPT ![p].pc = "write"]
             /\ UNCHANGED <<entry, custom, userLock, rowLock>>
    <3>1. ReqTyped'
      BY <2>2 DEF ReqTyped, Reqs
    <3> QED
      BY <1>0, <1>4, <2>2, <3>1 DEF CheckOwned, CheckDraft, RowsTyped, LocksTyped, Others
  <2> QED
    BY <1>4, <2>1, <2>2 DEF CheckOwned, CheckDraft
<1>5. CASE AddToWishlist(p)
  <2>1. OthersTyped'
    BY <1>0, <1>5 DEF AddToWishlist, Others
  <2>2. CASE Refuse(p)
    BY <1>5, <2>2, <1>r DEF AddToWishlist
  <2>3. ASSUME NEW edition \in BOOLEAN,
               Insert(p, [book |-> req[p].book, data |-> edition, deleted_at |-> 0], "none")
        PROVE  RowsTyped' /\ LocksTyped' /\ ReqTyped'
    <3>1. req[p].book \in Books
      BY <1>5 DEF AddToWishlist, OpFits, OpFit
    <3>2. [book |-> req[p].book, data |-> edition, deleted_at |-> 0] \in Entry
      BY <3>1, Instance DEF Entry
    <3> QED
      BY <2>3, <3>2, InsertTyped DEF Customs
  <2> QED
    BY <1>5, <2>1, <2>2, <2>3 DEF AddToWishlist
<1>6. CASE AddUnverified(p)
  <2>1. OthersTyped'
    BY <1>0, <1>6 DEF AddUnverified, Others
  <2>2. req[p].book \in Drafts
    BY <1>6 DEF AddUnverified, OpFits, OpFit
  <2>3. [book |-> req[p].book, data |-> FALSE, deleted_at |-> 0] \in Entry
    BY <2>2, Instance DEF Entry
  <2>4. RowsTyped' /\ LocksTyped' /\ ReqTyped'
    BY <1>6, <2>3, InsertTyped DEF AddUnverified, Customs
  <2> QED
    BY <2>1, <2>4
<1>7. CASE FindPurchased(p)
  <2>1. RowsTyped' /\ userLock' = userLock /\ OthersTyped'
    BY <1>7, <1>0 DEF FindPurchased, Others, RowsTyped
  <2>2. CASE req' = [req EXCEPT ![p].pc = "write"] /\ UNCHANGED rowLock
    BY <2>1, <2>2 DEF ReqTyped, Reqs, LocksTyped
  <2>3. ASSUME NEW i \in ToPromote(req[p].book), rowLock' = [rowLock EXCEPT ![i] = p],
               req' = [req EXCEPT ![p].pc = "write", ![p].id = i]
        PROVE  ReqTyped' /\ LocksTyped'
    <3>1. i \in Ids
      BY DEF ToPromote, LiveRows, Rows
    <3>2. ReqTyped'
      BY <2>3, <3>1 DEF ReqTyped, Reqs
    <3> QED
      BY <2>1, <2>3, <3>1, <3>2 DEF LocksTyped
  <2> QED
    BY <1>7, <2>1, <2>2, <2>3 DEF FindPurchased
<1>8. CASE AddPurchased(p)
  <2>1. OthersTyped'
    BY <1>8, <1>0 DEF AddPurchased, Others
  <2>2. CASE req[p].id # None
    <3>1. req[p].id \in Ids /\ entry[req[p].id] \in Entry
      BY <1>8, <2>2, NoneIsNoRow DEF AddPurchased, WorkFits, Fits, LiveRows, Rows, RowsTyped
    <3>2. /\ entry' = [entry EXCEPT ![req[p].id].data = TRUE]
          /\ End(p) /\ custom' = custom
      BY <1>8, <2>2 DEF AddPurchased
    <3>3. RowsTyped'
      BY <3>1, <3>2 DEF RowsTyped, Entry
    <3> QED
      BY <2>1, <3>2, <3>3, EndTyped
  <2>3. CASE req[p].id = None
    <3>1. req[p].book \in Books
      BY <1>8 DEF AddPurchased, OpFits, OpFit
    <3>2. [book |-> req[p].book, data |-> TRUE, deleted_at |-> 0] \in Entry
      BY <3>1, Instance DEF Entry
    <3>3. Insert(p, [book |-> req[p].book, data |-> TRUE, deleted_at |-> 0], "none")
      BY <1>8, <2>3 DEF AddPurchased
    <3> QED
      BY <2>1, <3>2, <3>3, InsertTyped DEF Customs
  <2> QED
    BY <2>2, <2>3
<1>9. CASE PatchRead(p) \/ DeleteRead(p) \/ RestoreRead(p)
  <2>1. CASE Refuse(p)
    BY <1>9, <2>1, <1>r DEF PatchRead, DeleteRead, RestoreRead
  <2>2. ASSUME NEW pc \in {"write", "missed", "evict"}, req' = [req EXCEPT ![p].pc = pc],
               req[p].id \in Ids, rowLock' = [rowLock EXCEPT ![req[p].id] = p],
               UNCHANGED <<entry, custom, userLock>>, Others
        PROVE  RowsTyped' /\ LocksTyped' /\ OthersTyped' /\ ReqTyped'
    BY <2>2, <1>0 DEF ReqTyped, Reqs, LocksTyped, RowsTyped, Others
  <2> QED
    BY <1>9, <2>1, <2>2 DEF PatchRead, DeleteRead, RestoreRead, LiveRows, Trash, Rows
<1>10. CASE PatchWrite(p)
  <2>1. CASE Refuse(p)
    BY <1>10, <2>1, <1>r DEF PatchWrite
  <2>2. ASSUME NEW data \in BOOLEAN, entry' = [entry EXCEPT ![req[p].id].data = data],
               End(p), UNCHANGED custom
        PROVE  RowsTyped' /\ LocksTyped' /\ OthersTyped' /\ ReqTyped'
    <3>1. req[p].id \in Ids /\ entry[req[p].id] \in Entry
      BY <1>10, NoneIsNoRow DEF PatchWrite, WorkFits, Fits, LiveRows, Rows, RowsTyped
    <3>2. RowsTyped'
      BY <2>2, <3>1 DEF RowsTyped, Entry
    <3> QED
      BY <1>10, <1>0, <2>2, <3>2, EndTyped DEF PatchWrite, Others
  <2> QED
    BY <1>10, <2>1, <2>2 DEF PatchWrite
<1>11. CASE PatchMissed(p)
  BY <1>11, <1>r DEF PatchMissed
<1>12. CASE EvictSameBook(p)
  <2>1. RowsTyped' /\ userLock' = userLock /\ OthersTyped'
    BY <1>12, <1>0 DEF EvictSameBook, RowsTyped, Others
  <2> DEFINE i == req[p].id
             empty == {j \in Trash : HasNoUserData(j)}
             copies == IF OfDraft(i) THEN {j \in empty : SameBook(j, entry[i].book)}
                       ELSE {j \in empty : OfWork(j, entry[i].book) /\ Free(j, p)}
  <2>2. /\ req' = [req EXCEPT ![p].pc = "finish", ![p].ids = copies]
        /\ rowLock' = [j \in Ids |-> IF j \in copies /\ ~OfDraft(i) THEN p ELSE rowLock[j]]
    BY <1>12 DEF EvictSameBook
  <2>3. copies \in SUBSET Ids
    BY DEF Trash, Rows
  <2> HIDE DEF copies
  <2>4. ReqTyped'
    <3>1. req[p] \in Reqs
      BY DEF ReqTyped
    <3>2. [req[p] EXCEPT !.pc = "finish", !.ids = copies] \in Reqs
      BY <2>3, <3>1 DEF Reqs
    <3> QED
      BY <2>2, <3>2 DEF ReqTyped
  <2>5. rowLock' \in [Ids -> Requests \cup Purgers \cup {None}]
    BY <2>2 DEF LocksTyped
  <2> QED
    BY <2>1, <2>4, <2>5 DEF LocksTyped
<1>13. CASE DeleteEntry(p)
  <2> DEFINE own == req[p].id
  <2>1. own \in Ids /\ entry[own] \in Entry /\ own \notin Trash
    BY <1>13, NoneIsNoRow DEF DeleteEntry, WorkFits, Fits, LiveRows, Rows, RowsTyped, Trash
  <2>2. PICK gone : /\ gone \subseteq Trash
                    /\ entry' = [Erased(gone) EXCEPT ![own].deleted_at = clock]
                    /\ custom' = [CustomErased(gone) EXCEPT ![own] =
                                    IF OfDraft(own) THEN "trashed" ELSE @]
    BY <1>13 DEF DeleteEntry, OverCap
  <2>3. /\ Erased(gone) \in [Ids -> Entry \cup {None}] /\ Erased(gone)[own] = entry[own]
        /\ CustomErased(gone) \in [Ids -> Customs]
    BY <2>1, <2>2, EraseTyped DEF Erased
  <2>4. clock \in 0 .. MaxTime
    BY DEF OthersTyped
  <2>5. RowsTyped'
    BY <2>1, <2>2, <2>3, <2>4 DEF RowsTyped, Entry, Customs
  <2> QED
    BY <1>13, <1>0, <2>5, EndTyped DEF DeleteEntry, Others
<1>14. CASE Restore(p)
  <2> DEFINE i == req[p].id
  <2>1. CASE Refuse(p)
    BY <1>14, <2>1, <1>r DEF Restore
  <2>2. CASE /\ entry' = [entry EXCEPT ![i].deleted_at = 0]
             /\ custom' = [custom EXCEPT ![i] = IF OfDraft(i) THEN "live" ELSE @]
             /\ End(p)
    <3>1. i \in Ids /\ entry[i] \in Entry
      BY <1>14, NoneIsNoRow DEF Restore, WorkFits, Fits, Trash, Rows, RowsTyped
    <3>2. 0 \in 0 .. MaxTime
      BY Instance
    <3>3. RowsTyped'
      BY <2>2, <3>1, <3>2 DEF RowsTyped, Entry, Customs
    <3> QED
      BY <1>14, <1>0, <2>2, <3>3, EndTyped DEF Restore, Others
  <2> QED
    BY <1>14, <2>1, <2>2 DEF Restore
<1> QED
  BY <1>1, <1>2, <1>3, <1>4, <1>5, <1>6, <1>7, <1>8, <1>9, <1>10, <1>11, <1>12, <1>13, <1>14
     DEF Step

(* The steps of a clean-up keep the types.                                  *)
LEMMA PurgeTyped ==
  ASSUME TypeOK, NEW q \in Purgers, Purge(q) \/ PurgeFail(q)
  PROVE  TypeOK'
<1> USE Types
<1> SUFFICES RowsTyped' /\ LocksTyped' /\ OthersTyped' /\ ReqTyped'
  BY DEF TypeOK, RowsTyped, LocksTyped, OthersTyped, ReqTyped, Reqs, Purges, Customs
<1>1. CASE PurgeSkipped(q)
  BY <1>1, RestingTyped DEF PurgeSkipped, RowsTyped, LocksTyped, OthersTyped, ReqTyped
<1>2. CASE PurgeSelect(q)
  <2>1. PICK batch : /\ batch \subseteq Ids
                     /\ rowLock' = [i \in Ids |-> IF i \in batch THEN q ELSE rowLock[i]]
                     /\ purge' = [purge EXCEPT ![q] = [@ EXCEPT !.pc = "delete", !.ids = batch,
                                                                !.cutoff = Cutoff(q)]]
    BY <1>2 DEF PurgeSelect
  <2>2. Cutoff(q) \in Int
    BY Instance DEF Cutoff, OthersTyped, Purges
  <2>3. purge' \in [Purgers -> Purges]
    BY <2>1, <2>2 DEF OthersTyped, Purges
  <2>4. OthersTyped'
    BY <1>2, <2>3 DEF PurgeSelect, OthersTyped
  <2> QED
    BY <1>2, <2>1, <2>4 DEF PurgeSelect, RowsTyped, LocksTyped, ReqTyped
<1>3. ASSUME NEW next \in Purges, PurgeEnd(q, next)
      PROVE  LocksTyped' /\ OthersTyped' /\ ReqTyped'
  BY <1>3 DEF PurgeEnd, LocksTyped, OthersTyped, ReqTyped
<1>4. CASE PurgeDelete(q)
  <2>1. RowsTyped'
    BY <1>4, EraseTyped DEF PurgeDelete, RowsTyped
  <2>2. PICK next : /\ PurgeEnd(q, next)
                    /\ \/ next = Resting
                       \/ /\ purge[q].batches + 1 < MaxBatches
                          /\ next = [purge[q] EXCEPT !.pc = "batch", !.ids = {},
                                                     !.batches = purge[q].batches + 1]
    BY <1>4 DEF PurgeDelete
  <2>3. next \in Purges
    <3>1. purge[q] \in Purges
      BY DEF OthersTyped
    <3>2. MaxBatches \in Nat
      BY Instance
    <3>3. ASSUME purge[q].batches + 1 < MaxBatches
          PROVE  [purge[q] EXCEPT !.pc = "batch", !.ids = {},
                                  !.batches = purge[q].batches + 1] \in Purges
      <4>1. purge[q].batches + 1 \in 0 .. MaxBatches
        BY <3>1, <3>2, <3>3 DEF Purges
      <4>2. {} \in SUBSET Ids
        OBVIOUS
      <4> QED
        BY <3>1, <4>1, <4>2 DEF Purges
    <3> QED
      BY <2>2, <3>3, RestingTyped
  <2> QED
    BY <2>1, <2>2, <2>3, <1>3
<1>5. CASE PurgeFail(q)
  BY <1>5, <1>3, RestingTyped DEF PurgeFail, RowsTyped
<1> QED
  BY <1>1, <1>2, <1>4, <1>5 DEF Purge

-----------------------------------------------------------------------------
(* What a request or a purge leaves alone.                                   *)

\* The live entries stay as they were, and so does a trashed one that a
\* request holds.
Calm ==
  /\ LiveRows' = LiveRows
  /\ \A i \in LiveRows : entry'[i].book = entry[i].book
  /\ \A i \in Trash : rowLock[i] \in Requests => i \in Trash'

\* Nobody else loses a row lock.
LocksStay(p) ==
  \A i \in Ids, r \in (Requests \cup Purgers) \ {p} : rowLock[i] = r => rowLock'[i] = r

(* A step that writes no entry is calm.                                     *)
LEMMA SameEntries ==
  ASSUME entry' = entry
  PROVE  Calm
BY DEF Calm, LiveRows, Trash, Rows

(* A calm step of somebody else keeps what a request saw.                    *)
LEMMA CalmFits ==
  ASSUME TypeOK, NEW r \in Requests, Fits(r), Calm, req'[r] = req[r],
         \A i \in Ids : rowLock[i] = r => rowLock'[i] = r
  PROVE  Fits(r)'
<1>1. HasLiveEntryOfWork(req[r].book)' => HasLiveEntryOfWork(req[r].book)
  BY DEF Calm, HasLiveEntryOfWork, OfWork
<1>2. Holding(r) => Holding(r)'
  BY DEF Holding
<1>3. Holding(r) /\ req[r].id \in Trash => (req[r].id \in Trash)'
  BY DEF Holding, Calm
<1>4. req[r].id \in LiveRows => (req[r].id \in LiveRows)'
  BY DEF Calm
<1>5. ~HasLiveEntryOfWork(req[r].book) => ~HasLiveEntryOfWork(req[r].book)'
  BY <1>1
<1> QED
  BY <1>2, <1>3, <1>4, <1>5 DEF Fits

(* It keeps the entries of a work to one.                                    *)
LEMMA CalmOne ==
  ASSUME OneLivePerWork, Calm
  PROVE  OneLivePerWork'
BY DEF OneLivePerWork, Calm, OfDraft, OfWork

(* What a request may do to the locks.                                       *)
LEMMA EndLocks ==
  ASSUME TypeOK, NEW p \in Requests, End(p)
  PROVE  LocksStay(p) /\ req'[p] = Idle /\ \A r \in Requests \ {p} : req'[r] = req[r]
BY DEF LocksStay, End, Release, TypeOK

(* A request takes a row lock nobody else has.                              *)
LEMMA TakeLocks ==
  ASSUME TypeOK, NEW p \in Requests, NEW i \in Ids, Free(i, p),
         rowLock' = [rowLock EXCEPT ![i] = p]
  PROVE  LocksStay(p) /\ rowLock'[i] = p
BY Instance DEF LocksStay, Free, TypeOK

(* No request touches another's locks or state.                              *)
LEMMA OwnStep ==
  ASSUME TypeOK, OpFits, WorkFits, NEW p \in Requests,
         Begin(p) \/ BeginPatch(p) \/ Step(p) \/ Fail(p)
  PROVE  LocksStay(p) /\ \A r \in Requests \ {p} : req'[r] = req[r]
<1> DEFINE Stays == \A r \in Requests \ {p} : req'[r] = req[r]
<1>1. ASSUME End(p) PROVE LocksStay(p) /\ Stays
  BY <1>1, EndLocks
<1>2. ASSUME rowLock' = rowLock PROVE LocksStay(p)
  BY <1>2 DEF LocksStay
<1>3. ASSUME NEW i \in Ids, Free(i, p), rowLock' = [rowLock EXCEPT ![i] = p]
      PROVE  LocksStay(p)
  BY <1>3, TakeLocks
<1>4. CASE Begin(p) \/ BeginPatch(p)
  <2>1. rowLock' = rowLock
    BY <1>4 DEF Begin, BeginPatch, Request
  <2>2. Stays
    BY <1>4 DEF Begin, BeginPatch, Request, TypeOK
  <2> QED
    BY <2>1, <2>2, <1>2
<1>5. CASE Fail(p) \/ PatchMissed(p) \/ PatchWrite(p) \/ DeleteEntry(p) \/ Restore(p)
  BY <1>5, <1>1 DEF Fail, PatchMissed, PatchWrite, DeleteEntry, Restore, Refuse
<1>6. CASE AddToWishlist(p) \/ AddUnverified(p) \/ AddPurchased(p)
  BY <1>6, <1>1 DEF AddToWishlist, AddUnverified, AddPurchased, Insert, Refuse
<1>7. CASE CheckOwned(p) \/ CheckDraft(p)
  <2>1. CASE req' = [req EXCEPT ![p].pc = "write"] /\ rowLock' = rowLock
    BY <2>1, <1>2 DEF TypeOK
  <2> QED
    BY <1>7, <2>1, <1>1 DEF CheckOwned, CheckDraft, Refuse
<1>8. CASE FindPurchased(p)
  <2>1. Stays
    BY <1>8 DEF FindPurchased, TypeOK
  <2>2. CASE ToPromote(req[p].book) = {}
    BY <1>8, <2>1, <2>2, <1>2 DEF FindPurchased
  <2>3. CASE ToPromote(req[p].book) # {}
    <3>1. PICK i \in ToPromote(req[p].book) : Free(i, p) /\ rowLock' = [rowLock EXCEPT ![i] = p]
      BY <1>8, <2>3 DEF FindPurchased
    <3>2. i \in Ids
      BY DEF ToPromote, LiveRows, Rows
    <3> QED
      BY <2>1, <3>1, <3>2, <1>3
  <2> QED
    BY <2>2, <2>3
<1>9. CASE PatchRead(p) \/ DeleteRead(p) \/ RestoreRead(p)
  <2>1. CASE Refuse(p)
    BY <2>1, <1>1 DEF Refuse
  <2>2. ASSUME NEW pc, req[p].id \in Ids, Free(req[p].id, p), req' = [req EXCEPT ![p].pc = pc],
               rowLock' = [rowLock EXCEPT ![req[p].id] = p]
        PROVE  LocksStay(p) /\ Stays
    BY <2>2, <1>3 DEF TypeOK
  <2> QED
    BY <1>9, <2>1, <2>2 DEF PatchRead, DeleteRead, RestoreRead, LiveRows, Trash, Rows
<1>10. CASE EvictSameBook(p)
  <2> DEFINE i == req[p].id
             empty == {j \in Trash : HasNoUserData(j)}
             copies == IF OfDraft(i) THEN {j \in empty : SameBook(j, entry[i].book)}
                       ELSE {j \in empty : OfWork(j, entry[i].book) /\ Free(j, p)}
  <2>1. /\ req' = [req EXCEPT ![p].pc = "finish", ![p].ids = copies]
        /\ rowLock' = [j \in Ids |-> IF j \in copies /\ ~OfDraft(i) THEN p ELSE rowLock[j]]
    BY <1>10 DEF EvictSameBook
  <2>2. \A j \in copies : ~OfDraft(i) => Free(j, p)
    OBVIOUS
  <2> HIDE DEF copies
  <2>3. LocksStay(p)
    BY <2>1, <2>2, Instance DEF LocksStay, Free
  <2> QED
    BY <2>1, <2>3 DEF TypeOK
<1> QED
  BY <1>4, <1>5, <1>6, <1>7, <1>8, <1>9, <1>10 DEF Step

(* A request that ends has nothing left to keep.                             *)
LEMMA IdleFits ==
  ASSUME NEW p \in Requests, req'[p] = Idle
  PROVE  Fits(p)'
BY DEF Fits, Idle

(* What a request saw is so when it goes on to write.                        *)
LEMMA OwnFits ==
  ASSUME TypeOK, OpFits, WorkFits, NEW p \in Requests,
         Begin(p) \/ BeginPatch(p) \/ Step(p) \/ Fail(p)
  PROVE  Fits(p)'
<1>1. ASSUME End(p) PROVE Fits(p)'
  BY <1>1, EndLocks, IdleFits
<1>2. CASE Begin(p) \/ BeginPatch(p)
  <2>1. CASE Begin(p)
    <3>1. PICK op \in Ops \ {"patch"}, i \in Ids \cup {None}, b \in Books \cup Drafts \cup {None} :
            req' = [req EXCEPT ![p] = [Idle EXCEPT !.pc = "read", !.op = op, !.id = i,
                       !.book = IF b \in Books THEN Survivor[b] ELSE b]]
      BY <2>1 DEF Begin, Request
    <3>2. req'[p].pc = "read"
      BY <3>1 DEF TypeOK, Idle
    <3> QED
      BY <3>2 DEF Fits
  <2>2. CASE BeginPatch(p)
    <3>1. PICK i \in LiveRows : req' = [req EXCEPT ![p] =
                 [Idle EXCEPT !.pc = "read", !.op = "patch", !.id = i]]
      BY <2>2 DEF BeginPatch
    <3>2. req'[p].pc = "read"
      BY <3>1 DEF TypeOK, Idle
    <3> QED
      BY <3>2 DEF Fits
  <2> QED
    BY <1>2, <2>1, <2>2
<1>3. CASE Fail(p) \/ PatchMissed(p) \/ PatchWrite(p) \/ DeleteEntry(p) \/ Restore(p)
           \/ AddToWishlist(p) \/ AddUnverified(p) \/ AddPurchased(p)
  BY <1>3, <1>1 DEF Fail, PatchMissed, PatchWrite, DeleteEntry, Restore, Refuse,
                    AddToWishlist, AddUnverified, AddPurchased, Insert
<1>4. CASE CheckOwned(p)
  <2>1. CASE HasLiveEntryOfWork(req[p].book)
    BY <1>4, <2>1, <1>1 DEF CheckOwned, Refuse
  <2>2. CASE ~HasLiveEntryOfWork(req[p].book)
    <3>1. /\ req'[p].pc = "write" /\ req'[p].op = "wishlist" /\ req'[p].book = req[p].book
          /\ entry' = entry
      BY <1>4, <2>2 DEF CheckOwned, TypeOK
    <3>2. ~HasLiveEntryOfWork(req[p].book)'
      BY <2>2, <3>1 DEF HasLiveEntryOfWork, LiveRows, Rows, OfWork
    <3> QED
      BY <3>1, <3>2 DEF Fits
  <2> QED
    BY <2>1, <2>2
<1>5. CASE CheckDraft(p)
  <2>1. CASE CannotHold(req[p].book)
    BY <1>5, <2>1, <1>1 DEF CheckDraft, Refuse
  <2>2. CASE ~CannotHold(req[p].book)
    <3>1. req'[p].pc = "write" /\ req'[p].op = "unverified"
      BY <1>5, <2>2 DEF CheckDraft, TypeOK
    <3> QED
      BY <3>1 DEF Fits
  <2> QED
    BY <2>1, <2>2
<1>6. CASE FindPurchased(p)
  <2>1. entry' = entry
    BY <1>6 DEF FindPurchased
  <2>2. CASE ToPromote(req[p].book) = {}
    <3>1. /\ req'[p].pc = "write" /\ req'[p].op = "purchased" /\ req'[p].book = req[p].book
          /\ req'[p].id = None
      BY <1>6, <2>2 DEF FindPurchased, TypeOK, OpFits, OpFit
    <3>2. ~HasLiveEntryOfWork(req[p].book)
      BY <2>2 DEF ToPromote, HasLiveEntryOfWork
    <3>3. ~HasLiveEntryOfWork(req[p].book)'
      BY <2>1, <3>1, <3>2 DEF HasLiveEntryOfWork, LiveRows, Rows, OfWork
    <3> QED
      BY <3>1, <3>3 DEF Fits
  <2>3. CASE ToPromote(req[p].book) # {}
    <3>1. PICK i \in LiveRows : req' = [req EXCEPT ![p].pc = "write", ![p].id = i]
      BY <1>6, <2>3 DEF FindPurchased, ToPromote
    <3>2. req'[p].pc = "write" /\ req'[p].op = "purchased" /\ req'[p].id = i
      BY <1>6, <3>1 DEF FindPurchased, TypeOK
    <3>3. i # None /\ i \in LiveRows'
      BY <2>1, <3>1, Instance DEF LiveRows, Rows
    <3> QED
      BY <3>2, <3>3 DEF Fits
  <2> QED
    BY <2>2, <2>3
<1>7. ASSUME NEW pc \in {"write", "missed", "evict"}, req' = [req EXCEPT ![p].pc = pc],
             req[p].id \in Ids, rowLock' = [rowLock EXCEPT ![req[p].id] = p], entry' = entry,
             req[p].op \in {"patch", "delete", "restore"}, req[p].op = "delete" <=> pc = "evict",
             pc \in {"write", "evict"} /\ req[p].op # "restore" => req[p].id \in LiveRows,
             req[p].op = "restore" => req[p].id \in Trash
      PROVE  Fits(p)'
  <2>1. req'[p].pc = pc /\ req'[p].op = req[p].op /\ req'[p].id = req[p].id
    BY <1>7 DEF TypeOK
  <2>2. Holding(p)'
    BY <1>7, <2>1 DEF Holding, TypeOK
  <2>3. LiveRows' = LiveRows /\ Trash' = Trash
    BY <1>7 DEF LiveRows, Trash, Rows
  <2> QED
    BY <1>7, <2>1, <2>2, <2>3 DEF Fits
<1>8. CASE PatchRead(p)
  BY <1>8, <1>1, <1>7 DEF PatchRead, Refuse, LiveRows, Rows
<1>9. CASE DeleteRead(p)
  BY <1>9, <1>1, <1>7 DEF DeleteRead, Refuse, LiveRows, Rows
<1>10. CASE RestoreRead(p)
  BY <1>10, <1>1, <1>7 DEF RestoreRead, Refuse, Trash, Rows
<1>11. CASE EvictSameBook(p)
  <2>1. Holding(p) /\ req[p].id \in LiveRows
    BY <1>11 DEF EvictSameBook, WorkFits, Fits
  <2>2. entry' = entry /\ req'[p].pc = "finish" /\ req'[p].id = req[p].id
    BY <1>11 DEF EvictSameBook, TypeOK
  <2>3. rowLock'[req[p].id] = p
    BY <1>11, <2>1 DEF EvictSameBook, Holding
  <2>4. LiveRows' = LiveRows
    BY <2>2 DEF LiveRows, Rows
  <2> QED
    BY <2>1, <2>2, <2>3, <2>4 DEF Fits, Holding
<1> QED
  BY <1>2, <1>3, <1>4, <1>5, <1>6, <1>8, <1>9, <1>10, <1>11 DEF Step

(* What a request is about does not change on its way.                       *)
LEMMA OwnOp ==
  ASSUME TypeOK, OpFits, WorkFits, NEW p \in Requests,
         Begin(p) \/ BeginPatch(p) \/ Step(p) \/ Fail(p)
  PROVE  OpFit(p)'
<1>0. OpFit(p)
  BY DEF OpFits
<1>1. ASSUME End(p) PROVE OpFit(p)'
  BY <1>1, EndLocks DEF OpFit, Idle
<1>2. CASE Begin(p)
  <2>1. PICK op \in Ops \ {"patch"}, i \in Ids \cup {None}, b \in Books \cup Drafts \cup {None} :
          /\ op \in {"delete", "restore"} <=> i # None
          /\ op \in {"wishlist", "purchased"} <=> b \in Books
          /\ op = "unverified" <=> b \in Drafts
          /\ req' = [req EXCEPT ![p] = [Idle EXCEPT !.pc = "read", !.op = op, !.id = i,
                     !.book = IF b \in Books THEN Survivor[b] ELSE b]]
    BY <1>2 DEF Begin, Request
  <2>2. /\ req'[p].pc = "read" /\ req'[p].op = op /\ req'[p].id = i
        /\ req'[p].book = IF b \in Books THEN Survivor[b] ELSE b
    BY <2>1 DEF TypeOK, Idle
  <2>3. b \in Books => Survivor[b] \in Books
    BY Instance
  <2>4. b \in Drafts => b \notin Books
    BY Instance
  <2> QED
    BY <2>1, <2>2, <2>3, <2>4 DEF OpFit
<1>3. CASE BeginPatch(p)
  <2>1. PICK i \in LiveRows : req' = [req EXCEPT ![p] =
               [Idle EXCEPT !.pc = "read", !.op = "patch", !.id = i]]
    BY <1>3 DEF BeginPatch
  <2>2. req'[p].pc = "read" /\ req'[p].op = "patch" /\ req'[p].id = i /\ i \in Ids
    BY <2>1 DEF TypeOK, Idle, LiveRows, Rows
  <2> QED
    BY <2>2 DEF OpFit
<1>4. CASE Fail(p) \/ PatchMissed(p) \/ PatchWrite(p) \/ DeleteEntry(p) \/ Restore(p)
           \/ AddToWishlist(p) \/ AddUnverified(p) \/ AddPurchased(p)
  BY <1>4, <1>1 DEF Fail, PatchMissed, PatchWrite, DeleteEntry, Restore, Refuse,
                    AddToWishlist, AddUnverified, AddPurchased, Insert
<1>5. ASSUME NEW pc \in {"write", "missed", "evict"}, req' = [req EXCEPT ![p].pc = pc],
             req[p].pc # "idle", pc = "missed" => req[p].op = "patch",
             pc = "evict" => req[p].op = "delete"
      PROVE  OpFit(p)'
  <2>1. /\ req'[p].pc = pc /\ req'[p].op = req[p].op
        /\ req'[p].id = req[p].id /\ req'[p].book = req[p].book
    BY <1>5 DEF TypeOK
  <2> QED
    BY <1>0, <1>5, <2>1 DEF OpFit
<1>6. CASE CheckOwned(p) \/ CheckDraft(p)
  BY <1>6, <1>1, <1>5 DEF CheckOwned, CheckDraft, Refuse
<1>7. CASE PatchRead(p) \/ DeleteRead(p) \/ RestoreRead(p)
  BY <1>7, <1>1, <1>5 DEF PatchRead, DeleteRead, RestoreRead, Refuse
<1>8. CASE FindPurchased(p)
  <2>1. /\ req'[p].pc = "write" /\ req'[p].op = "purchased" /\ req'[p].book = req[p].book
    BY <1>8 DEF FindPurchased, TypeOK
  <2> QED
    BY <1>0, <1>8, <2>1 DEF OpFit, FindPurchased
<1>9. CASE EvictSameBook(p)
  <2>1. /\ req'[p].pc = "finish" /\ req'[p].op = req[p].op
        /\ req'[p].id = req[p].id /\ req'[p].book = req[p].book
    BY <1>9 DEF EvictSameBook, TypeOK
  <2> QED
    BY <1>0, <1>9, <2>1 DEF OpFit, EvictSameBook
<1> QED
  BY <1>2, <1>3, <1>4, <1>6, <1>7, <1>8, <1>9 DEF Step

(* Every step of a request keeps OpFits.                                    *)
LEMMA OpStep ==
  ASSUME TypeOK, OpFits, WorkFits, NEW p \in Requests,
         Begin(p) \/ BeginPatch(p) \/ Step(p) \/ Fail(p)
  PROVE  OpFits'
<1>1. OpFit(p)'
  BY OwnOp
<1>2. ASSUME NEW r \in Requests \ {p} PROVE OpFit(r)'
  <2>1. req'[r] = req[r]
    BY OwnStep
  <2> QED
    BY <2>1 DEF OpFit, OpFits
<1> QED
  BY <1>1, <1>2 DEF OpFits

(* The user's row lock is taken only when it is free, and only given back    *)
(* at the end.                                                               *)
LEMMA LockStep ==
  ASSUME TypeOK, OpFits, WorkFits, LockFits, NEW p \in Requests,
         Begin(p) \/ BeginPatch(p) \/ Step(p) \/ Fail(p)
  PROVE  LockFits'
<1>0. \A r \in Requests \ {p} : req'[r] = req[r]
  BY OwnStep
<1>n. \A r \in Requests : r # None
  BY Instance
<1>1. CASE End(p)
  <2>1. req'[p] = Idle /\ userLock' = IF userLock = p THEN None ELSE userLock
    BY <1>1, EndLocks DEF End, Release
  <2> QED
    BY <1>0, <2>1 DEF LockFits, Idle
<1>2. CASE Begin(p)
  <2>1. userLock = None /\ userLock' = p
    BY <1>2 DEF Begin
  <2> QED
    BY <1>0, <1>n, <2>1 DEF LockFits
<1>3. CASE BeginPatch(p)
  <2>1. PICK i \in LiveRows : req' = [req EXCEPT ![p] =
               [Idle EXCEPT !.pc = "read", !.op = "patch", !.id = i]]
    BY <1>3 DEF BeginPatch
  <2>2. req'[p].op = "patch" /\ userLock' = userLock
    BY <1>3, <2>1 DEF TypeOK, Idle, BeginPatch
  <2> QED
    BY <1>0, <2>2 DEF LockFits
<1>4. ASSUME req[p].pc # "idle", req'[p].op = req[p].op, userLock' = userLock
      PROVE  LockFits'
  BY <1>0, <1>4 DEF LockFits
<1>5. CASE Fail(p) \/ PatchMissed(p) \/ PatchWrite(p) \/ DeleteEntry(p) \/ Restore(p)
           \/ AddToWishlist(p) \/ AddUnverified(p) \/ AddPurchased(p)
  BY <1>5, <1>1 DEF Fail, PatchMissed, PatchWrite, DeleteEntry, Restore, Refuse,
                    AddToWishlist, AddUnverified, AddPurchased, Insert
<1>6. ASSUME NEW pc, req' = [req EXCEPT ![p].pc = pc], userLock' = userLock, req[p].pc # "idle"
      PROVE  LockFits'
  BY <1>4, <1>6 DEF TypeOK
<1>7. CASE CheckOwned(p) \/ CheckDraft(p)
  BY <1>7, <1>1, <1>6 DEF CheckOwned, CheckDraft, Refuse
<1>8. CASE PatchRead(p) \/ DeleteRead(p) \/ RestoreRead(p)
  BY <1>8, <1>1, <1>6 DEF PatchRead, DeleteRead, RestoreRead, Refuse
<1>9. CASE FindPurchased(p) \/ EvictSameBook(p)
  <2>1. req[p].pc # "idle" /\ req'[p].op = req[p].op /\ userLock' = userLock
    BY <1>9 DEF FindPurchased, EvictSameBook, TypeOK
  <2> QED
    BY <2>1, <1>4
<1> QED
  BY <1>2, <1>3, <1>5, <1>7, <1>8, <1>9 DEF Step

(* Requests leave the rows of a purge alone.                                 *)
LEMMA RequestPurges ==
  ASSUME TypeOK, OpFits, WorkFits, PurgeFits, NEW p \in Requests,
         Begin(p) \/ BeginPatch(p) \/ Step(p) \/ Fail(p)
  PROVE  PurgeFits'
<1>1. LocksStay(p)
  BY OwnStep
<1>2. purge' = purge
  BY DEF Begin, BeginPatch, Request, Step, Fail, CheckOwned, AddToWishlist, FindPurchased,
         AddPurchased, CheckDraft, AddUnverified, PatchRead, PatchWrite, PatchMissed, DeleteRead,
         EvictSameBook, DeleteEntry, RestoreRead, Restore, Others
<1>3. \A q \in Purgers : q \in (Requests \cup Purgers) \ {p}
  BY Instance
<1>4. \A q \in Purgers : purge[q].ids \subseteq Ids
  BY DEF TypeOK
<1> QED
  BY <1>1, <1>2, <1>3, <1>4 DEF PurgeFits, LocksStay

(* A purge takes locks nobody has and deletes rows only it holds.            *)
LEMMA PurgeStep ==
  ASSUME TypeOK, PurgeFits, NEW q \in Purgers, Purge(q) \/ PurgeFail(q)
  PROVE  LocksStay(q) /\ Calm /\ PurgeFits' /\ UNCHANGED <<userLock, req>>
<1>1. CASE PurgeSkipped(q)
  <2>1. LocksStay(q)
    BY <1>1 DEF PurgeSkipped, LocksStay
  <2>2. PurgeFits'
    BY <1>1 DEF PurgeSkipped, PurgeFits, Resting, TypeOK
  <2> QED
    BY <1>1, <2>1, <2>2, SameEntries DEF PurgeSkipped
<1>2. CASE PurgeSelect(q)
  <2>1. PICK batch : /\ \A i \in batch : i \in Ids /\ rowLock[i] = None
                     /\ rowLock' = [i \in Ids |-> IF i \in batch THEN q ELSE rowLock[i]]
                     /\ purge' = [purge EXCEPT ![q] = [@ EXCEPT !.pc = "delete", !.ids = batch,
                                                                !.cutoff = Cutoff(q)]]
    BY <1>2 DEF PurgeSelect
  <2>2. LocksStay(q)
    BY <2>1, Instance DEF LocksStay
  <2>3. \A i \in batch : rowLock'[i] = q
    BY <2>1
  <2>4. purge'[q].ids = batch
    BY <2>1 DEF TypeOK
  <2>5. \A r \in Purgers \ {q} : purge'[r] = purge[r] /\ purge[r].ids \subseteq Ids
    BY <2>1 DEF TypeOK
  <2>6. PurgeFits'
    BY <2>2, <2>3, <2>4, <2>5 DEF PurgeFits, LocksStay
  <2> QED
    BY <1>2, <2>2, <2>6, SameEntries DEF PurgeSelect
<1>3. ASSUME NEW next, PurgeEnd(q, next), next.pc # "delete"
      PROVE  LocksStay(q) /\ PurgeFits' /\ UNCHANGED <<userLock, req>>
  <2>1. LocksStay(q)
    BY <1>3 DEF PurgeEnd, LocksStay
  <2>2. purge'[q].pc # "delete"
    BY <1>3 DEF PurgeEnd, TypeOK
  <2>3. \A r \in Purgers \ {q} : purge'[r] = purge[r] /\ purge[r].ids \subseteq Ids
    BY <1>3 DEF PurgeEnd, TypeOK
  <2>4. PurgeFits'
    BY <2>1, <2>2, <2>3 DEF PurgeFits, LocksStay
  <2> QED
    BY <1>3, <2>1, <2>4 DEF PurgeEnd
<1>4. CASE PurgeDelete(q)
  <2>1. PICK next : /\ PurgeEnd(q, next)
                    /\ \/ next = Resting
                       \/ next = [purge[q] EXCEPT !.pc = "batch", !.ids = {},
                                                  !.batches = purge[q].batches + 1]
    BY <1>4 DEF PurgeDelete
  <2>2. next.pc # "delete"
    <3>1. purge[q] \in Purges
      BY DEF TypeOK, Purges
    <3>2. [purge[q] EXCEPT !.pc = "batch", !.ids = {}, !.batches = purge[q].batches + 1].pc
            = "batch"
      BY <3>1 DEF Purges
    <3>3. CASE next = Resting
      BY <3>3 DEF Resting
    <3>4. CASE next = [purge[q] EXCEPT !.pc = "batch", !.ids = {},
                                       !.batches = purge[q].batches + 1]
      BY <3>2, <3>4, Zenon
    <3> QED
      BY <2>1, <3>3, <3>4
  <2> DEFINE gone == {i \in purge[q].ids : Expired(i, purge[q].cutoff)}
  <2>3. entry' = Erased(gone)
    BY <1>4 DEF PurgeDelete
  <2>4. \A i \in gone : i \in Trash /\ i \in Ids /\ rowLock[i] = q
    BY <1>4 DEF PurgeDelete, PurgeFits, Expired, Trash, Rows
  <2> HIDE DEF gone
  <2>5. \A i \in gone : i \notin LiveRows /\ rowLock[i] \notin Requests
    BY <2>4, Instance DEF Trash, LiveRows
  <2>6. \A i \in Ids : (i \notin gone => entry'[i] = entry[i]) /\ (i \in gone => entry'[i] = None)
    BY <2>3 DEF Erased
  <2>7. Calm
    BY <2>5, <2>6 DEF Calm, LiveRows, Trash, Rows
  <2> QED
    BY <2>1, <2>2, <2>7, <1>3
<1>5. CASE PurgeFail(q)
  <2>1. PurgeEnd(q, Resting) /\ entry' = entry
    BY <1>5 DEF PurgeFail
  <2> QED
    BY <2>1, <1>3, SameEntries DEF Resting
<1> QED
  BY <1>1, <1>2, <1>4, <1>5 DEF Purge

(* The steps of requests that leave the live entries what they are.          *)
CalmStep(p) ==
  \/ Begin(p) \/ BeginPatch(p) \/ Fail(p)
  \/ CheckOwned(p) \/ FindPurchased(p) \/ CheckDraft(p) \/ EvictSameBook(p)
  \/ PatchRead(p) \/ PatchMissed(p) \/ DeleteRead(p) \/ RestoreRead(p)

(* None of them writes an entry.                                            *)
LEMMA CalmSteps ==
  ASSUME NEW p \in Requests, CalmStep(p)
  PROVE  entry' = entry
BY DEF CalmStep, Begin, BeginPatch, Request, Fail, CheckOwned, FindPurchased, CheckDraft,
       EvictSameBook, PatchRead, PatchMissed, DeleteRead, RestoreRead, Refuse

(* An edit changes what an entry holds, not where it is.                     *)
LEMMA EditCalm ==
  ASSUME TypeOK, NEW i \in LiveRows, NEW data \in BOOLEAN,
         entry' = [entry EXCEPT ![i].data = data]
  PROVE  Calm
<1>1. i \in Ids /\ entry[i] \in Entry
  BY DEF LiveRows, Rows, TypeOK
<1>2. /\ entry'[i].book = entry[i].book /\ entry'[i].deleted_at = entry[i].deleted_at
      /\ entry'[i] \in Entry
  BY <1>1 DEF Entry, TypeOK
<1>3. \A j \in Ids \ {i} : entry'[j] = entry[j]
  BY DEF TypeOK
<1>4. entry'[i] # None /\ entry[i] # None
  BY <1>1, <1>2, NoneIsNoRow
<1> QED
  BY <1>1, <1>2, <1>3, <1>4 DEF Calm, LiveRows, Trash, Rows

(* While one request that is no PATCH is at work, all others are PATCHes.    *)
LEMMA AlonePatches ==
  ASSUME LockFits, NEW p \in Requests, NEW r \in Requests \ {p},
         req[p].pc # "idle", req[p].op # "patch", req[r].pc # "idle"
  PROVE  req[r].op = "patch"
BY DEF LockFits

(* A PATCH keeps what it saw while its own entry stays live.                 *)
LEMMA PatchFits ==
  ASSUME TypeOK, OpFits, NEW r \in Requests, Fits(r), req'[r] = req[r],
         \A i \in Ids : rowLock[i] = r => rowLock'[i] = r,
         req[r].pc # "idle" => req[r].op = "patch",
         Holding(r) /\ req[r].id \in LiveRows => req[r].id \in LiveRows'
  PROVE  Fits(r)'
<1>1. OpFit(r)
  BY DEF OpFits
<1>2. Holding(r) => Holding(r)'
  BY DEF Holding
<1> QED
  BY <1>1, <1>2 DEF Fits, OpFit

(* An entry that goes live on a work with none keeps it to one.              *)
LEMMA GrowOne ==
  ASSUME OneLivePerWork, NEW i, LiveRows' = LiveRows \cup {i},
         \A j \in LiveRows \ {i} : entry'[j].book = entry[j].book,
         i \notin LiveRows,
         OfDraft(i)' \/ ~HasLiveEntryOfWork(entry'[i].book)
  PROVE  OneLivePerWork'
<1> SUFFICES ASSUME NEW j \in LiveRows', NEW k \in LiveRows', ~OfDraft(j)', ~OfDraft(k)',
                    OfWork(j, entry[k].book)', j # k
             PROVE  FALSE
  BY DEF OneLivePerWork
<1>1. \A x \in LiveRows : entry'[x].book = entry[x].book
  OBVIOUS
<1>2. CASE j # i /\ k # i
  BY <1>1, <1>2 DEF OneLivePerWork, OfDraft, OfWork
<1>3. CASE k = i
  BY <1>1, <1>3 DEF HasLiveEntryOfWork, OfWork
<1>4. CASE j = i
  BY <1>1, <1>4 DEF HasLiveEntryOfWork, OfWork
<1> QED
  BY <1>2, <1>3, <1>4

(* What others saw stands while the entries they hold stay live.             *)
LEMMA OthersFit ==
  ASSUME TypeOK, OpFits, LockFits, WorkFits, NEW p \in Requests, Step(p),
         req[p].pc # "idle", req[p].op # "patch",
         \A i \in LiveRows : rowLock[i] # p => i \in LiveRows'
  PROVE  \A r \in Requests \ {p} : Fits(r)'
<1> SUFFICES ASSUME NEW r \in Requests \ {p} PROVE Fits(r)'
  OBVIOUS
<1>1. LocksStay(p) /\ req'[r] = req[r]
  BY OwnStep
<1>2. \A i \in Ids : rowLock[i] = r => rowLock'[i] = r
  BY <1>1 DEF LocksStay
<1>3. req[r].pc # "idle" => req[r].op = "patch"
  BY AlonePatches
<1>4. Holding(r) /\ req[r].id \in LiveRows => req[r].id \in LiveRows'
  BY DEF Holding
<1> QED
  BY <1>1, <1>2, <1>3, <1>4, PatchFits DEF WorkFits

(* An entry added on a work with none disturbs nobody.                      *)
LEMMA InsertLoud ==
  ASSUME TypeOK, OpFits, LockFits, WorkFits, OneLivePerWork, NEW p \in Requests, Step(p),
         req[p].pc # "idle", req[p].op # "patch", NEW row \in Entry, NEW draft,
         row.deleted_at = 0, row.book \in Drafts \/ ~HasLiveEntryOfWork(row.book),
         Insert(p, row, draft)
  PROVE  (\A r \in Requests \ {p} : Fits(r)') /\ OneLivePerWork'
<1>1. CASE Refuse(p)
  <2>1. Calm
    BY <1>1, SameEntries DEF Refuse
  <2>2. \A i \in LiveRows : i \in LiveRows'
    BY <2>1 DEF Calm
  <2> QED
    BY <2>1, <2>2, OthersFit, CalmOne
<1>2. ASSUME NEW i \in Fresh, entry' = [entry EXCEPT ![i] = row]
      PROVE  (\A r \in Requests \ {p} : Fits(r)') /\ OneLivePerWork'
  <2>1. i \in Ids /\ i \notin Rows
    BY DEF Fresh
  <2>2. entry'[i] = row /\ \A j \in Ids \ {i} : entry'[j] = entry[j]
    BY <1>2, <2>1 DEF TypeOK
  <2>3. row # None
    BY NoneIsNoRow
  <2>4. i \notin LiveRows
    BY <2>1 DEF LiveRows
  <2>5. LiveRows' = LiveRows \cup {i}
    BY <2>1, <2>2, <2>3 DEF LiveRows, Rows
  <2>6. \A j \in LiveRows \ {i} : entry'[j].book = entry[j].book
    BY <2>2 DEF LiveRows, Rows
  <2>7. OfDraft(i)' \/ ~HasLiveEntryOfWork(entry'[i].book)
    BY <2>2 DEF OfDraft
  <2>8. OneLivePerWork'
    BY <2>4, <2>5, <2>6, <2>7, GrowOne
  <2> QED
    BY <2>5, <2>8, OthersFit
<1> QED
  BY <1>1, <1>2 DEF Insert

(* Every step of a request keeps what requests saw, and a work's entries one.*)
LEMMA RequestFits ==
  ASSUME TypeOK, OpFits, LockFits, WorkFits, OneLivePerWork, NEW p \in Requests,
         Begin(p) \/ BeginPatch(p) \/ Step(p) \/ Fail(p)
  PROVE  WorkFits' /\ OneLivePerWork'
<1> DEFINE Goal == (\A r \in Requests \ {p} : Fits(r)') /\ OneLivePerWork'
<1> SUFFICES Goal
  BY OwnFits DEF WorkFits
<1>c. ASSUME Calm PROVE Goal
  <2>1. OneLivePerWork'
    BY <1>c, CalmOne
  <2>2. ASSUME NEW r \in Requests \ {p} PROVE Fits(r)'
    <3>1. LocksStay(p) /\ req'[r] = req[r]
      BY OwnStep
    <3>2. \A i \in Ids : rowLock[i] = r => rowLock'[i] = r
      BY <3>1 DEF LocksStay
    <3>3. Fits(r)
      BY DEF WorkFits
    <3> QED
      BY <1>c, <3>1, <3>2, <3>3, CalmFits
  <2> QED
    BY <2>1, <2>2
<1>r. ASSUME Refuse(p) PROVE Goal
  BY <1>r, <1>c, SameEntries DEF Refuse
<1>o. OpFit(p) /\ Fits(p)
  BY DEF OpFits, WorkFits
<1>1. CASE CalmStep(p)
  BY <1>1, <1>c, CalmSteps, SameEntries
<1>2. CASE PatchWrite(p)
  <2>1. req[p].id \in LiveRows
    BY <1>2, <1>o DEF PatchWrite, Fits
  <2>2. ASSUME NEW data \in BOOLEAN, entry' = [entry EXCEPT ![req[p].id].data = data] PROVE Goal
    BY <2>1, <2>2, <1>c, EditCalm
  <2> QED
    BY <1>2, <1>r, <2>2 DEF PatchWrite
<1>3. CASE AddToWishlist(p)
  <2>1. req[p].pc # "idle" /\ req[p].op # "patch" /\ req[p].book \in Books
        /\ ~HasLiveEntryOfWork(req[p].book)
    BY <1>3, <1>o DEF AddToWishlist, OpFit, Fits
  <2>2. ASSUME NEW edition \in BOOLEAN,
               Insert(p, [book |-> req[p].book, data |-> edition, deleted_at |-> 0], "none")
        PROVE  Goal
    <3>1. [book |-> req[p].book, data |-> edition, deleted_at |-> 0] \in Entry
      BY <2>1, Instance DEF Entry
    <3> QED
      BY <1>3, <2>1, <2>2, <3>1, InsertLoud DEF Step
  <2> QED
    BY <1>3, <1>r, <2>2 DEF AddToWishlist
<1>4. CASE AddPurchased(p)
  <2>1. req[p].pc # "idle" /\ req[p].op # "patch" /\ req[p].book \in Books
    BY <1>4, <1>o DEF AddPurchased, OpFit
  <2>2. CASE req[p].id # None
    <3>1. req[p].id \in LiveRows
      BY <1>4, <1>o, <2>2 DEF AddPurchased, Fits
    <3> QED
      BY <1>4, <1>c, <2>2, <3>1, EditCalm DEF AddPurchased
  <2>3. CASE req[p].id = None
    <3>1. ~HasLiveEntryOfWork(req[p].book)
      BY <1>4, <1>o, <2>3 DEF AddPurchased, Fits
    <3>2. [book |-> req[p].book, data |-> TRUE, deleted_at |-> 0] \in Entry
      BY <2>1, Instance DEF Entry
    <3>3. Insert(p, [book |-> req[p].book, data |-> TRUE, deleted_at |-> 0], "none")
      BY <1>4, <2>3 DEF AddPurchased
    <3> QED
      BY <1>4, <2>1, <3>1, <3>2, <3>3, InsertLoud DEF Step
  <2> QED
    BY <2>2, <2>3
<1>5. CASE AddUnverified(p)
  <2>1. req[p].pc # "idle" /\ req[p].op # "patch" /\ req[p].book \in Drafts
    BY <1>5, <1>o DEF AddUnverified, OpFit
  <2>2. [book |-> req[p].book, data |-> FALSE, deleted_at |-> 0] \in Entry
    BY <2>1, Instance DEF Entry
  <2>3. Insert(p, [book |-> req[p].book, data |-> FALSE, deleted_at |-> 0], "live")
    BY <1>5 DEF AddUnverified
  <2> QED
    BY <1>5, <2>1, <2>2, <2>3, InsertLoud DEF Step
<1>6. CASE DeleteEntry(p)
  <2> DEFINE own == req[p].id
  <2>1. /\ req[p].pc # "idle" /\ req[p].op # "patch"
        /\ own \in Ids /\ rowLock[own] = p /\ own \in LiveRows
    BY <1>6, <1>o DEF DeleteEntry, OpFit, Fits, Holding
  <2>2. PICK gone : /\ gone \subseteq Trash
                    /\ entry' = [Erased(gone) EXCEPT ![own].deleted_at = clock]
    BY <1>6 DEF DeleteEntry, OverCap
  <2>3. \A i \in gone : i \notin LiveRows
    BY <2>2 DEF Trash, LiveRows
  <2>4. \A i \in Ids \ {own} : entry'[i] = IF i \in gone THEN None ELSE entry[i]
    BY <2>2 DEF Erased
  <2>5. entry'[own].deleted_at # 0
    <3>1. Erased(gone)[own] = entry[own] /\ entry[own] \in Entry
      BY <2>1, <2>3 DEF Erased, TypeOK, LiveRows, Rows
    <3>2. entry'[own] = [entry[own] EXCEPT !.deleted_at = clock]
      BY <2>1, <2>2, <3>1 DEF Erased
    <3>3. clock \in Nat /\ clock # 0
      BY Instance DEF TypeOK
    <3> QED
      BY <3>1, <3>2, <3>3 DEF Entry
  <2>6. \A i \in LiveRows \ {own} : i \in LiveRows' /\ entry'[i].book = entry[i].book
    BY <2>3, <2>4 DEF LiveRows, Rows
  <2>7. \A i \in LiveRows' : i \in LiveRows \ {own}
    BY <2>3, <2>4, <2>5 DEF LiveRows, Rows
  <2>8. OneLivePerWork'
    BY <2>6, <2>7 DEF OneLivePerWork, OfDraft, OfWork
  <2>9. \A r \in Requests \ {p} : Fits(r)'
    BY <1>6, <2>1, <2>6, OthersFit DEF Step
  <2> QED
    BY <2>8, <2>9
<1>7. CASE Restore(p)
  <2>0. PICK i : i = req[p].id
    OBVIOUS
  <2>1. /\ req[p].pc # "idle" /\ req[p].op # "patch" /\ i \in Ids /\ i \in Trash
    BY <1>7, <1>o, <2>0 DEF Restore, OpFit, Fits, Holding
  <2>2. CASE /\ OfDraft(i) \/ ~HasLiveEntryOfWork(entry[i].book)
             /\ entry' = [entry EXCEPT ![i].deleted_at = 0]
    <3>1. entry[i] \in Entry
      BY <2>1 DEF Trash, Rows, TypeOK
    <3>2. /\ entry'[i].book = entry[i].book /\ entry'[i].deleted_at = 0
          /\ entry'[i] \in Entry /\ \A j \in Ids \ {i} : entry'[j] = entry[j]
      BY <2>1, <2>2, <3>1, Instance DEF Entry, TypeOK
    <3>3. entry'[i] # None
      BY <3>2, NoneIsNoRow
    <3>4. i \notin LiveRows
      BY <2>1 DEF Trash, LiveRows
    <3>5. LiveRows' = LiveRows \cup {i}
      BY <2>1, <3>2, <3>3 DEF LiveRows, Rows
    <3>6. \A j \in LiveRows \ {i} : entry'[j].book = entry[j].book
      BY <3>2 DEF LiveRows, Rows
    <3>7. OfDraft(i)' \/ ~HasLiveEntryOfWork(entry'[i].book)
      BY <2>2, <3>2 DEF OfDraft
    <3>8. OneLivePerWork'
      BY <3>4, <3>5, <3>6, <3>7, GrowOne
    <3> QED
      BY <1>7, <2>1, <3>5, <3>8, OthersFit DEF Step
  <2> QED
    BY <1>7, <1>r, <2>0, <2>2 DEF Restore
<1> QED
  BY <1>1, <1>2, <1>3, <1>4, <1>5, <1>6, <1>7 DEF Step, CalmStep

-----------------------------------------------------------------------------
(* The theorems.                                                             *)

(* The invariant holds at the start ...                                     *)
LEMMA InitInv == Init => IInv
<1> SUFFICES ASSUME Init PROVE IInv
  OBVIOUS
<1>1. PICK old \in [Ids -> {b \in Books : Survivor[b] # b} \cup {None}] :
        /\ \A i, j \in Ids : old[i] # None /\ old[j] # None => i = j
        /\ entry = [i \in Ids |->
             IF old[i] = None THEN None ELSE [book |-> old[i], data |-> FALSE, deleted_at |-> 0]]
  BY DEF Init
<1>2. \A i \in Ids : old[i] # None => [book |-> old[i], data |-> FALSE, deleted_at |-> 0] \in Entry
  BY Instance DEF Entry
<1>3. RowsTyped
  BY <1>1, <1>2 DEF RowsTyped, Init, Customs
<1>4. LocksTyped /\ OthersTyped /\ ReqTyped
  BY Instance, IdleTyped, RestingTyped DEF Init, LocksTyped, OthersTyped, ReqTyped
<1>5. \A p \in Requests : req[p].pc = "idle"
  BY DEF Init, Idle
<1>6. OpFits /\ LockFits /\ WorkFits
  BY <1>5 DEF OpFits, OpFit, LockFits, WorkFits, Fits
<1>7. PurgeFits
  BY DEF Init, PurgeFits, Resting
<1>8. \A i \in LiveRows : old[i] # None /\ i \in Ids
  BY <1>1 DEF LiveRows, Rows
<1>9. OneLivePerWork
  BY <1>1, <1>8 DEF OneLivePerWork
<1> QED
  BY <1>3, <1>4, <1>6, <1>7, <1>9, Types DEF IInv

(* ... and every step keeps it.                                             *)
LEMMA NextInv == IInv /\ [Next]_vars => IInv'
<1> SUFFICES ASSUME IInv, [Next]_vars PROVE IInv'
  OBVIOUS
<1> USE DEF IInv
<1>1. ASSUME NEW p \in Requests, Begin(p) \/ BeginPatch(p) \/ Step(p) \/ Fail(p) PROVE IInv'
  BY <1>1, RequestTyped, OpStep, LockStep, RequestFits, RequestPurges
<1>2. ASSUME NEW q \in Purgers, Purge(q) \/ PurgeFail(q) PROVE IInv'
  <2>1. LocksStay(q) /\ Calm /\ PurgeFits' /\ UNCHANGED <<userLock, req>>
    BY <1>2, PurgeStep
  <2>2. TypeOK'
    BY <1>2, PurgeTyped
  <2>3. OpFits' /\ LockFits'
    BY <2>1 DEF OpFits, OpFit, LockFits
  <2>4. ASSUME NEW r \in Requests PROVE Fits(r)'
    <3>1. \A i \in Ids : rowLock[i] = r => rowLock'[i] = r
      BY <2>1, Instance DEF LocksStay
    <3> QED
      BY <2>1, <3>1, CalmFits DEF WorkFits
  <2> QED
    BY <2>1, <2>2, <2>3, <2>4, CalmOne DEF WorkFits
<1>3. CASE Tick
  <2>1. UNCHANGED <<entry, custom, userLock, rowLock, advisory, req, purge>>
    BY <1>3 DEF Tick
  <2>2. clock' \in 1 .. MaxTime
    BY <1>3, Instance DEF Tick, TypeOK
  <2>3. TypeOK'
    BY <2>1, <2>2 DEF TypeOK
  <2> QED
    BY <2>1, <2>3 DEF OpFits, OpFit, LockFits, WorkFits, Fits, Holding, PurgeFits, OneLivePerWork,
         HasLiveEntryOfWork, LiveRows, Trash, Rows, OfDraft, OfWork
<1>4. CASE UNCHANGED vars
  BY <1>4 DEF vars, TypeOK, OpFits, OpFit, LockFits, WorkFits, Fits, Holding, PurgeFits,
       OneLivePerWork, HasLiveEntryOfWork, LiveRows, Trash, Rows, OfDraft, OfWork
<1> QED
  BY <1>1, <1>2, <1>3, <1>4 DEF Next

(* What requests and purges know of each other's work holds in every state.  *)
THEOREM Invariant == Spec => []IInv
BY InitInv, NextInv, PTL DEF Spec

(* Rows, locks, requests and clean-ups keep the values the code gives them.  *)
THEOREM TypeCorrect == Spec => []TypeOK
<1>1. IInv => TypeOK
  BY DEF IInv
<1> QED
  BY <1>1, Invariant, PTL

(* A library holds one live entry of a work, whatever rows its entries name  *)
(* and however adds, restores and deletes overlap.                           *)
THEOREM OneLiveEntry == Spec => []OneLivePerWork
<1>1. IInv => OneLivePerWork
  BY DEF IInv
<1> QED
  BY <1>1, Invariant, PTL

Frozen ==
  \A i \in Trash : i \in Rows' => entry'[i] \in {entry[i], [entry[i] EXCEPT !.deleted_at = 0]}

(* No step writes to a trashed row but a restore.                           *)
LEMMA FrozenStep == IInv /\ [Next]_vars => Frozen
<1> SUFFICES ASSUME IInv, [Next]_vars, NEW i \in Trash, i \in Rows'
             PROVE  entry'[i] \in {entry[i], [entry[i] EXCEPT !.deleted_at = 0]}
  BY DEF Frozen
<1>0. i \in Ids /\ i \in Rows /\ i \notin LiveRows
  BY DEF Trash, Rows, LiveRows
<1>1. CASE entry' = entry
  BY <1>1
<1>2. ASSUME NEW p \in Requests, Step(p)
      PROVE  entry'[i] \in {entry[i], [entry[i] EXCEPT !.deleted_at = 0]}
  <2>o. Fits(p) /\ entry \in [Ids -> Entry \cup {None}]
    BY DEF IInv, WorkFits, TypeOK
  <2>r. CASE Refuse(p)
    BY <2>r, <1>1 DEF Refuse
  <2>1. ASSUME NEW row, NEW draft, Insert(p, row, draft)
        PROVE  entry'[i] \in {entry[i], [entry[i] EXCEPT !.deleted_at = 0]}
    <3>1. ASSUME NEW j \in Fresh, entry' = [entry EXCEPT ![j] = row] PROVE entry'[i] = entry[i]
      BY <1>0, <2>o, <3>1 DEF Fresh
    <3> QED
      BY <2>1, <2>r, <3>1 DEF Insert
  <2>2. CASE CalmStep(p)
    BY <1>1, <2>2, CalmSteps
  <2>3. CASE PatchWrite(p)
    <3>1. req[p].id \in LiveRows
      BY <2>3, <2>o DEF PatchWrite, Fits
    <3>2. ASSUME NEW data, entry' = [entry EXCEPT ![req[p].id].data = data]
          PROVE  entry'[i] = entry[i]
      BY <1>0, <2>o, <3>1, <3>2
    <3> QED
      BY <2>3, <2>r, <3>2 DEF PatchWrite
  <2>4. CASE AddToWishlist(p) \/ AddUnverified(p)
    BY <2>4, <2>r, <2>1 DEF AddToWishlist, AddUnverified
  <2>5. CASE AddPurchased(p)
    <3>1. CASE req[p].id # None
      <4>1. req[p].id \in LiveRows
        BY <2>5, <2>o, <3>1 DEF AddPurchased, Fits
      <4>2. entry' = [entry EXCEPT ![req[p].id].data = TRUE]
        BY <2>5, <3>1 DEF AddPurchased
      <4> QED
        BY <1>0, <2>o, <4>1, <4>2
    <3> QED
      BY <2>5, <2>1, <3>1 DEF AddPurchased
  <2>6. CASE DeleteEntry(p)
    <3>1. req[p].id \in LiveRows
      BY <2>6, <2>o DEF DeleteEntry, Fits
    <3>2. PICK gone : entry' = [Erased(gone) EXCEPT ![req[p].id].deleted_at = clock]
      BY <2>6 DEF DeleteEntry
    <3>3. entry'[i] = IF i \in gone THEN None ELSE entry[i]
      BY <1>0, <3>1, <3>2 DEF Erased
    <3>4. entry'[i] # None
      BY DEF Rows
    <3> QED
      BY <3>3, <3>4
  <2>7. CASE Restore(p)
    <3>1. CASE entry' = [entry EXCEPT ![req[p].id].deleted_at = 0]
      BY <1>0, <2>o, <3>1
    <3> QED
      BY <2>7, <2>r, <3>1 DEF Restore
  <2> QED
    BY <1>2, <2>2, <2>3, <2>4, <2>5, <2>6, <2>7 DEF Step, CalmStep
<1>3. ASSUME NEW q \in Purgers, Purge(q)
      PROVE  entry'[i] \in {entry[i], [entry[i] EXCEPT !.deleted_at = 0]}
  <2>1. ASSUME NEW gone, entry' = Erased(gone) PROVE entry'[i] = entry[i]
    BY <1>0, <2>1 DEF Erased, Rows
  <2> QED
    BY <1>3, <1>1, <2>1 DEF Purge, PurgeSkipped, PurgeSelect, PurgeDelete
<1>4. CASE Tick \/ UNCHANGED vars
  BY <1>4, <1>1 DEF Tick, vars
<1>5. ASSUME NEW p \in Requests, Begin(p) \/ BeginPatch(p) \/ Fail(p)
      PROVE  entry' = entry
  BY <1>5, CalmSteps DEF CalmStep
<1>6. ASSUME NEW q \in Purgers, PurgeFail(q) PROVE entry' = entry
  BY <1>6 DEF PurgeFail
<1> QED
  BY <1>1, <1>2, <1>3, <1>4, <1>5, <1>6 DEF Next

(* What is in the trash comes back as it was deleted: no step writes to it    *)
(* but the restore and the deletes.                                          *)
THEOREM TrashIsFrozen == Spec => TrashFrozen
<1>1. IInv /\ [Next]_vars => [Frozen]_vars
  BY FrozenStep
<1>2. Spec => [][Frozen]_vars
  BY <1>1, Invariant, PTL DEF Spec
<1> QED
  BY <1>2 DEF TrashFrozen, Frozen

-----------------------------------------------------------------------------
(* What leaves the library for good.                                         *)

(* The place of i among the rows K of the trash, newest first.                *)
Ahead(K, i) == {j \in K : Newer(j, i)}
Place(K, i) == Cardinality(Ahead(K, i))

LEMMA NewerOrders ==
  ASSUME TypeOK, NEW i \in Trash, NEW j \in Trash, NEW k \in Trash
  PROVE  /\ ~Newer(i, i) /\ (i = j \/ Newer(i, j) \/ Newer(j, i))
         /\ Newer(i, j) /\ Newer(j, k) => Newer(i, k)
<1>1. i \in Nat /\ j \in Nat /\ k \in Nat
  BY Instance DEF Trash, Rows
<1>2. \A n \in Trash : entry[n].deleted_at \in Int
  BY Instance DEF TypeOK, Trash, Rows, Entry
<1>3. entry[i].deleted_at \in Int /\ entry[j].deleted_at \in Int /\ entry[k].deleted_at \in Int
  BY <1>2
<1> QED
  BY <1>1, <1>3 DEF Newer

(* Among finitely many, no two have the same place, and every place is taken. *)
LEMMA PlaceTyped ==
  ASSUME TypeOK, NEW K, K \subseteq Trash, NEW i \in K
  PROVE  /\ IsFiniteSet(K) /\ IsFiniteSet(Ahead(K, i))
         /\ Place(K, i) \in Nat /\ Place(K, i) < Cardinality(K)
<1>1. IsFiniteSet(K)
  BY FS_Subset, Instance DEF Trash, Rows
<1>2. i \notin Ahead(K, i) /\ Ahead(K, i) \subseteq K \ {i}
  BY NewerOrders DEF Ahead
<1>3. /\ IsFiniteSet(K \ {i}) /\ Cardinality(K \ {i}) = Cardinality(K) - 1
  BY <1>1, FS_RemoveElement
<1>4. IsFiniteSet(Ahead(K, i)) /\ Place(K, i) <= Cardinality(K \ {i})
  BY <1>2, <1>3, FS_Subset DEF Place
<1>5. Place(K, i) \in Nat /\ Cardinality(K) \in Nat
  BY <1>1, <1>4, FS_CardinalityType DEF Place
<1> QED
  BY <1>1, <1>3, <1>4, <1>5

LEMMA PlaceFollows ==
  ASSUME TypeOK, NEW K, K \subseteq Trash, NEW i \in K, NEW j \in K, Newer(i, j)
  PROVE  Place(K, i) < Place(K, j)
<1>1. Ahead(K, i) \subseteq Ahead(K, j) /\ i \in Ahead(K, j) /\ i \notin Ahead(K, i)
  BY NewerOrders DEF Ahead
<1>2. Place(K, i) <= Place(K, j) /\ Place(K, i) # Place(K, j)
  BY <1>1, PlaceTyped, FS_Subset DEF Place
<1>3. Place(K, i) \in Nat /\ Place(K, j) \in Nat
  BY PlaceTyped
<1> QED
  BY <1>2, <1>3

LEMMA PlacesTaken ==
  ASSUME TypeOK, NEW K, K \subseteq Trash, NEW n \in Nat, n < Cardinality(K)
  PROVE  \E i \in K : Place(K, i) = n
<1> DEFINE f == [i \in K |-> Place(K, i)]
           T == 0 .. (Cardinality(K) - 1)
<1>1. IsFiniteSet(K)
  BY FS_Subset, Instance DEF Trash, Rows
<1>2. PICK m \in Nat : m = Cardinality(K)
  BY <1>1, FS_CardinalityType
<1>3. \A i \in K : Place(K, i) \in Nat /\ Place(K, i) < m
  BY <1>2, PlaceTyped
<1>4. f \in [K -> T]
  <2>1. \A i \in K : Place(K, i) \in 0 .. (m - 1)
    BY <1>2, <1>3
  <2> QED
    BY <1>2, <2>1
<1>5. \A i, j \in K : Place(K, i) = Place(K, j) => i = j
  BY <1>3, NewerOrders, PlaceFollows
<1>6. f \in Injection(K, T)
  BY <1>4, <1>5 DEF Injection, IsInjective
<1>7. IsFiniteSet(T) /\ Cardinality(T) = m
  <2>1. IsFiniteSet(0 .. (m - 1)) /\ Cardinality(0 .. (m - 1)) = IF 0 > m - 1 THEN 0 ELSE m - 1 - 0 + 1
    BY FS_Interval
  <2> QED
    BY <1>2, <2>1
<1>8. f \in Surjection(K, T)
  BY <1>2, <1>6, <1>7, FS_Injection
<1>9. n \in T
  BY <1>2
<1> QED
  BY <1>8, <1>9 DEF Surjection

(* The first n rows are n, and all are newer than one that has n before it.   *)
LEMMA FirstPlaces ==
  ASSUME TypeOK, NEW K, K \subseteq Trash, NEW n \in Nat, NEW i \in K, Place(K, i) >= n
  PROVE  LET first == {j \in K : Place(K, j) < n}
         IN  IsFiniteSet(first) /\ Cardinality(first) = n /\ \A j \in first : Newer(j, i)
<1> DEFINE first == {j \in K : Place(K, j) < n}
           f == [j \in first |-> Place(K, j)]
           T == 0 .. (n - 1)
<1>1. IsFiniteSet(K) /\ first \subseteq K
  BY FS_Subset, Instance DEF Trash, Rows
<1>2. \A j \in K : Place(K, j) \in Nat
  BY PlaceTyped
<1>3. \A j \in first : Newer(j, i)
  BY <1>2, NewerOrders, PlaceFollows
<1>4. f \in Surjection(first, T)
  <2>1. f \in [first -> T]
    BY <1>2
  <2>2. ASSUME NEW k \in T PROVE \E j \in first : f[j] = k
    <3>1. k \in Nat /\ k < n /\ k < Cardinality(K)
      <4>1. PICK m \in Nat : m = Cardinality(K)
        BY <1>1, FS_CardinalityType
      <4>2. Place(K, i) < m
        BY <4>1, PlaceTyped
      <4> QED
        BY <1>2, <4>1, <4>2
    <3>2. PICK j \in K : Place(K, j) = k
      BY <3>1, PlacesTaken
    <3> QED
      BY <3>1, <3>2
  <2> QED
    BY <2>1, <2>2 DEF Surjection
<1>5. f \in Injection(first, T)
  <2>1. \A j, k \in K : Place(K, j) = Place(K, k) => j = k
    BY <1>2, NewerOrders, PlaceFollows
  <2>2. f \in [first -> T]
    BY <1>4 DEF Surjection
  <2> HIDE DEF first
  <2>3. first \subseteq K
    BY <1>1
  <2> QED
    BY <2>1, <2>2, <2>3 DEF Injection, IsInjective
<1>6. IsFiniteSet(first)
  BY <1>1, FS_Subset
<1>7. IsFiniteSet(T) /\ Cardinality(T) = n
  <2>1. IsFiniteSet(0 .. (n - 1)) /\ Cardinality(0 .. (n - 1)) = IF 0 > n - 1 THEN 0 ELSE n - 1 - 0 + 1
    BY FS_Interval
  <2> QED
    BY <2>1
<1>8. Cardinality(first) = n
  BY <1>4, <1>5, <1>6, <1>7, FS_Injection
<1> QED
  BY <1>3, <1>6, <1>8

(* A clean-up's cutoff is no later than one fixed now.                       *)
CutoffFits == \A q \in Purgers : purge[q].pc # "idle" => purge[q].cutoff <= clock - Retention

(* The copies a delete selected are still of the book it deletes.            *)
CopyOf(j, i) == OfWork(j, entry[i].book) \/ SameBook(j, entry[i].book)
CopyFit(p) ==
  req[p].pc = "finish" => \A j \in req[p].ids : j \in Rows => CopyOf(j, req[p].id)
CopiesFit == \A p \in Requests : CopyFit(p)

LeaveInv == IInv /\ CutoffFits /\ CopiesFit

(* What a step does to the rows: none changes its book, one is added only by  *)
(* a request that ends with the user's lock, and is gone only by a delete.    *)
RowsKept ==
  /\ \A i \in Rows : i \in Rows' => entry'[i].book = entry[i].book
  /\ Rows' \subseteq Rows

LEMMA KeepsRows ==
  ASSUME TypeOK, NEW i \in Ids, NEW row, row.book = entry[i].book, i \in Rows, entry' = [entry EXCEPT ![i] = row],
         row \in Entry
  PROVE  RowsKept /\ Rows \subseteq Rows'
BY NoneIsNoRow DEF RowsKept, Rows, TypeOK

LEMMA StepRows ==
  ASSUME IInv, NEW p \in Requests, Begin(p) \/ BeginPatch(p) \/ Step(p) \/ Fail(p)
  PROVE  /\ \A i \in Rows : i \in Rows' => entry'[i].book = entry[i].book
         /\ Rows' \subseteq Rows \/ (req[p].pc # "idle" /\ req[p].op # "patch" /\ req'[p].pc = "idle")
         /\ Rows \subseteq Rows' \/ DeleteEntry(p)
<1> DEFINE Adds == req[p].pc # "idle" /\ req[p].op # "patch" /\ req'[p].pc = "idle"
           Goal == /\ \A i \in Rows : i \in Rows' => entry'[i].book = entry[i].book
                   /\ Rows' \subseteq Rows \/ Adds
                   /\ Rows \subseteq Rows' \/ DeleteEntry(p)
<1>o. Fits(p) /\ TypeOK /\ OpFit(p)
  BY DEF IInv, WorkFits, OpFits
<1>t. entry \in [Ids -> Entry \cup {None}] /\ \A i \in Rows : i \in Ids /\ entry[i] \in Entry
  BY <1>o DEF TypeOK, Rows
<1>s. ASSUME entry' = entry PROVE Goal
  BY <1>s DEF Rows
<1>k. ASSUME RowsKept, Rows \subseteq Rows' PROVE Goal
  BY <1>k DEF RowsKept
<1>i. ASSUME NEW row, NEW draft, Insert(p, row, draft), req[p].pc # "idle", req[p].op # "patch" PROVE Goal
  <2>1. CASE Refuse(p)
    BY <1>s, <2>1 DEF Refuse
  <2>2. ASSUME NEW i \in Fresh, entry' = [entry EXCEPT ![i] = row], End(p) PROVE Goal
    <3>1. req'[p].pc = "idle"
      BY <1>o, <2>2 DEF End, Idle, TypeOK
    <3>2. i \notin Rows /\ \A j \in Rows : entry'[j] = entry[j]
      BY <1>t, <2>2 DEF Fresh
    <3>3. Rows \subseteq Rows' /\ \A j \in Rows : entry'[j].book = entry[j].book
      BY <3>2 DEF Rows
    <3> QED
      BY <1>i, <3>1, <3>3
  <2> QED
    BY <1>i, <2>1, <2>2 DEF Insert
<1>1. CASE CalmStep(p)
  BY <1>1, <1>s, CalmSteps
<1>2. CASE PatchWrite(p)
  <2>1. req[p].id \in Rows
    BY <1>2, <1>o DEF PatchWrite, Fits, LiveRows
  <2>2. ASSUME NEW data \in BOOLEAN, entry' = [entry EXCEPT ![req[p].id].data = data] PROVE Goal
    <3>1. [entry[req[p].id] EXCEPT !.data = data] \in Entry
      BY <1>t, <2>1 DEF Entry
    <3>2. [entry[req[p].id] EXCEPT !.data = data].book = entry[req[p].id].book
      BY <1>t, <2>1 DEF Entry
    <3> QED
      BY <1>k, <1>o, <1>t, <2>1, <2>2, <3>1, <3>2, KeepsRows
  <2> QED
    BY <1>2, <1>s, <2>2 DEF PatchWrite, Refuse
<1>3. CASE AddToWishlist(p)
  BY <1>3, <1>i, <1>s DEF AddToWishlist, Refuse
<1>4. CASE AddUnverified(p)
  BY <1>4, <1>i DEF AddUnverified
<1>5. CASE AddPurchased(p)
  <2>1. CASE req[p].id # None
    <3>1. req[p].id \in Rows
      BY <1>5, <1>o, <2>1 DEF AddPurchased, Fits, LiveRows
    <3>2. entry' = [entry EXCEPT ![req[p].id].data = TRUE]
      BY <1>5, <2>1 DEF AddPurchased
    <3>3. [entry[req[p].id] EXCEPT !.data = TRUE] \in Entry
      BY <1>t, <3>1 DEF Entry
    <3>4. [entry[req[p].id] EXCEPT !.data = TRUE].book = entry[req[p].id].book
      BY <1>t, <3>1 DEF Entry
    <3> QED
      BY <1>k, <1>o, <1>t, <3>1, <3>2, <3>3, <3>4, KeepsRows
  <2> QED
    BY <1>5, <1>i, <2>1 DEF AddPurchased
<1>6. CASE DeleteEntry(p)
  <2> DEFINE own == req[p].id
  <2>1. own \in Rows
    BY <1>6, <1>o DEF DeleteEntry, Fits, LiveRows
  <2>2. PICK gone : /\ gone \subseteq Trash
                    /\ entry' = [Erased(gone) EXCEPT ![own].deleted_at = clock]
    BY <1>6 DEF DeleteEntry, OverCap
  <2>3. own \notin gone
    BY <1>6, <1>o, <2>2 DEF DeleteEntry, Fits, LiveRows, Trash
  <2>4. \A j \in Ids \ {own} : entry'[j] = IF j \in gone THEN None ELSE entry[j]
    BY <1>t, <2>1, <2>2 DEF Erased
  <2>5. entry'[own] = [entry[own] EXCEPT !.deleted_at = clock]
    BY <1>t, <2>1, <2>2, <2>3 DEF Erased
  <2>6. entry'[own].book = entry[own].book
    BY <1>t, <2>1, <2>5 DEF Entry
  <2>7. Rows' \subseteq Rows /\ \A j \in Rows : j \in Rows' => entry'[j].book = entry[j].book
    BY <2>1, <2>4, <2>6 DEF Rows
  <2> QED
    BY <1>6, <2>7
<1>7. CASE Restore(p)
  <2>1. req[p].id \in Rows
    BY <1>7, <1>o DEF Restore, Fits, Trash
  <2>2. CASE entry' = [entry EXCEPT ![req[p].id].deleted_at = 0]
    <3>1. 0 \in 0 .. MaxTime
      BY Instance
    <3>2. [entry[req[p].id] EXCEPT !.deleted_at = 0] \in Entry
      BY <1>t, <2>1, <3>1 DEF Entry
    <3>3. [entry[req[p].id] EXCEPT !.deleted_at = 0].book = entry[req[p].id].book
      BY <1>t, <2>1 DEF Entry
    <3> QED
      BY <1>k, <1>o, <1>t, <2>1, <2>2, <3>2, <3>3, KeepsRows
  <2> QED
    BY <1>7, <1>s, <2>2 DEF Restore, Refuse
<1> QED
  BY <1>1, <1>2, <1>3, <1>4, <1>5, <1>6, <1>7 DEF Step, CalmStep

(* A clean-up erases expired rows and no others.                             *)
LEMMA PurgeRows ==
  ASSUME IInv, NEW q \in Purgers, Purge(q) \/ PurgeFail(q)
  PROVE  /\ RowsKept
         /\ \A i \in Rows : i \notin Rows' => purge[q].pc = "delete" /\ Expired(i, purge[q].cutoff)
<1>1. CASE entry' = entry
  BY <1>1 DEF RowsKept, Rows
<1>2. CASE PurgeDelete(q)
  <2> DEFINE gone == {i \in purge[q].ids : Expired(i, purge[q].cutoff)}
  <2>1. entry' = Erased(gone) /\ purge[q].pc = "delete"
    BY <1>2 DEF PurgeDelete
  <2>2. \A i \in Ids : entry'[i] = IF i \in gone THEN None ELSE entry[i]
    BY <2>1 DEF Erased
  <2> QED
    BY <2>1, <2>2 DEF RowsKept, Rows
<1> QED
  BY <1>1, <1>2 DEF Purge, PurgeSkipped, PurgeSelect, PurgeFail

(* A delete's selection outlives the steps of all others.                     *)
LEMMA CopiesStay ==
  ASSUME IInv, IInv', CopiesFit, NEW p \in Requests, req'[p] = req[p],
         \A i \in Rows : i \in Rows' => entry'[i].book = entry[i].book,
         Rows' \subseteq Rows \/ req[p].pc = "idle" \/ req[p].op = "patch"
  PROVE  CopyFit(p)'
<1> SUFFICES ASSUME req[p].pc = "finish", NEW j \in req[p].ids, j \in Rows'
             PROVE  \/ /\ entry'[req[p].id].book \in Books /\ entry'[j].book \in Books
                       /\ Survivor[entry'[j].book] = Survivor[entry'[req[p].id].book]
                    \/ entry'[j].book \in Drafts /\ <<entry'[j].book, entry'[req[p].id].book>> \in Same
  BY DEF CopyFit, CopyOf, OfWork, SameBook, OfDraft
<1>1. req[p].op = "delete" /\ req[p].id \in Rows
  BY DEF IInv, OpFits, OpFit, WorkFits, Fits, LiveRows
<1>2. req'[p].pc = "finish" /\ (req[p].id \in Rows)'
  BY DEF IInv, WorkFits, Fits, LiveRows
<1>3. j \in Rows /\ CopyOf(j, req[p].id)
  BY <1>1 DEF CopiesFit, CopyFit
<1>4. entry'[j].book = entry[j].book /\ entry'[req[p].id].book = entry[req[p].id].book
  BY <1>1, <1>2, <1>3
<1> QED
  BY <1>3, <1>4 DEF CopyOf, OfWork, SameBook, OfDraft

LEMMA OwnCopies ==
  ASSUME IInv, NEW p \in Requests, Begin(p) \/ BeginPatch(p) \/ Step(p) \/ Fail(p), req'[p].pc = "finish"
  PROVE  CopyFit(p)'
<1>t. TypeOK
  BY DEF IInv
<1>0. ~End(p)
  BY <1>t DEF End, Idle, TypeOK
<1>1. EvictSameBook(p)
  <2>1. ~(Begin(p) \/ BeginPatch(p))
    <3>1. ASSUME NEW next, next.pc = "read" PROVE req' # [req EXCEPT ![p] = next]
      BY <1>t, <3>1 DEF TypeOK
    <3>2. \A op, i, b : [Idle EXCEPT !.pc = "read", !.op = op, !.id = i, !.book = b].pc = "read"
      BY DEF Idle
    <3>3. ~Begin(p)
      <4>1. Begin(p) => \E op, i, b : req' = [req EXCEPT ![p] =
                          [Idle EXCEPT !.pc = "read", !.op = op, !.id = i, !.book = b]]
        BY DEF Begin, Request
      <4>2. ASSUME NEW op, NEW i, NEW b,
                   req' = [req EXCEPT ![p] = [Idle EXCEPT !.pc = "read", !.op = op, !.id = i, !.book = b]]
            PROVE  FALSE
        <5> DEFINE next == [Idle EXCEPT !.pc = "read", !.op = op, !.id = i, !.book = b]
        <5>1. next.pc = "read" /\ req' = [req EXCEPT ![p] = next]
          BY <3>2, <4>2
        <5> HIDE DEF next
        <5> QED
          BY <3>1, <5>1
      <4> QED
        BY <4>1, <4>2
    <3>4. \A i : [Idle EXCEPT !.pc = "read", !.op = "patch", !.id = i].pc = "read"
      BY DEF Idle
    <3> QED
      BY <3>1, <3>3, <3>4 DEF BeginPatch
  <2>2. ~(Fail(p) \/ PatchMissed(p) \/ PatchWrite(p) \/ DeleteEntry(p) \/ Restore(p)
          \/ AddToWishlist(p) \/ AddUnverified(p) \/ AddPurchased(p))
    BY <1>0 DEF Fail, PatchMissed, PatchWrite, DeleteEntry, Restore, Refuse,
                AddToWishlist, AddUnverified, AddPurchased, Insert
  <2>3. ~(CheckOwned(p) \/ CheckDraft(p) \/ FindPurchased(p))
    BY <1>0, <1>t DEF CheckOwned, CheckDraft, FindPurchased, Refuse, TypeOK
  <2>4. ~(PatchRead(p) \/ DeleteRead(p) \/ RestoreRead(p))
    BY <1>0, <1>t DEF PatchRead, DeleteRead, RestoreRead, Refuse, TypeOK
  <2> QED
    BY <2>1, <2>2, <2>3, <2>4 DEF Step
<1> DEFINE i == req[p].id
           empty == {j \in Trash : HasNoUserData(j)}
           copies == IF OfDraft(i) THEN {j \in empty : SameBook(j, entry[i].book)}
                     ELSE {j \in empty : OfWork(j, entry[i].book) /\ Free(j, p)}
<1>2. req' = [req EXCEPT ![p].pc = "finish", ![p].ids = copies] /\ entry' = entry
  BY <1>1 DEF EvictSameBook
<1>3. \A j \in copies : OfWork(j, entry[i].book) \/ SameBook(j, entry[i].book)
  OBVIOUS
<1> HIDE DEF copies
<1>4. req'[p].ids = copies /\ req'[p].id = i
  BY <1>2, <1>t DEF TypeOK
<1> HIDE DEF i
<1> QED
  BY <1>2, <1>3, <1>4 DEF CopyFit, CopyOf, OfWork, SameBook, OfDraft

LEMMA CopiesStep ==
  ASSUME IInv, IInv', CopiesFit, [Next]_vars PROVE CopiesFit'
<1>1. ASSUME NEW p \in Requests, Begin(p) \/ BeginPatch(p) \/ Step(p) \/ Fail(p) PROVE CopiesFit'
  <2>1. ASSUME NEW r \in Requests \ {p} PROVE CopyFit(r)'
    <3>1. req'[r] = req[r]
      BY <1>1, OwnStep DEF IInv
    <3>2. Rows' \subseteq Rows \/ req[r].pc = "idle" \/ req[r].op = "patch"
      BY <1>1, StepRows DEF IInv, LockFits
    <3> QED
      BY <1>1, <3>1, <3>2, StepRows, CopiesStay
  <2> QED
    BY <1>1, <2>1, OwnCopies DEF CopiesFit, CopyFit
<1>2. ASSUME RowsKept, UNCHANGED req PROVE CopiesFit'
  <2>1. ASSUME NEW p \in Requests PROVE CopyFit(p)'
    BY <1>2, CopiesStay DEF RowsKept
  <2> QED
    BY <2>1 DEF CopiesFit
<1>3. ASSUME NEW q \in Purgers, Purge(q) \/ PurgeFail(q) PROVE CopiesFit'
  BY <1>3, <1>2, PurgeRows DEF Purge, PurgeSkipped, PurgeSelect, PurgeDelete, PurgeFail, PurgeEnd
<1>4. CASE Tick \/ UNCHANGED vars
  BY <1>4, <1>2 DEF Tick, vars, RowsKept, Rows
<1> QED
  BY <1>1, <1>3, <1>4 DEF Next

LEMMA CutoffStep ==
  ASSUME IInv, CutoffFits, [Next]_vars PROVE CutoffFits'
<1>0. /\ clock \in Int /\ Retention \in Int /\ purge \in [Purgers -> Purges]
      /\ \A q \in Purgers : purge[q].cutoff \in Int
  BY Instance DEF IInv, TypeOK, Purges
<1>1. CASE UNCHANGED <<clock, purge>>
  BY <1>1 DEF CutoffFits
<1>2. CASE Tick
  BY <1>0, <1>2 DEF Tick, CutoffFits
<1>3. ASSUME NEW q \in Purgers, UNCHANGED clock, NEW next, purge' = [purge EXCEPT ![q] = next],
             next.pc = "idle" \/ next.cutoff <= clock - Retention
      PROVE  CutoffFits'
  BY <1>0, <1>3 DEF CutoffFits
<1>4. ASSUME NEW q \in Purgers, Purge(q) \/ PurgeFail(q) PROVE CutoffFits'
  <2>0. purge[q] \in Purges
    BY <1>0
  <2>1. CASE PurgeSelect(q)
    <3> DEFINE cutoff == Cutoff(q)
    <3>1. PICK batch : /\ UNCHANGED clock
                       /\ purge' = [purge EXCEPT ![q] = [purge[q] EXCEPT !.pc = "delete", !.ids = batch,
                                                                !.cutoff = cutoff]]
      BY <2>1 DEF PurgeSelect
    <3>2. cutoff <= clock - Retention
      BY <1>0 DEF Cutoff, CutoffFits
    <3> HIDE DEF cutoff
    <3>3. [purge[q] EXCEPT !.pc = "delete", !.ids = batch, !.cutoff = cutoff].cutoff = cutoff
      BY <2>0 DEF Purges
    <3> QED
      BY <1>3, <3>1, <3>2, <3>3
  <2>2. CASE PurgeDelete(q)
    <3> DEFINE next == [purge[q] EXCEPT !.pc = "batch", !.ids = {}, !.batches = purge[q].batches + 1]
    <3>1. /\ UNCHANGED clock /\ purge[q].pc = "delete"
          /\ purge' = [purge EXCEPT ![q] = next] \/ purge' = [purge EXCEPT ![q] = Resting]
      BY <2>2 DEF PurgeDelete, PurgeEnd
    <3>2. next.cutoff = purge[q].cutoff
      BY <2>0 DEF Purges
    <3>3. next.cutoff <= clock - Retention
      BY <3>1, <3>2 DEF CutoffFits
    <3> HIDE DEF next
    <3> QED
      BY <1>3, <3>1, <3>3 DEF Resting
  <2>3. CASE PurgeSkipped(q) \/ PurgeFail(q)
    BY <1>3, <2>3 DEF PurgeSkipped, PurgeFail, PurgeEnd, Resting
  <2> QED
    BY <1>4, <2>1, <2>2, <2>3 DEF Purge
<1>5. ASSUME NEW p \in Requests, Begin(p) \/ BeginPatch(p) \/ Step(p) \/ Fail(p) PROVE UNCHANGED <<clock, purge>>
  BY <1>5 DEF Begin, Request, BeginPatch, Fail, Step, CheckOwned, AddToWishlist, FindPurchased, AddPurchased,
     CheckDraft, AddUnverified, PatchRead, PatchWrite, PatchMissed, DeleteRead, EvictSameBook, DeleteEntry,
     RestoreRead, Restore, Others
<1> QED
  BY <1>1, <1>2, <1>4, <1>5 DEF Next, vars

THEOREM LeaveFits == Spec => []LeaveInv
<1>1. Init => LeaveInv
  <2>1. Init => CutoffFits /\ CopiesFit
    BY DEF Init, CutoffFits, CopiesFit, CopyFit, Idle, Resting
  <2> QED
    BY <2>1, InitInv DEF LeaveInv
<1>2. LeaveInv /\ [Next]_vars => LeaveInv'
  BY NextInv, CopiesStep, CutoffStep DEF LeaveInv
<1> QED
  BY <1>1, <1>2, PTL DEF Spec

Leaves ==
  \A i \in Rows : i \notin Rows' =>
    /\ i \in Trash
    /\ \/ Expired(i, clock - Retention)
       \/ Cardinality({j \in Trash' : j \notin Trash \/ Newer(j, i)}) >= TrashCap
       \/ /\ HasNoUserData(i)
          /\ \E j \in Trash' \ Trash : OfWork(i, entry[j].book) \/ SameBook(i, entry[j].book)

\* A delete erases what it selected, and of the rest what its cap leaves out:
\* the first rows of the rest stay, and with the entry just trashed are a cap.
LEMMA DeleteLeaves ==
  ASSUME LeaveInv, NEW p \in Requests, DeleteEntry(p) PROVE Leaves
<1> DEFINE own == req[p].id
           evicted == {j \in req[p].ids \cap Trash : HasNoUserData(j)}
           kept == {j \in Trash \ evicted : Free(j, p)}
           gone == evicted \cup OverCap(kept)
<1>0. /\ TypeOK /\ own \in LiveRows /\ own \in Rows /\ own \in Ids /\ CopyFit(p) /\ req[p].pc = "finish"
      /\ own \notin Trash
  BY DEF LeaveInv, IInv, WorkFits, Fits, DeleteEntry, LiveRows, Rows, Trash, CopiesFit
<1>1. entry' = [Erased(gone) EXCEPT ![own].deleted_at = clock]
  BY DEF DeleteEntry
<1>2. gone \subseteq Trash /\ kept \subseteq Trash /\ kept \cap evicted = {}
  BY DEF OverCap
<1>3. OverCap(kept) = {i \in kept : Place(kept, i) >= TrashCap - 1}
  BY DEF OverCap, Place, Ahead
<1> HIDE DEF own, gone
<1>4. \A j \in Ids \ {own} : entry'[j] = IF j \in gone THEN None ELSE entry[j]
  BY <1>0, <1>1 DEF Erased
<1>5. entry'[own] = [entry[own] EXCEPT !.deleted_at = clock]
  BY <1>0, <1>1, <1>2 DEF Erased
<1>6. own \in Trash' \ Trash
  <2>1. entry[own] \in Entry /\ clock \in 1 .. MaxTime
    BY <1>0 DEF TypeOK, Rows
  <2>2. entry'[own].deleted_at = clock /\ clock # 0
    BY <1>5, <2>1 DEF Entry
  <2>3. entry'[own] \in Entry
    BY <1>5, <2>1 DEF Entry
  <2> QED
    BY <1>0, <2>2, <2>3, NoneIsNoRow DEF Trash, Rows
<1>7. \A j \in Trash \ gone : j \in Trash'
  BY <1>0, <1>4 DEF Trash, Rows
<1>8. \A i \in Rows : i \notin Rows' => i \in gone
  BY <1>0, <1>4, <1>6 DEF Rows, Trash
<1>9. ASSUME NEW i \in evicted
      PROVE  HasNoUserData(i) /\ (OfWork(i, entry[own].book) \/ SameBook(i, entry[own].book))
  BY <1>0 DEF CopyFit, CopyOf, Trash, own
<1>10. ASSUME NEW i \in kept, Place(kept, i) >= TrashCap - 1
       PROVE  Cardinality({j \in Trash' : j \notin Trash \/ Newer(j, i)}) >= TrashCap
  <2>1. PICK n \in Nat : n = TrashCap - 1
    BY Instance
  <2> DEFINE first == {j \in kept : Place(kept, j) < n}
             newer == {j \in Trash' : j \notin Trash \/ Newer(j, i)}
  <2>2. IsFiniteSet(first) /\ Cardinality(first) = n /\ \A j \in first : Newer(j, i)
    <3>1. Place(kept, i) >= n /\ kept \subseteq Trash
      BY <1>2, <1>10, <2>1
    <3> HIDE DEF kept
    <3> QED
      BY <1>0, <3>1, FirstPlaces
  <2>3. first \cap gone = {}
    <3>1. \A j \in kept : Place(kept, j) \in Nat
      BY <1>0, <1>2, PlaceTyped
    <3> QED
      BY <1>2, <1>3, <2>1, <3>1 DEF gone
  <2>4. first \cup {own} \subseteq newer
    BY <1>2, <1>6, <1>7, <2>2, <2>3
  <2>5. own \notin first
    BY <1>0, <1>2
  <2> HIDE DEF first
  <2>6. Cardinality(first \cup {own}) = n + 1
    BY <2>2, <2>5, FS_AddElement
  <2>7. IsFiniteSet(newer)
    <3>1. newer \subseteq Ids
      BY DEF Trash, Rows
    <3> QED
      BY <3>1, FS_Subset, Instance
  <2> HIDE DEF newer
  <2>8. Cardinality(first \cup {own}) <= Cardinality(newer) /\ Cardinality(newer) \in Nat
    BY <2>4, <2>7, FS_Subset, FS_CardinalityType
  <2>9. Cardinality(newer) >= TrashCap
    BY <2>1, <2>6, <2>8, Instance
  <2> QED
    BY <2>9 DEF newer
<1>11. ASSUME NEW i \in gone
       PROVE  \/ Cardinality({j \in Trash' : j \notin Trash \/ Newer(j, i)}) >= TrashCap
              \/ /\ HasNoUserData(i)
                 /\ \E j \in Trash' \ Trash : OfWork(i, entry[j].book) \/ SameBook(i, entry[j].book)
  <2>1. i \in evicted \/ (i \in kept /\ Place(kept, i) >= TrashCap - 1)
    BY <1>3 DEF gone
  <2>2. CASE i \in evicted
    BY <1>6, <1>9, <2>2
  <2>3. CASE i \in kept /\ Place(kept, i) >= TrashCap - 1
    BY <1>10, <2>3
  <2> QED
    BY <2>1, <2>2, <2>3
<1> QED
  BY <1>2, <1>8, <1>11 DEF Leaves

LEMMA LeaveStep == LeaveInv /\ [Next]_vars => Leaves
<1> SUFFICES ASSUME LeaveInv, [Next]_vars PROVE Leaves
  OBVIOUS
<1>1. ASSUME NEW p \in Requests, Begin(p) \/ BeginPatch(p) \/ Step(p) \/ Fail(p) PROVE Leaves
  <2>1. CASE DeleteEntry(p)
    BY <2>1, DeleteLeaves
  <2>2. CASE ~DeleteEntry(p)
    BY <1>1, <2>2, StepRows DEF LeaveInv, Leaves
  <2> QED
    BY <2>1, <2>2
<1>2. ASSUME NEW q \in Purgers, Purge(q) \/ PurgeFail(q) PROVE Leaves
  <2> SUFFICES ASSUME NEW i \in Rows, i \notin Rows' PROVE i \in Trash /\ Expired(i, clock - Retention)
    BY DEF Leaves
  <2>1. purge[q].pc = "delete" /\ Expired(i, purge[q].cutoff)
    BY <1>2, PurgeRows DEF LeaveInv
  <2>2. purge[q].cutoff <= clock - Retention
    BY <2>1 DEF LeaveInv, CutoffFits
  <2>3. /\ entry[i] \in Entry /\ purge[q] \in Purges /\ clock \in Int
    BY DEF LeaveInv, IInv, TypeOK, Rows, Purges
  <2>4. entry[i].deleted_at \in Int /\ purge[q].cutoff \in Int /\ clock - Retention \in Int
    BY <2>3, Instance DEF Entry, Purges
  <2> QED
    BY <2>1, <2>2, <2>4 DEF Expired
<1>3. CASE Tick \/ UNCHANGED vars
  BY <1>3 DEF Tick, vars, Leaves, Rows
<1> QED
  BY <1>1, <1>2, <1>3 DEF Next

(* A row is deleted for good only out of the trash, and only past the          *)
(* retention, over the cap or as an empty copy of a book just trashed          *)
(* (trash.py), however deletes, restores and two clean-ups interleave.         *)
THEOREM LeavingByRule == Spec => LeavesByTheRules
<1>1. LeaveInv /\ [Next]_vars => [Leaves]_vars
  BY LeaveStep
<1> QED
  BY <1>1, LeaveFits, PTL DEF Spec, LeavesByTheRules, Leaves
-----------------------------------------------------------------------------
(* Catalogue.  The invariant speaks of any rows bs, editions xs, entries es,  *)
(* tokens ts and requests rs, so that a step's effect is stated of its rows.  *)

Sound(bs) ==
  /\ \A b \in bs : DOMAIN b = C!BookFields
  /\ \A a, b \in bs : a.id = b.id => a = b
  /\ \A b \in bs : b.merged # None => \E a \in bs : a.id = b.merged /\ a.merged = None /\ a.tx = None

(* What transaction t sees: two ids of one work, a row of a result's work, an *)
(* edition of a book's work.                                                  *)
SameWork(bs, i, j, t) ==
  \E a, b \in bs : /\ a.id = i /\ b.id = j /\ a.tx \in {None, t} /\ b.tx \in {None, t}
                   /\ C!Root(a) = C!Root(b)

Names(b, result) ==
  \/ result.work # None /\ b.work = result.work
  \/ result.volume # None /\ b.volume = result.volume

OfResult(bs, result, i, t) == \E b \in bs : Names(b, result) /\ b.tx \in {None, t} /\ C!Root(b) = i

Linked(bs, xs, isbn, i, t) ==
  \E x \in xs : x.isbn_13 = isbn /\ x.tx \in {None, t} /\ SameWork(bs, x.book, i, t)

(* Who had a row created held a token for it.                                 *)
Signed(t, user, d) == t.v = "v1" /\ t.user = user /\ t.exp > d

BookSigned(ts, b) ==
  b.maker # None => \E t \in ts : /\ Signed(t, b.maker, b.day) /\ t.result.work = b.work
                                  /\ t.result.volume = b.volume /\ t.result.text = b.text

EditionSigned(bs, ts, x) ==
  x.maker # None => \E t \in ts : /\ Signed(t, x.maker, x.day) /\ t.result.isbn_13 = x.isbn_13
                                  /\ t.result.isbn_10 = x.isbn_10 /\ OfResult(bs, t.result, x.book, x.tx)

HasItsWork(bs, xs, e) ==
  /\ SameWork(bs, e.book, e.book, e.tx)
  /\ e.edition # None => Linked(bs, xs, e.edition, e.book, e.tx)

(* A request keeps what it found, as its transaction sees it.                 *)
RequestFields == {"pc", "user", "result", "book", "edition", "day", "trusted"}

AddFits(bs, xs, ts, q, r) ==
  q.pc \notin {"idle", "ended"} =>
    /\ DOMAIN q = RequestFields /\ C!IsSignable(q.result)
    /\ q.trusted => \E t \in ts : Signed(t, q.user, q.day) /\ t.result = q.result
    /\ q.pc \in {"insert_book", "insert_edition"} => q.trusted
    /\ q.pc \notin {"find_book", "insert_book"} => OfResult(bs, q.result, q.book, r)
    /\ q.pc \in {"find_book", "insert_book", "find_edition", "insert_edition"} => q.edition = None
    /\ q.edition # None => Linked(bs, xs, q.edition, q.book, r)

InCatalogue(bs, xs, es, ts, rs) ==
  /\ Sound(bs) /\ DOMAIN rs = Requests /\ \A t \in ts : t.exp \in Int
  /\ \A x \in xs : DOMAIN x = C!EditionFields
  /\ \A e \in es : DOMAIN e = C!EntryFields
  /\ \A b \in bs : BookSigned(ts, b)
  /\ \A x \in xs : EditionSigned(bs, ts, x)
  /\ \A e \in es : HasItsWork(bs, xs, e)
  /\ \A r \in Requests : AddFits(bs, xs, ts, rs[r], r)

CatalogueInv == day \in Int /\ InCatalogue(books, editions, entries, issued, add)

\* A row is found by its id.
LEMMA RowFound ==
  ASSUME Sound(books), NEW b \in books
  PROVE  C!Row(b.id) = b /\ C!Canonical(b.id) = C!Root(b)
<1>1. C!Row(b.id) \in books /\ C!Row(b.id).id = b.id
  BY DEF C!Row
<1>2. C!Row(b.id) = b
  BY <1>1 DEF Sound
<1> QED
  BY <1>2 DEF C!Canonical

\* The row a merged one points to is saved, and its own.
LEMMA RootSeen ==
  ASSUME NEW bs, Sound(bs), NEW b \in bs, NEW t, b.tx \in {None, t}
  PROVE  SameWork(bs, C!Root(b), C!Root(b), t) /\ SameWork(bs, C!Root(b), b.id, t)
<1>1. CASE b.merged = None
  BY <1>1 DEF C!Root, SameWork
<1>2. CASE b.merged # None
  <2>1. PICK a \in bs : a.id = b.merged /\ a.merged = None /\ a.tx = None
    BY <1>2 DEF Sound
  <2>2. C!Root(b) = a.id /\ C!Root(a) = a.id
    BY <1>2, <2>1 DEF C!Root
  <2> QED
    BY <2>1, <2>2 DEF SameWork
<1> QED
  BY <1>1, <1>2

LEMMA WorkSeen ==
  ASSUME NEW bs, Sound(bs), NEW result, NEW i, NEW t, OfResult(bs, result, i, t)
  PROVE  SameWork(bs, i, i, t)
BY RootSeen DEF OfResult

\* Everyone sees what more rows and tokens hold.
LEMMA SeesMore ==
  ASSUME NEW bs, NEW xs, NEW ts, NEW bs2, NEW xs2, NEW ts2, bs \subseteq bs2, xs \subseteq xs2, ts \subseteq ts2
  PROVE  /\ \A i, j, t : SameWork(bs, i, j, t) => SameWork(bs2, i, j, t)
         /\ \A result, i, t : OfResult(bs, result, i, t) => OfResult(bs2, result, i, t)
         /\ \A isbn, i, t : Linked(bs, xs, isbn, i, t) => Linked(bs2, xs2, isbn, i, t)
         /\ \A b : BookSigned(ts, b) => BookSigned(ts2, b)
         /\ \A x : EditionSigned(bs, ts, x) => EditionSigned(bs2, ts2, x)
         /\ \A e : HasItsWork(bs, xs, e) => HasItsWork(bs2, xs2, e)
         /\ \A q, r : AddFits(bs, xs, ts, q, r) => AddFits(bs2, xs2, ts2, q, r)
<1>1. \A i, j, t : SameWork(bs, i, j, t) => SameWork(bs2, i, j, t)
  BY DEF SameWork
<1>2. \A result, i, t : OfResult(bs, result, i, t) => OfResult(bs2, result, i, t)
  BY DEF OfResult
<1>3. \A isbn, i, t : Linked(bs, xs, isbn, i, t) => Linked(bs2, xs2, isbn, i, t)
  BY <1>1 DEF Linked
<1>4. \A b : BookSigned(ts, b) => BookSigned(ts2, b)
  BY DEF BookSigned
<1>5. \A x : EditionSigned(bs, ts, x) => EditionSigned(bs2, ts2, x)
  BY <1>2 DEF EditionSigned
<1>6. \A e : HasItsWork(bs, xs, e) => HasItsWork(bs2, xs2, e)
  BY <1>1, <1>3 DEF HasItsWork
<1>7. ASSUME NEW q, NEW r, AddFits(bs, xs, ts, q, r) PROVE AddFits(bs2, xs2, ts2, q, r)
  <2>1. (\E t \in ts : Signed(t, q.user, q.day) /\ t.result = q.result) =>
        (\E t \in ts2 : Signed(t, q.user, q.day) /\ t.result = q.result)
    OBVIOUS
  <2> QED
    BY <1>2, <1>3, <1>7, <2>1 DEF AddFits
<1> QED
  BY <1>1, <1>2, <1>3, <1>4, <1>5, <1>6, <1>7

\* A step that only adds rows and tokens, or takes entries away.
LEMMA Grows ==
  ASSUME NEW bs, NEW xs, NEW es, NEW ts, NEW rs, InCatalogue(bs, xs, es, ts, rs),
         NEW bs2, NEW xs2, NEW es2, NEW ts2, NEW rs2, bs \subseteq bs2, xs \subseteq xs2, ts \subseteq ts2,
         Sound(bs2), DOMAIN rs2 = Requests, \A t \in ts2 : t.exp \in Int,
         \A b \in bs2 : b \in bs \/ BookSigned(ts2, b),
         \A x \in xs2 : x \in xs \/ (DOMAIN x = C!EditionFields /\ EditionSigned(bs2, ts2, x)),
         \A e \in es2 : e \in es \/ (DOMAIN e = C!EntryFields /\ HasItsWork(bs2, xs2, e)),
         \A r \in Requests : rs2[r] = rs[r] \/ AddFits(bs2, xs2, ts2, rs2[r], r)
  PROVE  InCatalogue(bs2, xs2, es2, ts2, rs2)
<1>1. \A b \in bs2 : BookSigned(ts2, b)
  <2>1. \A b \in bs : BookSigned(ts2, b)
    BY DEF InCatalogue, BookSigned
  <2> QED
    BY <2>1
<1>2. \A x \in xs2 : DOMAIN x = C!EditionFields /\ EditionSigned(bs2, ts2, x)
  <2>1. \A x \in xs : DOMAIN x = C!EditionFields /\ EditionSigned(bs2, ts2, x)
    BY SeesMore DEF InCatalogue
  <2> QED
    BY <2>1
<1>3. \A e \in es2 : DOMAIN e = C!EntryFields /\ HasItsWork(bs2, xs2, e)
  BY SeesMore DEF InCatalogue
<1>4. \A r \in Requests : AddFits(bs2, xs2, ts2, rs2[r], r)
  BY SeesMore DEF InCatalogue
<1> QED
  BY <1>1, <1>2, <1>3, <1>4 DEF InCatalogue

\* The request that ends takes its unsaved rows with it: no one else saw them.
LEMMA RollsBack ==
  ASSUME NEW bs, NEW xs, NEW es, NEW ts, NEW rs, InCatalogue(bs, xs, es, ts, rs),
         NEW r \in Requests, None \notin Requests, NEW rs2, DOMAIN rs2 = Requests, rs2[r].pc = "ended",
         \A s \in Requests \ {r} : rs2[s] = rs[s]
  PROVE  InCatalogue(C!Others(bs, r), C!Others(xs, r), C!Others(es, r), ts, rs2)
<1> DEFINE bs2 == C!Others(bs, r)
           xs2 == C!Others(xs, r)
           es2 == C!Others(es, r)
<1>0. /\ \A b : b \in bs2 <=> b \in bs /\ b.tx # r
      /\ \A x : x \in xs2 <=> x \in xs /\ x.tx # r
      /\ \A e : e \in es2 <=> e \in es /\ e.tx # r
      /\ r # None
  BY DEF C!Others
<1> HIDE DEF bs2, xs2, es2
<1>1. Sound(bs2)
  <2>1. \A b \in bs2 : b.merged # None => \E a \in bs2 : a.id = b.merged /\ a.merged = None /\ a.tx = None
    BY <1>0 DEF InCatalogue, Sound
  <2> QED
    BY <1>0, <2>1 DEF InCatalogue, Sound
<1>2. \A i, j, t : t # r /\ SameWork(bs, i, j, t) => SameWork(bs2, i, j, t)
  BY <1>0 DEF SameWork
<1>3. \A result, i, t : t # r /\ OfResult(bs, result, i, t) => OfResult(bs2, result, i, t)
  BY <1>0 DEF OfResult
<1>4. \A isbn, i, t : t # r /\ Linked(bs, xs, isbn, i, t) => Linked(bs2, xs2, isbn, i, t)
  BY <1>0, <1>2 DEF Linked
<1>5. \A x \in xs2 : DOMAIN x = C!EditionFields /\ EditionSigned(bs2, ts, x)
  BY <1>0, <1>3 DEF InCatalogue, EditionSigned
<1>6. \A e \in es2 : DOMAIN e = C!EntryFields /\ HasItsWork(bs2, xs2, e)
  BY <1>0, <1>2, <1>4 DEF InCatalogue, HasItsWork
<1>7. ASSUME NEW s \in Requests PROVE AddFits(bs2, xs2, ts, rs2[s], s)
  <2>1. CASE s = r
    BY <2>1 DEF AddFits
  <2>2. CASE s # r
    <3>1. AddFits(bs, xs, ts, rs[s], s) /\ rs2[s] = rs[s]
      BY <2>2 DEF InCatalogue
    <3> QED
      BY <1>3, <1>4, <2>2, <3>1 DEF AddFits
  <2> QED
    BY <2>1, <2>2
<1>8. InCatalogue(bs2, xs2, es2, ts, rs2)
  BY <1>0, <1>1, <1>5, <1>6, <1>7 DEF InCatalogue
<1> QED
  BY <1>8 DEF bs2, xs2, es2

\* Its rows are saved together: whoever saw a row sees it now.
LEMMA Settles ==
  ASSUME NEW bs, NEW xs, NEW es, NEW ts, NEW rs, InCatalogue(bs, xs, es, ts, rs),
         NEW r \in Requests, None \notin Requests, NEW rs2, DOMAIN rs2 = Requests, rs2[r].pc = "ended",
         \A s \in Requests \ {r} : rs2[s] = rs[s]
  PROVE  InCatalogue(C!Settle(bs, r), C!Settle(xs, r), C!Settle(es, r), ts, rs2)
<1> DEFINE bs2 == C!Settle(bs, r)
           xs2 == C!Settle(xs, r)
           es2 == C!Settle(es, r)
           saved(x) == IF x.tx = r THEN [x EXCEPT !.tx = None] ELSE x
           tag(t) == IF t = r THEN None ELSE t
<1>0. /\ \A b : b \in bs2 <=> \E a \in bs : b = saved(a)
      /\ \A x : x \in xs2 <=> \E a \in xs : x = saved(a)
      /\ \A e : e \in es2 <=> \E a \in es : e = saved(a)
      /\ r # None
  BY DEF C!Settle
<1>1. ASSUME NEW b, DOMAIN b = C!BookFields
      PROVE  /\ DOMAIN saved(b) = C!BookFields /\ saved(b).tx = tag(b.tx)
             /\ saved(b).id = b.id /\ saved(b).work = b.work /\ saved(b).volume = b.volume
             /\ saved(b).text = b.text /\ saved(b).merged = b.merged
             /\ saved(b).maker = b.maker /\ saved(b).day = b.day
  BY <1>1 DEF C!BookFields
<1>2. ASSUME NEW x, DOMAIN x = C!EditionFields
      PROVE  /\ DOMAIN saved(x) = C!EditionFields /\ saved(x).tx = tag(x.tx)
             /\ saved(x).isbn_13 = x.isbn_13 /\ saved(x).isbn_10 = x.isbn_10 /\ saved(x).book = x.book
             /\ saved(x).maker = x.maker /\ saved(x).day = x.day
  BY <1>2 DEF C!EditionFields
<1>3. ASSUME NEW e, DOMAIN e = C!EntryFields
      PROVE  /\ DOMAIN saved(e) = C!EntryFields /\ saved(e).tx = tag(e.tx)
             /\ saved(e).book = e.book /\ saved(e).edition = e.edition
  BY <1>3 DEF C!EntryFields
<1>4. /\ \A b \in bs : DOMAIN b = C!BookFields
      /\ \A x \in xs : DOMAIN x = C!EditionFields
      /\ \A e \in es : DOMAIN e = C!EntryFields
  BY DEF InCatalogue, Sound
<1>5. \A s, t : s \in {None, t} => tag(s) \in {None, tag(t)}
  OBVIOUS
<1>6. \A s \in Requests \ {r} : tag(s) = s
  OBVIOUS
<1> HIDE DEF bs2, xs2, es2, saved, tag
<1>7. \A b \in bs : saved(b) \in bs2 /\ C!Root(saved(b)) = C!Root(b)
  BY <1>0, <1>1, <1>4 DEF C!Root
<1>8. Sound(bs2)
  <2>1. \A b \in bs2 : DOMAIN b = C!BookFields
    BY <1>0, <1>1, <1>4
  <2>2. ASSUME NEW a \in bs2, NEW b \in bs2, a.id = b.id PROVE a = b
    <3>1. PICK a0 \in bs : a = saved(a0)
      BY <1>0
    <3>2. PICK b0 \in bs : b = saved(b0)
      BY <1>0
    <3>3. a0.id = b0.id
      BY <1>1, <1>4, <2>2, <3>1, <3>2
    <3>4. a0 = b0
      BY <3>3 DEF InCatalogue, Sound
    <3> QED
      BY <3>1, <3>2, <3>4
  <2>3. ASSUME NEW b \in bs2, b.merged # None
        PROVE  \E a \in bs2 : a.id = b.merged /\ a.merged = None /\ a.tx = None
    <3>1. PICK b0 \in bs : b = saved(b0)
      BY <1>0
    <3>2. b0.merged = b.merged
      BY <1>1, <1>4, <3>1
    <3>3. PICK a0 \in bs : a0.id = b0.merged /\ a0.merged = None /\ a0.tx = None
      BY <2>3, <3>2 DEF InCatalogue, Sound
    <3>4. saved(a0) = a0
      BY <1>0, <3>3 DEF saved
    <3>5. a0 \in bs2
      BY <1>7, <3>4
    <3> QED
      BY <3>2, <3>3, <3>5
  <2> QED
    BY <2>1, <2>2, <2>3 DEF Sound
<1>9. ASSUME NEW i, NEW j, NEW t, SameWork(bs, i, j, t) PROVE SameWork(bs2, i, j, tag(t))
  <2>1. PICK a \in bs, b \in bs : /\ a.id = i /\ b.id = j /\ a.tx \in {None, t} /\ b.tx \in {None, t}
                                  /\ C!Root(a) = C!Root(b)
    BY <1>9 DEF SameWork
  <2>2. /\ saved(a) \in bs2 /\ saved(b) \in bs2 /\ saved(a).id = i /\ saved(b).id = j
        /\ saved(a).tx \in {None, tag(t)} /\ saved(b).tx \in {None, tag(t)}
        /\ C!Root(saved(a)) = C!Root(saved(b))
    BY <1>1, <1>4, <1>5, <1>7, <2>1
  <2> QED
    BY <2>2 DEF SameWork
<1>10. ASSUME NEW result, NEW i, NEW t, OfResult(bs, result, i, t) PROVE OfResult(bs2, result, i, tag(t))
  <2>1. PICK b \in bs : Names(b, result) /\ b.tx \in {None, t} /\ C!Root(b) = i
    BY <1>10 DEF OfResult
  <2>2. /\ saved(b) \in bs2 /\ saved(b).work = b.work /\ saved(b).volume = b.volume
        /\ saved(b).tx \in {None, tag(t)} /\ C!Root(saved(b)) = i
    BY <1>1, <1>4, <1>5, <1>7, <2>1
  <2> QED
    BY <2>1, <2>2 DEF OfResult, Names
<1>11. ASSUME NEW isbn, NEW i, NEW t, Linked(bs, xs, isbn, i, t) PROVE Linked(bs2, xs2, isbn, i, tag(t))
  <2>1. PICK x \in xs : x.isbn_13 = isbn /\ x.tx \in {None, t} /\ SameWork(bs, x.book, i, t)
    BY <1>11 DEF Linked
  <2>2. /\ saved(x) \in xs2 /\ saved(x).isbn_13 = isbn /\ saved(x).tx \in {None, tag(t)}
        /\ SameWork(bs2, saved(x).book, i, tag(t))
    BY <1>0, <1>2, <1>4, <1>5, <1>9, <2>1
  <2> QED
    BY <2>2 DEF Linked
<1>12. ASSUME NEW b \in bs2 PROVE BookSigned(ts, b)
  <2>1. PICK b0 \in bs : b = saved(b0)
    BY <1>0
  <2>2. BookSigned(ts, b0)
    BY DEF InCatalogue
  <2> QED
    BY <1>1, <1>4, <2>1, <2>2 DEF BookSigned
<1>13. ASSUME NEW x \in xs2 PROVE DOMAIN x = C!EditionFields /\ EditionSigned(bs2, ts, x)
  <2>1. PICK x0 \in xs : x = saved(x0)
    BY <1>0
  <2>2. EditionSigned(bs, ts, x0)
    BY DEF InCatalogue
  <2>3. /\ DOMAIN x = C!EditionFields /\ x.tx = tag(x0.tx) /\ x.isbn_13 = x0.isbn_13
        /\ x.isbn_10 = x0.isbn_10 /\ x.book = x0.book /\ x.maker = x0.maker /\ x.day = x0.day
    BY <1>2, <1>4, <2>1
  <2> QED
    BY <1>10, <2>2, <2>3 DEF EditionSigned
<1>14. ASSUME NEW e \in es2 PROVE DOMAIN e = C!EntryFields /\ HasItsWork(bs2, xs2, e)
  <2>1. PICK e0 \in es : e = saved(e0)
    BY <1>0
  <2>2. HasItsWork(bs, xs, e0)
    BY DEF InCatalogue
  <2>3. DOMAIN e = C!EntryFields /\ e.tx = tag(e0.tx) /\ e.book = e0.book /\ e.edition = e0.edition
    BY <1>3, <1>4, <2>1
  <2> QED
    BY <1>9, <1>11, <2>2, <2>3 DEF HasItsWork
<1>15. ASSUME NEW s \in Requests PROVE AddFits(bs2, xs2, ts, rs2[s], s)
  <2>1. CASE s = r
    BY <2>1 DEF AddFits
  <2>2. CASE s # r
    <3>1. AddFits(bs, xs, ts, rs[s], s) /\ rs2[s] = rs[s] /\ tag(s) = s
      BY <1>6, <2>2 DEF InCatalogue
    <3>2. OfResult(bs, rs[s].result, rs[s].book, s) => OfResult(bs2, rs[s].result, rs[s].book, s)
      BY <1>10, <3>1
    <3>3. Linked(bs, xs, rs[s].edition, rs[s].book, s) => Linked(bs2, xs2, rs[s].edition, rs[s].book, s)
      BY <1>11, <3>1
    <3> QED
      BY <3>1, <3>2, <3>3 DEF AddFits
  <2> QED
    BY <2>1, <2>2
<1>16. InCatalogue(bs2, xs2, es2, ts, rs2)
  BY <1>8, <1>12, <1>13, <1>14, <1>15 DEF InCatalogue
<1> QED
  BY <1>16 DEF bs2, xs2, es2

-----------------------------------------------------------------------------
(* The steps.  One that leaves the rows and tokens alone moves a request.     *)

LEMMA Moves ==
  ASSUME CatalogueInv, NEW r \in Requests, UNCHANGED <<books, editions, entries, issued, day>>,
         DOMAIN add' = Requests, \A s \in Requests \ {r} : add'[s] = add[s],
         AddFits(books, editions, issued, add'[r], r)
  PROVE  CatalogueInv'
<1>1. \A s \in Requests : add'[s] = add[s] \/ AddFits(books, editions, issued, add'[s], s)
  OBVIOUS
<1>2. Sound(books) /\ \A t \in issued : t.exp \in Int
  BY DEF CatalogueInv, InCatalogue
<1>3. InCatalogue(books, editions, entries, issued, add')
  BY Grows, <1>1, <1>2 DEF CatalogueInv
<1> QED
  BY <1>3 DEF CatalogueInv

\* A request at work, and what the invariant says of it.
LEMMA AtWork ==
  ASSUME CatalogueInv, NEW r \in Requests
  PROVE  /\ Sound(books) /\ DOMAIN add = Requests
         /\ AddFits(books, editions, issued, add[r], r)
BY DEF CatalogueInv, InCatalogue

\* The row an add takes is of the result's work, and seen by the add.
LEMMA TakesItsWork ==
  ASSUME CatalogueInv, NEW r, NEW result, C!RowOf(r, result) # {}
  PROVE  OfResult(books, result, C!Canonical((CHOOSE b \in C!RowOf(r, result) : TRUE).id), r)
<1> DEFINE b == CHOOSE b \in C!RowOf(r, result) : TRUE
<1>1. b \in books /\ b.tx \in {None, r} /\ Names(b, result)
  BY DEF C!RowOf, C!Seen, Names
<1>2. C!Canonical(b.id) = C!Root(b)
  BY <1>1, RowFound DEF CatalogueInv, InCatalogue
<1> QED
  BY <1>1, <1>2 DEF OfResult

LEMMA BeginStep ==
  ASSUME CatalogueInv, NEW r \in Requests, NEW user, NEW result, NEW token \in issued \cup {None, Malformed},
         C!Begin(r, user, result, token)
  PROVE  CatalogueInv'
<1>0. DOMAIN add = Requests /\ day \in Int /\ \A t \in issued : t.exp \in Int
  BY DEF CatalogueInv, InCatalogue
<1>1. UNCHANGED <<books, editions, entries, issued, day>>
  BY DEF C!Begin
<1>2. CASE ~C!IsSignable(result)
  <2>1. add' = [add EXCEPT ![r] = [pc |-> "ended", how |-> "book_not_in_catalog"]]
    BY <1>2 DEF C!Begin, C!Ends
  <2>2. add'[r].pc = "ended"
    BY <1>0, <2>1
  <2>3. AddFits(books, editions, issued, add'[r], r)
    BY <2>2 DEF AddFits
  <2> QED
    BY <1>0, <1>1, <2>1, <2>3, Moves
<1>3. CASE C!IsSignable(result)
  <2> DEFINE ok == C!Check(token, user, result) = "ok"
             q == [pc |-> "find_book", user |-> user, result |-> result, book |-> None,
                   edition |-> None, day |-> day, trusted |-> ok]
  <2>1. add' = [add EXCEPT ![r] = q]
    BY <1>3 DEF C!Begin
  <2>2. ok => token \in issued /\ Signed(token, user, day) /\ token.result = result
    BY <1>0 DEF C!Check, C!CanonicalBook, Signed
  <2> HIDE DEF ok
  <2>3. /\ DOMAIN q = RequestFields /\ q.pc = "find_book" /\ q.result = result /\ q.edition = None
        /\ q.user = user /\ q.day = day /\ (q.trusted => ok)
    BY DEF RequestFields
  <2> HIDE DEF q
  <2>4. AddFits(books, editions, issued, q, r)
    BY <1>3, <2>2, <2>3 DEF AddFits
  <2> QED
    BY <1>0, <1>1, <2>1, <2>4, Moves
<1> QED
  BY <1>2, <1>3

LEMMA FindBookStep ==
  ASSUME CatalogueInv, NEW r \in Requests, C!FindBook(r)
  PROVE  CatalogueInv'
<1>0. /\ DOMAIN add = Requests /\ add[r].pc = "find_book" /\ DOMAIN add[r] = RequestFields
      /\ AddFits(books, editions, issued, add[r], r) /\ add[r].edition = None
  BY AtWork DEF C!FindBook, AddFits
<1>1. UNCHANGED <<books, editions, entries, issued, day>>
  BY DEF C!FindBook
<1> DEFINE q == add'[r]
<1>2. CASE C!RowOf(r, add[r].result) # {}
  <2> DEFINE i == C!Canonical((CHOOSE b \in C!RowOf(r, add[r].result) : TRUE).id)
  <2>1. add' = [add EXCEPT ![r].pc = "find_edition", ![r].book = i]
    BY <1>2 DEF C!FindBook
  <2>2. OfResult(books, add[r].result, i, r)
    BY <1>2, TakesItsWork
  <2> HIDE DEF i
  <2>3. /\ DOMAIN q = RequestFields /\ q.pc = "find_edition" /\ q.book = i /\ q.edition = None
        /\ q.user = add[r].user /\ q.result = add[r].result /\ q.day = add[r].day /\ q.trusted = add[r].trusted
    BY <1>0, <2>1 DEF RequestFields
  <2> HIDE DEF q
  <2>4. AddFits(books, editions, issued, q, r)
    BY <1>0, <2>2, <2>3 DEF AddFits
  <2> QED
    BY <1>0, <1>1, <2>1, <2>4, Moves DEF q
<1>3. CASE C!RowOf(r, add[r].result) = {} /\ add[r].trusted
  <2>1. add' = [add EXCEPT ![r].pc = "insert_book"]
    BY <1>3 DEF C!FindBook, C!Goes
  <2>3. /\ DOMAIN q = RequestFields /\ q.pc = "insert_book" /\ q.edition = None
        /\ q.user = add[r].user /\ q.result = add[r].result /\ q.day = add[r].day /\ q.trusted = add[r].trusted
    BY <1>0, <2>1 DEF RequestFields
  <2> HIDE DEF q
  <2>4. AddFits(books, editions, issued, q, r)
    BY <1>0, <1>3, <2>3 DEF AddFits
  <2> QED
    BY <1>0, <1>1, <2>1, <2>4, Moves DEF q
<1>4. CASE C!RowOf(r, add[r].result) = {} /\ ~add[r].trusted
  <2>1. add' = [add EXCEPT ![r] = [pc |-> "ended", how |-> "catalog_token_invalid"]]
    BY <1>4 DEF C!FindBook, C!Ends
  <2>2. add'[r].pc = "ended"
    BY <1>0, <2>1
  <2>3. AddFits(books, editions, issued, add'[r], r)
    BY <2>2 DEF AddFits
  <2> QED
    BY <1>0, <1>1, <2>1, <2>3, Moves
<1> QED
  BY <1>2, <1>3, <1>4

LEMMA InsertBookStep ==
  ASSUME CatalogueInv, NEW r \in Requests, C!InsertBook(r)
  PROVE  CatalogueInv'
<1> DEFINE q == add[r]
           p == add'[r]
           clashing == C!Clashing(q.result)
           free == BookIds \ {b.id : b \in books}
           id == CHOOSE i \in free : TRUE
<1>0. /\ DOMAIN add = Requests /\ q.pc = "insert_book" /\ DOMAIN q = RequestFields
      /\ AddFits(books, editions, issued, q, r) /\ q.edition = None /\ q.trusted
      /\ C!IsSignable(q.result)
  BY AtWork DEF C!InsertBook, AddFits
<1>1. UNCHANGED <<editions, entries, issued, day>>
  BY DEF C!InsertBook
<1>2. CASE clashing # {}
  <2> DEFINE i == C!Canonical((CHOOSE b \in C!RowOf(r, q.result) : TRUE).id)
  <2>1. /\ add' = [add EXCEPT ![r].pc = "find_edition", ![r].book = i]
        /\ UNCHANGED books /\ \A b \in clashing : b.tx = None
    BY <1>2 DEF C!InsertBook
  <2>2. C!RowOf(r, q.result) # {}
    <3>1. PICK b \in clashing : b.tx = None
      BY <1>2, <2>1
    <3> QED
      BY <3>1 DEF C!Clashing, C!RowOf, C!Seen
  <2>3. OfResult(books, q.result, i, r)
    BY <2>2, TakesItsWork
  <2> HIDE DEF i
  <2>4. /\ DOMAIN p = RequestFields /\ p.pc = "find_edition" /\ p.book = i /\ p.edition = None
        /\ p.user = q.user /\ p.result = q.result /\ p.day = q.day /\ p.trusted = q.trusted
    BY <1>0, <2>1 DEF RequestFields
  <2> HIDE DEF p, q
  <2>5. AddFits(books, editions, issued, p, r)
    BY <1>0, <2>3, <2>4 DEF AddFits
  <2> QED
    BY <1>0, <1>1, <2>1, <2>5, Moves DEF p, q
<1>3. CASE clashing = {}
  <2> DEFINE b == [id |-> id, work |-> q.result.work, volume |-> q.result.volume,
                   text |-> q.result.text, merged |-> None, tx |-> r,
                   maker |-> q.user, day |-> q.day]
  <2>1. /\ books' = books \cup {b} /\ id \notin {a.id : a \in books}
        /\ add' = [add EXCEPT ![r].pc = "find_edition", ![r].book = id]
    BY <1>3 DEF C!InsertBook
  <2> HIDE DEF id
  <2>2. /\ DOMAIN p = RequestFields /\ p.pc = "find_edition" /\ p.book = id /\ p.edition = None
        /\ p.user = q.user /\ p.result = q.result /\ p.day = q.day /\ p.trusted = q.trusted
    BY <1>0, <2>1 DEF RequestFields
  <2>3. add' = [add EXCEPT ![r] = p]
    BY <1>0, <2>1
  <2> HIDE DEF p
  <2>4. /\ b.id = id /\ b.work = q.result.work /\ b.volume = q.result.volume /\ b.text = q.result.text
        /\ b.merged = None /\ b.tx = r /\ b.maker = q.user /\ b.day = q.day /\ DOMAIN b = C!BookFields
    BY DEF C!BookFields
  <2> HIDE DEF b
  <2>5. Sound(books')
    <3>1. \A a \in books : a.id # b.id
      BY <2>1, <2>4
    <3> QED
      BY AtWork, <2>1, <2>4, <3>1 DEF Sound
  <2>6. BookSigned(issued, b)
    BY <1>0, <2>4 DEF BookSigned, AddFits
  <2>7. OfResult(books', q.result, id, r)
    <3>1. Names(b, q.result)
      BY <1>0, <2>4 DEF Names, C!IsSignable
    <3>2. C!Root(b) = id
      BY <2>4 DEF C!Root
    <3> QED
      BY <2>1, <2>4, <3>1, <3>2 DEF OfResult
  <2> HIDE DEF q
  <2>8. AddFits(books', editions, issued, p, r)
    BY <1>0, <2>2, <2>7 DEF AddFits
  <2>9. \A s \in Requests : add'[s] = add[s] \/ AddFits(books', editions, issued, add'[s], s)
    BY <1>0, <2>3, <2>8
  <2>10. InCatalogue(books', editions, entries, issued, add')
    <3>1. DOMAIN add' = Requests /\ books \subseteq books' /\ \A a \in books' : a \in books \/ BookSigned(issued, a)
      BY <1>0, <2>1, <2>3, <2>6
    <3>2. InCatalogue(books, editions, entries, issued, add) /\ \A t \in issued : t.exp \in Int
      BY DEF CatalogueInv, InCatalogue
    <3> QED
      BY Grows, <2>5, <2>9, <3>1, <3>2
  <2> QED
    BY <1>1, <2>10 DEF CatalogueInv
<1> QED
  BY <1>2, <1>3

\* An edition of the book that was found, or none.
LEMMA LinksItsWork ==
  ASSUME Sound(books), NEW r, NEW result, NEW book, OfResult(books, result, book, r),
         NEW x \in editions, x.tx \in {None, r}
  PROVE  C!Link(x, book) # None => Linked(books, editions, C!Link(x, book), book, r)
<1>1. SameWork(books, book, book, r)
  BY WorkSeen
<1> QED
  BY <1>1 DEF C!Link, Linked

LEMMA FindEditionStep ==
  ASSUME CatalogueInv, NEW r \in Requests, C!FindEdition(r)
  PROVE  CatalogueInv'
<1> DEFINE q == add[r]
           p == add'[r]
           found == {x \in C!Seen(editions, r) : x.isbn_13 = q.result.isbn_13}
           x == CHOOSE x \in found : TRUE
<1>0. /\ DOMAIN add = Requests /\ q.pc = "find_edition" /\ DOMAIN q = RequestFields
      /\ AddFits(books, editions, issued, q, r) /\ q.edition = None
      /\ OfResult(books, q.result, q.book, r)
  BY AtWork DEF C!FindEdition, AddFits
<1>1. UNCHANGED <<books, editions, entries, issued, day>>
  BY DEF C!FindEdition
<1>2. CASE found = {} \/ q.result.isbn_13 = None
  <2>1. PICK pc \in {"check", "insert_edition"} :
          add' = [add EXCEPT ![r].pc = pc] /\ (pc = "insert_edition" => q.trusted)
    BY <1>2 DEF C!FindEdition, C!Goes
  <2>2. /\ DOMAIN p = RequestFields /\ p.pc = pc /\ p.book = q.book /\ p.edition = None
        /\ p.user = q.user /\ p.result = q.result /\ p.day = q.day /\ p.trusted = q.trusted
    BY <1>0, <2>1 DEF RequestFields
  <2> HIDE DEF p, q
  <2>3. AddFits(books, editions, issued, p, r)
    BY <1>0, <2>1, <2>2 DEF AddFits
  <2> QED
    BY <1>0, <1>1, <2>1, <2>3, Moves DEF p, q
<1>3. CASE found # {} /\ q.result.isbn_13 # None
  <2> DEFINE isbn == C!Link(x, q.book)
  <2>1. add' = [add EXCEPT ![r].pc = "check", ![r].edition = isbn]
    BY <1>3 DEF C!FindEdition
  <2>2. x \in editions /\ x.tx \in {None, r}
    BY <1>3 DEF C!Seen
  <2>3. isbn # None => Linked(books, editions, isbn, q.book, r)
    BY AtWork, LinksItsWork, <1>0, <2>2
  <2> HIDE DEF isbn
  <2>4. /\ DOMAIN p = RequestFields /\ p.pc = "check" /\ p.book = q.book /\ p.edition = isbn
        /\ p.user = q.user /\ p.result = q.result /\ p.day = q.day /\ p.trusted = q.trusted
    BY <1>0, <2>1 DEF RequestFields
  <2> HIDE DEF p, q
  <2>5. AddFits(books, editions, issued, p, r)
    BY <1>0, <2>3, <2>4 DEF AddFits
  <2> QED
    BY <1>0, <1>1, <2>1, <2>5, Moves DEF p, q
<1> QED
  BY <1>2, <1>3

LEMMA InsertEditionStep ==
  ASSUME CatalogueInv, NEW r \in Requests, C!InsertEdition(r)
  PROVE  CatalogueInv'
<1> DEFINE q == add[r]
           p == add'[r]
           clashing == {x \in editions : x.isbn_13 = q.result.isbn_13}
<1>0. /\ DOMAIN add = Requests /\ q.pc = "insert_edition" /\ DOMAIN q = RequestFields
      /\ AddFits(books, editions, issued, q, r) /\ q.edition = None /\ q.trusted
      /\ OfResult(books, q.result, q.book, r)
  BY AtWork DEF C!InsertEdition, AddFits
<1>1. UNCHANGED <<books, entries, issued, day>>
  BY DEF C!InsertEdition
<1>2. CASE clashing # {}
  <2> DEFINE x == CHOOSE x \in clashing : TRUE
             isbn == C!Link(x, q.book)
  <2>1. /\ add' = [add EXCEPT ![r].pc = "check", ![r].edition = isbn]
        /\ UNCHANGED editions /\ \A y \in clashing : y.tx = None
    BY <1>2 DEF C!InsertEdition
  <2>2. x \in editions /\ x.tx \in {None, r}
    BY <1>2, <2>1
  <2>3. isbn # None => Linked(books, editions, isbn, q.book, r)
    BY AtWork, LinksItsWork, <1>0, <2>2
  <2> HIDE DEF isbn
  <2>4. /\ DOMAIN p = RequestFields /\ p.pc = "check" /\ p.book = q.book /\ p.edition = isbn
        /\ p.user = q.user /\ p.result = q.result /\ p.day = q.day /\ p.trusted = q.trusted
    BY <1>0, <2>1 DEF RequestFields
  <2> HIDE DEF p, q
  <2>5. AddFits(books, editions, issued, p, r)
    BY <1>0, <2>3, <2>4 DEF AddFits
  <2> QED
    BY <1>0, <1>1, <2>1, <2>5, Moves DEF p, q
<1>3. CASE clashing = {}
  <2> DEFINE x == [isbn_13 |-> q.result.isbn_13, isbn_10 |-> q.result.isbn_10,
                   book |-> q.book, tx |-> r, maker |-> q.user, day |-> q.day]
  <2>1. /\ editions' = editions \cup {x}
        /\ add' = [add EXCEPT ![r].pc = "check", ![r].edition = q.result.isbn_13]
    BY <1>3 DEF C!InsertEdition
  <2>2. /\ DOMAIN p = RequestFields /\ p.pc = "check" /\ p.book = q.book /\ p.edition = q.result.isbn_13
        /\ p.user = q.user /\ p.result = q.result /\ p.day = q.day /\ p.trusted = q.trusted
        /\ add' = [add EXCEPT ![r] = p]
    BY <1>0, <2>1 DEF RequestFields
  <2>3. /\ x.isbn_13 = q.result.isbn_13 /\ x.isbn_10 = q.result.isbn_10 /\ x.book = q.book /\ x.tx = r
        /\ x.maker = q.user /\ x.day = q.day /\ DOMAIN x = C!EditionFields
    BY DEF C!EditionFields
  <2> HIDE DEF x, p
  <2>4. EditionSigned(books, issued, x)
    BY <1>0, <2>3 DEF EditionSigned, AddFits
  <2>5. Linked(books, editions', q.result.isbn_13, q.book, r)
    <3>1. SameWork(books, q.book, q.book, r)
      BY AtWork, WorkSeen, <1>0
    <3> QED
      BY <2>1, <2>3, <3>1 DEF Linked
  <2> HIDE DEF q
  <2>6. AddFits(books, editions', issued, p, r)
    BY <1>0, <2>2, <2>5 DEF AddFits
  <2>7. \A s \in Requests : add'[s] = add[s] \/ AddFits(books, editions', issued, add'[s], s)
    BY <1>0, <2>2, <2>6
  <2>8. InCatalogue(books, editions', entries, issued, add')
    <3>1. DOMAIN add' = Requests /\ editions \subseteq editions'
      BY <1>0, <2>1, <2>2
    <3>2. \A y \in editions' : y \in editions \/ (DOMAIN y = C!EditionFields /\ EditionSigned(books, issued, y))
      BY <2>1, <2>3, <2>4
    <3>3. InCatalogue(books, editions, entries, issued, add) /\ Sound(books) /\ \A t \in issued : t.exp \in Int
      BY DEF CatalogueInv, InCatalogue
    <3> QED
      BY Grows, <2>7, <3>1, <3>2, <3>3
  <2> QED
    BY <1>1, <2>8 DEF CatalogueInv
<1> QED
  BY <1>2, <1>3

LEMMA RollBackStep ==
  ASSUME CatalogueInv, NEW r \in Requests, NEW how, C!RollBack(r), C!Ends(r, how), UNCHANGED <<issued, day>>
  PROVE  CatalogueInv'
<1>1. add' = [add EXCEPT ![r] = [pc |-> "ended", how |-> how]] /\ DOMAIN add = Requests
  BY DEF C!Ends, CatalogueInv, InCatalogue
<1>2. DOMAIN add' = Requests /\ add'[r].pc = "ended" /\ \A s \in Requests \ {r} : add'[s] = add[s]
  BY <1>1
<1>3. None \notin Requests
  BY CatalogueOK DEF C!ConstantsOK
<1>4. InCatalogue(C!Others(books, r), C!Others(editions, r), C!Others(entries, r), issued, add')
  BY RollsBack, <1>2, <1>3 DEF CatalogueInv
<1> QED
  BY <1>4 DEF CatalogueInv, C!RollBack

\* A request that goes on with what it has found.
LEMMA GoesStep ==
  ASSUME CatalogueInv, NEW r \in Requests, NEW pc \in {"insert_entry", "recheck", "commit"}, C!Goes(r, pc),
         add[r].pc \in {"check", "insert_entry"}
  PROVE  /\ AddFits(books, editions, issued, add'[r], r) /\ DOMAIN add' = Requests
         /\ \A s \in Requests \ {r} : add'[s] = add[s]
<1> DEFINE q == add[r]
           p == add'[r]
<1>0. /\ DOMAIN add = Requests /\ DOMAIN q = RequestFields /\ q.pc \in {"check", "insert_entry"}
      /\ AddFits(books, editions, issued, q, r) /\ OfResult(books, q.result, q.book, r)
  BY AtWork DEF AddFits
<1>1. add' = [add EXCEPT ![r].pc = pc]
  BY DEF C!Goes
<1>2. /\ p.pc = pc /\ DOMAIN p = RequestFields /\ p.book = q.book /\ p.edition = q.edition
      /\ p.user = q.user /\ p.result = q.result /\ p.day = q.day /\ p.trusted = q.trusted
  BY <1>0, <1>1 DEF RequestFields
<1> HIDE DEF p, q
<1>3. AddFits(books, editions, issued, p, r)
  BY <1>0, <1>2 DEF AddFits
<1> QED
  BY <1>0, <1>1, <1>3 DEF p, q

LEMMA CheckOwnedStep ==
  ASSUME CatalogueInv, NEW r \in Requests, C!CheckOwned(r) \/ C!Recheck(r) \/ C!Fail(r)
  PROVE  CatalogueInv'
<1>1. CASE UNCHANGED <<issued, day>> /\ C!RollBack(r) /\ \E how : C!Ends(r, how)
  BY <1>1, RollBackStep
<1>2. CASE /\ C!Goes(r, "insert_entry") /\ add[r].pc = "check"
           /\ UNCHANGED <<books, editions, entries, issued, day>>
  BY <1>2, GoesStep, Moves
<1> QED
  BY <1>1, <1>2 DEF C!CheckOwned, C!Recheck, C!Fail, C!RefuseIfOwned

LEMMA CommitStep ==
  ASSUME CatalogueInv, NEW r \in Requests, C!Commit(r)
  PROVE  CatalogueInv'
<1>1. add' = [add EXCEPT ![r] = [pc |-> "ended", how |-> "added"]] /\ DOMAIN add = Requests
  BY DEF C!Commit, C!Ends, CatalogueInv, InCatalogue
<1>2. DOMAIN add' = Requests /\ add'[r].pc = "ended" /\ \A s \in Requests \ {r} : add'[s] = add[s]
  BY <1>1
<1>3. None \notin Requests
  BY CatalogueOK DEF C!ConstantsOK
<1>4. InCatalogue(C!Settle(books, r), C!Settle(editions, r), C!Settle(entries, r), issued, add')
  BY Settles, <1>2, <1>3 DEF CatalogueInv
<1> QED
  BY <1>4 DEF CatalogueInv, C!Commit

\* A step that changes the user's entries only.
LEMMA EntriesStep ==
  ASSUME CatalogueInv, UNCHANGED <<books, editions, issued>>, day' \in Int, DOMAIN add' = Requests,
         \A r \in Requests : add'[r] = add[r] \/ AddFits(books, editions, issued, add'[r], r),
         \A e \in entries' : e \in entries \/ (DOMAIN e = C!EntryFields /\ HasItsWork(books, editions, e))
  PROVE  CatalogueInv'
<1>1. Sound(books) /\ \A t \in issued : t.exp \in Int
  BY DEF CatalogueInv, InCatalogue
<1>2. InCatalogue(books, editions, entries', issued, add')
  BY Grows, <1>1 DEF CatalogueInv
<1> QED
  BY <1>2 DEF CatalogueInv

LEMMA InsertEntryStep ==
  ASSUME CatalogueInv, NEW r \in Requests, C!InsertEntry(r)
  PROVE  CatalogueInv'
<1> DEFINE q == add[r]
           e == [user |-> q.user, book |-> q.book, edition |-> q.edition, tx |-> r]
<1>0. /\ q.pc = "insert_entry" /\ UNCHANGED <<books, editions, issued, day>> /\ day \in Int
      /\ AddFits(books, editions, issued, q, r) /\ OfResult(books, q.result, q.book, r)
  BY AtWork DEF C!InsertEntry, AddFits, CatalogueInv
<1>1. \/ C!Goes(r, "recheck") /\ UNCHANGED entries
      \/ C!Goes(r, "commit") /\ entries' = entries \cup {e}
  BY DEF C!InsertEntry
<1>2. /\ DOMAIN e = C!EntryFields /\ e.book = q.book /\ e.edition = q.edition /\ e.tx = r
  BY DEF C!EntryFields
<1>3. HasItsWork(books, editions, e)
  <2>1. SameWork(books, q.book, q.book, r)
    BY AtWork, WorkSeen, <1>0
  <2>2. q.edition # None => Linked(books, editions, q.edition, q.book, r)
    BY <1>0 DEF AddFits
  <2> HIDE DEF e
  <2> QED
    BY <1>2, <2>1, <2>2 DEF HasItsWork
<1>4. /\ AddFits(books, editions, issued, add'[r], r) /\ DOMAIN add' = Requests
      /\ \A s \in Requests \ {r} : add'[s] = add[s]
  BY GoesStep, <1>0, <1>1
<1>5. \A s \in Requests : add'[s] = add[s] \/ AddFits(books, editions, issued, add'[s], s)
  BY <1>4
<1> HIDE DEF e
<1>6. \A d \in entries' : d \in entries \/ (DOMAIN d = C!EntryFields /\ HasItsWork(books, editions, d))
  BY <1>1, <1>2, <1>3
<1> QED
  BY EntriesStep, <1>0, <1>4, <1>5, <1>6

LEMMA PurchaseStep ==
  ASSUME CatalogueInv, NEW user, NEW id, NEW edition, C!Purchase(user, id, edition)
  PROVE  CatalogueInv'
<1> DEFINE book == C!Canonical(id)
<1>0. /\ UNCHANGED <<books, editions, issued, day, add>> /\ day \in Int /\ Sound(books)
      /\ \A e \in entries : DOMAIN e = C!EntryFields /\ HasItsWork(books, editions, e)
      /\ DOMAIN add = Requests
  BY DEF C!Purchase, CatalogueInv, InCatalogue
<1>1. PICK b \in books : b.tx = None /\ b.id = id
  BY DEF C!Purchase, C!Saved, C!Seen
<1>2. book = C!Root(b) /\ SameWork(books, book, book, None)
  BY RowFound, RootSeen, <1>0, <1>1
<1>3. edition # None => \E x \in editions : x.tx = None /\ x.isbn_13 = edition /\ x.book = book
  BY DEF C!Purchase, C!Saved, C!Seen
<1>4. \/ entries' = entries \cup {[user |-> user, book |-> book, edition |-> edition, tx |-> None]}
      \/ \E e \in entries : /\ e.book = book \/ C!Canonical(e.book) = book
                            /\ edition # None
                            /\ entries' = (entries \ {e}) \cup {[e EXCEPT !.edition = edition]}
  BY DEF C!Purchase
<1> HIDE DEF book
<1>5. CASE entries' = entries \cup {[user |-> user, book |-> book, edition |-> edition, tx |-> None]}
  <2> DEFINE e == [user |-> user, book |-> book, edition |-> edition, tx |-> None]
  <2>1. DOMAIN e = C!EntryFields /\ e.book = book /\ e.edition = edition /\ e.tx = None
    BY DEF C!EntryFields
  <2>2. entries' = entries \cup {e}
    BY <1>5
  <2> HIDE DEF e
  <2>3. HasItsWork(books, editions, e)
    BY <1>2, <1>3, <2>1 DEF HasItsWork, Linked
  <2> QED
    BY EntriesStep, <1>0, <2>1, <2>2, <2>3
<1>6. ASSUME NEW e \in entries, e.book = book \/ C!Canonical(e.book) = book, edition # None,
             entries' = (entries \ {e}) \cup {[e EXCEPT !.edition = edition]}
      PROVE  CatalogueInv'
  <2> DEFINE d == [e EXCEPT !.edition = edition]
  <2>1. DOMAIN d = C!EntryFields /\ d.book = e.book /\ d.edition = edition /\ d.tx = e.tx
    BY <1>0 DEF C!EntryFields
  <2>2. entries' = (entries \ {e}) \cup {d}
    BY <1>6
  <2> HIDE DEF d
  <2>3. SameWork(books, e.book, e.book, e.tx)
    BY <1>0 DEF HasItsWork
  <2>4. SameWork(books, book, e.book, e.tx)
    <3>1. PICK a \in books : a.id = e.book /\ a.tx \in {None, e.tx}
      BY <2>3 DEF SameWork
    <3>2. C!Canonical(e.book) = C!Root(a) /\ SameWork(books, C!Root(a), e.book, e.tx)
      BY RowFound, RootSeen, <1>0, <3>1
    <3> QED
      BY <1>6, <2>3, <3>2
  <2>5. HasItsWork(books, editions, d)
    BY <1>3, <1>6, <2>1, <2>3, <2>4 DEF HasItsWork, Linked
  <2> QED
    BY EntriesStep, <1>0, <2>1, <2>2, <2>5
<1> QED
  BY <1>4, <1>5, <1>6

LEMMA SignStep ==
  ASSUME CatalogueInv, NEW user, NEW result, C!Sign(user, result)
  PROVE  CatalogueInv'
<1> DEFINE t == [v |-> "v1", user |-> user, exp |-> C!ExpiryFor(day), result |-> result]
<1>0. /\ UNCHANGED <<books, editions, entries, day, add>> /\ issued' = issued \cup {t}
      /\ day \in Int /\ DOMAIN add = Requests /\ Sound(books) /\ \A s \in issued : s.exp \in Int
  BY DEF C!Sign, CatalogueInv, InCatalogue
<1>1. t.exp \in Int
  BY <1>0, CatalogueOK DEF C!ExpiryFor, C!ConstantsOK
<1> HIDE DEF t
<1>2. InCatalogue(books, editions, entries, issued', add)
  <2>1. issued \subseteq issued' /\ \A s \in issued' : s.exp \in Int
    BY <1>0, <1>1
  <2> QED
    BY Grows, <1>0, <2>1 DEF CatalogueInv
<1> QED
  BY <1>0, <1>2 DEF CatalogueInv

LEMMA CatalogueStep ==
  ASSUME CatalogueInv, [C!Next]_catalogue PROVE CatalogueInv'
<1>1. CASE UNCHANGED catalogue
  BY <1>1 DEF catalogue, CatalogueInv
<1>2. ASSUME NEW r \in Requests, C!Add(r) PROVE CatalogueInv'
  BY <1>2, BeginStep, FindBookStep, InsertBookStep, FindEditionStep, InsertEditionStep, CheckOwnedStep,
     InsertEntryStep, CommitStep DEF C!Add
<1>3. ASSUME NEW e \in entries, C!Trash(e) PROVE CatalogueInv'
  BY <1>3, EntriesStep DEF C!Trash, CatalogueInv, InCatalogue
<1>4. CASE C!NextDay
  BY <1>4, EntriesStep DEF C!NextDay, CatalogueInv, InCatalogue
<1> QED
  BY <1>1, <1>2, <1>3, <1>4, PurchaseStep, SignStep DEF C!Next

LEMMA CatalogueStart == C!Init => CatalogueInv
<1> SUFFICES ASSUME C!Init PROVE CatalogueInv
  OBVIOUS
<1>0. /\ books = OldBooks /\ editions = OldEditions /\ entries = OldEntries /\ issued = OldTokens
      /\ day = 0 /\ add = [r \in Requests |-> C!Idle]
  BY DEF C!Init
<1>1. Sound(books)
  BY <1>0, CatalogueOK DEF C!ConstantsOK, C!OfBooks, Sound
<1>2. /\ \A t \in issued : t.exp \in Int
      /\ \A x \in editions : DOMAIN x = C!EditionFields /\ x.tx = None /\ x.maker = None
      /\ \A e \in entries : DOMAIN e = C!EntryFields /\ e.tx = None
      /\ \A b \in books : b.tx = None /\ b.maker = None
  BY <1>0, CatalogueOK DEF C!ConstantsOK
<1>3. (\A b \in books : BookSigned(issued, b)) /\ (\A x \in editions : EditionSigned(books, issued, x))
  BY <1>2 DEF BookSigned, EditionSigned
<1>4. ASSUME NEW e \in entries PROVE HasItsWork(books, editions, e)
  <2>1. PICK b \in books : b.id = e.book
    BY <1>0, CatalogueOK DEF C!ConstantsOK, C!OfBooks
  <2>2. SameWork(books, e.book, e.book, e.tx)
    BY <1>2, <2>1 DEF SameWork
  <2>3. ASSUME e.edition # None PROVE Linked(books, editions, e.edition, e.book, e.tx)
    <3>1. PICK x \in editions : /\ x.isbn_13 = e.edition
                                /\ \E a \in C!OfBooks(x.book), c \in C!OfBooks(e.book) : C!Root(a) = C!Root(c)
      BY <1>0, <2>3, CatalogueOK DEF C!ConstantsOK
    <3>2. SameWork(books, x.book, e.book, e.tx)
      BY <1>0, <1>2, <3>1 DEF C!OfBooks, SameWork
    <3> QED
      BY <1>2, <3>1, <3>2 DEF Linked
  <2> QED
    BY <2>2, <2>3 DEF HasItsWork
<1>5. \A r \in Requests : AddFits(books, editions, issued, add[r], r)
  BY <1>0 DEF C!Idle, AddFits
<1> QED
  BY <1>0, <1>1, <1>2, <1>3, <1>4, <1>5 DEF CatalogueInv, InCatalogue

\* In this run's part of the catalogue, and while the library moves instead.
THEOREM CatalogueFits == PartsSpec => []CatalogueInv
<1>1. Parts => CatalogueInv
  BY CatalogueStart DEF Parts
<1>2. CatalogueInv /\ [Steps]_<<part, vars, catalogue>> => CatalogueInv'
  BY CatalogueStep DEF Steps
<1> QED
  BY <1>1, <1>2, PTL DEF PartsSpec

\* Only what the server signed for a user enters the catalogue through them
\* (wishlist.py, catalog_token.py): the invariant keeps, with each row, the
\* token of the request that had it created.
THEOREM OnlySignedBooks == PartsSpec => []CatalogueIsSigned
<1>1. CatalogueInv => CatalogueIsSigned
  <2> SUFFICES ASSUME CatalogueInv PROVE C!CatalogueIsSigned
    BY DEF CatalogueIsSigned
  <2>1. ASSUME NEW b \in books, b.maker # None
        PROVE  \E t \in {t \in issued : t.v = "v1" /\ t.user = b.maker /\ t.exp > b.day} :
                 <<t.result.work, t.result.volume, t.result.text>> = <<b.work, b.volume, b.text>>
    BY <2>1 DEF CatalogueInv, InCatalogue, BookSigned, Signed
  <2>2. ASSUME NEW x \in editions, x.maker # None
        PROVE  \E t \in {t \in issued : t.v = "v1" /\ t.user = x.maker /\ t.exp > x.day} :
                 /\ <<t.result.isbn_13, t.result.isbn_10>> = <<x.isbn_13, x.isbn_10>>
                 /\ x.book \in {C!Canonical(b.id) : b \in C!Clashing(t.result)}
    <3>1. PICK t \in issued : /\ Signed(t, x.maker, x.day) /\ t.result.isbn_13 = x.isbn_13
                              /\ t.result.isbn_10 = x.isbn_10 /\ OfResult(books, t.result, x.book, x.tx)
      BY <2>2 DEF CatalogueInv, InCatalogue, EditionSigned
    <3>2. PICK b \in books : Names(b, t.result) /\ C!Root(b) = x.book
      BY <3>1 DEF OfResult
    <3>3. b \in C!Clashing(t.result) /\ C!Canonical(b.id) = x.book
      BY <3>2, RowFound DEF C!Clashing, Names, CatalogueInv, InCatalogue
    <3> QED
      BY <3>1, <3>3 DEF Signed
  <2> QED
    BY <2>1, <2>2 DEF C!CatalogueIsSigned
<1> QED
  BY <1>1, CatalogueFits, PTL

\* An entry's edition is one of its book's work (wishlist.py, edition_check.py,
\* add_purchased), however adds and purchases interleave.
THEOREM EditionsFitTheirWork == PartsSpec => []EditionOfItsWork
<1>1. CatalogueInv => EditionOfItsWork
  <2> SUFFICES ASSUME CatalogueInv, NEW e \in entries, e.edition # None
               PROVE  \E x \in editions : x.isbn_13 = e.edition /\ C!Canonical(x.book) = C!Canonical(e.book)
    BY DEF EditionOfItsWork, C!EditionOfItsWork
  <2>1. PICK x \in editions : x.isbn_13 = e.edition /\ SameWork(books, x.book, e.book, e.tx)
    BY DEF CatalogueInv, InCatalogue, HasItsWork, Linked
  <2>2. PICK a \in books, b \in books : a.id = x.book /\ b.id = e.book /\ C!Root(a) = C!Root(b)
    BY <2>1 DEF SameWork
  <2> QED
    BY <2>1, <2>2, RowFound DEF CatalogueInv, InCatalogue
<1> QED
  BY <1>1, CatalogueFits, PTL

\* The run's library is Library: what is proved of Spec holds in the run.
LEMMA RunIsSpec == PartsSpec => Spec
<1>1. Parts => Init
  BY DEF Parts
<1>2. [Steps]_<<part, vars, catalogue>> => [Next]_vars
  BY DEF Steps
<1> QED
  BY <1>1, <1>2, PTL DEF PartsSpec, Spec

=============================================================================
