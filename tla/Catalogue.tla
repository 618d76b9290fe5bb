------------------------------ MODULE Catalogue ------------------------------
(***************************************************************************)
(* The shared catalogue and the way a book gets from a scan or a search    *)
(* into it: results signed for one user, the library check that marks      *)
(* them, and concurrent adds that find or create the book, its edition and *)
(* the user's entry in one transaction.  A row that is not saved yet is    *)
(* seen by its own transaction only, and makes an insert of the same key   *)
(* wait.  At most MAX_HELD entries of one work are assumed.                *)
(***************************************************************************)
EXTENDS Integers, FiniteSets

CONSTANTS
  Users, Requests,
  BookIds,     \* ids of catalogue rows, old and new; a bound on their number
  OldBooks, OldEditions, OldEntries,   \* rows at the start
  Results,     \* what the look-up may find, or an app may send back
  OldTokens,   \* tokens of an earlier release
  Thirteen,    \* the ISBN-13 of an ISBN-10
  Ttl,         \* CATALOG_TOKEN_TTL, in days
  MaxDay, MaxTokens, MaxEntries,  \* bounds: clock, tokens, purchases
  None, Malformed

BookFields == {"id", "work", "volume", "text", "merged", "tx", "maker", "day"}
EditionFields == {"isbn_13", "isbn_10", "book", "tx", "maker", "day"}
EntryFields == {"user", "book", "edition", "tx"}

Root(b) == IF b.merged = None THEN b.id ELSE b.merged

(* The rows at the start are saved and of unknown makers; merges point to a  *)
(* row that is not merged, and an entry's edition is one of its book's work. *)
OfBooks(id) == {b \in OldBooks : b.id = id}

ConstantsOK ==
  /\ None \notin Requests /\ Ttl \in Nat /\ \A t \in OldTokens : t.exp \in Int
  /\ \A b \in OldBooks : DOMAIN b = BookFields /\ OfBooks(b.id) = {b}
  /\ \A b \in OldBooks : b.merged # None => \E a \in OfBooks(b.merged) : a.merged = None
  /\ \A x \in OldEditions : DOMAIN x = EditionFields
  /\ \A e \in OldEntries : DOMAIN e = EntryFields /\ OfBooks(e.book) # {}
  /\ \A row \in OldBooks \cup OldEditions : row.tx = None /\ row.maker = None
  /\ \A e \in OldEntries : e.tx = None
  /\ \A e \in OldEntries : e.edition # None =>
       \E x \in OldEditions : /\ x.isbn_13 = e.edition
                             /\ \E a \in OfBooks(x.book), b \in OfBooks(e.book) :
                                  Root(a) = Root(b)

VARIABLES
  books,     \* books: [id, work, volume, text, merged, tx, maker, day]
  editions,  \* editions: [isbn_13, isbn_10, book, tx, maker, day]
  entries,   \* live user_books: [user, book, edition, tx]
  issued,    \* tokens handed out
  day,       \* the UTC day
  req        \* req[r]: the POST /wishlist in slot r, or how it ended

vars == <<books, editions, entries, issued, day, req>>

\* tx is the request whose transaction wrote the row, None once it is saved;
\* maker and day say who had the row created, and when.

Idle == [pc |-> "idle"]
Running(r) == req[r].pc \notin {"idle", "ended"}
Seen(rows, r) == {x \in rows : x.tx \in {None, r}}
Saved(rows) == Seen(rows, None)
---------------------------------------------------------------------------
(* ISBNs and merged works.                                                 *)

Key(isbn_13, isbn_10) ==
  IF isbn_13 # None THEN isbn_13 ELSE IF isbn_10 # None THEN Thirteen[isbn_10] ELSE None

Row(id) == CHOOSE b \in books : b.id = id

\* Merges keep chains at one hop: longer ones are refused as broken.
Canonical(id) == Root(Row(id))

Family(id) == {b \in books : Canonical(b.id) = Canonical(id)}
---------------------------------------------------------------------------
(* The library check.                                                      *)

\* One of the user's entries, with every ID of its work.
Held(e, r) ==
  LET family == Family(e.book) \cap Seen(books, r)
      edition == {x \in editions : x.isbn_13 = e.edition}
  IN  [ids |-> {b.id : b \in family}, edition |-> e.edition,
       works |-> {b.work : b \in family} \ {None},
       volumes |-> {b.volume : b \in family} \ {None},
       isbn |-> IF edition = {} THEN None
                ELSE LET x == CHOOSE x \in edition : TRUE IN Key(x.isbn_13, x.isbn_10)]

HeldEntries(user, r) == {Held(e, r) : e \in {e \in Seen(entries, r) : e.user = user}}

Matching(held, id, result, isbn) ==
  {h \in held : \/ id # None /\ id \in h.ids
                \/ result.work # None /\ result.work \in h.works
                \/ result.volume # None /\ result.volume \in h.volumes
                \/ isbn # None /\ h.isbn = isbn}

OwnershipOf(isbn, matches, edition) ==
  IF matches = {} THEN "not_owned"
  ELSE IF \E h \in matches : \/ isbn # None /\ h.isbn = isbn
                             \/ edition # None /\ h.edition = edition
  THEN "owned_same_edition"
  ELSE IF isbn # None /\ \E h \in matches : h.isbn # None
  THEN "owned_other_edition" ELSE "owned_edition_unknown"

\* What the add finds of the resolved book.
Owned(user, r, id, edition, result) ==
  LET isbn == Key(result.isbn_13, result.isbn_10) IN
  OwnershipOf(isbn, Matching(HeldEntries(user, r), id, result, isbn), edition)
---------------------------------------------------------------------------
(* Tokens.                                                                 *)

IsSignable(result) == result.work # None \/ result.volume # None

\* The end of the day plus the time to live.
ExpiryFor(now) == now + 1 + Ttl

\* What the code is computed over: every field the catalogue keeps.
CanonicalBook(result) == result

Sign(user, result) ==
  /\ IsSignable(result) /\ Cardinality(issued) < MaxTokens
  /\ issued' = issued \cup {[v |-> "v1", user |-> user, exp |-> ExpiryFor(day),
                             result |-> result]}
  /\ UNCHANGED <<books, editions, entries, day, req>>

\* Mutant: the token is not bound to a user.
CheckAnyUser(token, user, result) ==
  IF token \notin {None, Malformed} /\ token.v = "v1"
     /\ CanonicalBook(token.result) = CanonicalBook(result) /\ token.exp > day
  THEN "ok" ELSE "mismatch"

Check(token, user, result) ==
  IF token = None THEN "missing"
  ELSE IF token = Malformed THEN "malformed"
  ELSE IF token.v # "v1" THEN "wrong_version"
  ELSE IF \/ token.user # user
          \/ CanonicalBook(token.result) # CanonicalBook(result) THEN "mismatch"
  ELSE IF token.exp <= day THEN "expired" ELSE "ok"
---------------------------------------------------------------------------
(* POST /wishlist.                                                         *)

Ends(r, how) == req' = [req EXCEPT ![r] = [pc |-> "ended", how |-> how]]
Goes(r, pc) == req' = [req EXCEPT ![r].pc = pc]

Begin(r, user, result, token) ==
  /\ req[r] = Idle
  /\ IF ~IsSignable(result) THEN Ends(r, "book_not_in_catalog")
     ELSE req' = [req EXCEPT ![r] =
            [pc |-> "find_book", user |-> user, result |-> result, book |-> None,
             edition |-> None, day |-> day,
             trusted |-> Check(token, user, result) = "ok"]]
  /\ UNCHANGED <<books, editions, entries, issued, day>>

\* The row with the work's ID, else the one with the volume's.
RowOf(r, result) ==
  LET works == {b \in Seen(books, r) : result.work # None /\ b.work = result.work}
      volumes == {b \in Seen(books, r) : result.volume # None /\ b.volume = result.volume}
  IN  IF works # {} THEN works ELSE volumes

FindBook(r) ==
  /\ req[r].pc = "find_book"
  /\ LET found == RowOf(r, req[r].result) IN
     IF found # {}
     THEN req' = [req EXCEPT ![r].pc = "find_edition",
                             ![r].book = Canonical((CHOOSE b \in found : TRUE).id)]
     ELSE IF req[r].trusted THEN Goes(r, "insert_book")
     ELSE Ends(r, "catalog_token_invalid")
  /\ UNCHANGED <<books, editions, entries, issued, day>>

Clashing(result) ==
  {b \in books : \/ result.work # None /\ b.work = result.work
                 \/ result.volume # None /\ b.volume = result.volume}

\* An insert waits for another's unsaved row of the same work or volume; if
\* that is saved, its row is taken instead.
InsertBook(r) ==
  /\ req[r].pc = "insert_book"
  /\ LET result == req[r].result
         clashing == Clashing(result)
         free == BookIds \ {b.id : b \in books}
         id == CHOOSE i \in free : TRUE
     IN  /\ \A b \in clashing : b.tx = None
         /\ IF clashing # {}
            THEN /\ req' = [req EXCEPT ![r].pc = "find_edition",
                      ![r].book = Canonical((CHOOSE b \in RowOf(r, result) : TRUE).id)]
                 /\ UNCHANGED books
            ELSE /\ free # {}
                 /\ books' = books \cup
                      {[id |-> id, work |-> result.work, volume |-> result.volume,
                        text |-> result.text, merged |-> None, tx |-> r,
                        maker |-> req[r].user, day |-> req[r].day]}
                 /\ req' = [req EXCEPT ![r].pc = "find_edition", ![r].book = id]
  /\ UNCHANGED <<editions, entries, issued, day>>

\* Mutant: whatever book the edition belongs to.
LinkAny(x, book) == x.isbn_13

\* An edition is linked only to its own book.
Link(x, book) == IF x.book = book THEN x.isbn_13 ELSE None

FindEdition(r) ==
  /\ req[r].pc = "find_edition"
  /\ LET q == req[r]
         found == {x \in Seen(editions, r) : x.isbn_13 = q.result.isbn_13}
     IN  IF q.result.isbn_13 = None \/ (found = {} /\ ~q.trusted) THEN Goes(r, "check")
         ELSE IF found = {} THEN Goes(r, "insert_edition")
         ELSE req' = [req EXCEPT ![r].pc = "check",
                        ![r].edition = Link(CHOOSE x \in found : TRUE, q.book)]
  /\ UNCHANGED <<books, editions, entries, issued, day>>

InsertEdition(r) ==
  /\ req[r].pc = "insert_edition"
  /\ LET q == req[r]
         clashing == {x \in editions : x.isbn_13 = q.result.isbn_13}
     IN  /\ \A x \in clashing : x.tx = None
         /\ IF clashing # {}
            THEN /\ req' = [req EXCEPT ![r].pc = "check",
                              ![r].edition = Link(CHOOSE x \in clashing : TRUE, q.book)]
                 /\ UNCHANGED editions
            ELSE /\ editions' = editions \cup
                      {[isbn_13 |-> q.result.isbn_13, isbn_10 |-> q.result.isbn_10,
                        book |-> q.book, tx |-> r, maker |-> q.user,
                        day |-> q.day]}
                 /\ req' = [req EXCEPT ![r].pc = "check",
                                       ![r].edition = q.result.isbn_13]
  /\ UNCHANGED <<books, entries, issued, day>>

Others(rows, r) == {x \in rows : x.tx # r}
Settle(rows, r) == {IF x.tx = r THEN [x EXCEPT !.tx = None] ELSE x : x \in rows}

RollBack(r) ==
  /\ books' = Others(books, r) /\ editions' = Others(editions, r)
  /\ entries' = Others(entries, r)

\* Nothing is written for a book the user already has, not even a catalogue
\* row created above.
RefuseIfOwned(r, otherwise) ==
  LET q == req[r]
      owned == Owned(q.user, r, q.book, q.edition, q.result)
  IN  IF owned # "not_owned" THEN RollBack(r) /\ Ends(r, owned) ELSE otherwise

CheckOwned(r) ==
  /\ req[r].pc = "check"
  /\ RefuseIfOwned(r, Goes(r, "insert_entry") /\ UNCHANGED <<books, editions, entries>>)
  /\ UNCHANGED <<issued, day>>

\* Another add of the same book saved first; if its entry is gone again by
\* the time it is looked for, the error is passed on.
InsertEntry(r) ==
  /\ req[r].pc = "insert_entry"
  /\ LET q == req[r]
         clashing == {e \in entries : e.user = q.user /\ e.book = q.book}
     IN  /\ \A e \in clashing : e.tx = None
         /\ IF clashing # {} THEN Goes(r, "recheck") /\ UNCHANGED entries
            ELSE /\ entries' = entries \cup
                      {[user |-> q.user, book |-> q.book, edition |-> q.edition,
                        tx |-> r]}
                 /\ Goes(r, "commit")
  /\ UNCHANGED <<books, editions, issued, day>>

Recheck(r) ==
  /\ req[r].pc = "recheck"
  /\ RefuseIfOwned(r, RollBack(r) /\ Ends(r, "error"))
  /\ UNCHANGED <<issued, day>>

Commit(r) ==
  /\ req[r].pc = "commit"
  /\ books' = Settle(books, r) /\ editions' = Settle(editions, r)
  /\ entries' = Settle(entries, r)
  /\ Ends(r, "added")
  /\ UNCHANGED <<issued, day>>

\* The database or the process fails: the transaction is rolled back.
Fail(r) ==
  /\ Running(r)
  /\ RollBack(r) /\ Ends(r, "error")
  /\ UNCHANGED <<issued, day>>
---------------------------------------------------------------------------
(* The other writers of entries, each under the user's lock: an add that   *)
(* is about to save its entry holds it too.                                *)

Unlocked(user) == \A e \in entries : e.user = user => e.tx = None

\* POST /purchased with an edition's id or none: the survivor's entry is
\* promoted, else one on a row merged into it, else a new one is added.
Purchase(user, id, edition) ==
  /\ Unlocked(user)
  /\ \E b \in Saved(books) : b.id = id
  /\ LET book == Canonical(id)
         own == {e \in entries : e.user = user /\ e.book = book}
         family == {e \in entries : e.user = user /\ Canonical(e.book) = book}
         found == IF own # {} THEN own ELSE family
     IN  /\ edition # None =>
              \E x \in Saved(editions) : x.isbn_13 = edition /\ x.book = book
         /\ IF found = {}
            THEN /\ Cardinality(entries) < MaxEntries
                 /\ entries' = entries \cup {[user |-> user, book |-> book,
                                                edition |-> edition, tx |-> None]}
            ELSE \E e \in found :
                   /\ edition # None
                   /\ entries' = (entries \ {e}) \cup {[e EXCEPT !.edition = edition]}
  /\ UNCHANGED <<books, editions, issued, day, req>>

\* DELETE: the entry goes to the trash.
Trash(e) ==
  /\ Unlocked(e.user)
  /\ entries' = entries \ {e}
  /\ UNCHANGED <<books, editions, issued, day, req>>

NextDay ==
  /\ day < MaxDay /\ day' = day + 1
  /\ UNCHANGED <<books, editions, entries, issued, req>>

Init ==
  /\ books = OldBooks /\ editions = OldEditions /\ entries = OldEntries
  /\ issued = OldTokens /\ day = 0
  /\ req = [r \in Requests |-> Idle]

Add(r) ==
  \/ \E user \in Users, result \in Results, token \in issued \cup {None, Malformed} :
       Begin(r, user, result, token)
  \/ FindBook(r) \/ InsertBook(r) \/ FindEdition(r) \/ InsertEdition(r)
  \/ CheckOwned(r) \/ InsertEntry(r) \/ Recheck(r) \/ Commit(r) \/ Fail(r)

Next ==
  \/ \E user \in Users, result \in Results : Sign(user, result)
  \/ \E r \in Requests : Add(r)
  \/ \E user \in Users, id \in BookIds,
        edition \in {x.isbn_13 : x \in editions} \cup {None} : Purchase(user, id, edition)
  \/ \E e \in entries : Trash(e)
  \/ NextDay

Spec == Init /\ [][Next]_vars
---------------------------------------------------------------------------
(* Properties.                                                             *)

\* A catalogue row an add created is, field by field, what the server signed
\* for that user no longer ago than the token lives, and an edition it
\* created is on the book its token names; any other request only links rows
\* that exist (wishlist.py, module docstring).
CatalogueIsSigned ==
  LET signed(x) == {t \in issued : t.v = "v1" /\ t.user = x.maker /\ t.exp > x.day} IN
  /\ \A b \in books : b.maker # None =>
       \E t \in signed(b) : <<t.result.work, t.result.volume, t.result.text>>
                            = <<b.work, b.volume, b.text>>
  /\ \A x \in editions : x.maker # None =>
       \E t \in signed(x) :
         /\ <<t.result.isbn_13, t.result.isbn_10>> = <<x.isbn_13, x.isbn_10>>
         /\ x.book \in {Canonical(b.id) : b \in Clashing(t.result)}

\* A library entry never has an edition of another work, whoever created the
\* edition meanwhile and whichever row of a merged work the entry is on.
EditionOfItsWork ==
  \A e \in entries : e.edition # None =>
    \E x \in editions : x.isbn_13 = e.edition /\ Canonical(x.book) = Canonical(e.book)
=============================================================================
