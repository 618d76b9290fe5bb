----------------------------- MODULE MCLibrary -------------------------------
(* Instances of Library and Catalogue for TLC.  They share no state here, so  *)
(* a behaviour moves one of them and leaves the other as it began.            *)
EXTENDS Library, TLC

CONSTANTS Users, BookIds, OldBooks, OldEditions, OldEntries, Results, OldTokens,
          Thirteen, Ttl, MaxDay, MaxTokens, MaxEntries, Malformed
VARIABLES part, books, editions, entries, issued, day, add

catalogue == <<books, editions, entries, issued, day, add>>

C == INSTANCE Catalogue WITH req <- add

ASSUME CatalogueOK == C!ConstantsOK

-----------------------------------------------------------------------------
\* Library: two rows of one work, and unverified books.
MCSurvivor == [b \in Books |-> 1]
MCSame == {<<d, d>> : d \in Drafts}

\* Requests and rows are all about catalogue books or all about unverified ones.
OneKind ==
  LET used == {entry[i].book : i \in Rows} \cup {req[p].book : p \in Requests} IN
  used \cap Books = {} \/ used \cap Drafts = {}

-----------------------------------------------------------------------------
\* Catalogue: a merged work, an edition of another book, and results that name a
\* work, a volume or an ISBN of either.
Old(id, work, volume, merged) ==
  [id |-> id, work |-> work, volume |-> volume, text |-> "old", merged |-> merged,
   tx |-> None, maker |-> None, day |-> 0]
MCBooks == {Old(1, "w1", None, None), Old(2, None, "v2", 1)}
MCEditions == {[isbn_13 |-> "x", isbn_10 |-> "x10", book |-> 1, tx |-> None,
                maker |-> None, day |-> 0]}
Has(user, book, edition) ==
  [user |-> user, book |-> book, edition |-> edition, tx |-> None]
MCEntries == {Has("ann", 2, None), Has("bob", 1, "x")}

Result(work, volume, isbn_13, isbn_10) ==
  [work |-> work, volume |-> volume, text |-> "new", isbn_13 |-> isbn_13,
   isbn_10 |-> isbn_10]
MCResults == {Result("w3", "v3", "y", None), Result(None, "v2", "y", None),
              Result("w3", None, None, "x10"), Result(None, None, "x", None)}
Token(v, user, exp) ==
  [v |-> v, user |-> user, exp |-> exp, result |-> Result("w3", "v3", "y", None)]
MCOldTokens == {Token("v0", "ann", 9)}
MCThirteen == ("x10" :> "x")

-----------------------------------------------------------------------------
Parts ==
  /\ part \in {"library", "catalogue"}
  /\ Init /\ C!Init
  /\ \A i \in Ids : i > 1 \/ part = "catalogue" => entry[i] = None
Steps ==
  /\ UNCHANGED part
  /\ \/ part = "library" /\ Next /\ UNCHANGED catalogue
     \/ part = "catalogue" /\ C!Next /\ UNCHANGED vars
PartsSpec == Parts /\ [][Steps]_<<part, vars, catalogue>>

Symmetry == Permutations(Requests) \cup Permutations(Purgers)

\* A catalogue row an add created is, field by field, what the server signed
\* for that user (wishlist.py, catalog_token.py).
CatalogueIsSigned == part = "catalogue" => C!CatalogueIsSigned

\* An entry's edition is one of its book's work, whoever links it when
\* (wishlist.py, edition_check.py, add_purchased).
EditionOfItsWork == part = "catalogue" => C!EditionOfItsWork
=============================================================================
