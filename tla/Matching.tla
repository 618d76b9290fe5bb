------------------------------ MODULE Matching ------------------------------
(***************************************************************************)
(* When a provider's record is the book a reading names.  The text of      *)
(* titles and names is abstracted to what the comparisons tell apart:      *)
(* a title is the part before its first separator and the rest of it, a    *)
(* name its initials and surname, in the forms the code compares.          *)
(***************************************************************************)
EXTENDS Integers, Sequences, FiniteSetsExt

CONSTANTS
  Valid,  \* ISBN-13s with a valid check digit
  Ten,    \* Ten[i]: the ISBN-10 form of i, None if it has none
  None

\* The rest of a title: an edition note ("Deluxe Edition"), years, the marker
\* of a volume of a series, other words, or nothing.
Volumes == {"one", "two"}
Rests == Volumes \cup {"", "note", "dates", "words"}

\* With a comma as separator the rest is part of the main title, as
\* _SUBTITLE does not split there and _HEAD does.
Main(t) == IF t.comma THEN <<t.head, t.rest>> ELSE <<t.head, "">>
Sub(t) == IF t.comma THEN "" ELSE t.rest
HasTitle(t) == t.head # ""
IsVolume(sub) == sub \in Volumes

SameMain(a, b) == HasTitle(a) /\ Main(a) = Main(b)

TitlesAgree(a, b) ==
  /\ SameMain(a, b)
  /\ Sub(a) = Sub(b) \/ {Sub(a), Sub(b)} \subseteq {"", "note"}

\* Mutant: a listed ISBN is trusted whatever the subtitles say.
ListedSameMain(reading, record) == SameMain(reading, record)

ListedSameBook(reading, record) ==
  /\ SameMain(reading, record)
  /\ ~(IsVolume(Sub(record)) /\ Sub(reading) \notin {"", Sub(record)})

OneSidedSubtitle(a, b) ==
  /\ SameMain(a, b)
  /\ "" \in {Sub(a), Sub(b)}
  /\ ~IsVolume(Sub(a)) /\ ~IsVolume(Sub(b))

\* A rest that is part of the surname of the other name ("Le Guin", "LeGuin",
\* "de Cervantes Saavedra") is no given name.
Given(a, b) ==
  IF a.surname # b.surname /\ b.surname \in {a.joined, a.penult}
  THEN SubSeq(a.initials, 1, Len(a.initials) - 1) ELSE a.initials

InitialsAgree(x, y) ==
  \/ x = <<>> \/ y = <<>>
  \/ \E i \in DOMAIN y : y[i] = x[1]
  \/ \E i \in DOMAIN x : x[i] = y[1]

NamesAgree(a, b) ==
  /\ a.surname # "" /\ b.surname # ""
  /\ \/ a.surname = b.surname
     \/ b.surname \in {a.joined, a.penult} \/ a.surname \in {b.joined, b.penult}
  /\ InitialsAgree(Given(a, b), Given(b, a))

Named(authors) == SelectSeq(authors, LAMBDA n : n.surname # "")
Confirmed(reading, authors) ==
  LET names == Named(authors) IN
  \E i \in DOMAIN names : NamesAgree(reading.author, names[i])

Contradicted(reading, authors) ==
  /\ reading.author.surname # "" /\ Named(authors) # <<>>
  /\ ~Confirmed(reading, authors)

MatchScore(reading, title, authors) ==
  LET r == reading.title
      agree == TitlesAgree(r, title)
      sure == Confirmed(reading, authors)
      dated == /\ Sub(r) \in {"", "dates", "note"} /\ title.rest \in {"dates", "note"}
               /\ <<title.head, "">> = Main(r)
  IN  IF ~HasTitle(r) \/ ~HasTitle(title) \/ Contradicted(reading, authors) THEN 0
      ELSE IF agree THEN IF sure THEN 7 ELSE 6
      ELSE IF ~sure THEN 0
      ELSE IF dated THEN 3
      ELSE IF OneSidedSubtitle(r, title) THEN 2 ELSE 0

\* A record whose subtitle is a field of its own is scored without it too,
\* at the lowest tier, when the reading has none.
Bare(record) == [record.title EXCEPT !.rest = ""]
Score(reading, record) ==
  LET full == MatchScore(reading, record.title, record.authors)
      bare == MatchScore(reading, Bare(record), record.authors)
      loose == /\ record.split /\ Sub(reading.title) = ""
               /\ Sub(record.title) # "" /\ ~IsVolume(Sub(record.title))
  IN  IF loose THEN Max({full, Min({2, bare})}) ELSE full

RecordsAgree(ol, gb) ==
  \/ ol.isbns \cap gb.isbns # {}
  \/ /\ Named(ol.authors) # <<>> /\ Named(gb.authors) # <<>>
     /\ NamesAgree(Head(Named(ol.authors)), Head(Named(gb.authors)))
     /\ TitlesAgree(ol.title, gb.title) \/ OneSidedSubtitle(ol.title, gb.title)

\* The record an ISBN lookup found, None when it is another book.
IsbnRecord(reading, record) ==
  LET listed == HasTitle(record.title) /\ reading.isbn_13 \in record.isbns
      same == /\ ListedSameBook(reading.title, record.title)
              /\ ~Contradicted(reading, record.authors)
  IN  IF Score(reading, record) > 0 \/ (listed /\ (~HasTitle(reading.title) \/ same))
      THEN record ELSE None

\* The best of what a title search returned, in the provider's order.
BestRecord(reading, found) ==
  LET fits == {i \in DOMAIN found : Score(reading, found[i]) > 0}
      best == {i \in fits : \A j \in fits : Score(reading, found[j]) <= Score(reading, found[i])}
  IN  IF fits = {} THEN None ELSE found[Min(best)]

\* A weak ISBN record against the best of the title search.
Keep(reading, weak, best) ==
  LET wanted == {reading.isbn_13, reading.isbn_10} \ {None}
      lists(record) == wanted \cap record.isbns # {}
      s(record) == Score(reading, record)
  IN  IF weak = None \/ best = None THEN IF best = None THEN weak ELSE best
      ELSE IF s(weak) # s(best) THEN IF s(weak) > s(best) THEN weak ELSE best
      ELSE IF lists(weak) /\ ~lists(best) THEN weak ELSE best

EditionIsbns(reading, listed) ==
  LET i13 == IF reading.isbn_13 \in listed \cap Valid THEN reading.isbn_13 ELSE None
      i10 == IF i13 # None
             THEN IF reading.isbn_10 = Ten[i13] THEN reading.isbn_10 ELSE None
             ELSE IF reading.isbn_10 \in listed THEN reading.isbn_10 ELSE None
  IN  [isbn_13 |-> i13, isbn_10 |-> i10]

Listed(record) == IF record = None THEN {} ELSE record.isbns

\* Mutant: ISBNs are confirmed by the records found, the dropped one too.
BuildFromFound(reading, ol, gb) ==
  LET titled(record) == record # None /\ HasTitle(record.title)
      work == IF titled(ol) THEN ol ELSE None
      volume == IF titled(gb) /\ (work = None \/ RecordsAgree(work, gb)) THEN gb ELSE None
  IN  [work |-> work, volume |-> volume,
       isbns |-> EditionIsbns(reading, Listed(ol) \cup Listed(gb))]

\* What is shown for a reading: the records used and the ISBNs they confirm.
\* A record without a title is no match, and a volume that is another book
\* than the Open Library record is dropped.
BuildResult(reading, ol, gb) ==
  LET titled(record) == record # None /\ HasTitle(record.title)
      work == IF titled(ol) THEN ol ELSE None
      volume == IF titled(gb) /\ (work = None \/ RecordsAgree(work, gb)) THEN gb ELSE None
  IN  [work |-> work, volume |-> volume,
       isbns |-> EditionIsbns(reading, Listed(work) \cup Listed(volume))]
=============================================================================
