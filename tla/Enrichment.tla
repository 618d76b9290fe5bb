----------------------------- MODULE Enrichment -----------------------------
(***************************************************************************)
(* The look-up of one scan's readings in Open Library and Google Books:    *)
(* a pool of a few readings at a time, two chains of at most two requests  *)
(* each per reading, and a deadline on the whole.  A request may be        *)
(* answered, fail, or answer nonsense at any time.                         *)
(***************************************************************************)
EXTENDS Matching, FiniteSets

CONSTANTS
  Candidates,  \* positions in the scan's list of readings
  Readings,    \* Readings[c]: what the model may have read at c
  Records,     \* what the providers may answer
  Limit,       \* MAX_CONCURRENT_ENRICHMENTS
  Failed       \* a request that raised or took too long

Providers == {"open_library", "google_books"}

VARIABLES
  reading,   \* reading[c]: the reading looked up
  pool,      \* pool[c]: where its task stands
  chain,     \* chain[c][p]: where its chain of requests to p stands
  shown,     \* shown[c]: the result built for it
  failures,  \* whether a failed look-up was noted
  call       \* the call itself: last_complete once it has returned

vars == <<reading, pool, chain, shown, failures, call>>

Off == [pc |-> "off", weak |-> None, got |-> None]
At(pc) == [Off EXCEPT !.pc = pc]
Pending == {c \in Candidates : pool[c] \in {"queued", "running"}}

\* An ISBN with a bad check digit is not looked up.
LookedUp(r) == r.isbn_13 \in Valid

Init ==
  /\ \E r \in [Candidates -> UNION {Readings[c] : c \in Candidates}] :
       reading = r /\ \A c \in Candidates : r[c] \in Readings[c]
  /\ pool = [c \in Candidates |-> "queued"]
  /\ chain = [c \in Candidates |-> [p \in Providers |-> Off]]
  /\ shown = [c \in Candidates |-> None]
  /\ failures = FALSE /\ call = "running"

Begin(c) ==
  /\ pool[c] = "queued"
  /\ Cardinality({d \in Candidates : pool[d] = "running"}) < Limit
  /\ pool' = [pool EXCEPT ![c] = "running"]
  /\ LET first == IF LookedUp(reading[c]) THEN "isbn"
                  ELSE IF HasTitle(reading[c].title) THEN "title" ELSE "done"
     IN  chain' = [chain EXCEPT ![c] = [p \in Providers |-> At(first)]]
  /\ UNCHANGED <<reading, shown, failures, call>>

Ended(got) == [At("done") EXCEPT !.got = got]

\* A failed ISBN look-up is not followed by a title search, and neither is
\* a record that lists the ISBN or fits well.
AfterIsbn(r, found) ==
  LET record == IF found \in {None, Failed} THEN None ELSE IsbnRecord(r, found) IN
  IF found = Failed THEN At("broken")
  ELSE IF \/ ~HasTitle(r.title)
          \/ record # None /\ (r.isbn_13 \in record.isbns \/ Score(r, record) >= 3)
  THEN Ended(record)
  ELSE [At("title") EXCEPT !.weak = record]

ByIsbn(c, p) ==
  /\ chain[c][p].pc = "isbn"
  /\ \E found \in Records \cup {None, Failed} :
       /\ chain' = [chain EXCEPT ![c][p] = AfterIsbn(reading[c], found)]
       /\ failures' = (failures \/ found = Failed)
  /\ UNCHANGED <<reading, pool, shown, call>>

\* The provider's best record is scored again before it is used.
AfterTitle(r, weak, found) ==
  IF found = Failed THEN [At("broken") EXCEPT !.got = weak]
  ELSE LET best == IF found # None /\ Score(r, found) > 0 THEN found ELSE None
       IN  Ended(Keep(r, weak, best))

\* A search fails, finds nothing, or the best of what the provider lists.
Searched(r) ==
  {Failed} \cup {BestRecord(r, s) : s \in {<<>>} \cup {<<x, y>> : x, y \in Records}}

ByTitle(c, p) ==
  /\ chain[c][p].pc = "title"
  /\ \E found \in Searched(reading[c]) :
       /\ chain' = [chain EXCEPT ![c][p] = AfterTitle(reading[c], chain[c][p].weak, found)]
       /\ failures' = (failures \/ found = Failed)
  /\ UNCHANGED <<reading, pool, shown, call>>

\* A record the code cannot read: the provider contributes nothing.
Malformed(c, p) ==
  /\ chain[c][p].pc \in {"isbn", "title"}
  /\ chain' = [chain EXCEPT ![c][p] = At("broken")]
  /\ failures' = TRUE
  /\ UNCHANGED <<reading, pool, shown, call>>

Stopped(cs) ==
  [c \in Candidates |-> IF c \in cs THEN [p \in Providers |-> Off] ELSE chain[c]]
Unmatched(cs) == [c \in Candidates |-> IF c \in cs THEN "unmatched" ELSE pool[c]]

\* A provider raised CancelledError: both chains of the reading stop.
Cancelled(c) ==
  /\ pool[c] = "running" /\ \E p \in Providers : chain[c][p].pc \in {"isbn", "title"}
  /\ chain' = Stopped({c}) /\ pool' = Unmatched({c})
  /\ failures' = TRUE
  /\ UNCHANGED <<reading, shown, call>>

\* Building the result may raise (a publication year that is no number): the
\* reading is dropped from the list.
Build(c) ==
  /\ pool[c] = "running"
  /\ \A p \in Providers : chain[c][p].pc \in {"done", "broken"}
  /\ \/ /\ pool' = [pool EXCEPT ![c] = "built"]
        /\ shown' = [shown EXCEPT ![c] =
             BuildResult(reading[c], chain[c]["open_library"].got,
                         chain[c]["google_books"].got)]
     \/ pool' = [pool EXCEPT ![c] = "dropped"] /\ UNCHANGED shown
  /\ UNCHANGED <<reading, chain, failures, call>>

\* The readings still queued or running come back unmatched.
Deadline ==
  /\ call = "running" /\ Pending # {}
  /\ chain' = Stopped(Pending) /\ pool' = Unmatched(Pending)
  /\ failures' = TRUE
  /\ UNCHANGED <<reading, shown, call>>

Return ==
  /\ call = "running" /\ Pending = {}
  /\ call' = IF ~failures /\ \A c \in Candidates : pool[c] # "dropped"
             THEN "complete" ELSE "incomplete"
  /\ UNCHANGED <<reading, pool, chain, shown, failures>>

\* The scan request itself is cancelled: nothing is returned.
Abandon ==
  /\ call = "running"
  /\ call' = "raised"
  /\ chain' = Stopped(Pending) /\ pool' = Unmatched(Pending)
  /\ UNCHANGED <<reading, shown, failures>>

Lookup(c) ==
  \/ Begin(c) \/ Cancelled(c) \/ Build(c)
  \/ \E p \in Providers : ByIsbn(c, p) \/ ByTitle(c, p) \/ Malformed(c, p)

Next == (\E c \in Candidates : Lookup(c)) \/ Deadline \/ Return \/ Abandon

Spec == Init /\ [][Next]_vars
---------------------------------------------------------------------------
(* Properties.                                                             *)

Used(c) == IF shown[c] = None THEN {} ELSE {shown[c].work, shown[c].volume} \ {None}

\* Whichever way a record was found, a reading is never shown as another
\* volume of its series, nor as a book of an author it contradicts; only a
\* reading without a title follows its ISBN alone (_isbn_record, docstring).
NeverAnotherBook ==
  \A c \in Candidates : \A record \in Used(c) :
    LET r == reading[c] IN
    \/ ~HasTitle(r.title) /\ r.isbn_13 \in record.isbns
    \/ /\ ~Contradicted(r, record.authors)
       /\ IsVolume(Sub(record.title)) =>
            \/ Sub(r.title) = Sub(record.title)
            \/ Sub(r.title) = "" /\ r.isbn_13 \in record.isbns

\* What is shown together is one book, and its ISBNs are those a record shown
\* lists, an ISBN-10 beside an ISBN-13 only as the same edition's (_build).
ShownAgrees ==
  \A c \in Candidates : shown[c] # None =>
    LET s == shown[c]
        listed == UNION {record.isbns : record \in Used(c)}
    IN  /\ s.work # None /\ s.volume # None => RecordsAgree(s.work, s.volume)
        /\ s.isbns.isbn_13 # None => s.isbns.isbn_13 \in listed \cap Valid
        /\ s.isbns.isbn_10 # None =>
             IF s.isbns.isbn_13 = None THEN s.isbns.isbn_10 \in listed
             ELSE s.isbns.isbn_10 = Ten[s.isbns.isbn_13]
=============================================================================
