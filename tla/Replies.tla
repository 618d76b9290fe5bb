------------------------------- MODULE Replies -------------------------------
(* How the two vision adapters read a provider's reply, and what the gateway  *)
(* makes of it: pure operators, no state.  A reply is [stop, form, items]:    *)
(* why the model stopped, what its text is, and the complete items the text   *)
(* holds.  An item is a book (a member of Books, standing for its title and   *)
(* author as de-duplication compares them) or one of the flawed ones below.   *)
EXTENDS Naturals, Sequences, SequencesExt

CONSTANTS Books,      \* well-formed items
          MaxBooks    \* scan_max_books

Stops == {"done", "cut", "declined", "odd"}

\* "books" is {"books": [...]}, "list" a bare array, "cutoff" the first one cut
\* off after its complete items, "shape" JSON of another shape, "noise" no JSON.
Forms == {"books", "list", "cutoff", "shape", "noise"}

\* "broken": no object, or a title or author missing, no string or too long.
\* "untitled", "anonymous": an empty title, an empty author.
\* "unsure": a book whose confidence is no number.
Items == Books \cup {"broken", "untitled", "anonymous", "unsure"}

Broken(p, item) == item = "broken" \/ (p = "openai" /\ item = "unsure")

Dropped(p, item) == item = "untitled" \/ (p = "anthropic" /\ item = "anonymous")

\* One step of the loop over the items: it stops looking at MaxBooks candidates.
Take(p, got, item) ==
    IF Len(got.found) >= MaxBooks THEN got
    ELSE IF Broken(p, item) THEN [got EXCEPT !.broken = @ + 1]
    ELSE IF Dropped(p, item) \/ Contains(got.found, item) THEN got
    ELSE [got EXCEPT !.found = Append(@, item)]

Reading(p, items) ==
    LET got[n \in 0..Len(items)] ==
            IF n = 0 THEN [found |-> <<>>, broken |-> 0] ELSE Take(p, got[n - 1], items[n])
    IN  got

Collect(p, items) == Reading(p, items)[Len(items)]

\* Whether the adapter gets at the items: Claude's also reads those of a reply
\* cut off by the token limit, OpenAI's also those of a bare array.
Listed(p, r) ==
    \/ r.form = "books"
    \/ p = "openai" /\ r.form = "list"
    \/ p = "anthropic" /\ r.form = "cutoff" /\ r.stop = "cut"

Unread == [read |-> FALSE, found |-> <<>>]

Parsed(p, r) ==
    LET got == Collect(p, r.items)
    IN  IF Listed(p, r)
        THEN IF r.items # <<>> /\ got.broken = Len(r.items)
             THEN Unread ELSE [read |-> TRUE, found |-> got.found]
        ELSE [Unread EXCEPT !.read = p = "anthropic" /\ r.form = "noise" /\ r.stop = "cut"]

StopOutcome(stop) ==
    CASE stop = "declined" -> "refused"
      [] stop = "cut"      -> "truncated"
      [] stop = "done"     -> "ok"
      [] OTHER             -> "malformed"

\* What the adapter returns: Claude's does not read a refusal, OpenAI's does.
Identified(p, r) ==
    LET outcome == StopOutcome(r.stop)
        parsed  == Parsed(p, r)
        skipped == outcome = "malformed" \/ (p = "anthropic" /\ outcome = "refused")
    IN  [outcome |-> IF outcome = "ok" /\ ~parsed.read THEN "malformed" ELSE outcome,
         found   |-> IF skipped THEN <<>> ELSE parsed.found]

\* Mutant: a reply cut off before its first book counts as an answer.
CutCounts(given) == given.outcome

Reported(given) ==
    IF given.outcome = "truncated" /\ given.found = <<>> THEN "malformed" ELSE given.outcome

-----------------------------------------------------------------------------
\* The rule those operators are to follow, stated on the reply as a whole: a
\* refusal is an answer; a finished reply is one unless no item of a non-empty
\* list is well formed; a cut-off reply is one when it holds a book.
Usable(p, r) ==
    \/ r.stop = "declined"
    \/ /\ r.stop = "done" /\ Listed(p, r)
       /\ r.items = <<>> \/ \E i \in DOMAIN r.items : ~Broken(p, r.items[i])
    \/ /\ r.stop = "cut" /\ Listed(p, r)
       /\ \E i \in DOMAIN r.items : ~Broken(p, r.items[i]) /\ ~Dropped(p, r.items[i])
=============================================================================
