----------------------------- MODULE MCServices ------------------------------
(* Instances of Enrichment, AiSettings, UsageLedger and ScanRequest for TLC.  *)
(* They share no state here, so a behaviour moves one of them and leaves the  *)
(* others as they began.                                                      *)
EXTENDS ScanRequest, SequencesExt, TLC

CONSTANTS Valid, Ten, None, Candidates, Readings, Records, Limit, Failed,
          Calls, Operators, Tables, Allowed, DefaultModel, Amounts, Default, Ttl,
          MaxStale, MaxSeconds, MaxWrites, Dials, Bad,
          Cost, Ceiling, Pcts, Jobs, Steps, RawDays, DailyDays, SpendDays, BatchSize,
          MaxBatches, Attempts, Settles, MaxDay

VARIABLES part,
          reading, pool, chain, shown, failures, lookup,
          rows, cache, reader, cli, seeding, writes, clock, past,
          raw, daily, spend, mask, paid, job, today, wrote, sent, faults

enrichment == <<reading, pool, chain, shown, failures, lookup>>
settings == <<rows, cache, reader, cli, seeding, writes, clock, past>>
ledger == <<raw, daily, spend, mask, paid, job, today, wrote, sent, faults>>

E == INSTANCE Enrichment WITH call <- lookup
A == INSTANCE AiSettings WITH call <- reader, now <- clock, MaxTime <- MaxSeconds
U == INSTANCE UsageLedger WITH call <- paid

ASSUME RequestOK == ConstantsOK
ASSUME SettingsOK == A!ConstantsOK
ASSUME LedgerOK == U!ConstantsOK

-----------------------------------------------------------------------------
\* Enrichment: a series of two volumes, a book of dates and one with a subtitle;
\* the reading's ISBN may be another volume's, invalid or missing.  The third
\* reading waits for the others and has nothing to look up.
Title(head, rest) == [head |-> head, rest |-> rest, comma |-> FALSE]
Name(initials, surname) ==
  [initials |-> initials, surname |-> surname, joined |-> "", penult |-> ""]
Nobody == Name(<<>>, "")
Frank == Name(<<"f">>, "herbert")
Brian == Name(<<"b">>, "herbert")
LeGuin == [initials |-> <<"u", "le">>, surname |-> "guin", joined |-> "leguin",
           penult |-> "le"]

MCValid == {"x", "y"}
MCTen == [i \in MCValid |-> IF i = "x" THEN "x10" ELSE None]

Book(title, author, isbns) ==
  [title |-> title, split |-> FALSE, authors |-> <<author>>, isbns |-> isbns]
MCRecords ==
  {Book(Title("saga", "one"), Frank, {"x"}), Book(Title("saga", "two"), Frank, {"y"}),
   [Book(Title("saga", "words"), Name(<<"u">>, "leguin"), {"x10"}) EXCEPT !.split = TRUE],
   Book([Title("saga", "dates") EXCEPT !.comma = TRUE], Brian, {"y"}),
   Book(Title("", ""), Brian, {"x"}), Book(Title("saga", ""), Frank, {})}

Read(title, author, isbn_13, isbn_10) ==
  [title |-> title, author |-> author, isbn_13 |-> isbn_13, isbn_10 |-> isbn_10]
Shelf ==
  {Read(Title("saga", "two"), Frank, "x", "x10"), Read(Title("saga", ""), LeGuin, "y", "x10"),
   Read(Title("", ""), Nobody, "x", "x10"), Read(Title("saga", ""), Nobody, "y", None),
   Read(Title("saga", ""), Brian, "y", "y10")}
MCReadings ==
  [c \in Candidates |-> IF c = 1 THEN Shelf
                        ELSE IF c = 2 THEN {Read(Title("saga", "note"), Brian, "bad", None)}
                        ELSE {Read(Title("", ""), Nobody, None, None)}]

-----------------------------------------------------------------------------
\* AiSettings: a hand-edited table, and numbers a release has retired.
MCAllowed == [openai |-> {"gpt"}, anthropic |-> {"claude"}]
MCDefaultModel == [openai |-> "gpt", anthropic |-> "claude"]
MCDefault == [enabled |-> "on", provider |-> "openai", model |-> "gpt", found |-> 1]
Empty == [k \in {"enabled", "provider", "model", "found", "daily"} |-> None]
By(value, who) == [value |-> value, by |-> who]
MCTables ==
  {[Empty EXCEPT !["daily"] = By(2, "cli"), !["provider"] = By("anthropic", "cli")],
   [Empty EXCEPT !["daily"] = By(2, "seed"), !["enabled"] = By(Bad, "cli"),
                 !["found"] = By(Bad, "cli"), !["provider"] = By("anthropic", "cli"),
                 !["model"] = By("claude", "cli")]}

-----------------------------------------------------------------------------
\* UsageLedger.
MCCost == [c \in Calls |-> 2]
MCSteps == <<"trash", "usage", "spend">>

-----------------------------------------------------------------------------
\* ScanRequest: two providers, and each way a file, a proof or a reply is refused.
MCProvider == [m \in Models |-> IF m = "gpt" THEN "openai" ELSE "anthropic"]
MCPrice == [m \in Models |-> IF m = "gpt" THEN 1 ELSE 2]
MCReplying ==
  {[stop |-> s, form |-> f, items |-> i] :
      s \in Stops, f \in Forms, i \in BoundedSeq(Items, 2)}
Good == [known |-> TRUE, image |-> TRUE, size |-> 1, magic |-> TRUE, clean |-> "ok",
         pixels |-> 1, whole |-> TRUE]
MCFiles ==
  {Good, [Good EXCEPT !.known = FALSE, !.size = 2], [Good EXCEPT !.image = FALSE],
   [Good EXCEPT !.size = 2, !.magic = FALSE], [Good EXCEPT !.magic = FALSE],
   [Good EXCEPT !.clean = "found"], [Good EXCEPT !.clean = "unknown"],
   [Good EXCEPT !.pixels = 2, !.whole = FALSE], [Good EXCEPT !.whole = FALSE]}
Shown == [platform |-> "android", mine |-> TRUE, issued |-> 0, vouched |-> TRUE,
          turnstile |-> "none"]
MCProofs ==
  {Shown, [Shown EXCEPT !.mine = FALSE], [Shown EXCEPT !.vouched = FALSE, !.turnstile = "good"],
   [Shown EXCEPT !.platform = "ios", !.turnstile = "bad"], [Shown EXCEPT !.platform = "none"]}

-----------------------------------------------------------------------------
Parts ==
  /\ part \in {"enrichment", "settings", "ledger", "request"}
  /\ E!Init /\ A!Init /\ U!Init /\ Init
  /\ part # "enrichment" =>
       \A c \in Candidates : reading[c] = CHOOSE r \in Readings[c] : TRUE
  /\ part # "settings" => rows = CHOOSE table \in Tables : TRUE
  /\ part # "request" => counted = 0
  /\ part # "request" \/ counted = 1 => setting.model = CHOOSE m \in Models : TRUE

Moving ==
  /\ UNCHANGED part
  /\ \/ part = "enrichment" /\ E!Next /\ UNCHANGED <<settings, ledger, vars>>
     \/ part = "settings" /\ A!Next /\ UNCHANGED <<enrichment, ledger, vars>>
     \/ part = "ledger" /\ U!Next /\ UNCHANGED <<enrichment, settings, vars>>
     \/ part = "request" /\ Next /\ UNCHANGED <<enrichment, settings, ledger>>
PartsSpec == Parts /\ [][Moving]_<<part, enrichment, settings, ledger, vars>>

\* Any two requests, calls, operators or clean-up jobs are alike.
Symmetry == Permutations(Calls) \cup Permutations(Operators)

-----------------------------------------------------------------------------
\* What get_ai_settings answers was the table's content within its bounds of
\* age, however long a read takes and however loads overlap (settings/cache.py).
TakesEffectInTime == part = "settings" => A!TakesEffectInTime

\* Whatever two operators write at once, no scan is sent to a provider with a
\* model that is not its own (settings/validation.py, view.py).
PairAnswered == part = "settings" => A!PairAnswered

\* Every row ever committed counts once, in ai_usage or in its day's total,
\* through retries, restarts and two instances at work (ledger.py).
RowsCountOnce == part = "ledger" => U!RowsCountOnce

\* A threshold is announced once a day at most, whoever settles and whatever of
\* settles and claims is lost (breaker.py, settle.py).
AlertsOnce == part = "ledger" => U!AlertsOnce

\* Every threshold the day's spend has passed is claimed by somebody
\* (breaker.py, settle.py).
CrossedIsClaimed == part = "ledger" => U!CrossedIsClaimed

\* No result shows another book's details (titles.py, scoring.py).
NeverAnotherBook == part = "enrichment" => E!NeverAnotherBook

\* What a result shows of two providers is of one book (service.py, _build).
ShownAgrees == part = "enrichment" => E!ShownAgrees
=============================================================================
