----------------------------- MODULE AiSettings -----------------------------
(***************************************************************************)
(* The operator's dials (app/ai/settings): rows of one table, written by   *)
(* the CLI and by the seeding at start, read through a cache each process  *)
(* keeps.  One feature stands for the two: "provider" and "model" are its  *)
(* pair, "enabled" the switches that fail closed, "found" a number with    *)
(* the retired key "daily" behind it.  Hand-edited rows are in Tables.     *)
(***************************************************************************)
EXTENDS Naturals

CONSTANTS
  Calls,         \* reads of the settings in one process
  Operators,     \* runs of the CLI
  Tables,        \* tables found at the start, hand-edited ones included
  Allowed,       \* provider -> its models (ALLOWED_MODELS)
  DefaultModel,  \* provider -> the feature's model there (PROVIDER_MODELS)
  Amounts,       \* the numbers within the bounds of "found"
  Default,       \* key -> the env or registry value
  Ttl, MaxStale, \* ai_settings_cache_ttl_seconds, ai_settings_max_stale_seconds
  MaxTime,       \* bound: the clock
  MaxWrites,     \* bound: runs of the CLI that begin
  Dials,         \* bound: the keys `set` is run on
  None, Bad      \* no row or no value; a value no validator takes

(* The registry takes no default model its default provider does not serve. *)
ConstantsOK ==
  /\ {Ttl, MaxStale, MaxTime} \subseteq Nat
  /\ Default["model"] \in Allowed[Default["provider"]]

VARIABLES
  rows,      \* key -> the row [value, by], or None
  cache,     \* ai_settings._cache: [rows, at], or None
  call,      \* Calls -> a get_ai_settings under way, or its answer
  cli,       \* Operators -> a `set` between its read and its write
  seeding,   \* the seeding at start, with the values it read
  writes,    \* runs of the CLI so far
  now,       \* seconds
  past       \* history: the effective rows of each table, and until when

vars == <<rows, cache, call, cli, seeding, writes, now, past>>

Keys == {"enabled", "provider", "model", "found"}
Stored == Keys \cup {"daily"}

Accepted ==
  [enabled |-> {"on", "off"}, provider |-> DOMAIN Allowed,
   model |-> UNION {Allowed[p] : p \in DOMAIN Allowed}, found |-> Amounts]

Get(values, key) == IF values[key] = None THEN Default[key] ELSE values[key]

PairAllowed(values) == Get(values, "model") \in Allowed[Get(values, "provider")]

Values(table) ==
  [k \in Stored |-> IF table[k] = None THEN None ELSE table[k].value]

(* An operator's retired number stands in for a missing "found" row. *)
CarriedOver(table) ==
  /\ table["found"] = None /\ table["daily"] # None
  /\ table["daily"].by # "seed"
  /\ table["daily"].value \in Amounts

WithCarryOver(table) ==
  IF CarriedOver(table) THEN [Values(table) EXCEPT !["found"] = table["daily"].value]
                        ELSE Values(table)

\* Mutant: each key is looked at on its own, the pair is not.
SanitisedAlone(raw) ==
  [k \in Keys |-> IF raw[k] \in Accepted[k] THEN raw[k]
                  ELSE IF k = "enabled" /\ raw[k] # None THEN "off" ELSE None]

(* What is not valid falls back to its default, a switch to "off"; of a    *)
(* pair that is not allowed the model goes, and the provider if need be.   *)
Sanitised(raw) ==
  LET valid == [k \in Keys |-> IF raw[k] \in Accepted[k] THEN raw[k]
                               ELSE IF k = "enabled" /\ raw[k] # None THEN "off"
                               ELSE None]
      noModel == [valid EXCEPT !["model"] = None]
      broken(values) == ~PairAllowed(values)
  IN  IF ~broken(valid) THEN valid
      ELSE IF ~broken(noModel) THEN noModel
      ELSE [noModel EXCEPT !["provider"] = None]

(* AISettings over sanitised rows, with spec_for's pair. *)
View(values) == [k \in Keys |-> Get(values, k)]
Effective(table) == View(Sanitised(WithCarryOver(table)))
-----------------------------------------------------------------------------
Idle == [at |-> "idle"]
Answer(values, start, since) ==
  [at |-> "answered", view |-> View(values), start |-> start, since |-> since]
Unavailable == [at |-> "unavailable"]

Replace(table) ==
  /\ rows' = table
  /\ past' = past \cup {[view |-> Effective(rows), until |-> now]}

(* get_ai_settings up to its SELECT: a fresh entry is the answer. *)
Fresh(start) == cache # None /\ start - cache.at < Ttl

Begin(c) ==
  /\ call[c].at = "idle"
  /\ call' = [call EXCEPT ![c] =
       IF Fresh(now) THEN Answer(cache.rows, now, now + 1 - Ttl)
       ELSE [at |-> "load", start |-> now, entry |-> cache]]
  /\ UNCHANGED <<rows, cache, cli, seeding, writes, now, past>>

Load(c) ==
  /\ call[c].at = "load"
  /\ call' = [call EXCEPT ![c] =
       [at |-> "loaded", start |-> @.start, raw |-> WithCarryOver(rows)]]
  /\ UNCHANGED <<rows, cache, cli, seeding, writes, now, past>>

\* Mutant: stamped when the read has ended.
StampedLate(c) == now

(* The entry is stamped with the time taken before the read. *)
StampOf(c) == call[c].start

Store(c) ==
  LET values == Sanitised(call[c].raw) IN
  /\ call[c].at = "loaded"
  /\ cache' = [rows |-> values, at |-> StampOf(c)]
  /\ call' = [call EXCEPT ![c] = Answer(values, @.start, @.start)]
  /\ UNCHANGED <<rows, cli, seeding, writes, now, past>>

(* The read fails: the entry this call met, if it is not too old by now. *)
Age(c) == now - call[c].entry.at

FailLoad(c) ==
  /\ call[c].at = "load"
  /\ call' = [call EXCEPT ![c] =
       IF @.entry # None /\ Age(c) <= MaxStale
       THEN Answer(@.entry.rows, @.start, now - MaxStale)
       ELSE Unavailable]
  /\ UNCHANGED <<rows, cache, cli, seeding, writes, now, past>>
-----------------------------------------------------------------------------
Row(value, by) == [value |-> value, by |-> by]

(* `set`: the other half of the pair is the one stored when it was read. *)
SetRead(o, key, value) ==
  /\ cli[o] = None /\ writes < MaxWrites /\ value \in Accepted[key]
  /\ LET current == Sanitised(Values(rows)) IN
     PairAllowed([current EXCEPT ![key] = value])
  /\ cli' = [cli EXCEPT ![o] = [key |-> key, value |-> value]]
  /\ writes' = writes + 1
  /\ UNCHANGED <<rows, cache, call, seeding, now, past>>

SetWrite(o) ==
  /\ cli[o] # None
  /\ Replace([rows EXCEPT ![cli[o].key] = Row(cli[o].value, "cli")])
  /\ cli' = [cli EXCEPT ![o] = None]
  /\ UNCHANGED <<cache, call, seeding, writes, now>>

(* `switch`: both rows in one commit. *)
Switched(provider, model) ==
  [rows EXCEPT !["provider"] = Row(provider, "cli"), !["model"] = Row(model, "cli")]

Switch(o, provider, named) ==
  LET model == IF named = None THEN DefaultModel[provider] ELSE named IN
  /\ cli[o] = None /\ writes < MaxWrites
  /\ model \in Allowed[provider]
  /\ Replace(Switched(provider, model))
  /\ writes' = writes + 1
  /\ UNCHANGED <<cache, call, cli, seeding, now>>

(* seed_ai_settings: every missing key, read in one statement and written  *)
(* in another that leaves the rows it meets alone.                         *)
Seeds(table) ==
  IF CarriedOver(table) THEN [Default EXCEPT !["found"] = table["daily"].value]
                        ELSE Default

SeedRead ==
  /\ seeding.at = "start"
  /\ seeding' = [at |-> "read", values |-> Seeds(rows)]
  /\ UNCHANGED <<rows, cache, call, cli, writes, now, past>>

SeedInsert ==
  /\ seeding.at = "read"
  /\ Replace([k \in Stored |-> IF rows[k] # None \/ k = "daily" THEN rows[k]
                               ELSE Row(seeding.values[k], "seed")])
  /\ seeding' = [at |-> "done"]
  /\ UNCHANGED <<cache, call, cli, writes, now>>

(* The database is out of reach: the app starts all the same. *)
SeedSkipped ==
  /\ seeding.at # "done" /\ seeding' = [at |-> "done"]
  /\ UNCHANGED <<rows, cache, call, cli, writes, now, past>>

Tick ==
  /\ now < MaxTime /\ now' = now + 1
  /\ UNCHANGED <<rows, cache, call, cli, seeding, writes, past>>

Init ==
  /\ rows \in Tables /\ cache = None
  /\ call = [c \in Calls |-> Idle] /\ cli = [o \in Operators |-> None]
  /\ seeding = [at |-> "start"] /\ writes = 0 /\ now = 0 /\ past = {}

Read == \E c \in Calls : Begin(c) \/ Load(c) \/ Store(c) \/ FailLoad(c)

Write ==
  \E o \in Operators :
    \/ \E key \in Dials : \E value \in Accepted[key] : SetRead(o, key, value)
    \/ SetWrite(o)
    \/ \E p \in DOMAIN Allowed :
         \E named \in Accepted["model"] \cup {None} : Switch(o, p, named)

Seed == SeedRead \/ SeedInsert \/ SeedSkipped

Next == Read \/ Write \/ Seed \/ Tick
Spec == Init /\ [][Next]_vars
-----------------------------------------------------------------------------
(* A change takes effect within the cache's lifetime: what a call answers  *)
(* was the table's content at some moment after it began less Ttl, or,     *)
(* when the read failed, within MaxStale of the answer; however long a     *)
(* read takes, and however loads overlap.                                  *)
Current == [view |-> Effective(rows), until |-> MaxTime]

TakesEffectInTime ==
  \A c \in Calls : call[c].at = "answered" =>
    \E table \in past \cup {Current} :
      table.view = call[c].view /\ table.until >= call[c].since

(* Whatever two operators write at once, no scan is sent to a provider     *)
(* with a model that is not its own.                                       *)
PairAnswered ==
  \A c \in Calls : call[c].at = "answered" =>
    call[c].view["model"] \in Allowed[call[c].view["provider"]]
=============================================================================
