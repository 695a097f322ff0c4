----------------------------- MODULE ChatCaches -----------------------------
(***************************************************************************)
(* The response cache and the session prefixes of the web server           *)
(* (app/web/main.py).  Each has a table, an order of use and a lock of its *)
(* own, held for one lookup, store or clear.  A run looks both up, works   *)
(* with no lock held, and stores; a change of the settings saves, applies  *)
(* and clears in steps; and whoever reports the settings (a hit, a run, a  *)
(* change, a poll of the status) reads their file and applies it again.    *)
(* The web server runs all of them in threads.                             *)
(***************************************************************************)
EXTENDS Integers, Sequences, FiniteSets, OrderLists

CONSTANTS Runs,          \* threads that run prompts
          Changers,      \* threads that change the settings
          Keys,          \* response cache keys
          Sessions,      \* session ids
          Requests,      \* what a run may be asked: a key, a session, a model
          ResponseMax,   \* CHAT_RESPONSE_CACHE_MAX_ENTRIES
          PrefixMax,     \* CHAT_SESSION_PREFIX_MAX_ENTRIES
          MaxRuns,       \* bound on the runs
          MaxChanges,    \* bound on the changes of settings
          MaxExpiries,   \* bound on entries that grow too old
          Nothing        \* no entry

ASSUME RequestAssumption ==
    Requests \subseteq [key : Keys, session : Sessions \cup {Nothing}, model : BOOLEAN]
ASSUME CacheAssumption ==
    /\ ResponseMax \in Nat \ {0} /\ PrefixMax \in Nat \ {0}
    /\ MaxRuns \in Nat /\ MaxChanges \in Nat /\ MaxExpiries \in Nat

\* An answer in the cache, and a prefix.
EntryTypes == [settings : 0 .. MaxChanges, astray : BOOLEAN, old : BOOLEAN]
PrefixTypes == [model : BOOLEAN, settings : 0 .. MaxChanges, astray : BOOLEAN,
                old : BOOLEAN]

ASSUME NothingAssumption == Nothing \notin EntryTypes \cup PrefixTypes

VARIABLES responses,       \* _CHAT_RESPONSE_CACHE
          responseOrder,   \* _CHAT_RESPONSE_CACHE_ORDER
          prefixes,        \* _CHAT_SESSION_PREFIXES
          prefixOrder,     \* _CHAT_SESSION_PREFIX_ORDER
          run,             \* what each run thread does
          changer,         \* what each settings thread does
          saved,           \* the settings in the file, by number of the change
          applied,         \* the settings in the environment
          runs, changes, expiries

cVars == <<responses, responseOrder, prefixes, prefixOrder, run, changer,
           saved, applied, runs, changes, expiries>>

\* What an entry holds: the settings its run began with, whether that run went
\* astray, and whether the entry has outlived its time.  A run is astray if the
\* environment changed under it, if it began when that had drifted from the
\* file, or if it went on from a prefix of other settings or of such a run.
Entry(r) == [settings |-> run[r].settings, astray |-> run[r].astray, old |-> FALSE]

PrefixEntry(r) == [model |-> run[r].model, settings |-> run[r].settings,
                   astray |-> run[r].astray, old |-> FALSE]

Idle == [at |-> "idle", key |-> Nothing, session |-> Nothing, model |-> FALSE,
         settings |-> 0, astray |-> FALSE]

Resting == [at |-> "idle", change |-> 0]

CInit ==
    /\ responses = [k \in Keys |-> Nothing] /\ responseOrder = <<>>
    /\ prefixes = [s \in Sessions |-> Nothing] /\ prefixOrder = <<>>
    /\ run = [r \in Runs |-> Idle]
    /\ changer = [u \in Changers |-> Resting]
    /\ saved = 0 /\ applied = 0 /\ runs = 0 /\ changes = 0 /\ expiries = 0

-----------------------------------------------------------------------------
\* The list without one of its elements, which it holds at most once.
Without(order, x) == WithoutAll(order, {x})

\* Where an element that was used last comes.
MovedToEnd(order, x) == Append(Without(order, x), x)

\* Mutant: the entry is not taken from its old place in the order.
PutAgain(table, order, x, entry, max) ==
    LET full == Append(order, x)
        new  == [table EXCEPT ![x] = entry]
    IN  IF Len(full) > max
          THEN <<[new EXCEPT ![Head(full)] = Nothing], Tail(full)>>
          ELSE <<new, full>>

\* Both caches are filled in the same way: the entry moves to the end of the
\* order and the first of the order is evicted while there are too many.
Put(table, order, x, entry, max) ==
    LET full == MovedToEnd(order, x)
        new  == [table EXCEPT ![x] = entry]
    IN  IF Len(full) > max
          THEN <<[new EXCEPT ![Head(full)] = Nothing], Tail(full)>>
          ELSE <<new, full>>

Step(r, label) == run' = [run EXCEPT ![r].at = label]

\* The environment holds other settings than the file, and no change is about
\* to apply those of the file.
Drifted ==
    /\ applied # saved
    /\ ~\E u \in Changers : changer[u].at = "apply" /\ changer[u].change = saved

\* The runs when the environment is set: one that is at work may be astray.
Under(settings) ==
    [r \in Runs |-> IF run[r].at # "idle" /\ settings # applied
                      THEN [run[r] EXCEPT !.astray = TRUE] ELSE run[r]]

\* _apply_saved_runtime_settings reads the file (or, of one that is being written,
\* the environment) and then sets the environment, under no lock: what it sets may
\* have been there long ago.
Reapply(settings) == settings \in 0 .. saved /\ applied' = settings

-----------------------------------------------------------------------------
(***************************************************************************)
(* _run_chat_payload.  GGUF and warm runs use the response cache only.     *)
(***************************************************************************)
StartRun(r) ==
    /\ run[r].at = "idle" /\ runs < MaxRuns
    /\ \E q \in Requests :
         run' = [run EXCEPT ![r] = [at |-> "lookup", key |-> q.key,
                                    session |-> q.session, model |-> q.model,
                                    settings |-> applied, astray |-> Drifted]]
    /\ runs' = runs + 1
    /\ UNCHANGED <<responses, responseOrder, prefixes, prefixOrder, changer,
                   saved, applied, changes, expiries>>

\* The answer of an earlier run is the answer of this one; an entry that is too
\* old goes.
LookupResponse(r) ==
    LET k == run[r].key
        entry == responses[k]
    IN  /\ run[r].at = "lookup"
        /\ CASE entry = Nothing ->
                  /\ Step(r, "prefix")
                  /\ UNCHANGED <<responses, responseOrder>>
             [] entry # Nothing /\ entry.old ->
                  /\ responses' = [responses EXCEPT ![k] = Nothing]
                  /\ responseOrder' = Without(responseOrder, k)
                  /\ Step(r, "prefix")
             [] OTHER ->
                  /\ responseOrder' = MovedToEnd(responseOrder, k)
                  /\ Step(r, "hit")
                  /\ UNCHANGED responses
        /\ UNCHANGED <<prefixes, prefixOrder, changer, saved, applied, runs,
                       changes, expiries>>

\* _get_session_prefix cleans up under the lock, and then takes it again.
CleanPrefixes(r) ==
    LET expired == {s \in Sessions : prefixes[s] # Nothing /\ prefixes[s].old}
    IN  /\ run[r].at = "prefix"
        /\ IF run[r].session = Nothing
             THEN Step(r, "work") /\ UNCHANGED <<prefixes, prefixOrder>>
             ELSE /\ prefixes' = [s \in Sessions |-> IF s \in expired THEN Nothing
                                                     ELSE prefixes[s]]
                  /\ prefixOrder' = WithoutAll(prefixOrder, expired)
                  /\ Step(r, "get")
        /\ UNCHANGED <<responses, responseOrder, changer, saved, applied, runs,
                       changes, expiries>>

\* A prefix of another model is left where it is.
GetPrefix(r) ==
    LET s == run[r].session
        entry == prefixes[s]
    IN  /\ run[r].at = "get"
        /\ IF entry # Nothing /\ entry.model = run[r].model
             THEN /\ prefixOrder' = MovedToEnd(prefixOrder, s)
                  /\ prefixes' = [prefixes EXCEPT ![s].old = FALSE]
                  /\ run' = [run EXCEPT ![r].at = "work",
                                        ![r].astray = @ \/ entry.astray
                                          \/ entry.settings # run[r].settings]
             ELSE Step(r, "work") /\ UNCHANGED <<prefixes, prefixOrder>>
        /\ UNCHANGED <<responses, responseOrder, changer, saved, applied, runs,
                       changes, expiries>>

\* The answer reports the settings, and applies them again: that of a hit with
\* the lock of the cache held, which does not guard the environment.
Report(r) ==
    /\ \E settings \in 0 .. saved :
         /\ Reapply(settings)
         /\ \/ run[r].at = "hit" /\ run' = [Under(settings) EXCEPT ![r] = Idle]
            \/ run[r].at = "work" /\ run' = [Under(settings) EXCEPT ![r].at = "keep"]
    /\ UNCHANGED <<responses, responseOrder, prefixes, prefixOrder, changer, saved,
                   runs, changes, expiries>>

\* A run without a session, and one whose decode state is not ready, stores
\* no prefix; the state of a canceled run can be ready.
StorePrefix(r) ==
    LET s == run[r].session
        put == Put(prefixes, prefixOrder, s, PrefixEntry(r), PrefixMax)
    IN  /\ run[r].at = "keep"
        /\ \/ UNCHANGED <<prefixes, prefixOrder>>
           \/ s # Nothing /\ prefixes' = put[1] /\ prefixOrder' = put[2]
        /\ Step(r, "store")
        /\ UNCHANGED <<responses, responseOrder, changer, saved, applied, runs, changes,
                       expiries>>

\* A response that is not ready is not stored.
StoreResponse(r) ==
    LET put == Put(responses, responseOrder, run[r].key, Entry(r), ResponseMax)
    IN  /\ run[r].at = "store"
        /\ \/ UNCHANGED <<responses, responseOrder>>
           \/ responses' = put[1] /\ responseOrder' = put[2]
        /\ run' = [run EXCEPT ![r] = Idle]
        /\ UNCHANGED <<prefixes, prefixOrder, changer, saved, applied, runs, changes,
                       expiries>>

-----------------------------------------------------------------------------
(***************************************************************************)
(* _update_runtime_settings, and the stops that clear both caches.         *)
(***************************************************************************)
SaveSettings(u) ==
    /\ changer[u].at = "idle" /\ changes < MaxChanges
    /\ changes' = changes + 1 /\ saved' = saved + 1
    /\ changer' = [changer EXCEPT ![u] = [at |-> "apply", change |-> saved + 1]]
    /\ UNCHANGED <<responses, responseOrder, prefixes, prefixOrder, run, applied,
                   runs, expiries>>

\* A change applies its own settings, which the file may not hold any more.
ApplySettings(u) ==
    /\ changer[u].at = "apply"
    /\ applied' = changer[u].change
    /\ run' = Under(changer[u].change)
    /\ changer' = [changer EXCEPT ![u] = [at |-> "prefixes", change |-> 0]]
    /\ UNCHANGED <<responses, responseOrder, prefixes, prefixOrder, saved, runs,
                   changes, expiries>>

\* A stop of the warm runner or of the GGUF server clears as a change does, in
\* the one order or the other.
StopClears(u) ==
    /\ changer[u].at = "idle" /\ changes < MaxChanges
    /\ changes' = changes + 1
    /\ \E label \in {"prefixes", "responsesFirst"} :
         changer' = [changer EXCEPT ![u].at = label]
    /\ UNCHANGED <<responses, responseOrder, prefixes, prefixOrder, run,
                   saved, applied, runs, expiries>>

ClearPrefixes(u) ==
    /\ changer[u].at \in {"prefixes", "prefixesLast"}
    /\ prefixes' = [s \in Sessions |-> Nothing] /\ prefixOrder' = <<>>
    /\ changer' = [changer EXCEPT ![u] =
                      IF @.at = "prefixes" THEN [@ EXCEPT !.at = "responses"]
                                           ELSE Resting]
    /\ UNCHANGED <<responses, responseOrder, run, saved, applied, runs, changes,
                   expiries>>

\* Mutant: a change of settings keeps the answers.
KeepResponses(u) ==
    /\ changer[u].at \in {"responses", "responsesFirst"}
    /\ changer' = [changer EXCEPT ![u] =
                      IF @.at = "responses" THEN [@ EXCEPT !.at = "report"]
                      ELSE [@ EXCEPT !.at = "prefixesLast"]]
    /\ UNCHANGED <<responses, responseOrder, prefixes, prefixOrder, run,
                   saved, applied, runs, changes, expiries>>

ClearResponses(u) ==
    /\ changer[u].at \in {"responses", "responsesFirst"}
    /\ responses' = [k \in Keys |-> Nothing] /\ responseOrder' = <<>>
    /\ changer' = [changer EXCEPT ![u] =
                      IF @.at = "responses" THEN [@ EXCEPT !.at = "report"]
                      ELSE [@ EXCEPT !.at = "prefixesLast"]]
    /\ UNCHANGED <<prefixes, prefixOrder, run, saved, applied, runs, changes,
                   expiries>>

\* The change of settings and the stop of the warm runner report the settings.
ReportChange(u) ==
    /\ changer[u].at = "report"
    /\ \E settings \in 0 .. saved :
         Reapply(settings) /\ run' = Under(settings)
    /\ changer' = [changer EXCEPT ![u] = Resting]
    /\ UNCHANGED <<responses, responseOrder, prefixes, prefixOrder, saved, runs,
                   changes, expiries>>

-----------------------------------------------------------------------------
\* A poll of the status, or an answer that needs no run.
Poll ==
    /\ \E settings \in 0 .. saved :
         Reapply(settings) /\ run' = Under(settings)
    /\ UNCHANGED <<responses, responseOrder, prefixes, prefixOrder, changer, saved,
                   runs, changes, expiries>>

\* Half an hour passes, twenty minutes for a prefix.
Expire ==
    /\ expiries < MaxExpiries /\ expiries' = expiries + 1
    /\ \/ \E k \in Keys : /\ responses[k] # Nothing
                          /\ responses' = [responses EXCEPT ![k].old = TRUE]
                          /\ UNCHANGED prefixes
       \/ \E s \in Sessions : /\ prefixes[s] # Nothing
                              /\ prefixes' = [prefixes EXCEPT ![s].old = TRUE]
                              /\ UNCHANGED responses
    /\ UNCHANGED <<responseOrder, prefixOrder, run, changer, saved, applied, runs,
                   changes>>

CNext ==
    \/ \E r \in Runs : \/ StartRun(r) \/ LookupResponse(r) \/ CleanPrefixes(r)
                       \/ GetPrefix(r) \/ Report(r) \/ StorePrefix(r)
                       \/ StoreResponse(r)
    \/ \E u \in Changers : \/ SaveSettings(u) \/ ApplySettings(u) \/ StopClears(u)
                           \/ ClearPrefixes(u) \/ ClearResponses(u)
                           \/ ReportChange(u)
    \/ Poll \/ Expire

CSpec == CInit /\ [][CNext]_cVars

-----------------------------------------------------------------------------
CTypeOK ==
    /\ responses \in [Keys -> EntryTypes \cup {Nothing}]
    /\ prefixes \in [Sessions -> PrefixTypes \cup {Nothing}]
    /\ responseOrder \in Seq(Keys) /\ prefixOrder \in Seq(Sessions)
    /\ run \in [Runs -> [at : {"idle", "lookup", "hit", "prefix", "get", "work",
                               "keep", "store"},
                         key : Keys \cup {Nothing}, session : Sessions \cup {Nothing},
                         model : BOOLEAN, settings : 0 .. MaxChanges,
                         astray : BOOLEAN]]
    /\ changer \in [Changers ->
                      [at : {"idle", "apply", "prefixes", "responses",
                             "responsesFirst", "prefixesLast", "report"},
                       change : 0 .. MaxChanges]]
    /\ saved \in 0 .. MaxChanges /\ applied \in 0 .. MaxChanges
    /\ runs \in 0 .. MaxRuns /\ changes \in 0 .. MaxChanges
    /\ expiries \in 0 .. MaxExpiries

Matches(table, order, max) ==
    /\ Len(order) <= max /\ Once(order)
    /\ \A x \in DOMAIN table : table[x] # Nothing <=> Lists(order, x)

\* The order of each cache lists every entry once and nothing else, within the
\* limit, whatever lookups, stores, expiries and clears come in between: no
\* entry is out of reach of eviction, and none is evicted for a ghost.
OrderMatchesTable == /\ Matches(responses, responseOrder, ResponseMax)
                     /\ Matches(prefixes, prefixOrder, PrefixMax)

\* Once no change is under way, an answer or a prefix made under other settings
\* than the file holds comes from a run that went astray: the environment
\* changed while it worked; or it began when the environment had drifted from
\* the file (after two changes that overlapped, or by a thread that applied what
\* it had read before a change), or went on from a prefix of other settings or of
\* a run astray.  The clears catch everything else that was stored.
OnlyAstrayIsStale ==
    (\A u \in Changers : changer[u].at = "idle") =>
        /\ \A k \in Keys : responses[k] # Nothing =>
             responses[k].settings = saved \/ responses[k].astray
        /\ \A s \in Sessions : prefixes[s] # Nothing =>
             prefixes[s].settings = saved \/ prefixes[s].astray
=============================================================================
