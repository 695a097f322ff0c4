----------------------------- MODULE PromptDecode -----------------------------
(***************************************************************************)
(* The K/V rows behind a chat session: run_prompt_decode_loop of           *)
(* src/src/pcketlm/core/runtime/layer_bridge.py and the session prefix the *)
(* web app hands it and stores back.                                       *)
(*                                                                         *)
(* A row is one token processed by one layer, so a cache is a row count.   *)
(* A Python cache is a pair of immutable tensors: every step builds longer *)
(* ones.  A native cache is a session object that a decode step extends in *)
(* place, so whoever holds the object sees the rows of everyone else.      *)
(* Layers run one per step: a cancel, a failing layer or another request   *)
(* may fall between any two of them.                                       *)
(***************************************************************************)
EXTENDS Integers

CONSTANTS
  Runs,       \* the calls of run_prompt_decode_loop for one chat session
  LayerCount, \* transformer layers in the stack
  MaxAppend,  \* bounds PCKETLM_PREFIX_REUSE_MAX_APPEND_TOKENS
  MaxPrompt,  \* bounds the prompt length
  MaxNew,     \* bounds max_new_tokens
  None        \* no native session, no stored prefix

ASSUME ConstantsAssumption ==
  /\ LayerCount \in Nat \ {0} /\ MaxAppend \in Nat \ {0}
  /\ MaxPrompt \in Nat \ {0} /\ MaxNew \in Nat \ {0}
  /\ None \notin Runs \X (0..LayerCount - 1)

VARIABLES
  native,    \* the native decode layer is available; fixed for the process
  maxAppend, \* the longest suffix appended to a prefix; fixed for the process
  calm,      \* nothing is canceled, fails or overlaps; fixed for a behavior
  sessions,  \* committed rows of the native session a run made for a layer
  prefix,    \* the ChatSessionPrefix of the chat session
  run        \* what each call is doing

config == <<native, maxAppend, calm>>
vars == <<config, sessions, prefix, run>>

Layers == 0..LayerCount - 1
MaxRows == MaxPrompt + MaxNew  \* no state is further than this

NoRows == [l \in Layers |-> 0]
NoSessions == [l \in Layers |-> None]

\* KVDecodeState: next_position, len(generated_token_ids), finished, kv_caches
\* and native_kv_sessions.  A state of the chat always has a pending token.
Empty == [pos |-> 0, chain |-> 0, finished |-> FALSE, kv |-> NoRows, nat |-> NoSessions]

Waiting == [at |-> "waiting", path |-> "prefill", n |-> 0, max |-> 0, gen |-> 0,
            st |-> Empty, layer |-> 0, kv |-> NoRows, nat |-> NoSessions]

States ==
  [pos : 0..MaxRows, chain : 0..MaxRows + 1, finished : BOOLEAN,
   kv : [Layers -> 0..2 * MaxRows], nat : [Layers -> (Runs \X Layers) \cup {None}]]

TypeOK ==
  /\ native \in BOOLEAN /\ maxAppend \in 1..MaxAppend /\ calm \in BOOLEAN
  /\ sessions \in [Runs \X Layers -> Nat]
  /\ prefix = None \/ (prefix.tokens \in 1..MaxRows /\ prefix.st \in States)
  /\ \A r \in Runs :
       /\ run[r].at \in {"waiting", "first", "loop", "step", "return", "done"}
       /\ run[r].path \in {"prefill", "append", "pending"}
       /\ run[r].n \in 0..MaxPrompt /\ run[r].max \in 0..MaxNew
       /\ run[r].gen \in 0..run[r].max
       /\ run[r].st \in States /\ run[r].layer \in 0..LayerCount

Init ==
  /\ native \in BOOLEAN /\ maxAppend \in 1..MaxAppend /\ calm \in BOOLEAN
  /\ sessions = [h \in Runs \X Layers |-> 0]
  /\ prefix = None
  /\ run = [r \in Runs |-> Waiting]

\* The rows layer l attends to when state st is decoded.
Rows(st, l) == IF st.nat[l] # None THEN sessions[st.nat[l]] ELSE st.kv[l]

\* Tokens the stack of the moment processes at once.
Width(r) == IF run[r].at = "step" THEN 1 ELSE run[r].n - run[r].st.pos

InStack(r) == run[r].at \in {"first", "step"}

\* Runs one layer on; its output replaces what the state held for that layer.
LayerOutput(r, rows, session) ==
  run' = [run EXCEPT ![r].layer = @ + 1,
                     ![r].kv[run[r].layer] = rows,
                     ![r].nat[run[r].layer] = session]

Goto(r, where) == run' = [run EXCEPT ![r] = [Waiting EXCEPT !.at = where,
                                               !.path = run[r].path, !.n = run[r].n,
                                               !.max = run[r].max, !.gen = run[r].gen,
                                               !.st = run[r].st]]

\* Leaves the loop for good, with nothing to store.
Quit(r) == run' = [run EXCEPT ![r] = [Waiting EXCEPT !.at = "done"]]

-----------------------------------------------------------------------------
(* Mutants: variants of the definitions below that a plausible bug would    *)
(* leave in the code.  No specification uses them.                          *)

\* A stopped step returns the caches its stack had built so far.
StopKeepsPartialCaches(r) ==
  /\ InStack(r) /\ ~calm
  /\ IF run[r].at = "first" THEN Quit(r)
     ELSE run' = [run EXCEPT ![r] = [Waiting EXCEPT !.at = "return",
            !.path = run[r].path, !.n = run[r].n, !.max = run[r].max,
            !.gen = run[r].gen,
            !.st = [run[r].st EXCEPT !.kv = run[r].kv, !.nat = run[r].nat]]]
  /\ UNCHANGED <<config, sessions, prefix>>

\* A new native session is not seeded with the rows of the Python cache.
RunUnseededNativeLayer(r) ==
  LET l == run[r].layer
      own == <<r, l>>
      held == IF run[r].st.nat[l] = None THEN own ELSE run[r].st.nat[l] IN
  /\ InStack(r) /\ l \in Layers
  /\ native /\ Width(r) = 1
  /\ sessions' = [sessions EXCEPT ![held] = @ + 1]
  /\ LayerOutput(r, 0, held)
  /\ UNCHANGED <<config, prefix>>

\* The pending token counts as reusable.
ReusableWholeChain(r) == run[r].st.chain

\* Only the generated part of the chain is reported reusable.
ReusableGeneratedOnly(r) == run[r].gen - 1

-----------------------------------------------------------------------------
(* Entering the loop                                                       *)

\* The supplied prefix is a prefix of the prompt and the state carries it.
PrefixUsable(n, matches) ==
  /\ prefix # None /\ matches
  /\ prefix.tokens <= n
  /\ prefix.st.chain >= prefix.tokens

CanUsePendingToken(n, max, matches, formatted) ==
  /\ PrefixUsable(n, matches)
  /\ prefix.st.pos = n
  /\ ~prefix.st.finished
  /\ max = 1 \/ ~formatted

CanTryPrefix(n, matches) ==
  /\ PrefixUsable(n, matches)
  /\ prefix.st.pos < n
  /\ n - prefix.st.pos <= maxAppend

Enter(r, path, n, max, st, where, gen) ==
  /\ run[r].at = "waiting"
  /\ calm => \A q \in Runs : run[q].at \in {"waiting", "done"}
  /\ run' = [run EXCEPT ![r] = [Waiting EXCEPT !.at = where, !.path = path,
                     !.n = n, !.max = max, !.gen = gen, !.st = st]]
  /\ UNCHANGED <<config, sessions, prefix>>

\* The prompt is exactly what the state has processed: its pending token is the
\* first generated one.
ReusePendingToken(r, n, max, matches, formatted) ==
  /\ CanUsePendingToken(n, max, matches, formatted)
  /\ Enter(r, "pending", n, max, prefix.st, IF max = 1 THEN "return" ELSE "loop", 1)

\* The prompt is longer: the rest of it is run through the stack in one batch.
AppendToPrefix(r, n, max, matches, formatted) ==
  /\ ~CanUsePendingToken(n, max, matches, formatted)
  /\ CanTryPrefix(n, matches)
  /\ Enter(r, "append", n, max, prefix.st, "first", 0)

PrefillPrompt(r, n, max, matches, formatted) ==
  /\ ~CanUsePendingToken(n, max, matches, formatted)
  /\ ~CanTryPrefix(n, matches)
  /\ Enter(r, "prefill", n, max, Empty, "first", 0)

-----------------------------------------------------------------------------
(* One pass through the layers: run_layer_bridge_stack                     *)

\* The Python attention: the past is what kv_caches holds.  It is the fallback
\* of a native layer that raised, and then too it does not see the session.
RunPythonLayer(r) ==
  /\ InStack(r) /\ run[r].layer \in Layers
  /\ native /\ Width(r) = 1 => ~calm
  /\ LayerOutput(r, run[r].st.kv[run[r].layer] + Width(r), None)
  /\ UNCHANGED <<config, sessions, prefix>>

\* _try_native_dense_decode_bridge: one token, appended to the session of the
\* state, or to a new one seeded from the Python rows; committed at once.
RunNativeLayer(r) ==
  LET l == run[r].layer
      own == <<r, l>>
      held == run[r].st.nat[l] IN
  /\ InStack(r) /\ l \in Layers
  /\ native /\ Width(r) = 1
  /\ \/ /\ held = None
        /\ sessions' = [sessions EXCEPT ![own] = run[r].st.kv[l] + 1]
        /\ LayerOutput(r, 0, own)
     \/ /\ held # None
        /\ sessions' = [sessions EXCEPT ![held] = @ + 1]
        /\ LayerOutput(r, 0, held)
  /\ UNCHANGED <<config, prefix>>

\* A cancel seen before a layer or around the tail, a layer or a tail that is
\* not ready.  Before the first token the loop returns no state; later it
\* breaks out and returns the state the step started from.
StopInStack(r) ==
  /\ InStack(r) /\ ~calm
  /\ IF run[r].at = "first" THEN Quit(r) ELSE Goto(r, "return")
  /\ UNCHANGED <<config, sessions, prefix>>

\* The tail has picked a token: the state moves past the tokens of this stack,
\* and the new token is pending.  A stop token finishes the state, a stop
\* string or the last allowed token only ends the loop.
PickToken(r) ==
  LET gen == run[r].gen + 1
      pos == IF run[r].at = "first" THEN run[r].n ELSE run[r].st.pos + 1 IN
  /\ InStack(r) /\ run[r].layer = LayerCount
  /\ \E finished \in BOOLEAN, where \in {"loop", "return"} :
       /\ finished \/ gen = run[r].max => where = "return"
       /\ run[r].at = "first" /\ where = "return" => finished \/ gen = run[r].max
       /\ run' = [run EXCEPT ![r] = [Waiting EXCEPT !.at = where,
            !.path = run[r].path, !.n = run[r].n, !.max = run[r].max, !.gen = gen,
            !.st = [pos |-> pos, chain |-> pos + 1, finished |-> finished,
                    kv |-> run[r].kv, nat |-> run[r].nat]]]
  /\ UNCHANGED <<config, sessions, prefix>>

-----------------------------------------------------------------------------
(* Between two steps, and the end                                          *)

\* run_kv_decode_step begins.
DecodeStep(r) ==
  /\ run[r].at = "loop"
  /\ Goto(r, "step")
  /\ UNCHANGED <<config, sessions, prefix>>

\* A cancel seen at the top of the loop: the continuation of a pending token
\* breaks and returns its state, the ordinary loop returns none.
StopBetweenSteps(r) ==
  /\ run[r].at = "loop" /\ ~calm
  /\ IF run[r].path = "pending" THEN Goto(r, "return") ELSE Quit(r)
  /\ UNCHANGED <<config, sessions, prefix>>

\* reusable_token_ids: the chain without its pending token.
ReusableTokens(r) == IF run[r].gen = 1 THEN run[r].n ELSE run[r].st.chain - 1

\* _run_chat_payload stores the final state, whatever stopped the loop.
StoreSessionPrefix(r) ==
  /\ run[r].at = "return"
  /\ prefix' = [tokens |-> ReusableTokens(r), st |-> run[r].st]
  /\ Quit(r)
  /\ UNCHANGED <<config, sessions>>

\* A clear, the TTL or the entry limit takes the stored prefix away.
DropPrefix ==
  /\ prefix # None
  /\ prefix' = None
  /\ UNCHANGED <<config, sessions, run>>

Next ==
  \/ DropPrefix
  \/ \E r \in Runs :
       \/ RunPythonLayer(r) \/ RunNativeLayer(r) \/ StopInStack(r) \/ PickToken(r)
       \/ DecodeStep(r) \/ StopBetweenSteps(r) \/ StoreSessionPrefix(r)
       \/ \E n \in 1..MaxPrompt, max \in 1..MaxNew, matches, formatted \in BOOLEAN :
            \/ ReusePendingToken(r, n, max, matches, formatted)
            \/ AppendToPrefix(r, n, max, matches, formatted)
            \/ PrefillPrompt(r, n, max, matches, formatted)

Spec == Init /\ [][Next]_vars

-----------------------------------------------------------------------------
(* Properties                                                              *)

Exact(st) == \A l \in Layers : Rows(st, l) = st.pos

\* The runs that hold a complete state, and whether any run is at work at all.
Holders == {r \in Runs : run[r].at \in {"loop", "return"}}
Quiet == \A r \in Runs : run[r].at \in {"waiting", "done"}

\* Python caches are exact whatever is canceled, fails or overlaps: every layer
\* of every state that may be decoded next, stored or in a run, holds one row
\* for each position the state claims to have processed.
PythonKvExact ==
  ~native => /\ \A r \in Holders : Exact(run[r].st)
             /\ prefix # None => Exact(prefix.st)

\* Native sessions are as exact when nothing is canceled, fails or overlaps and
\* a prefix is extended by one token at most; the stored state shares its sessions with
\* the run that continues it, so it is exact only between runs.
CalmNativeKvExact ==
  native /\ calm /\ maxAppend = 1 =>
    /\ \A r \in Holders : Exact(run[r].st)
    /\ Quiet /\ prefix # None => Exact(prefix.st)

\* The stored token ids and the stored state speak of the same prefix: a prompt
\* that starts with the ids can be continued at the state's position.
PrefixAligned ==
  prefix # None => /\ prefix.tokens = prefix.st.pos
                   /\ prefix.st.chain = prefix.st.pos + 1

\* The promise made when a reply leaves its last token pending: "the KV cache
\* never contains a token that run_kv_decode_step would process a second time".
\* Checked where it matters, with no other run at work: as a step begins, no
\* layer has rows beyond the position the step writes.
NoTokenTwice ==
  \A r \in Runs :
    /\ run[r].at = "step" /\ run[r].layer = 0
    /\ \A q \in Runs \ {r} : run[q].at \in {"waiting", "done"}
    => \A l \in Layers : Rows(run[r].st, l) <= run[r].st.pos

\* The promise of the prefix_reuse summary of an append: the positions of the
\* prefix are "kept in KV", so no layer knows fewer rows than it has processed;
\* checked for behaviors in which nothing is canceled, fails or overlaps.
AppendKeepsPrefix ==
  calm => \A r \in Holders : run[r].path = "append" =>
    \A l \in Layers : Rows(run[r].st, l) >= run[r].st.pos
=============================================================================
