----------------------------- MODULE WarmRunner -----------------------------
(***************************************************************************)
(* The warm runner of src/src/pcketlm/core/runtime/warm_runner.py: the     *)
(* in-process state kept between agent requests for one model and session. *)
(* Every operation holds _RUNNERS_LOCK from end to end, so each is one     *)
(* action; what can go wrong is what one call leaves behind for a later    *)
(* one.  Decoding is greedy, so an ask (a prompt and whether the chat      *)
(* format is applied) has one right answer, and its tokens are numbered.   *)
(***************************************************************************)
EXTENDS Integers, Sequences

CONSTANTS
  Prompts,      \* the prompts users send and operators prime with
  None,         \* no runner, no ask, no decode state
  MaxNew,       \* bounds the max_new_tokens of a request
  AgentCap,     \* _warm_runner_agent_max_new_tokens
  StopAt,       \* the greedy chain of every ask ends with its StopAt-th token
  CacheTokens,  \* the prime_cache_tokens callers pass
  Modes,        \* the values of PCKETLM_Q4_MOE_PRIME_MODE
  AutoPrime     \* _q4_moe_auto_prime_request_enabled

ASSUME ConstantsAssumption ==
  /\ MaxNew \in Nat \ {0} /\ AgentCap \in Nat \ {0} /\ StopAt \in Nat \ {0}
  /\ CacheTokens \subseteq Nat
  /\ Modes \subseteq {"prefill", "generate"} /\ AutoPrime \in BOOLEAN

VARIABLES
  runner,     \* the entry of _RUNNERS, or None
  primeMode,  \* _q4_moe_prime_mode(), fixed when the process starts
  answer      \* the result of the last request

vars == <<runner, primeMode, answer>>

Asks == [prompt : Prompts, chat : BOOLEAN]
Least(m, n) == IF m < n THEN m ELSE n

\* The first n tokens of the greedy answer to a.
Chain(a, n) == [i \in 1..n |-> [ask |-> a, k |-> i]]

\* KVDecodeState: k generated tokens, the last one chosen and not yet fed; none
\* at all after a prefill, where next_token_id is -1.
StateOf(a, k) == [ask |-> a, k |-> k]
Finished(s) == s.k = StopAt

\* A mutant: the last token of the chain is kept as fed although it is pending.
ReusableWithPending(a, k) == [ask |-> a, fed |-> k]

\* reusable_token_ids: the prompt and k - 1 generated tokens (chain[:-1]).
ReusableOf(a, k) == [ask |-> a, fed |-> IF k = 0 THEN 0 ELSE k - 1]

\* A WarmRunner as start_warm_runner makes it.
Fresh == [primed |-> FALSE, primeAsk |-> None, primeIds |-> <<>>,
          primeState |-> None, decodeState |-> None, reusable |-> None]

NoAnswer == [how |-> "none", ready |-> FALSE, ask |-> None, max |-> 0, tokens |-> <<>>]

Tokens == [ask : Asks, k : 1..StopAt]
States == [ask : Asks, k : 0..StopAt] \cup {None}

\* None is neither a decode state nor a result of the decoder.
ASSUME NoneAssumption ==
  /\ None \notin [ask : Asks, k : Nat]
  /\ None \notin [ready : BOOLEAN, ids : Seq(Tokens), state : States]

TypeOK ==
  /\ primeMode \in Modes
  /\ runner # None =>
       /\ runner.primed \in BOOLEAN
       /\ runner.primeAsk \in Asks \cup {None}
       /\ runner.primeIds \in Seq(Tokens)
       /\ runner.primeState \in States /\ runner.decodeState \in States
       /\ runner.reusable \in [ask : Asks, fed : 0..(StopAt - 1)] \cup {None}
  /\ answer.how \in {"none", "blocked", "primed", "continued", "decoded"}
  /\ Len(answer.tokens) <= answer.max

Init ==
  /\ runner = None
  /\ primeMode \in Modes
  /\ answer = NoAnswer

-----------------------------------------------------------------------------
(* What the decoder returns                                                *)

\* run_prompt_decode_loop for n tokens.  A loop that fails returns the tokens
\* and the state it had reached.
Loop(a, m, ok) ==
  [ready |-> ok, ids |-> Chain(a, m), state |-> IF m = 0 THEN None ELSE StateOf(a, m)]

\* A mutant: the loop decodes one token more than it was asked for.
DecodeLoopsOneMore(a, n) ==
  LET full == Least(n + 1, StopAt) IN
  {Loop(a, full, TRUE)} \cup {Loop(a, m, FALSE) : m \in 0..(full - 1)}

DecodeLoops(a, n) ==
  LET full == Least(n, StopAt) IN
  {Loop(a, full, TRUE)} \cup {Loop(a, m, FALSE) : m \in 0..(full - 1)}

\* run_prompt_prefill_session: the KV state of the prompt, or nothing.
Prefilled(a) == [ready |-> TRUE, ids |-> <<>>, state |-> StateOf(a, 0)]
PrefillFailed == [ready |-> FALSE, ids |-> <<>>, state |-> None]

-----------------------------------------------------------------------------
(* Mutants: variants of the definitions below that a plausible bug would    *)
(* leave in the code.  No specification uses them.                          *)

\* The chat format is not compared with the one the runner was primed with.
MatchesPrimePromptOnly(r, a) ==
  /\ r.primed /\ r.primeIds # <<>>
  /\ r.primeAsk.prompt = a.prompt

\* The continuation starts from the state of the last request.
ContinuedFromLastRequest(r) == r.decodeState

-----------------------------------------------------------------------------
(* Priming                                                                 *)

\* What the decoder can do during one prime: the result the prime is judged by,
\* and in prefill mode the loop whose tokens are cached.  A failed caching loop
\* becomes the result.
PrimeRuns(a, n) ==
  IF primeMode = "generate"
  THEN {[result |-> l, cached |-> None] : l \in DecodeLoops(a, 1)}
  ELSE {[result |-> PrefillFailed, cached |-> None]}
         \cup IF n = 0 THEN {[result |-> Prefilled(a), cached |-> None]}
              ELSE {IF l.ready THEN [result |-> Prefilled(a), cached |-> l]
                               ELSE [result |-> l, cached |-> None]
                      : l \in DecodeLoops(a, n)}

\* The tail of _prime_q4_moe_warm_runner: the cached loop replaces the primed
\* tokens, the result only fills them in when there are none.
AfterPrime(r, a, run) ==
  LET cached == run.cached # None
      had == IF cached THEN run.cached.ids ELSE r.primeIds
      ids == IF had # <<>> THEN had ELSE run.result.ids
      hadState == IF cached THEN run.cached.state ELSE r.primeState
      res == run.result
  IN [primed |-> res.ready,
      primeAsk |-> a,
      primeIds |-> ids,
      primeState |-> IF hadState = None /\ ids # <<>> THEN res.state ELSE hadState,
      decodeState |-> IF res.ready THEN res.state ELSE r.decodeState,
      reusable |-> IF res.ready THEN ReusableOf(a, res.state.k) ELSE r.reusable]

\* _prime_q4_moe_warm_runner: nothing if primed; nothing but a blocker if the
\* decoder raised.
PrimeOutcomes(r, a, n) ==
  IF r.primed THEN {r}
  ELSE {r} \cup {AfterPrime(r, a, run) : run \in PrimeRuns(a, n)}

Entered == IF runner = None THEN Fresh ELSE runner

\* start_warm_runner, with or without priming.
StartWarmRunner ==
  /\ \E r \in {Entered} \cup
            UNION {PrimeOutcomes(Entered, a, n) : a \in Asks, n \in CacheTokens} :
       runner' = r
  /\ UNCHANGED <<primeMode, answer>>

\* stop_warm_runner: the entry is popped, and the next start makes a new one.
StopWarmRunner ==
  /\ runner' = None
  /\ UNCHANGED <<primeMode, answer>>

-----------------------------------------------------------------------------
(* Requests: run_warm_agent_prompt                                         *)

\* prefix_reuse_available, which every assignment keeps equal to this.
PrefixReuseAvailable(r) == r.decodeState # None /\ r.reusable # None

\* The runner a request works with: made on demand, primed with the prompt of
\* the request itself when nothing is warm.
AtRequest(a, max) ==
  IF AutoPrime /\ ~Entered.primed /\ ~PrefixReuseAvailable(Entered)
  THEN PrimeOutcomes(Entered, a, max)
  ELSE {Entered}

\* The request names the prompt and the format the runner was primed with.
MatchesPrime(r, a) ==
  /\ r.primed /\ r.primeIds # <<>>
  /\ r.primeAsk.prompt = a.prompt
  /\ r.primeAsk.chat = a.chat

CachedPrimeGenerated(r, a, max) == MatchesPrime(r, a) /\ max <= Len(r.primeIds)

\* The state a continuation starts from.
ContinuedFrom(r) == r.primeState

CanContinuePrimed(r, a, max) ==
  /\ MatchesPrime(r, a) /\ max > Len(r.primeIds)
  /\ ContinuedFrom(r) # None
  /\ ~Finished(ContinuedFrom(r))
  /\ ContinuedFrom(r).k > 0

Answered(how, ready, a, max, tokens) ==
  answer' = [how |-> how, ready |-> ready, ask |-> a, max |-> max, tokens |-> tokens]

\* _blocked_result: too little free RAM.
BlockRequest(a, max) ==
  /\ runner' = Entered
  /\ Answered("blocked", FALSE, a, max, <<>>)
  /\ UNCHANGED primeMode

\* The answer is cut from the primed tokens; turning them into text may fail.
ServePrimed(a, max) ==
  \E r \in AtRequest(a, max), ok \in BOOLEAN :
    /\ CachedPrimeGenerated(r, a, max)
    /\ runner' = r
    /\ Answered("primed", ok, a, max, SubSeq(r.primeIds, 1, max))
    /\ UNCHANGED primeMode

\* The primed tokens, then one run_kv_decode_step per missing token from the
\* primed state.  If a step fails, or turning the tokens into text, the runner
\* is left as it was.
ContinuePrimed(a, max) ==
  \E r \in AtRequest(a, max), ok \in BOOLEAN :
    /\ CanContinuePrimed(r, a, max)
    /\ LET s == ContinuedFrom(r)
           full == Least(max - Len(r.primeIds), StopAt - s.k)
           steps == [i \in 1..full |-> [ask |-> s.ask, k |-> s.k + i]]
           last == StateOf(s.ask, s.k + full)
       IN IF ok
          THEN /\ runner' = [r EXCEPT !.primeState = last, !.decodeState = last,
                                      !.reusable = ReusableOf(last.ask, last.k)]
               /\ Answered("continued", TRUE, a, max, r.primeIds \o steps)
          ELSE /\ runner' = r
               /\ \E m \in 0..full :
                    Answered("continued", FALSE, a, max, r.primeIds \o SubSeq(steps, 1, m))
    /\ UNCHANGED primeMode

\* The ordinary run, from the state of the last request if it fits: ready, or
\* failed, which forgets that state.
DecodeRequest(a, max) ==
  \E r \in AtRequest(a, max), l \in DecodeLoops(a, Least(max, AgentCap)) :
    /\ ~CachedPrimeGenerated(r, a, max) /\ ~CanContinuePrimed(r, a, max)
    /\ runner' = [r EXCEPT
         !.decodeState = IF l.ready THEN l.state ELSE None,
         !.reusable = IF l.ready THEN ReusableOf(a, l.state.k) ELSE None]
    /\ Answered("decoded", l.ready, a, max, l.ids)
    /\ UNCHANGED primeMode

\* The ordinary run raised: the error is recorded, the state is kept.
DecodeRaises(a, max) ==
  \E r \in AtRequest(a, max) :
    /\ ~CachedPrimeGenerated(r, a, max) /\ ~CanContinuePrimed(r, a, max)
    /\ runner' = r
    /\ Answered("decoded", FALSE, a, max, <<>>)
    /\ UNCHANGED primeMode

Next ==
  \/ StartWarmRunner
  \/ StopWarmRunner
  \/ \E a \in Asks, max \in 1..MaxNew :
       \/ BlockRequest(a, max) \/ ServePrimed(a, max) \/ ContinuePrimed(a, max)
       \/ DecodeRequest(a, max) \/ DecodeRaises(a, max)

Spec == Init /\ [][Next]_vars

-----------------------------------------------------------------------------
(* Properties                                                              *)

\* An answer cut from the primed tokens is the answer to the ask it is given
\* for, whatever primes failed, requests ran or stops came in between: the
\* tokens of one prompt or format never answer another.
PrimedAnswersGreedy ==
  answer.how = "primed" /\ answer.ready => answer.tokens = Chain(answer.ask, answer.max)

\* No answer repeats a token, steps back or changes over to another prompt.
AnswersMoveForward ==
  answer.ready =>
    \A i \in DOMAIN answer.tokens :
      /\ answer.tokens[i].ask = answer.ask
      /\ i > 1 => answer.tokens[i - 1].k < answer.tokens[i].k

\* Each decode step feeds the token chosen before it: the last is never fed.
Fed(s) == IF s.k = 0 THEN 0 ELSE s.k - 1

\* The token ids kept for prefix matching are exactly those whose rows are in
\* the kept KV state: a pending token is not among them, so the prefix test of
\* the next request (PromptDecode) compares against what the caches hold.
ReusableMatchesState ==
  runner # None =>
    \/ runner.decodeState = None /\ runner.reusable = None
    \/ /\ runner.decodeState # None
       /\ runner.reusable = [ask |-> runner.decodeState.ask,
                             fed |-> Fed(runner.decodeState)]

\* What a continued answer says of itself: "reused the cached tokens and
\* continued from the primed decode state for the remaining tokens".
ContinuedAnswersGreedy ==
  answer.how = "continued" /\ answer.ready =>
    answer.tokens = Chain(answer.ask, Least(answer.max, StopAt))
=============================================================================
