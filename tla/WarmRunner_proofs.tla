-------------------------- MODULE WarmRunner_proofs --------------------------
(***************************************************************************)
(* Proofs about WarmRunner for any prompts, modes and limits.              *)
(***************************************************************************)
EXTENDS WarmRunner, SequenceTheorems, TLAPS

-----------------------------------------------------------------------------
(* What the decoder returns                                                *)

LEMMA LeastFacts ==
  ASSUME NEW m \in Nat, NEW n \in Nat
  PROVE  Least(m, n) \in Nat /\ Least(m, n) <= m /\ Least(m, n) <= n
                             /\ (m >= 1 /\ n >= 1 => Least(m, n) >= 1)
  BY DEF Least

LEMMA ChainFacts ==
  ASSUME NEW a \in Asks, NEW n \in 0..StopAt
  PROVE  /\ Chain(a, n) \in Seq(Tokens)
         /\ Len(Chain(a, n)) = n
         /\ \A i \in 1..n : Chain(a, n)[i] = [ask |-> a, k |-> i]
<1>1. StopAt \in Nat /\ n \in Nat
  BY ConstantsAssumption
<1>2. \A i \in 1..n : [ask |-> a, k |-> i] \in Tokens
  BY <1>1 DEF Tokens
<1>3. Chain(a, n) \in [1..n -> Tokens]
  BY <1>2 DEF Chain
<1>4. Chain(a, n) \in Seq(Tokens)
  BY <1>1, <1>3
<1>5. Len(Chain(a, n)) = n
  BY <1>1, <1>3, <1>4, LenProperties
<1> QED BY <1>4, <1>5 DEF Chain

\* A loop returns a beginning of the chain and the state at its end.  It is not
\* empty when it is ready, and a failed loop for one token has none.
LEMMA LoopFacts ==
  ASSUME NEW a \in Asks, NEW n \in Nat, NEW l \in DecodeLoops(a, n)
  PROVE  \E m \in 0..StopAt :
           /\ m <= n
           /\ l = Loop(a, m, l.ready)
           /\ l.ready \in BOOLEAN
           /\ l.ready /\ n >= 1 => m >= 1
           /\ ~l.ready /\ n = 1 => m = 0
<1> DEFINE full == Least(n, StopAt)
<1>1. /\ StopAt \in Nat /\ StopAt >= 1
      /\ full \in Nat /\ full <= n /\ full <= StopAt
      /\ n >= 1 => full >= 1
  BY ConstantsAssumption, LeastFacts
<1>2. CASE l = Loop(a, full, TRUE)
  <2>1. l.ready = TRUE
    BY <1>2 DEF Loop
  <2>2. l = Loop(a, full, l.ready)
    BY <1>2, <2>1
  <2>3. full \in 0..StopAt
    BY <1>1
  <2> HIDE DEF full
  <2> QED BY <1>1, <2>1, <2>2, <2>3
<1>3. CASE \E m \in 0..(full - 1) : l = Loop(a, m, FALSE)
  <2>1. PICK m \in 0..(full - 1) : l = Loop(a, m, FALSE)
    BY <1>3
  <2>2. l.ready = FALSE
    BY <2>1 DEF Loop
  <2>3. m \in 0..StopAt /\ m <= n /\ (n = 1 => m = 0)
    BY <1>1
  <2> QED BY <2>1, <2>2, <2>3
<1> QED BY <1>2, <1>3 DEF DecodeLoops

-----------------------------------------------------------------------------
(* The invariants                                                          *)

DecodeStates == [ask : Asks, k : 0..StopAt]
Runners == [primed : BOOLEAN, primeAsk : Asks \cup {None}, primeIds : Seq(Tokens),
            primeState : States, decodeState : States,
            reusable : [ask : Asks, fed : 0..(StopAt - 1)] \cup {None}]

\* The kept token ids and the kept state agree.
Agrees(r) ==
  \/ r.decodeState = None /\ r.reusable = None
  \/ /\ r.decodeState # None
     /\ r.reusable = [ask |-> r.decodeState.ask, fed |-> Fed(r.decodeState)]

AnswerOK ==
  /\ answer.how \in {"none", "blocked", "primed", "continued", "decoded"}
  /\ Len(answer.tokens) <= answer.max

Inv ==
  /\ primeMode \in Modes
  /\ runner = None \/ (runner \in Runners /\ Agrees(runner))
  /\ AnswerOK

LEMMA StateFacts ==
  ASSUME NEW a \in Asks, NEW k \in 0..StopAt
  PROVE  /\ StateOf(a, k) \in DecodeStates /\ StateOf(a, k) # None
         /\ StateOf(a, k).ask = a /\ StateOf(a, k).k = k
         /\ ReusableOf(a, k) = [ask |-> a, fed |-> Fed(StateOf(a, k))]
         /\ ReusableOf(a, k) \in [ask : Asks, fed : 0..(StopAt - 1)]
<1>1. StopAt \in Nat /\ StopAt >= 1 /\ k \in Nat
  BY ConstantsAssumption
<1>2. StateOf(a, k) \in DecodeStates /\ StateOf(a, k) \in [ask : Asks, k : Nat]
  BY <1>1 DEF StateOf, DecodeStates
<1>3. StateOf(a, k) # None
  BY <1>2, NoneAssumption
<1>4. StateOf(a, k).ask = a /\ StateOf(a, k).k = k
  BY DEF StateOf
<1>5. ReusableOf(a, k) = [ask |-> a, fed |-> Fed(StateOf(a, k))]
  BY <1>4 DEF ReusableOf, Fed
<1>6. Fed(StateOf(a, k)) \in 0..(StopAt - 1)
  BY <1>1, <1>4 DEF Fed
<1> QED BY <1>2, <1>3, <1>4, <1>5, <1>6

LEMMA FreshFacts == Fresh \in Runners /\ Agrees(Fresh)
  BY DEF Fresh, Runners, Agrees, States

LEMMA EnteredFacts ==
  ASSUME Inv
  PROVE  Entered \in Runners /\ Agrees(Entered)
  BY FreshFacts DEF Inv, Entered

\* The result of a prime: nothing, a prefilled state, or what a loop returned.
LEMMA AfterPrimeKeeps ==
  ASSUME NEW r \in Runners, Agrees(r), NEW a \in Asks, NEW n \in Nat,
         primeMode \in Modes, NEW run \in PrimeRuns(a, n)
  PROVE  AfterPrime(r, a, run) \in Runners /\ Agrees(AfterPrime(r, a, run))
<1> DEFINE OKIds(l) == l.ids \in Seq(Tokens) /\ l.state \in States /\ l.ready \in BOOLEAN
           OK(l) ==
             /\ OKIds(l)
             /\ l.ready => l.state \in DecodeStates /\ l.state # None /\ l.state.ask = a
<1>1. ASSUME NEW c \in Nat, NEW l \in DecodeLoops(a, c)
      PROVE  OKIds(l) /\ (c >= 1 => OK(l))
  <2>1. PICK m \in 0..StopAt : /\ l = Loop(a, m, l.ready) /\ l.ready \in BOOLEAN
                               /\ l.ready /\ c >= 1 => m >= 1
    BY <1>1, LoopFacts
  <2>2. l.ids = Chain(a, m) /\ l.state = IF m = 0 THEN None ELSE StateOf(a, m)
    BY <2>1 DEF Loop
  <2> QED BY <2>1, <2>2, ChainFacts, StateFacts DEF States, DecodeStates
<1>2. OK(Prefilled(a)) /\ OK(PrefillFailed)
  <2>1. 0 \in 0..StopAt
    BY ConstantsAssumption
  <2> QED BY <2>1, StateFacts DEF Prefilled, PrefillFailed, States, DecodeStates
<1>3. OK(run.result) /\ (run.cached # None => OKIds(run.cached))
  <2>1. CASE primeMode = "generate"
    <3>1. PICK l \in DecodeLoops(a, 1) : run = [result |-> l, cached |-> None]
      BY <2>1 DEF PrimeRuns
    <3>2. OK(l)
      BY <1>1
    <3> QED BY <3>1, <3>2
  <2>2. CASE primeMode # "generate"
    <3>1. CASE run = [result |-> PrefillFailed, cached |-> None]
      BY <1>2, <3>1
    <3>2. CASE run = [result |-> Prefilled(a), cached |-> None]
      BY <1>2, <3>2
    <3>3. CASE n # 0 /\ \E l \in DecodeLoops(a, n) :
                 run = IF l.ready THEN [result |-> Prefilled(a), cached |-> l]
                                  ELSE [result |-> l, cached |-> None]
      <4>1. PICK l \in DecodeLoops(a, n) :
                 run = IF l.ready THEN [result |-> Prefilled(a), cached |-> l]
                                  ELSE [result |-> l, cached |-> None]
        BY <3>3
      <4>2. OK(l)
        BY <1>1, <3>3
      <4>3. CASE l.ready
        <5>1. run.result = Prefilled(a) /\ run.cached = l
          BY <4>1, <4>3
        <5> QED BY <5>1, <4>2, <1>2
      <4>4. CASE ~l.ready
        <5>1. run.result = l /\ run.cached = None
          BY <4>1, <4>4
        <5> QED BY <5>1, <4>2
      <4> QED BY <4>3, <4>4
    <3> QED BY <2>2, <3>1, <3>2, <3>3 DEF PrimeRuns
  <2> QED BY <2>1, <2>2
<1> DEFINE q == AfterPrime(r, a, run)
           ids == IF (IF run.cached # None THEN run.cached.ids ELSE r.primeIds) # <<>>
                  THEN (IF run.cached # None THEN run.cached.ids ELSE r.primeIds)
                  ELSE run.result.ids
           ps == IF (IF run.cached # None THEN run.cached.state ELSE r.primeState) = None
                       /\ ids # <<>>
                 THEN run.result.state
                 ELSE (IF run.cached # None THEN run.cached.state ELSE r.primeState)
           ds == IF run.result.ready THEN run.result.state ELSE r.decodeState
           ru == IF run.result.ready THEN ReusableOf(a, run.result.state.k) ELSE r.reusable
<1>4. q = [primed |-> run.result.ready, primeAsk |-> a, primeIds |-> ids,
           primeState |-> ps, decodeState |-> ds, reusable |-> ru]
  BY DEF AfterPrime
<1>5. ids \in Seq(Tokens) /\ ps \in States /\ ds \in States /\ run.result.ready \in BOOLEAN
  BY <1>3 DEF Runners, States, DecodeStates
<1>6. /\ run.result.ready =>
           /\ ds \in DecodeStates /\ ds # None /\ ds.ask = a
           /\ ru = ReusableOf(a, ds.k)
      /\ ~run.result.ready => ds = r.decodeState /\ ru = r.reusable
  BY <1>3
<1>7. ru \in [ask : Asks, fed : 0..(StopAt - 1)] \cup {None}
  <2>1. CASE run.result.ready
    <3>1. ds.k \in 0..StopAt /\ ds.ask \in Asks /\ a \in Asks
      BY <1>6, <2>1 DEF DecodeStates
    <3> QED BY <3>1, <1>6, <2>1, StateFacts
  <2>2. CASE ~run.result.ready
    BY <1>6, <2>2 DEF Runners
  <2> QED BY <2>1, <2>2
<1>8. q \in Runners
  <2> HIDE DEF ids, ps, ds, ru
  <2> QED BY <1>4, <1>5, <1>7 DEF Runners
<1>9. q.decodeState = ds /\ q.reusable = ru
  BY <1>4
<1>10. Agrees(q)
  <2>1. CASE run.result.ready
    <3>1. /\ ds # None /\ ds.ask \in Asks /\ ds.k \in 0..StopAt
          /\ ds = StateOf(ds.ask, ds.k) /\ ru = ReusableOf(ds.ask, ds.k)
      BY <1>6, <2>1 DEF DecodeStates, StateOf
    <3>2. ru = [ask |-> ds.ask, fed |-> Fed(ds)]
      BY <3>1, StateFacts
    <3> QED BY <3>1, <3>2, <1>9 DEF Agrees
  <2>2. CASE ~run.result.ready
    BY <1>6, <1>9, <2>2 DEF Agrees
  <2> QED BY <2>1, <2>2
<1> QED BY <1>8, <1>10

LEMMA PrimeOutcomesKeep ==
  ASSUME NEW r \in Runners, Agrees(r), NEW a \in Asks, NEW n \in Nat,
         primeMode \in Modes, NEW q \in PrimeOutcomes(r, a, n)
  PROVE  q \in Runners /\ Agrees(q)
<1>1. CASE q = r
  BY <1>1
<1>2. CASE \E run \in PrimeRuns(a, n) : q = AfterPrime(r, a, run)
  BY <1>2, AfterPrimeKeeps
<1> QED BY <1>1, <1>2 DEF PrimeOutcomes

LEMMA AtRequestKeeps ==
  ASSUME Inv, NEW a \in Asks, NEW max \in 1..MaxNew, NEW r \in AtRequest(a, max)
  PROVE  r \in Runners /\ Agrees(r) /\ max \in Nat
<1>1. max \in Nat
  BY ConstantsAssumption
<1>2. r = Entered \/ r \in PrimeOutcomes(Entered, a, max)
  BY DEF AtRequest
<1> QED BY <1>1, <1>2, EnteredFacts, PrimeOutcomesKeep DEF Inv

-----------------------------------------------------------------------------
(* Every operation keeps the invariant                                     *)

LEMMA StartKeeps == Inv /\ StartWarmRunner => Inv'
<1> SUFFICES ASSUME Inv, StartWarmRunner PROVE Inv'
  OBVIOUS
<1>1. \/ runner' = Entered
      \/ \E a \in Asks, n \in CacheTokens : runner' \in PrimeOutcomes(Entered, a, n)
  BY DEF StartWarmRunner
<1>2. runner' \in Runners /\ Agrees(runner')
  BY <1>1, EnteredFacts, PrimeOutcomesKeep, ConstantsAssumption DEF Inv
<1> QED BY <1>2 DEF Inv, StartWarmRunner, AnswerOK

LEMMA StopKeeps == Inv /\ StopWarmRunner => Inv'
  BY DEF Inv, StopWarmRunner, AnswerOK

LEMMA BlockKeeps ==
  ASSUME Inv, NEW a \in Asks, NEW max \in 1..MaxNew, BlockRequest(a, max)
  PROVE  Inv'
<1>1. runner' \in Runners /\ Agrees(runner')
  BY EnteredFacts DEF BlockRequest
<1>2. AnswerOK'
  BY ConstantsAssumption DEF BlockRequest, Answered, AnswerOK
<1> QED BY <1>1, <1>2 DEF Inv, BlockRequest

LEMMA ServeKeeps ==
  ASSUME Inv, NEW a \in Asks, NEW max \in 1..MaxNew, ServePrimed(a, max)
  PROVE  Inv'
<1>1. PICK r \in AtRequest(a, max), ok \in BOOLEAN :
        /\ CachedPrimeGenerated(r, a, max)
        /\ runner' = r
        /\ Answered("primed", ok, a, max, SubSeq(r.primeIds, 1, max))
        /\ primeMode' = primeMode
  BY DEF ServePrimed
<1>2. r \in Runners /\ Agrees(r) /\ max \in Nat
  BY AtRequestKeeps
<1>3. Len(SubSeq(r.primeIds, 1, max)) <= max
  <2>1. max <= Len(r.primeIds) /\ r.primeIds \in Seq(Tokens)
    BY <1>1, <1>2 DEF CachedPrimeGenerated, Runners
  <2> QED BY <1>2, <2>1, SubSeqProperties
<1>4. AnswerOK'
  BY <1>1, <1>3 DEF Answered, AnswerOK
<1> QED BY <1>1, <1>2, <1>4 DEF Inv

LEMMA DecodeRaisesKeeps ==
  ASSUME Inv, NEW a \in Asks, NEW max \in 1..MaxNew, DecodeRaises(a, max)
  PROVE  Inv'
<1>1. PICK r \in AtRequest(a, max) :
        runner' = r /\ Answered("decoded", FALSE, a, max, <<>>) /\ primeMode' = primeMode
  BY DEF DecodeRaises
<1>2. r \in Runners /\ Agrees(r) /\ max \in Nat
  BY AtRequestKeeps
<1>3. AnswerOK'
  BY <1>1, <1>2 DEF Answered, AnswerOK
<1> QED BY <1>1, <1>2, <1>3 DEF Inv

LEMMA DecodeKeeps ==
  ASSUME Inv, NEW a \in Asks, NEW max \in 1..MaxNew, DecodeRequest(a, max)
  PROVE  Inv'
<1>1. PICK r \in AtRequest(a, max), l \in DecodeLoops(a, Least(max, AgentCap)) :
        /\ runner' = [r EXCEPT
             !.decodeState = IF l.ready THEN l.state ELSE None,
             !.reusable = IF l.ready THEN ReusableOf(a, l.state.k) ELSE None]
        /\ Answered("decoded", l.ready, a, max, l.ids)
        /\ primeMode' = primeMode
  BY DEF DecodeRequest
<1>2. r \in Runners /\ Agrees(r) /\ max \in Nat /\ max >= 1
  BY AtRequestKeeps
<1>3. /\ Least(max, AgentCap) \in Nat /\ Least(max, AgentCap) <= max
      /\ Least(max, AgentCap) >= 1
  BY <1>2, LeastFacts, ConstantsAssumption
<1>4. PICK m \in 0..StopAt : /\ m <= Least(max, AgentCap)
                             /\ l = Loop(a, m, l.ready)
                             /\ l.ready \in BOOLEAN
                             /\ l.ready => m >= 1
  BY <1>3, LoopFacts
<1>5. l.ids = Chain(a, m) /\ (l.ready => l.state = StateOf(a, m))
  BY <1>4 DEF Loop
<1>6. runner' \in Runners
  <2> DEFINE ds == IF l.ready THEN l.state ELSE None
             ru == IF l.ready THEN ReusableOf(a, l.state.k) ELSE None
  <2>1. ds \in States /\ ru \in [ask : Asks, fed : 0..(StopAt - 1)] \cup {None}
    <3>1. CASE l.ready
      <4>1. ds = StateOf(a, m) /\ ru = ReusableOf(a, m)
        BY <1>5, <3>1, StateFacts
      <4>2. StateOf(a, m) \in DecodeStates /\ ReusableOf(a, m) \in [ask : Asks, fed : 0..(StopAt - 1)]
        BY StateFacts
      <4> QED BY <4>1, <4>2 DEF States, DecodeStates
    <3>2. CASE ~l.ready
      BY <3>2 DEF States
    <3> QED BY <3>1, <3>2
  <2>2. runner' = [r EXCEPT !.decodeState = ds, !.reusable = ru]
    BY <1>1
  <2> HIDE DEF ds, ru
  <2> QED BY <1>2, <2>1, <2>2 DEF Runners
<1>7. Agrees(runner')
  <2>1. /\ runner'.decodeState = IF l.ready THEN l.state ELSE None
        /\ runner'.reusable = IF l.ready THEN ReusableOf(a, l.state.k) ELSE None
    BY <1>1, <1>2 DEF Runners
  <2> QED BY <1>4, <1>5, <2>1, StateFacts DEF Agrees
<1>8. AnswerOK'
  <2>1. Len(l.ids) <= max
    BY <1>2, <1>3, <1>4, <1>5, ChainFacts
  <2> QED BY <1>1, <2>1 DEF Answered, AnswerOK
<1> QED BY <1>1, <1>6, <1>7, <1>8 DEF Inv

\* The continued answer is at most as long as asked, and the state it ends in
\* is still one of the greedy chain.
LEMMA ContinueKeeps ==
  ASSUME Inv, NEW a \in Asks, NEW max \in 1..MaxNew, ContinuePrimed(a, max)
  PROVE  Inv'
<1>1. PICK r \in AtRequest(a, max) : \E ok \in BOOLEAN :
        /\ CanContinuePrimed(r, a, max)
        /\ LET s == ContinuedFrom(r)
               full == Least(max - Len(r.primeIds), StopAt - s.k)
               steps == [i \in 1..full |-> [ask |-> s.ask, k |-> s.k + i]]
               last == StateOf(s.ask, s.k + full)
           IN IF ok
              THEN /\ runner' = [r EXCEPT !.primeState = last, !.decodeState = last,
                                          !.reusable = ReusableOf(last.ask, last.k)]
                   /\ Answered("continued", TRUE, a, max, r.primeIds \o steps)
              ELSE /\ runner' = r
                   /\ \E m \in 0..full :
                        Answered("continued", FALSE, a, max,
                                 r.primeIds \o SubSeq(steps, 1, m))
        /\ primeMode' = primeMode
  BY DEF ContinuePrimed
<1> DEFINE s == r.primeState
           full == Least(max - Len(r.primeIds), StopAt - s.k)
           steps == [i \in 1..full |-> [ask |-> s.ask, k |-> s.k + i]]
           last == StateOf(s.ask, s.k + full)
<1>2. r \in Runners /\ Agrees(r) /\ max \in Nat
  BY AtRequestKeeps
<1>3. CanContinuePrimed(r, a, max) /\ ContinuedFrom(r) = s
  BY <1>1 DEF ContinuedFrom
<1>4. /\ r.primeIds \in Seq(Tokens) /\ Len(r.primeIds) \in Nat /\ max > Len(r.primeIds)
      /\ s \in DecodeStates /\ s.ask \in Asks /\ s.k \in 0..StopAt
  BY <1>2, <1>3 DEF CanContinuePrimed, Runners, States, DecodeStates
<1>5. StopAt \in Nat /\ max - Len(r.primeIds) \in Nat /\ StopAt - s.k \in Nat
  BY <1>2, <1>4, ConstantsAssumption
<1>6. full \in Nat /\ full <= max - Len(r.primeIds) /\ full <= StopAt - s.k
  BY <1>5, LeastFacts
<1>7. s.k + full \in 0..StopAt
  BY <1>4, <1>5, <1>6
<1>8. /\ last \in DecodeStates /\ last # None
      /\ last.ask = s.ask /\ last.k = s.k + full
      /\ ReusableOf(last.ask, last.k) = [ask |-> last.ask, fed |-> Fed(last)]
      /\ ReusableOf(last.ask, last.k) \in [ask : Asks, fed : 0..(StopAt - 1)]
  BY <1>4, <1>7, StateFacts
<1>9. steps \in Seq(Tokens) /\ Len(steps) = full
  <2> HIDE DEF full
  <2>1. \A i \in 1..full : [ask |-> s.ask, k |-> s.k + i] \in Tokens
    BY <1>4, <1>5, <1>6 DEF Tokens
  <2>2. steps \in [1..full -> Tokens]
    BY <2>1
  <2>3. steps \in Seq(Tokens)
    BY <1>6, <2>2
  <2> QED BY <1>6, <2>2, <2>3, LenProperties
<1>10. primeMode' = primeMode
  BY <1>1
<1> HIDE DEF full, steps, last
<1>11. CASE /\ runner' = [r EXCEPT !.primeState = last, !.decodeState = last,
                                   !.reusable = ReusableOf(last.ask, last.k)]
            /\ Answered("continued", TRUE, a, max, r.primeIds \o steps)
  <2>1. runner' \in Runners
    BY <1>2, <1>8, <1>11 DEF Runners, States, DecodeStates
  <2>2. /\ runner'.decodeState = last
        /\ runner'.reusable = [ask |-> last.ask, fed |-> Fed(last)]
    BY <1>2, <1>8, <1>11 DEF Runners
  <2>3. Agrees(runner')
    BY <2>2, <1>8 DEF Agrees
  <2>4. Len(r.primeIds \o steps) = Len(r.primeIds) + full
    BY <1>4, <1>9, ConcatProperties
  <2>5. Len(r.primeIds \o steps) <= max
    BY <1>2, <1>4, <1>6, <2>4
  <2>6. AnswerOK'
    BY <1>11, <2>5 DEF Answered, AnswerOK
  <2> QED BY <1>10, <2>1, <2>3, <2>6 DEF Inv
<1>12. CASE /\ runner' = r
            /\ \E m \in 0..full :
                 Answered("continued", FALSE, a, max, r.primeIds \o SubSeq(steps, 1, m))
  <2>1. PICK m \in 0..full :
          Answered("continued", FALSE, a, max, r.primeIds \o SubSeq(steps, 1, m))
    BY <1>12
  <2>2. \A i \in 1..m : steps[i] \in Tokens
    BY <1>6, <1>9, ElementOfSeq
  <2>3. SubSeq(steps, 1, m) \in Seq(Tokens) /\ Len(SubSeq(steps, 1, m)) = m /\ m <= full
    BY <1>6, <2>2, SubSeqProperties
  <2> DEFINE taken == SubSeq(steps, 1, m)
  <2> HIDE DEF taken
  <2>4. Len(r.primeIds \o taken) = Len(r.primeIds) + m
    <3>1. taken \in Seq(Tokens) /\ Len(taken) = m
      BY <2>3 DEF taken
    <3> QED BY <1>4, <3>1, ConcatProperties
  <2>5. Len(r.primeIds \o taken) <= max
    BY <1>2, <1>4, <1>6, <2>3, <2>4
  <2>6. AnswerOK'
    BY <2>1, <2>5 DEF Answered, AnswerOK, taken
  <2> QED BY <1>2, <1>10, <1>12, <2>6 DEF Inv
<1> QED BY <1>1, <1>3, <1>11, <1>12 DEF full, steps, last

-----------------------------------------------------------------------------
(* The theorems                                                            *)

LEMMA InitInv == Init => Inv
  BY DEF Init, Inv, AnswerOK, NoAnswer

LEMMA StepInv == Inv /\ [Next]_vars => Inv'
<1> SUFFICES ASSUME Inv, [Next]_vars PROVE Inv'
  OBVIOUS
<1>1. CASE StartWarmRunner
  BY <1>1, StartKeeps
<1>2. CASE StopWarmRunner
  BY <1>2, StopKeeps
<1>3. ASSUME NEW a \in Asks, NEW max \in 1..MaxNew,
             \/ BlockRequest(a, max) \/ ServePrimed(a, max) \/ ContinuePrimed(a, max)
             \/ DecodeRequest(a, max) \/ DecodeRaises(a, max)
      PROVE  Inv'
  BY <1>3, BlockKeeps, ServeKeeps, ContinueKeeps, DecodeKeeps, DecodeRaisesKeeps
<1>4. CASE UNCHANGED vars
  BY <1>4 DEF vars, Inv, AnswerOK
<1> QED BY <1>1, <1>2, <1>3, <1>4 DEF Next

\* Every reachable state satisfies the invariant.
THEOREM Invariance == Spec => []Inv
  BY InitInv, StepInv, PTL DEF Spec

\* For any prompts, limits and modes, the runner and the last answer keep their
\* shape: no state past the end of a chain, no answer longer than asked.
THEOREM TypeCorrect == Spec => []TypeOK
<1>1. Inv => TypeOK
  BY DEF Inv, AnswerOK, TypeOK, Runners
<1> QED BY <1>1, Invariance, PTL

\* For any prompts, limits and modes, the token ids kept for prefix matching are
\* those the kept KV state holds rows for, after every prime, request and stop.
THEOREM KeptIdsMatchState == Spec => []ReusableMatchesState
<1>1. Inv => ReusableMatchesState
  BY DEF Inv, Agrees, ReusableMatchesState
<1> QED BY <1>1, Invariance, PTL

-----------------------------------------------------------------------------
(* The primed tokens.  When every prime caches at least one token, a primed *)
(* runner holds a beginning of the chain of the ask it was primed with: in  *)
(* prefill mode the caching loop replaces what a failed prime left, and in  *)
(* generate mode a failed prime leaves nothing.                             *)

OwnPrime(r) ==
  /\ r.primed => /\ r.primeAsk \in Asks
                 /\ \E m \in 0..StopAt : r.primeIds = Chain(r.primeAsk, m)
  /\ primeMode = "generate" /\ ~r.primed => r.primeIds = <<>>

PrimeInv ==
  /\ runner = None \/ OwnPrime(runner)
  /\ PrimedAnswersGreedy

LEMMA EmptyChain == ASSUME NEW a PROVE Chain(a, 0) = <<>>
  BY DEF Chain

LEMMA AfterPrimeOwn ==
  ASSUME NEW r \in Runners, OwnPrime(r), ~r.primed, NEW a \in Asks, NEW n \in Nat,
         n # 0, NEW run \in PrimeRuns(a, n)
  PROVE  OwnPrime(AfterPrime(r, a, run))
<1> DEFINE q == AfterPrime(r, a, run)
<1>1. CASE primeMode = "generate"
  <2>1. PICK l \in DecodeLoops(a, 1) : run = [result |-> l, cached |-> None]
    BY <1>1 DEF PrimeRuns
  <2>2. PICK m \in 0..StopAt : l = Loop(a, m, l.ready) /\ (~l.ready => m = 0)
    BY LoopFacts
  <2>3. l.ids = Chain(a, m)
    BY <2>2 DEF Loop
  <2>4. r.primeIds = <<>>
    BY <1>1 DEF OwnPrime
  <2>5. q.primed = l.ready /\ q.primeAsk = a /\ q.primeIds = l.ids
    BY <2>1, <2>4 DEF AfterPrime
  <2> QED BY <2>2, <2>3, <2>5, EmptyChain DEF OwnPrime
<1>2. CASE primeMode # "generate"
  <2>1. CASE run.result.ready
    <3>1. /\ run # [result |-> PrefillFailed, cached |-> None]
          /\ \A l : ~l.ready => run # [result |-> l, cached |-> None]
      BY <2>1 DEF PrefillFailed
    <3>2. \E l \in DecodeLoops(a, n) :
            run = IF l.ready THEN [result |-> Prefilled(a), cached |-> l]
                             ELSE [result |-> l, cached |-> None]
      <4>1. \/ run = [result |-> PrefillFailed, cached |-> None]
            \/ n = 0
            \/ \E l \in DecodeLoops(a, n) :
                 run = IF l.ready THEN [result |-> Prefilled(a), cached |-> l]
                                  ELSE [result |-> l, cached |-> None]
        BY <1>2 DEF PrimeRuns
      <4> QED BY <3>1, <4>1
    <3>3. PICK l \in DecodeLoops(a, n) : l.ready /\ run = [result |-> Prefilled(a), cached |-> l]
      BY <3>1, <3>2
    <3>4. PICK m \in 0..StopAt : l = Loop(a, m, l.ready) /\ m >= 1 /\ l.ready \in BOOLEAN
      <4>1. n >= 1
        OBVIOUS
      <4> QED BY <3>3, <4>1, LoopFacts
    <3>5. l.ids = Chain(a, m) /\ l.ids # <<>>
      <4>1. l.ids = Chain(a, m)
        BY <3>4 DEF Loop
      <4> QED BY <3>4, <4>1, ChainFacts
    <3>6. l # None
      <4>1. l.state \in States
        BY <3>4, StateFacts DEF Loop, States, DecodeStates
      <4>2. l.ids \in Seq(Tokens)
        BY <3>5, ChainFacts
      <4>3. l = [ready |-> l.ready, ids |-> l.ids, state |-> l.state] /\ l.ready \in BOOLEAN
        BY <3>3, <3>4 DEF Loop
      <4>4. l \in [ready : BOOLEAN, ids : Seq(Tokens), state : States]
        BY <4>1, <4>2, <4>3
      <4> QED BY <4>4, NoneAssumption
    <3>7. q.primeAsk = a /\ q.primeIds = l.ids
      BY <3>3, <3>5, <3>6 DEF AfterPrime
    <3> QED BY <1>2, <3>5, <3>7 DEF OwnPrime
  <2>2. CASE ~run.result.ready
    BY <1>2, <2>2 DEF AfterPrime, OwnPrime
  <2> QED BY <2>1, <2>2
<1> QED BY <1>1, <1>2

LEMMA PrimeOutcomesOwn ==
  ASSUME NEW r \in Runners, OwnPrime(r), NEW a \in Asks, NEW n \in Nat, n # 0,
         NEW q \in PrimeOutcomes(r, a, n)
  PROVE  OwnPrime(q)
<1>1. CASE q = r
  BY <1>1
<1>2. CASE ~r.primed /\ \E run \in PrimeRuns(a, n) : q = AfterPrime(r, a, run)
  BY <1>2, AfterPrimeOwn
<1> QED BY <1>1, <1>2 DEF PrimeOutcomes

LEMMA EnteredOwn ==
  ASSUME PrimeInv
  PROVE  OwnPrime(Entered)
<1>1. OwnPrime(Fresh)
  BY DEF OwnPrime, Fresh
<1> QED BY <1>1 DEF PrimeInv, Entered

LEMMA AtRequestOwn ==
  ASSUME Inv, PrimeInv, NEW a \in Asks, NEW max \in 1..MaxNew, NEW r \in AtRequest(a, max)
  PROVE  r \in Runners /\ OwnPrime(r)
<1>1. max \in Nat /\ max # 0
  BY ConstantsAssumption
<1>2. r = Entered \/ r \in PrimeOutcomes(Entered, a, max)
  BY DEF AtRequest
<1>3. Entered \in Runners /\ OwnPrime(Entered)
  BY EnteredFacts, EnteredOwn
<1>4. r \in Runners
  BY AtRequestKeeps
<1> QED BY <1>1, <1>2, <1>3, <1>4, PrimeOutcomesOwn

\* The tokens cut from a primed runner are the beginning of its ask's chain.
LEMMA ServedIsChain ==
  ASSUME NEW r \in Runners, OwnPrime(r), NEW a \in Asks, NEW max \in Nat,
         CachedPrimeGenerated(r, a, max)
  PROVE  SubSeq(r.primeIds, 1, max) = Chain(a, max)
<1>1. r.primed /\ r.primeIds # <<>> /\ max <= Len(r.primeIds)
  BY DEF CachedPrimeGenerated, MatchesPrime
<1>2. PICK m \in 0..StopAt : r.primeIds = Chain(r.primeAsk, m)
  BY <1>1 DEF OwnPrime
<1>3. r.primeAsk = a
  <2>1. r.primeAsk \in Asks
    BY <1>1 DEF OwnPrime
  <2>2. r.primeAsk.prompt = a.prompt /\ r.primeAsk.chat = a.chat
    BY DEF CachedPrimeGenerated, MatchesPrime
  <2> QED BY <2>1, <2>2 DEF Asks
<1>4. r.primeIds = Chain(a, m)
  BY <1>2, <1>3
<1>5. r.primeIds \in Seq(Tokens) /\ Len(r.primeIds) = m /\ m \in Nat
  BY <1>4, ChainFacts, ConstantsAssumption
<1>6. max <= m /\ max \in 0..StopAt
  BY <1>1, <1>5, ConstantsAssumption
<1>7. /\ \A i \in 1..max : r.primeIds[i] = [ask |-> a, k |-> i]
      /\ \A i \in 1..max : r.primeIds[i] \in Tokens
  BY <1>4, <1>5, <1>6, ChainFacts, ElementOfSeq
<1> DEFINE cut == SubSeq(r.primeIds, 1, max)
<1>8. /\ cut \in Seq(Tokens) /\ Len(cut) = max
      /\ \A i \in 1..max : cut[i] = r.primeIds[i]
  <2>1. 1 \in Int /\ max \in Int /\ max >= 0
    BY <1>6
  <2>2. Len(cut) = IF 1 <= max THEN max - 1 + 1 ELSE 0
    BY <1>7, <2>1, SubSeqProperties
  <2>3. cut \in Seq(Tokens)
    BY <1>7, <2>1, SubSeqProperties
  <2>4. \A i \in 1..(max - 1 + 1) : cut[i] = r.primeIds[1 + i - 1]
    BY <1>7, <2>1, SubSeqProperties
  <2> HIDE DEF cut
  <2> QED BY <2>1, <2>2, <2>3, <2>4
<1>9. Chain(a, max) \in Seq(Tokens) /\ Len(Chain(a, max)) = max
      /\ \A i \in 1..max : Chain(a, max)[i] = [ask |-> a, k |-> i]
  BY <1>6, ChainFacts
<1> HIDE DEF cut
<1>10. cut = Chain(a, max)
  BY <1>7, <1>8, <1>9, SeqEqual
<1> QED BY <1>10 DEF cut

LEMMA InitPrimeInv == Init => PrimeInv
  BY DEF Init, PrimeInv, PrimedAnswersGreedy, NoAnswer

LEMMA StepPrimeInv ==
  ASSUME 0 \notin CacheTokens
  PROVE  Inv /\ PrimeInv /\ [Next]_vars => PrimeInv'
<1> SUFFICES ASSUME Inv, PrimeInv, [Next]_vars PROVE PrimeInv'
  OBVIOUS
<1>1. CASE StartWarmRunner
  <2>1. \/ runner' = Entered
        \/ \E a \in Asks, n \in CacheTokens : runner' \in PrimeOutcomes(Entered, a, n)
    BY <1>1 DEF StartWarmRunner
  <2>2. \A n \in CacheTokens : n \in Nat /\ n # 0
    BY ConstantsAssumption
  <2>3. OwnPrime(runner')
    BY <2>1, <2>2, EnteredFacts, EnteredOwn, PrimeOutcomesOwn
  <2> QED BY <1>1, <2>3 DEF PrimeInv, OwnPrime, PrimedAnswersGreedy, StartWarmRunner
<1>2. CASE StopWarmRunner
  BY <1>2 DEF PrimeInv, PrimedAnswersGreedy, StopWarmRunner
<1>3. ASSUME NEW a \in Asks, NEW max \in 1..MaxNew, BlockRequest(a, max)
      PROVE  PrimeInv'
  <2>1. OwnPrime(Entered)
    BY EnteredOwn
  <2> QED BY <1>3, <2>1 DEF PrimeInv, OwnPrime, PrimedAnswersGreedy, BlockRequest, Answered
<1>4. ASSUME NEW a \in Asks, NEW max \in 1..MaxNew, ServePrimed(a, max)
      PROVE  PrimeInv'
  <2>1. PICK r \in AtRequest(a, max), ok \in BOOLEAN :
          /\ CachedPrimeGenerated(r, a, max)
          /\ runner' = r
          /\ Answered("primed", ok, a, max, SubSeq(r.primeIds, 1, max))
          /\ primeMode' = primeMode
    BY <1>4 DEF ServePrimed
  <2>2. r \in Runners /\ OwnPrime(r) /\ max \in Nat
    BY AtRequestOwn, ConstantsAssumption
  <2>3. SubSeq(r.primeIds, 1, max) = Chain(a, max)
    BY <2>1, <2>2, ServedIsChain
  <2> QED BY <2>1, <2>2, <2>3 DEF PrimeInv, OwnPrime, PrimedAnswersGreedy, Answered
<1>5. ASSUME NEW a \in Asks, NEW max \in 1..MaxNew, ContinuePrimed(a, max)
      PROVE  PrimeInv'
  <2>1. PICK r \in AtRequest(a, max), ok \in BOOLEAN :
          /\ LET s == ContinuedFrom(r)
                 full == Least(max - Len(r.primeIds), StopAt - s.k)
                 steps == [i \in 1..full |-> [ask |-> s.ask, k |-> s.k + i]]
                 last == StateOf(s.ask, s.k + full)
             IN IF ok
                THEN /\ runner' = [r EXCEPT !.primeState = last, !.decodeState = last,
                                            !.reusable = ReusableOf(last.ask, last.k)]
                     /\ Answered("continued", TRUE, a, max, r.primeIds \o steps)
                ELSE /\ runner' = r
                     /\ \E m \in 0..full :
                          Answered("continued", FALSE, a, max,
                                   r.primeIds \o SubSeq(steps, 1, m))
          /\ primeMode' = primeMode
    BY <1>5 DEF ContinuePrimed
  <2>2. r \in Runners /\ OwnPrime(r)
    BY AtRequestOwn
  <2>3. /\ runner'.primed = r.primed /\ runner'.primeAsk = r.primeAsk
        /\ runner'.primeIds = r.primeIds
        /\ answer'.how = "continued"
    <3>1. CASE ok
      <4> DEFINE s == ContinuedFrom(r)
                 last == StateOf(s.ask, s.k + Least(max - Len(r.primeIds), StopAt - s.k))
                 kept == ReusableOf(last.ask, last.k)
                 tokens == r.primeIds \o
                   [i \in 1..Least(max - Len(r.primeIds), StopAt - s.k) |->
                      [ask |-> s.ask, k |-> s.k + i]]
      <4>1. runner' = [r EXCEPT !.primeState = last, !.decodeState = last, !.reusable = kept]
        BY <2>1, <3>1
      <4>2. answer'.how = "continued"
        <5>1. Answered("continued", TRUE, a, max, tokens)
          BY <2>1, <3>1
        <5> HIDE DEF tokens
        <5> QED BY <5>1 DEF Answered
      <4> HIDE DEF last, kept
      <4> QED BY <2>2, <4>1, <4>2 DEF Runners
    <3>2. CASE ~ok
      <4>1. runner' = r
        BY <2>1, <3>2
      <4>2. answer'.how = "continued"
        BY <2>1, <3>2 DEF Answered
      <4> QED BY <4>1, <4>2
    <3> QED BY <3>1, <3>2
  <2> QED BY <2>1, <2>2, <2>3 DEF PrimeInv, OwnPrime, PrimedAnswersGreedy
<1>6. ASSUME NEW a \in Asks, NEW max \in 1..MaxNew, DecodeRequest(a, max)
      PROVE  PrimeInv'
  <2>1. PICK r \in AtRequest(a, max), l \in DecodeLoops(a, Least(max, AgentCap)) :
          /\ runner' = [r EXCEPT
               !.decodeState = IF l.ready THEN l.state ELSE None,
               !.reusable = IF l.ready THEN ReusableOf(a, l.state.k) ELSE None]
          /\ Answered("decoded", l.ready, a, max, l.ids)
          /\ primeMode' = primeMode
    BY <1>6 DEF DecodeRequest
  <2>2. r \in Runners /\ OwnPrime(r)
    BY AtRequestOwn
  <2>3. /\ runner'.primed = r.primed /\ runner'.primeAsk = r.primeAsk
        /\ runner'.primeIds = r.primeIds
        /\ answer'.how = "decoded"
    BY <2>1, <2>2 DEF Runners, Answered
  <2> QED BY <2>1, <2>2, <2>3 DEF PrimeInv, OwnPrime, PrimedAnswersGreedy
<1>7. ASSUME NEW a \in Asks, NEW max \in 1..MaxNew, DecodeRaises(a, max)
      PROVE  PrimeInv'
  <2>1. PICK r \in AtRequest(a, max) :
          runner' = r /\ answer'.how = "decoded" /\ primeMode' = primeMode
    BY <1>7 DEF DecodeRaises, Answered
  <2>2. OwnPrime(r)
    BY AtRequestOwn
  <2> QED BY <2>1, <2>2 DEF PrimeInv, OwnPrime, PrimedAnswersGreedy
<1>8. CASE UNCHANGED vars
  BY <1>8 DEF vars, PrimeInv, OwnPrime, PrimedAnswersGreedy
<1> QED BY <1>1, <1>2, <1>3, <1>4, <1>5, <1>6, <1>7, <1>8 DEF Next

\* When every prime caches at least one token, an answer cut from the primed
\* tokens is the beginning of the greedy answer to the ask it is given for, for
\* any prompts and limits, in both prime modes and with or without automatic
\* primes.  Without the premise the run WarmRunnerStale refutes it.
THEOREM PrimedAnswersAreOwn ==
  ASSUME 0 \notin CacheTokens
  PROVE  Spec => []PrimedAnswersGreedy
<1>1. Spec => []PrimeInv
  BY Invariance, InitPrimeInv, StepPrimeInv, PTL DEF Spec
<1>2. PrimeInv => PrimedAnswersGreedy
  BY DEF PrimeInv
<1> QED BY <1>1, <1>2, PTL
-----------------------------------------------------------------------------
(* The state kept with the primed tokens.  It is a state of the same ask,   *)
(* at or past the last of these tokens: at it after the prime, past it      *)
(* after a continuation.                                                    *)

OwnState(r) ==
  /\ r.primed /\ r.primeState # None =>
       r.primeState.ask = r.primeAsk /\ Len(r.primeIds) <= r.primeState.k
  /\ primeMode = "generate" /\ ~r.primed => r.primeState = None

ForwardInv ==
  /\ runner = None \/ OwnState(runner)
  /\ AnswersMoveForward

\* What a loop for at least one token returns when it is ready.
LEMMA ReadyLoop ==
  ASSUME NEW a \in Asks, NEW n \in Nat, n # 0, NEW l \in DecodeLoops(a, n), l.ready
  PROVE  /\ l # None /\ l.ids # <<>> /\ l.state # None
         /\ l.state.ask = a /\ Len(l.ids) <= l.state.k
<1>1. PICK m \in 0..StopAt : l = Loop(a, m, l.ready) /\ m >= 1 /\ l.ready \in BOOLEAN
  <2>1. n >= 1
    OBVIOUS
  <2> QED BY <2>1, LoopFacts
<1>2. l.ids = Chain(a, m) /\ l.state = StateOf(a, m)
  BY <1>1 DEF Loop
<1>3. Chain(a, m) \in Seq(Tokens) /\ Len(Chain(a, m)) = m
  BY ChainFacts
<1>4. StateOf(a, m) \in States /\ StateOf(a, m) # None
      /\ StateOf(a, m).ask = a /\ StateOf(a, m).k = m
  BY StateFacts DEF States, DecodeStates
<1>5. l # None
  <2>1. l = [ready |-> l.ready, ids |-> l.ids, state |-> l.state]
    BY <1>1, <1>2 DEF Loop
  <2>2. l \in [ready : BOOLEAN, ids : Seq(Tokens), state : States]
    BY <1>1, <1>2, <1>3, <1>4, <2>1
  <2> QED BY <2>2, NoneAssumption
<1>6. m \in Nat /\ m >= 1 /\ Len(<<>>) = 0
  BY <1>1, ConstantsAssumption
<1> QED BY <1>2, <1>3, <1>4, <1>5, <1>6

LEMMA AfterPrimeState ==
  ASSUME NEW r \in Runners, OwnPrime(r), OwnState(r), ~r.primed, NEW a \in Asks,
         NEW n \in Nat, n # 0, NEW run \in PrimeRuns(a, n)
  PROVE  OwnState(AfterPrime(r, a, run))
<1> DEFINE q == AfterPrime(r, a, run)
<1>1. CASE primeMode = "generate"
  <2>1. PICK l \in DecodeLoops(a, 1) : run = [result |-> l, cached |-> None]
    BY <1>1 DEF PrimeRuns
  <2>2. r.primeIds = <<>> /\ r.primeState = None
    BY <1>1 DEF OwnPrime, OwnState
  <2>3. /\ q.primed = l.ready /\ q.primeAsk = a /\ q.primeIds = l.ids
        /\ q.primeState = IF l.ids # <<>> THEN l.state ELSE None
    BY <2>1, <2>2 DEF AfterPrime
  <2>4. CASE l.ready
    <3>1. /\ l.ids # <<>> /\ l.state # None
          /\ l.state.ask = a /\ Len(l.ids) <= l.state.k
      BY <2>4, ReadyLoop
    <3> QED BY <2>3, <2>4, <3>1 DEF OwnState
  <2>5. CASE ~l.ready
    <3>1. PICK m \in 0..StopAt : l = Loop(a, m, l.ready) /\ m = 0
      BY <2>5, LoopFacts
    <3>2. l.ids = Chain(a, 0)
      BY <3>1 DEF Loop
    <3> QED BY <2>3, <2>5, <3>2, EmptyChain DEF OwnState
  <2> QED BY <2>4, <2>5
<1>2. CASE primeMode # "generate"
  <2>1. CASE run.result.ready
    <3>1. /\ run # [result |-> PrefillFailed, cached |-> None]
          /\ \A l : ~l.ready => run # [result |-> l, cached |-> None]
      BY <2>1 DEF PrefillFailed
    <3>2. \E l \in DecodeLoops(a, n) :
            run = IF l.ready THEN [result |-> Prefilled(a), cached |-> l]
                             ELSE [result |-> l, cached |-> None]
      <4>1. \/ run = [result |-> PrefillFailed, cached |-> None]
            \/ n = 0
            \/ \E l \in DecodeLoops(a, n) :
                 run = IF l.ready THEN [result |-> Prefilled(a), cached |-> l]
                                  ELSE [result |-> l, cached |-> None]
        BY <1>2 DEF PrimeRuns
      <4> QED BY <3>1, <4>1
    <3>3. PICK l \in DecodeLoops(a, n) : l.ready /\ run = [result |-> Prefilled(a), cached |-> l]
      BY <3>1, <3>2
    <3>4. /\ l # None /\ l.ids # <<>> /\ l.state # None
          /\ l.state.ask = a /\ Len(l.ids) <= l.state.k
      BY <3>3, ReadyLoop
    <3>5. q.primeAsk = a /\ q.primeIds = l.ids /\ q.primeState = l.state
      BY <3>3, <3>4 DEF AfterPrime
    <3> QED BY <1>2, <3>4, <3>5 DEF OwnState
  <2>2. CASE ~run.result.ready
    BY <1>2, <2>2 DEF AfterPrime, OwnState
  <2> QED BY <2>1, <2>2
<1> QED BY <1>1, <1>2

LEMMA AtRequestState ==
  ASSUME Inv, PrimeInv, ForwardInv, NEW a \in Asks, NEW n \in Nat, n # 0
  PROVE  /\ OwnState(Entered)
         /\ \A q \in PrimeOutcomes(Entered, a, n) : OwnState(q)
         /\ \A q \in AtRequest(a, n) : OwnState(q)
<1>1. Entered \in Runners /\ OwnPrime(Entered)
  BY EnteredFacts, EnteredOwn
<1>2. OwnState(Entered)
  <2>1. OwnState(Fresh)
    BY DEF OwnState, Fresh
  <2> QED BY <2>1 DEF ForwardInv, Entered
<1>3. \A q \in PrimeOutcomes(Entered, a, n) : OwnState(q)
  <2>1. ASSUME NEW q \in PrimeOutcomes(Entered, a, n), q # Entered PROVE OwnState(q)
    <3>1. ~Entered.primed /\ \E run \in PrimeRuns(a, n) : q = AfterPrime(Entered, a, run)
      BY <2>1 DEF PrimeOutcomes
    <3> QED BY <1>1, <1>2, <3>1, AfterPrimeState
  <2> QED BY <1>2, <2>1
<1>4. \A q \in AtRequest(a, n) : q = Entered \/ q \in PrimeOutcomes(Entered, a, n)
  BY DEF AtRequest
<1> QED BY <1>2, <1>3, <1>4

\* A beginning of a chain moves forward.
LEMMA ChainForward ==
  ASSUME NEW a \in Asks, NEW m \in 0..StopAt, answer'.ask = a, answer'.tokens = Chain(a, m)
  PROVE  AnswersMoveForward'
<1>1. /\ Chain(a, m) \in Seq(Tokens) /\ Len(Chain(a, m)) = m /\ m \in Nat
      /\ \A i \in 1..m : Chain(a, m)[i] = [ask |-> a, k |-> i]
  BY ChainFacts, ConstantsAssumption
<1>2. \A i \in 1..m : Chain(a, m)[i].ask = a /\ Chain(a, m)[i].k = i
  BY <1>1
<1>3. DOMAIN Chain(a, m) = 1..m
  BY DEF Chain
<1>4. \A i \in 1..m : i > 1 => i - 1 \in 1..m /\ i - 1 < i
  BY <1>1
<1> QED BY <1>2, <1>3, <1>4 DEF AnswersMoveForward

\* The primed tokens of an ask, then tokens of the same ask past them.
LEMMA ContinuedForward ==
  ASSUME NEW a \in Asks, NEW m \in 0..StopAt, NEW j \in Nat, m <= j,
         NEW full \in Nat, NEW steps \in Seq(Tokens), Len(steps) = full,
         \A i \in 1..full : steps[i] = [ask |-> a, k |-> j + i],
         answer'.ask = a, answer'.tokens = Chain(a, m) \o steps
  PROVE  AnswersMoveForward'
<1> DEFINE t == Chain(a, m) \o steps
<1>1. /\ Chain(a, m) \in Seq(Tokens) /\ Len(Chain(a, m)) = m /\ m \in Nat
      /\ \A i \in 1..m : Chain(a, m)[i] = [ask |-> a, k |-> i]
  BY ChainFacts, ConstantsAssumption
<1>2. /\ t \in Seq(Tokens) /\ Len(t) = m + full
      /\ \A i \in 1..(m + full) :
            t[i] = IF i <= m THEN Chain(a, m)[i] ELSE steps[i - m]
  <2> DEFINE c == Chain(a, m)
  <2> HIDE DEF c
  <2>1. c \in Seq(Tokens) /\ Len(c) = m
    BY <1>1 DEF c
  <2>2. /\ c \o steps \in Seq(Tokens) /\ Len(c \o steps) = m + full
        /\ \A i \in 1..(m + full) : (c \o steps)[i] = IF i <= m THEN c[i] ELSE steps[i - m]
    BY <2>1, ConcatProperties
  <2> QED BY <2>2 DEF c
<1> HIDE DEF t
<1>3. \A i \in 1..(m + full) :
         t[i].ask = a /\ t[i].k = IF i <= m THEN i ELSE j + (i - m)
  <2> SUFFICES ASSUME NEW i \in 1..(m + full)
               PROVE  t[i].ask = a /\ t[i].k = IF i <= m THEN i ELSE j + (i - m)
    OBVIOUS
  <2>1. CASE i <= m
    <3>1. i \in 1..m
      BY <1>1, <2>1
    <3>2. t[i] = [ask |-> a, k |-> i]
      BY <1>1, <1>2, <2>1, <3>1
    <3> QED BY <2>1, <3>2
  <2>2. CASE ~(i <= m)
    <3>1. i - m \in 1..full
      BY <1>1, <2>2
    <3>2. t[i] = [ask |-> a, k |-> j + (i - m)]
      BY <1>1, <1>2, <2>2, <3>1
    <3> QED BY <2>2, <3>2
  <2> QED BY <2>1, <2>2
<1>4. DOMAIN t = 1..(m + full)
  BY <1>1, <1>2
<1>5. \A i \in 1..(m + full) : i > 1 => t[i - 1].k < t[i].k
  <2> SUFFICES ASSUME NEW i \in 1..(m + full), i > 1
               PROVE  t[i - 1].k < t[i].k
    OBVIOUS
  <2>1. i - 1 \in 1..(m + full) /\ i \in Nat
    BY <1>1
  <2>2. /\ t[i].k = IF i <= m THEN i ELSE j + (i - m)
        /\ t[i - 1].k = IF i - 1 <= m THEN i - 1 ELSE j + (i - 1 - m)
    BY <1>3, <2>1
  <2> QED BY <1>1, <2>1, <2>2
<1>6. answer'.tokens = t
  BY DEF t
<1> QED BY <1>3, <1>4, <1>5, <1>6 DEF AnswersMoveForward

LEMMA ContinueForward ==
  ASSUME Inv, PrimeInv, ForwardInv, NEW a \in Asks, NEW max \in 1..MaxNew,
         ContinuePrimed(a, max)
  PROVE  ForwardInv'
<1>1. PICK r \in AtRequest(a, max) : \E ok \in BOOLEAN :
        /\ CanContinuePrimed(r, a, max)
        /\ LET s == ContinuedFrom(r)
               full == Least(max - Len(r.primeIds), StopAt - s.k)
               steps == [i \in 1..full |-> [ask |-> s.ask, k |-> s.k + i]]
               last == StateOf(s.ask, s.k + full)
           IN IF ok
              THEN /\ runner' = [r EXCEPT !.primeState = last, !.decodeState = last,
                                          !.reusable = ReusableOf(last.ask, last.k)]
                   /\ Answered("continued", TRUE, a, max, r.primeIds \o steps)
              ELSE /\ runner' = r
                   /\ \E m \in 0..full :
                        Answered("continued", FALSE, a, max,
                                 r.primeIds \o SubSeq(steps, 1, m))
        /\ primeMode' = primeMode
  BY DEF ContinuePrimed
<1> DEFINE s == r.primeState
           full == Least(max - Len(r.primeIds), StopAt - s.k)
           steps == [i \in 1..full |-> [ask |-> s.ask, k |-> s.k + i]]
           last == StateOf(s.ask, s.k + full)
           kept == ReusableOf(last.ask, last.k)
<1>2. max \in Nat /\ max # 0 /\ StopAt \in Nat
  BY ConstantsAssumption
<1>3. r \in Runners /\ OwnPrime(r) /\ OwnState(r)
  BY <1>2, AtRequestOwn, AtRequestState
<1>4. CanContinuePrimed(r, a, max) /\ ContinuedFrom(r) = s
  BY <1>1 DEF ContinuedFrom
<1>5. /\ r.primed /\ r.primeAsk \in Asks /\ r.primeIds \in Seq(Tokens)
      /\ s # None /\ s \in DecodeStates /\ s.k \in 0..StopAt
      /\ r.primeAsk.prompt = a.prompt /\ r.primeAsk.chat = a.chat /\ max > Len(r.primeIds)
  BY <1>3, <1>4 DEF CanContinuePrimed, MatchesPrime, OwnPrime, Runners, States, DecodeStates
<1>6. r.primeAsk = a
  BY <1>5 DEF Asks
<1>7. s.ask = a /\ Len(r.primeIds) <= s.k
  BY <1>3, <1>5, <1>6 DEF OwnState
<1>8. PICK m \in 0..StopAt : r.primeIds = Chain(a, m)
  BY <1>3, <1>5, <1>6 DEF OwnPrime
<1>9. Len(r.primeIds) = m
  BY <1>8, ChainFacts
<1>10. full \in Nat /\ full <= StopAt - s.k
  <2>1. max - Len(r.primeIds) \in Nat /\ StopAt - s.k \in Nat
    BY <1>2, <1>5, <1>9
  <2> QED BY <2>1, LeastFacts
<1> HIDE DEF full
<1>11. /\ steps \in Seq(Tokens) /\ Len(steps) = full
       /\ \A i \in 1..full : steps[i] = [ask |-> a, k |-> s.k + i]
  <2>1. \A i \in 1..full : [ask |-> s.ask, k |-> s.k + i] \in Tokens
    BY <1>2, <1>5, <1>7, <1>10 DEF Tokens
  <2>2. steps \in [1..full -> Tokens]
    BY <2>1
  <2>3. steps \in Seq(Tokens)
    BY <1>10, <2>2
  <2> QED BY <1>7, <1>10, <2>2, <2>3, LenProperties
<1>12. last.ask = a /\ last.k = s.k + full
  BY <1>7 DEF StateOf
<1> HIDE DEF steps, last, kept
<1>13. primeMode' = primeMode
  BY <1>1
<1>14. CASE /\ runner' = [r EXCEPT !.primeState = last, !.decodeState = last,
                                   !.reusable = kept]
            /\ Answered("continued", TRUE, a, max, r.primeIds \o steps)
  <2>1. /\ runner'.primed = r.primed /\ runner'.primeAsk = r.primeAsk
        /\ runner'.primeIds = r.primeIds /\ runner'.primeState = last
    BY <1>3, <1>14 DEF Runners
  <2>2. Len(r.primeIds) <= last.k
    BY <1>5, <1>7, <1>9, <1>10, <1>12
  <2>3. OwnState(runner)'
    BY <1>5, <1>6, <1>12, <2>1, <2>2 DEF OwnState
  <2>4. answer'.ask = a /\ answer'.tokens = Chain(a, m) \o steps
    BY <1>8, <1>14 DEF Answered
  <2>5. s.k \in Nat /\ m <= s.k
    BY <1>2, <1>5, <1>7, <1>9
  <2>6. AnswersMoveForward'
    BY <1>10, <1>11, <2>4, <2>5, ContinuedForward
  <2> QED BY <2>3, <2>6 DEF ForwardInv
<1>15. CASE /\ runner' = r
            /\ \E k \in 0..full :
                 Answered("continued", FALSE, a, max, r.primeIds \o SubSeq(steps, 1, k))
  <2>1. answer'.ready = FALSE
    BY <1>15 DEF Answered
  <2> QED BY <1>3, <1>13, <1>15, <2>1 DEF ForwardInv, OwnState, AnswersMoveForward
<1> QED BY <1>1, <1>4, <1>14, <1>15 DEF full, steps, last, kept

LEMMA StepForwardInv ==
  ASSUME 0 \notin CacheTokens
  PROVE  Inv /\ PrimeInv /\ ForwardInv /\ [Next]_vars => ForwardInv'
<1> SUFFICES ASSUME Inv, PrimeInv, ForwardInv, [Next]_vars PROVE ForwardInv'
  OBVIOUS
<1>1. CASE StartWarmRunner
  <2>1. /\ \/ runner' = Entered
           \/ \E a \in Asks, n \in CacheTokens : runner' \in PrimeOutcomes(Entered, a, n)
        /\ UNCHANGED <<primeMode, answer>>
    BY <1>1 DEF StartWarmRunner
  <2>2. OwnState(Entered)
    <3>1. OwnState(Fresh)
      BY DEF OwnState, Fresh
    <3> QED BY <3>1 DEF ForwardInv, Entered
  <2>3. \A n \in CacheTokens : n \in Nat /\ n # 0
    BY ConstantsAssumption
  <2>4. OwnState(runner')
    BY <2>1, <2>2, <2>3, AtRequestState
  <2> QED BY <2>1, <2>4 DEF ForwardInv, OwnState, AnswersMoveForward
<1>2. CASE StopWarmRunner
  BY <1>2 DEF ForwardInv, AnswersMoveForward, StopWarmRunner
<1>3. ASSUME NEW a \in Asks, NEW max \in 1..MaxNew
      PROVE  max \in Nat /\ max # 0 /\ OwnState(Entered)
             /\ \A q \in AtRequest(a, max) : q \in Runners /\ OwnPrime(q) /\ OwnState(q)
  <2>1. max \in Nat /\ max # 0
    BY ConstantsAssumption
  <2> QED BY <2>1, AtRequestOwn, AtRequestState
<1>4. ASSUME NEW a \in Asks, NEW max \in 1..MaxNew, BlockRequest(a, max)
      PROVE  ForwardInv'
  <2>1. runner' = Entered /\ answer'.ready = FALSE /\ primeMode' = primeMode
    BY <1>4 DEF BlockRequest, Answered
  <2> QED BY <1>3, <2>1 DEF ForwardInv, OwnState, AnswersMoveForward
<1>5. ASSUME NEW a \in Asks, NEW max \in 1..MaxNew, ServePrimed(a, max)
      PROVE  ForwardInv'
  <2>1. PICK r \in AtRequest(a, max), ok \in BOOLEAN :
          /\ CachedPrimeGenerated(r, a, max)
          /\ runner' = r
          /\ Answered("primed", ok, a, max, SubSeq(r.primeIds, 1, max))
          /\ primeMode' = primeMode
    BY <1>5 DEF ServePrimed
  <2>2. r \in Runners /\ OwnPrime(r) /\ OwnState(r) /\ max \in Nat
    BY <1>3
  <2>3. SubSeq(r.primeIds, 1, max) = Chain(a, max)
    BY <2>1, <2>2, ServedIsChain
  <2>4. max \in 0..StopAt
    <3>1. PICK m \in 0..StopAt : r.primeIds = Chain(r.primeAsk, m) /\ r.primeAsk \in Asks
      BY <2>1, <2>2 DEF CachedPrimeGenerated, MatchesPrime, OwnPrime
    <3>2. Len(r.primeIds) = m /\ max <= Len(r.primeIds)
      BY <2>1, <3>1, ChainFacts DEF CachedPrimeGenerated
    <3> QED BY <2>2, <3>1, <3>2, ConstantsAssumption
  <2>5. answer'.ask = a /\ answer'.tokens = Chain(a, max)
    BY <2>1, <2>3 DEF Answered
  <2>6. AnswersMoveForward'
    BY <2>4, <2>5, ChainForward
  <2> QED BY <2>1, <2>2, <2>6 DEF ForwardInv, OwnState
<1>6. ASSUME NEW a \in Asks, NEW max \in 1..MaxNew, DecodeRequest(a, max)
      PROVE  ForwardInv'
  <2>1. PICK r \in AtRequest(a, max), l \in DecodeLoops(a, Least(max, AgentCap)) :
          /\ runner' = [r EXCEPT
               !.decodeState = IF l.ready THEN l.state ELSE None,
               !.reusable = IF l.ready THEN ReusableOf(a, l.state.k) ELSE None]
          /\ Answered("decoded", l.ready, a, max, l.ids)
          /\ primeMode' = primeMode
    BY <1>6 DEF DecodeRequest
  <2>2. r \in Runners /\ OwnState(r)
    BY <1>3
  <2>3. /\ runner'.primed = r.primed /\ runner'.primeAsk = r.primeAsk
        /\ runner'.primeIds = r.primeIds /\ runner'.primeState = r.primeState
    BY <2>1, <2>2 DEF Runners
  <2>4. OwnState(runner)'
    BY <2>1, <2>2, <2>3 DEF OwnState
  <2>5. Least(max, AgentCap) \in Nat
    BY <1>3, ConstantsAssumption, LeastFacts
  <2>6. PICK m \in 0..StopAt : l = Loop(a, m, l.ready)
    BY <2>5, LoopFacts
  <2>7. answer'.ask = a /\ answer'.tokens = Chain(a, m)
    BY <2>1, <2>6 DEF Answered, Loop
  <2>8. AnswersMoveForward'
    BY <2>7, ChainForward
  <2> QED BY <2>4, <2>8 DEF ForwardInv
<1>7. ASSUME NEW a \in Asks, NEW max \in 1..MaxNew, DecodeRaises(a, max)
      PROVE  ForwardInv'
  <2>1. PICK r \in AtRequest(a, max) :
          runner' = r /\ answer'.ready = FALSE /\ primeMode' = primeMode
    BY <1>7 DEF DecodeRaises, Answered
  <2> QED BY <1>3, <2>1 DEF ForwardInv, OwnState, AnswersMoveForward
<1>8. CASE UNCHANGED vars
  BY <1>8 DEF vars, ForwardInv, OwnState, AnswersMoveForward
<1> QED BY <1>1, <1>2, <1>4, <1>5, <1>6, <1>7, <1>8, ContinueForward DEF Next

\* When every prime caches at least one token, no answer repeats a token, steps
\* back or changes over to another prompt, for any prompts and limits: a primed
\* answer is continued from a state of its own ask at or past its last token.
THEOREM AnswersGoForward ==
  ASSUME 0 \notin CacheTokens
  PROVE  Spec => []AnswersMoveForward
<1>1. Init => ForwardInv
  BY DEF Init, ForwardInv, AnswersMoveForward, NoAnswer
<1>2. Spec => []PrimeInv
  BY Invariance, InitPrimeInv, StepPrimeInv, PTL DEF Spec
<1>3. Spec => []ForwardInv
  BY <1>1, <1>2, Invariance, StepForwardInv, PTL DEF Spec
<1>4. ForwardInv => AnswersMoveForward
  BY DEF ForwardInv
<1> QED BY <1>3, <1>4, PTL
=============================================================================
