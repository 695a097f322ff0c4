-------------------------- MODULE PromptDecode_proofs --------------------------
(***************************************************************************)
(* Proofs about PromptDecode, for any calls, layers and lengths.           *)
(***************************************************************************)
EXTENDS PromptDecode, TLAPS

-----------------------------------------------------------------------------
(* The inductive invariant                                                 *)

Places == {"waiting", "first", "loop", "step", "return", "done"}
Handles == Runs \X Layers

RunRecords ==
  [at : Places, path : {"prefill", "append", "pending"}, n : 0..MaxPrompt,
   max : 0..MaxNew, gen : 0..MaxNew, st : States, layer : 0..LayerCount,
   kv : [Layers -> Nat], nat : [Layers -> Handles \cup {None}]]

\* A session is of the layer that holds it.
OwnLayer(nat) == \A l \in Layers : nat[l] # None => nat[l][2] = l

\* No Python cache has more rows than the state has processed.
StateOK(st) == OwnLayer(st.nat) /\ \A l \in Layers : st.kv[l] <= st.pos

Active(r) == run[r].at \notin {"waiting", "done"}

RunOK(r) ==
  /\ run[r].gen <= run[r].max
  /\ Active(r) => /\ run[r].n >= 1 /\ run[r].max >= 1
                  /\ StateOK(run[r].st)
                  /\ OwnLayer(run[r].nat)
  /\ run[r].at = "first" => run[r].gen = 0 /\ run[r].st.pos < run[r].n
  /\ run[r].at \in {"loop", "step", "return"} =>
       /\ run[r].gen >= 1
       /\ run[r].st.pos = run[r].n + run[r].gen - 1
       /\ run[r].st.chain = run[r].st.pos + 1
  /\ run[r].at \in {"loop", "step"} => run[r].gen < run[r].max
  /\ InStack(r) => \A l \in Layers : run[r].kv[l] <= run[r].st.pos + Width(r)

PrefixOK ==
  \/ prefix = None
  \/ /\ prefix \in [tokens : 1..MaxRows, st : States]
     /\ prefix.tokens = prefix.st.pos /\ prefix.st.chain = prefix.st.pos + 1
     /\ StateOK(prefix.st)

Shape ==
  /\ native \in BOOLEAN /\ maxAppend \in 1..MaxAppend /\ calm \in BOOLEAN
  /\ sessions \in [Handles -> Nat]
  /\ run \in [Runs -> RunRecords]
  /\ \A r \in Runs : RunOK(r)
  /\ PrefixOK

\* What a stack in the making has made of the layers it has passed.
BuiltSoFar(r) ==
  \A l \in Layers : l < run[r].layer =>
    (IF run[r].nat[l] # None THEN sessions[run[r].nat[l]] ELSE run[r].kv[l])
      = run[r].st.pos + Width(r)

\* Without the native layer nobody has a session, the state of every run and the
\* stored one are exact all the time, the layers passed are one stack further.
NoSession(nat) == \A l \in Layers : nat[l] = None

Clean(st) == NoSession(st.nat) /\ \A l \in Layers : st.kv[l] = st.pos

CleanRun(r) ==
  /\ Clean(run[r].st) /\ NoSession(run[r].nat)
  /\ InStack(r) => \A l \in Layers : l < run[r].layer =>
                     run[r].kv[l] = run[r].st.pos + Width(r)

PythonInv ==
  ~native => /\ \A r \in Runs : Active(r) => CleanRun(r)
             /\ prefix # None => Clean(prefix.st)

\* With it, one run at a time: the layers still to come are exact, those that are
\* passed are one stack further, a stack of several tokens starts from nothing.
Calmly == native /\ calm /\ maxAppend = 1

NativeRun(r) ==
  /\ run[r].at \in {"loop", "return"} => Exact(run[r].st)
  /\ InStack(r) =>
       /\ BuiltSoFar(r)
       /\ \A l \in Layers : l >= run[r].layer => Rows(run[r].st, l) = run[r].st.pos
       /\ Width(r) # 1 => NoSession(run[r].st.nat)

NativeInv ==
  Calmly => /\ \A q, r \in Runs : Active(q) /\ Active(r) => q = r
            /\ \A r \in Runs : NativeRun(r)
            /\ Quiet /\ prefix # None => Exact(prefix.st)

IInv == Shape /\ PythonInv /\ NativeInv

-----------------------------------------------------------------------------
(* What the helpers of the actions do                                      *)

LEMMA Bounds ==
  /\ LayerCount \in Nat /\ LayerCount >= 1 /\ MaxPrompt \in Nat /\ MaxNew \in Nat
  /\ MaxRows \in Nat /\ MaxRows >= 2
  /\ Layers \subseteq Nat /\ None \notin Handles
  BY ConstantsAssumption DEF MaxRows, Layers, Handles

\* A run that is replaced leaves the others as they are.
LEMMA OthersKeep ==
  ASSUME Shape, NEW r \in Runs, NEW rec \in RunRecords,
         run' = [run EXCEPT ![r] = rec]
  PROVE  /\ run' \in [Runs -> RunRecords] /\ run'[r] = rec
         /\ \A q \in Runs \ {r} : run'[q] = run[q] /\ RunOK(q)'
<1>1. /\ run' \in [Runs -> RunRecords] /\ run'[r] = rec
      /\ \A q \in Runs \ {r} : run'[q] = run[q]
  BY DEF Shape
<1>2. \A q \in Runs \ {r} : RunOK(q)'
  BY <1>1 DEF Shape, RunOK, Active, InStack, Width
<1> QED BY <1>1, <1>2

LEMMA WaitingFacts ==
  /\ Waiting \in RunRecords /\ Empty \in States /\ StateOK(Empty)
  /\ OwnLayer(NoSessions) /\ NoSessions \in [Layers -> Handles \cup {None}]
  /\ NoRows \in [Layers -> Nat]
<1>1. /\ NoSessions \in [Layers -> Handles \cup {None}] /\ OwnLayer(NoSessions)
      /\ NoRows \in [Layers -> 0..2 * MaxRows] /\ NoRows \in [Layers -> Nat]
  BY Bounds DEF NoSessions, NoRows, OwnLayer
<1>2. Empty \in States
  BY <1>1, Bounds DEF Empty, States, Handles
<1>3. StateOK(Empty)
  BY <1>1, Bounds DEF Empty, StateOK, NoRows
<1>4. Waiting \in RunRecords
  BY <1>1, <1>2, Bounds DEF Waiting, RunRecords, Places
<1> QED BY <1>1, <1>2, <1>3, <1>4

\* The record of a run that goes somewhere with a state.
Going(r, where, path, n, max, gen, st) ==
  [Waiting EXCEPT !.at = where, !.path = path, !.n = n, !.max = max, !.gen = gen, !.st = st]

LEMMA GoingFacts ==
  ASSUME NEW r \in Runs, NEW where \in Places, NEW path \in {"prefill", "append", "pending"},
         NEW n \in 0..MaxPrompt, NEW max \in 0..MaxNew, NEW gen \in 0..MaxNew, NEW st \in States
  PROVE  LET g == Going(r, where, path, n, max, gen, st) IN
         /\ g \in RunRecords
         /\ g.at = where /\ g.path = path /\ g.n = n /\ g.max = max /\ g.gen = gen
         /\ g.st = st /\ g.layer = 0 /\ g.kv = NoRows /\ g.nat = NoSessions
<1>1. Waiting \in RunRecords /\ Waiting.layer = 0 /\ Waiting.kv = NoRows /\ Waiting.nat = NoSessions
  BY WaitingFacts DEF Waiting
<1>2. Going(r, where, path, n, max, gen, st) \in RunRecords
  BY <1>1 DEF Going, RunRecords
<1> QED BY <1>1, <1>2 DEF Going, RunRecords

\* The record of a run whose stack has passed one layer more.
Passing(r, rows, session) ==
  [run[r] EXCEPT !.layer = @ + 1, !.kv[run[r].layer] = rows, !.nat[run[r].layer] = session]

LEMMA PassingFacts ==
  ASSUME Shape, NEW r \in Runs, run[r].layer \in Layers,
         NEW rows \in Nat, NEW session \in Handles \cup {None},
         LayerOutput(r, rows, session)
  PROVE  LET p == Passing(r, rows, session) IN
         /\ run' = [run EXCEPT ![r] = p] /\ p \in RunRecords
         /\ p.at = run[r].at /\ p.path = run[r].path /\ p.n = run[r].n /\ p.max = run[r].max
         /\ p.gen = run[r].gen /\ p.st = run[r].st /\ p.layer = run[r].layer + 1
         /\ p.kv = [run[r].kv EXCEPT ![run[r].layer] = rows]
         /\ p.nat = [run[r].nat EXCEPT ![run[r].layer] = session]
<1>1. run[r] \in RunRecords /\ run \in [Runs -> RunRecords]
  BY DEF Shape
<1>2. run' = [run EXCEPT ![r] = Passing(r, rows, session)]
  BY <1>1 DEF LayerOutput, Passing, RunRecords
<1>3. run[r].layer + 1 \in 0..LayerCount
  BY Bounds DEF Layers
<1>4. Passing(r, rows, session) \in RunRecords
  BY <1>1, <1>3 DEF Passing, RunRecords
<1> QED BY <1>1, <1>2, <1>4 DEF Passing, RunRecords

-----------------------------------------------------------------------------
(* Types, and where a run and its state stand                              *)

LEMMA InitShape == Init => Shape
<1> SUFFICES ASSUME Init PROVE Shape
  OBVIOUS
<1>1. \A r \in Runs : run[r].at = "waiting" /\ run[r].gen = 0 /\ run[r].max = 0
  BY DEF Init, Waiting
<1>2. ASSUME NEW r \in Runs PROVE RunOK(r)
  <2>1. run[r].at = "waiting" /\ run[r].gen <= run[r].max
    BY <1>1
  <2> QED BY <2>1 DEF RunOK, Active, InStack
<1> QED BY <1>2, WaitingFacts DEF Init, Shape, PrefixOK, Handles

\* A state with which a run may be anywhere but in the middle of a stack.
MayGo(where, path, n, max, gen, st) ==
  /\ where \in Places /\ path \in {"prefill", "append", "pending"}
  /\ n \in 0..MaxPrompt /\ max \in 0..MaxNew /\ gen \in 0..MaxNew /\ st \in States
  /\ gen <= max
  /\ where \notin {"waiting", "done"} => n >= 1 /\ max >= 1 /\ StateOK(st)
  /\ where = "first" => gen = 0 /\ st.pos < n
  /\ where \in {"loop", "step", "return"} =>
        gen >= 1 /\ st.pos = n + gen - 1 /\ st.chain = st.pos + 1
  /\ where \in {"loop", "step"} => gen < max

LEMMA GoesShape ==
  ASSUME Shape, PrefixOK', UNCHANGED <<config, sessions>>, NEW r \in Runs,
         NEW where, NEW path, NEW n, NEW max, NEW gen, NEW st,
         MayGo(where, path, n, max, gen, st),
         run' = [run EXCEPT ![r] = Going(r, where, path, n, max, gen, st)]
  PROVE  Shape'
<1> DEFINE g == Going(r, where, path, n, max, gen, st)
<1>1. /\ g \in RunRecords
      /\ g.at = where /\ g.path = path /\ g.n = n /\ g.max = max /\ g.gen = gen
      /\ g.st = st /\ g.layer = 0 /\ g.kv = NoRows /\ g.nat = NoSessions
  BY GoingFacts DEF MayGo
<1> HIDE DEF g
<1>2. run' = [run EXCEPT ![r] = g]
  BY DEF g
<1>3. /\ run' \in [Runs -> RunRecords] /\ run'[r] = g
      /\ \A q \in Runs \ {r} : run'[q] = run[q] /\ RunOK(q)'
  BY <1>1, <1>2, OthersKeep
<1>4. ASSUME where \in {"first", "step"}, NEW l \in Layers
      PROVE  g.kv[l] <= st.pos + (IF where = "step" THEN 1 ELSE n - st.pos)
  <2>1. g.kv[l] = 0 /\ st.pos \in Nat /\ n \in Nat
    BY <1>1, <1>4, Bounds DEF NoRows, States, MayGo
  <2> QED BY <1>4, <2>1
<1>5. RunOK(r)'
  BY <1>1, <1>3, <1>4, WaitingFacts DEF RunOK, Active, InStack, Width, MayGo
<1> QED BY <1>3, <1>5 DEF Shape, config

\* The facts a state brings along.
LEMMA StateFacts ==
  ASSUME NEW st \in States
  PROVE  /\ st.pos \in Nat /\ st.pos <= MaxRows /\ st.chain \in Nat /\ st.finished \in BOOLEAN
         /\ st.kv \in [Layers -> 0..2 * MaxRows] /\ st.kv \in [Layers -> Nat]
         /\ st.nat \in [Layers -> Handles \cup {None}]
<1>1. /\ st.pos \in 0..MaxRows /\ st.chain \in 0..MaxRows + 1 /\ st.finished \in BOOLEAN
      /\ st.kv \in [Layers -> 0..2 * MaxRows] /\ st.nat \in [Layers -> Handles \cup {None}]
  BY DEF States, Handles
<1>2. 0..2 * MaxRows \subseteq Nat
  BY Bounds
<1> QED BY <1>1, <1>2, Bounds

LEMMA RunFacts ==
  ASSUME Shape, NEW r \in Runs
  PROVE  /\ run[r] \in RunRecords /\ RunOK(r)
         /\ run[r].at \in Places /\ run[r].path \in {"prefill", "append", "pending"}
         /\ run[r].n \in 0..MaxPrompt /\ run[r].max \in 0..MaxNew /\ run[r].gen \in 0..MaxNew
         /\ run[r].st \in States /\ run[r].layer \in 0..LayerCount
         /\ run[r].kv \in [Layers -> Nat] /\ run[r].nat \in [Layers -> Handles \cup {None}]
  BY DEF Shape, RunRecords

\* A move of a run to another place, with the state it has.
LEMMA GotoShape ==
  ASSUME Shape, NEW r \in Runs, NEW where \in Places \ {"waiting", "first"},
         UNCHANGED <<config, sessions, prefix>>,
         run[r].at \in {"loop", "step"}, Goto(r, where)
  PROVE  Shape' /\ run' = [run EXCEPT ![r] = Going(r, where, run[r].path, run[r].n, run[r].max,
                                                  run[r].gen, run[r].st)]
<1>1. run' = [run EXCEPT ![r] = Going(r, where, run[r].path, run[r].n, run[r].max,
                                      run[r].gen, run[r].st)]
  BY DEF Goto, Going
<1>2. PrefixOK'
  BY DEF Shape, PrefixOK
<1>3. MayGo(where, run[r].path, run[r].n, run[r].max, run[r].gen, run[r].st)
  BY RunFacts DEF MayGo, RunOK, Active, Places
<1>4. Shape'
  BY <1>1, <1>2, <1>3, GoesShape
<1> QED BY <1>1, <1>4

LEMMA QuitShape ==
  ASSUME Shape, PrefixOK', UNCHANGED <<config, sessions>>, NEW r \in Runs, Quit(r)
  PROVE  /\ Shape' /\ run'[r].at = "done"
         /\ \A q \in Runs \ {r} : run'[q] = run[q]
<1> DEFINE gone == [Waiting EXCEPT !.at = "done"]
<1>1. gone \in RunRecords /\ gone.at = "done" /\ gone.gen <= gone.max
  <2>1. /\ Waiting \in RunRecords /\ Waiting.gen = 0 /\ Waiting.max = 0 /\ "done" \in Places
    BY WaitingFacts DEF Waiting, Places
  <2>2. gone \in RunRecords /\ gone.at = "done" /\ gone.gen = 0 /\ gone.max = 0
    BY <2>1 DEF RunRecords
  <2> QED BY <2>2
<1>2. run' = [run EXCEPT ![r] = gone]
  BY DEF Quit
<1> HIDE DEF gone
<1>3. /\ run' \in [Runs -> RunRecords] /\ run'[r] = gone
      /\ \A q \in Runs \ {r} : run'[q] = run[q] /\ RunOK(q)'
  BY <1>1, <1>2, OthersKeep
<1>4. RunOK(r)'
  BY <1>1, <1>3 DEF RunOK, Active, InStack
<1> QED BY <1>1, <1>3, <1>4 DEF Shape, config

-----------------------------------------------------------------------------
(* The actions keep the shape                                              *)

LEMMA EnterShape ==
  ASSUME Shape, NEW r \in Runs, NEW path \in {"prefill", "append", "pending"},
         NEW n \in 1..MaxPrompt, NEW max \in 1..MaxNew, NEW st \in States,
         NEW where \in {"first", "loop", "return"}, NEW gen \in {0, 1},
         Enter(r, path, n, max, st, where, gen), StateOK(st),
         where = "first" => gen = 0 /\ st.pos < n,
         where # "first" => gen = 1 /\ st.pos = n /\ st.chain = st.pos + 1,
         where = "loop" => max # 1
  PROVE  Shape' /\ run' = [run EXCEPT ![r] = Going(r, where, path, n, max, gen, st)]
<1>1. run' = [run EXCEPT ![r] = Going(r, where, path, n, max, gen, st)]
  BY DEF Enter, Going
<1>2. PrefixOK' /\ UNCHANGED <<config, sessions>>
  BY DEF Shape, PrefixOK, Enter
<1>3. /\ n \in 0..MaxPrompt /\ max \in 0..MaxNew /\ gen \in 0..MaxNew /\ where \in Places
      /\ n \in Nat /\ max \in Nat /\ gen <= max /\ n >= 1 /\ max >= 1
      /\ where = "loop" => gen < max
      /\ st.pos \in Nat /\ (where # "first" => st.pos = n + gen - 1)
  BY Bounds, StateFacts DEF Places
<1>4. MayGo(where, path, n, max, gen, st)
  BY <1>3 DEF MayGo
<1>5. Shape'
  BY <1>1, <1>2, <1>4, GoesShape
<1> QED BY <1>1, <1>5

\* What a call finds that can use the stored prefix.
LEMMA PrefixFacts ==
  ASSUME Shape, prefix # None
  PROVE  /\ prefix.st \in States /\ StateOK(prefix.st) /\ prefix.tokens = prefix.st.pos
         /\ prefix.st.chain = prefix.st.pos + 1 /\ prefix.tokens >= 1
         /\ prefix \in [tokens : 1..MaxRows, st : States]
  BY Bounds DEF Shape, PrefixOK

\* One of the three ways into the loop.
Entry(r, path, n, max, st, where, gen) ==
  /\ Enter(r, path, n, max, st, where, gen)
  /\ \/ path = "pending" /\ prefix # None /\ st = prefix.st /\ st.pos = n /\ gen = 1
        /\ where = (IF max = 1 THEN "return" ELSE "loop")
     \/ path = "append" /\ prefix # None /\ st = prefix.st /\ st.pos < n
        /\ n - st.pos <= maxAppend /\ gen = 0 /\ where = "first"
     \/ path = "prefill" /\ st = Empty /\ gen = 0 /\ where = "first"

Starts(r, n, max, matches, formatted) ==
  \/ ReusePendingToken(r, n, max, matches, formatted)
  \/ AppendToPrefix(r, n, max, matches, formatted)
  \/ PrefillPrompt(r, n, max, matches, formatted)

LEMMA StartsFacts ==
  ASSUME Shape, NEW r \in Runs, NEW n \in 1..MaxPrompt, NEW max \in 1..MaxNew,
         NEW matches, NEW formatted, Starts(r, n, max, matches, formatted)
  PROVE  \E path \in {"prefill", "append", "pending"}, st \in States,
            where \in {"first", "loop", "return"}, gen \in {0, 1} :
           /\ Entry(r, path, n, max, st, where, gen)
           /\ Shape' /\ run' = [run EXCEPT ![r] = Going(r, where, path, n, max, gen, st)]
<1>1. CASE ReusePendingToken(r, n, max, matches, formatted)
  <2> DEFINE where == IF max = 1 THEN "return" ELSE "loop"
  <2>1. /\ prefix # None /\ prefix.st.pos = n
        /\ Enter(r, "pending", n, max, prefix.st, where, 1)
    BY <1>1 DEF ReusePendingToken, CanUsePendingToken, PrefixUsable
  <2>2. /\ prefix.st \in States /\ StateOK(prefix.st) /\ prefix.st.chain = prefix.st.pos + 1
        /\ where \in {"first", "loop", "return"} /\ where # "first"
        /\ where = "loop" => max # 1
    BY <2>1, PrefixFacts
  <2>3. Entry(r, "pending", n, max, prefix.st, where, 1)
    BY <2>1 DEF Entry
  <2> HIDE DEF where
  <2>4. Shape' /\ run' = [run EXCEPT ![r] = Going(r, where, "pending", n, max, 1, prefix.st)]
    BY <2>1, <2>2, EnterShape
  <2> QED BY <2>2, <2>3, <2>4
<1>2. CASE AppendToPrefix(r, n, max, matches, formatted)
  <2>1. /\ prefix # None /\ prefix.st.pos < n /\ n - prefix.st.pos <= maxAppend
        /\ Enter(r, "append", n, max, prefix.st, "first", 0)
    BY <1>2 DEF AppendToPrefix, CanTryPrefix, PrefixUsable
  <2>2. prefix.st \in States /\ StateOK(prefix.st)
    BY <2>1, PrefixFacts
  <2>3. Entry(r, "append", n, max, prefix.st, "first", 0)
    BY <2>1 DEF Entry
  <2>4. Shape' /\ run' = [run EXCEPT ![r] = Going(r, "first", "append", n, max, 0, prefix.st)]
    BY <2>1, <2>2, EnterShape
  <2> QED BY <2>2, <2>3, <2>4
<1>3. CASE PrefillPrompt(r, n, max, matches, formatted)
  <2>1. Enter(r, "prefill", n, max, Empty, "first", 0)
    BY <1>3 DEF PrefillPrompt
  <2>2. Empty \in States /\ StateOK(Empty) /\ Empty.pos = 0
    BY WaitingFacts DEF Empty
  <2>3. Entry(r, "prefill", n, max, Empty, "first", 0)
    BY <2>1 DEF Entry
  <2>4. Shape' /\ run' = [run EXCEPT ![r] = Going(r, "first", "prefill", n, max, 0, Empty)]
    BY <2>1, <2>2, EnterShape
  <2> QED BY <2>2, <2>3, <2>4
<1> QED BY <1>1, <1>2, <1>3 DEF Starts

LEMMA WidthFacts ==
  ASSUME Shape, NEW r \in Runs, InStack(r)
  PROVE  /\ Width(r) \in Nat /\ Width(r) >= 1 /\ run[r].st.pos \in Nat
         /\ run[r].st.pos + Width(r) \in 1..MaxRows - 1 /\ Active(r)
         /\ run[r].st.pos + Width(r) = (IF run[r].at = "first" THEN run[r].n
                                       ELSE run[r].st.pos + 1)
         /\ run[r].gen + 1 \in 1..run[r].max /\ run[r].max >= 1
         /\ run[r].st.pos + Width(r) = run[r].n + run[r].gen
<1>1. /\ run[r].n \in 0..MaxPrompt /\ run[r].max \in 0..MaxNew /\ run[r].gen \in 0..MaxNew
      /\ run[r].st \in States /\ RunOK(r) /\ Active(r)
  BY RunFacts DEF InStack, Active
<1>2. run[r].st.pos \in Nat
  BY <1>1, StateFacts
<1>3. run[r].max >= 1 /\ run[r].n >= 1
  BY <1>1 DEF RunOK
<1>4. CASE run[r].at = "first"
  <2>1. Width(r) = run[r].n - run[r].st.pos /\ run[r].gen = 0 /\ run[r].st.pos < run[r].n
    BY <1>1, <1>4 DEF Width, RunOK
  <2> QED BY <1>1, <1>2, <1>3, <1>4, <2>1, Bounds DEF MaxRows
<1>5. CASE run[r].at = "step"
  <2>1. /\ Width(r) = 1 /\ run[r].gen >= 1 /\ run[r].gen < run[r].max
        /\ run[r].st.pos = run[r].n + run[r].gen - 1
    BY <1>1, <1>5 DEF Width, RunOK
  <2> QED BY <1>1, <1>2, <1>3, <1>5, <2>1, Bounds DEF MaxRows
<1> QED BY <1>4, <1>5 DEF InStack

\* A layer of a stack is passed.
LEMMA PassShape ==
  ASSUME Shape, NEW r \in Runs, InStack(r), run[r].layer \in Layers,
         NEW rows \in Nat, rows <= run[r].st.pos + Width(r),
         NEW session \in Handles \cup {None}, session # None => session[2] = run[r].layer,
         LayerOutput(r, rows, session), sessions' \in [Handles -> Nat],
         UNCHANGED <<config, prefix>>
  PROVE  /\ Shape' /\ run'[r].at = run[r].at /\ run'[r].st = run[r].st
         /\ run'[r].layer = run[r].layer + 1 /\ Width(r)' = Width(r)
         /\ run'[r].kv = [run[r].kv EXCEPT ![run[r].layer] = rows]
         /\ run'[r].nat = [run[r].nat EXCEPT ![run[r].layer] = session]
         /\ \A q \in Runs \ {r} : run'[q] = run[q]
<1> DEFINE p == Passing(r, rows, session)
<1>1. /\ run' = [run EXCEPT ![r] = p] /\ p \in RunRecords
      /\ p.at = run[r].at /\ p.path = run[r].path /\ p.n = run[r].n /\ p.max = run[r].max
      /\ p.gen = run[r].gen /\ p.st = run[r].st /\ p.layer = run[r].layer + 1
      /\ p.kv = [run[r].kv EXCEPT ![run[r].layer] = rows]
      /\ p.nat = [run[r].nat EXCEPT ![run[r].layer] = session]
  BY PassingFacts
<1> HIDE DEF p
<1>2. /\ run' \in [Runs -> RunRecords] /\ run'[r] = p
      /\ \A q \in Runs \ {r} : run'[q] = run[q] /\ RunOK(q)'
  BY <1>1, OthersKeep
<1>3. Width(r)' = Width(r) /\ InStack(r)' /\ Active(r)' /\ Active(r)
  BY <1>1, <1>2 DEF Width, InStack, Active
<1>4. run[r].kv \in [Layers -> Nat] /\ run[r].nat \in [Layers -> Handles \cup {None}] /\ RunOK(r)
  BY RunFacts
<1>5. OwnLayer(p.nat)
  BY <1>1, <1>3, <1>4 DEF OwnLayer, RunOK
<1>6. \A l \in Layers : p.kv[l] <= p.st.pos + Width(r)
  BY <1>1, <1>4, WidthFacts DEF RunOK
<1>7. RunOK(r)'
  BY <1>1, <1>2, <1>3, <1>4, <1>5, <1>6 DEF RunOK, Active, InStack
<1>8. Shape'
  BY <1>2, <1>7 DEF Shape, PrefixOK, config
<1> QED BY <1>1, <1>2, <1>3, <1>8

LEMMA PythonShape ==
  ASSUME Shape, NEW r \in Runs, RunPythonLayer(r)
  PROVE  /\ Shape' /\ run'[r].at = run[r].at /\ run'[r].st = run[r].st
         /\ run'[r].layer = run[r].layer + 1 /\ Width(r)' = Width(r)
         /\ run'[r].kv = [run[r].kv EXCEPT ![run[r].layer] =
                                 run[r].st.kv[run[r].layer] + Width(r)]
         /\ run'[r].nat = [run[r].nat EXCEPT ![run[r].layer] = None]
         /\ \A q \in Runs \ {r} : run'[q] = run[q]
<1> DEFINE rows == run[r].st.kv[run[r].layer] + Width(r)
<1>1. /\ InStack(r) /\ run[r].layer \in Layers /\ LayerOutput(r, rows, None)
      /\ UNCHANGED <<config, sessions, prefix>>
  BY DEF RunPythonLayer
<1>2. /\ Width(r) \in Nat /\ run[r].st.pos \in Nat /\ Active(r)
      /\ run[r].st \in States /\ RunOK(r)
  BY <1>1, WidthFacts, RunFacts
<1>3. run[r].st.kv[run[r].layer] \in Nat /\ run[r].st.kv[run[r].layer] <= run[r].st.pos
  BY <1>1, <1>2, StateFacts DEF RunOK, StateOK
<1>4. rows \in Nat /\ rows <= run[r].st.pos + Width(r)
  BY <1>2, <1>3
<1>5. sessions' \in [Handles -> Nat] /\ None \in Handles \cup {None} /\ UNCHANGED <<config, prefix>>
  BY <1>1 DEF Shape
<1> HIDE DEF rows
<1>6. /\ Shape' /\ run'[r].at = run[r].at /\ run'[r].st = run[r].st
      /\ run'[r].layer = run[r].layer + 1 /\ Width(r)' = Width(r)
      /\ run'[r].kv = [run[r].kv EXCEPT ![run[r].layer] = rows]
      /\ run'[r].nat = [run[r].nat EXCEPT ![run[r].layer] = None]
      /\ \A q \in Runs \ {r} : run'[q] = run[q]
  BY <1>1, <1>4, <1>5, PassShape
<1> QED BY <1>6 DEF rows

\* The session a native layer appends to.
Held(r) == IF run[r].st.nat[run[r].layer] = None THEN <<r, run[r].layer>>
           ELSE run[r].st.nat[run[r].layer]

LEMMA NativeShape ==
  ASSUME Shape, NEW r \in Runs, RunNativeLayer(r)
  PROVE  /\ Shape' /\ run'[r].at = run[r].at /\ run'[r].st = run[r].st
         /\ run'[r].layer = run[r].layer + 1 /\ Width(r)' = Width(r) /\ Width(r) = 1
         /\ Held(r) \in Handles /\ Held(r)[2] = run[r].layer
         /\ run'[r].kv = [run[r].kv EXCEPT ![run[r].layer] = 0]
      /\ run'[r].nat = [run[r].nat EXCEPT ![run[r].layer] = Held(r)]
         /\ sessions' = [sessions EXCEPT ![Held(r)] =
                            Rows(run[r].st, run[r].layer) + 1]
         /\ \A q \in Runs \ {r} : run'[q] = run[q]
<1> DEFINE zero == 0
<1>1. /\ InStack(r) /\ run[r].layer \in Layers /\ Width(r) = 1 /\ LayerOutput(r, zero, Held(r))
      /\ sessions' = [sessions EXCEPT ![Held(r)] = Rows(run[r].st, run[r].layer) + 1]
      /\ UNCHANGED <<config, prefix>>
  BY DEF RunNativeLayer, Held, Rows
<1>2. /\ Width(r) \in Nat /\ run[r].st.pos \in Nat /\ Active(r)
      /\ run[r].st \in States /\ RunOK(r)
  BY <1>1, WidthFacts, RunFacts
<1>3. /\ run[r].st.nat[run[r].layer] \in Handles \cup {None} /\ run[r].st.kv[run[r].layer] \in Nat
      /\ run[r].st.nat[run[r].layer] # None => run[r].st.nat[run[r].layer][2] = run[r].layer
  BY <1>1, <1>2, StateFacts DEF RunOK, StateOK, OwnLayer
<1>4. Held(r) \in Handles /\ Held(r)[2] = run[r].layer
  BY <1>1, <1>3 DEF Held, Handles
<1>5. sessions' \in [Handles -> Nat]
  <2>1. Rows(run[r].st, run[r].layer) + 1 \in Nat
    BY <1>3 DEF Rows, Shape
  <2> QED BY <1>1, <1>4, <2>1 DEF Shape
<1>6. /\ zero \in Nat /\ zero <= run[r].st.pos + Width(r) /\ Held(r) \in Handles \cup {None}
      /\ InStack(r) /\ run[r].layer \in Layers /\ LayerOutput(r, zero, Held(r))
      /\ UNCHANGED <<config, prefix>> /\ (Held(r) # None => Held(r)[2] = run[r].layer)
  BY <1>1, <1>2, <1>4
<1> HIDE DEF zero
<1>7. /\ Shape' /\ run'[r].at = run[r].at /\ run'[r].st = run[r].st
      /\ run'[r].layer = run[r].layer + 1 /\ Width(r)' = Width(r)
      /\ run'[r].kv = [run[r].kv EXCEPT ![run[r].layer] = zero]
      /\ run'[r].nat = [run[r].nat EXCEPT ![run[r].layer] = Held(r)]
      /\ \A q \in Runs \ {r} : run'[q] = run[q]
  <2>1. PICK rows, session : rows = zero /\ session = Held(r)
    OBVIOUS
  <2>2. /\ rows \in Nat /\ rows <= run[r].st.pos + Width(r) /\ session \in Handles \cup {None}
        /\ LayerOutput(r, rows, session) /\ (session # None => session[2] = run[r].layer)
    BY <1>6, <2>1
  <2>3. /\ Shape' /\ run'[r].at = run[r].at /\ run'[r].st = run[r].st
        /\ run'[r].layer = run[r].layer + 1 /\ Width(r)' = Width(r)
        /\ run'[r].kv = [run[r].kv EXCEPT ![run[r].layer] = rows]
        /\ run'[r].nat = [run[r].nat EXCEPT ![run[r].layer] = session]
        /\ \A q \in Runs \ {r} : run'[q] = run[q]
    BY <1>5, <1>6, <2>2, PassShape
  <2> QED BY <2>1, <2>3
<1> QED BY <1>1, <1>4, <1>7 DEF zero

\* A run is at the start of a place, with a state.
Goes(r, where, n, st) ==
  /\ run'[r].at = where /\ run'[r].st = st /\ run'[r].n = n
  /\ run'[r].layer = 0 /\ run'[r].nat = NoSessions
  /\ \A q \in Runs \ {r} : run'[q] = run[q]

Gone(r) == run'[r].at = "done" /\ \A q \in Runs \ {r} : run'[q] = run[q]

LEMMA GoesFacts ==
  ASSUME Shape, NEW r \in Runs, NEW where \in Places, NEW path \in {"prefill", "append", "pending"},
         NEW n \in 0..MaxPrompt, NEW max \in 0..MaxNew, NEW gen \in 0..MaxNew, NEW st \in States,
         run' = [run EXCEPT ![r] = Going(r, where, path, n, max, gen, st)]
  PROVE  Goes(r, where, n, st)
<1> DEFINE g == Going(r, where, path, n, max, gen, st)
<1>1. /\ g \in RunRecords /\ g.at = where /\ g.n = n /\ g.st = st
      /\ g.layer = 0 /\ g.nat = NoSessions
  BY GoingFacts
<1> HIDE DEF g
<1>2. run' = [run EXCEPT ![r] = g] /\ run \in [Runs -> RunRecords]
  BY DEF g, Shape
<1>3. run'[r] = g /\ \A q \in Runs \ {r} : run'[q] = run[q]
  BY <1>2
<1> QED BY <1>1, <1>3 DEF Goes

\* The state after a token was picked.
Picked(r, finished) ==
  [pos |-> run[r].st.pos + Width(r), chain |-> run[r].st.pos + Width(r) + 1,
   finished |-> finished, kv |-> run[r].kv, nat |-> run[r].nat]

LEMMA PickShape ==
  ASSUME Shape, NEW r \in Runs, PickToken(r)
  PROVE  \E finished \in BOOLEAN, where \in {"loop", "return"} :
           /\ Shape' /\ run[r].layer = LayerCount /\ InStack(r)
           /\ UNCHANGED <<config, sessions, prefix>>
           /\ run' = [run EXCEPT ![r] = Going(r, where, run[r].path, run[r].n, run[r].max,
                                             run[r].gen + 1, Picked(r, finished))]
           /\ Goes(r, where, run[r].n, Picked(r, finished))
<1>1. InStack(r) /\ run[r].layer = LayerCount /\ UNCHANGED <<config, sessions, prefix>>
  BY DEF PickToken
<1>2. /\ run[r].st.pos \in Nat /\ Width(r) \in Nat /\ RunOK(r) /\ Active(r) /\ run[r].n \in Nat
      /\ run[r].st.pos + Width(r) \in 1..MaxRows - 1 /\ run[r].max \in 1..MaxNew
      /\ run[r].st.pos + Width(r) = run[r].n + run[r].gen /\ run[r].gen + 1 \in 1..run[r].max
      /\ run[r].kv \in [Layers -> Nat] /\ run[r].nat \in [Layers -> Handles \cup {None}]
      /\ run[r].n \in 0..MaxPrompt /\ run[r].gen \in Nat
      /\ run[r].path \in {"prefill", "append", "pending"}
  BY <1>1, WidthFacts, RunFacts
<1>3. PICK finished \in BOOLEAN, where \in {"loop", "return"} :
        /\ finished \/ run[r].gen + 1 = run[r].max => where = "return"
        /\ run' = [run EXCEPT ![r] = Going(r, where, run[r].path, run[r].n, run[r].max,
                                           run[r].gen + 1, Picked(r, finished))]
  <2> DEFINE pos == IF run[r].at = "first" THEN run[r].n ELSE run[r].st.pos + 1
             st(finished) == [pos |-> pos, chain |-> pos + 1, finished |-> finished,
                              kv |-> run[r].kv, nat |-> run[r].nat]
  <2>1. pos = run[r].st.pos + Width(r)
    BY <1>1, WidthFacts
  <2>2. \A finished : st(finished) = Picked(r, finished)
    BY <2>1 DEF Picked
  <2>3. PICK finished \in BOOLEAN, where \in {"loop", "return"} :
          /\ finished \/ run[r].gen + 1 = run[r].max => where = "return"
          /\ run' = [run EXCEPT ![r] = Going(r, where, run[r].path, run[r].n, run[r].max,
                                             run[r].gen + 1, st(finished))]
    BY DEF PickToken, Going
  <2> HIDE DEF st
  <2> QED BY <2>2, <2>3
<1> DEFINE st == Picked(r, finished)
<1>4. /\ st.pos = run[r].st.pos + Width(r) /\ st.chain = st.pos + 1 /\ st.finished = finished
      /\ st.kv = run[r].kv /\ st.nat = run[r].nat
  BY DEF Picked
<1>5. \A l \in Layers : run[r].kv[l] <= st.pos
  BY <1>1, <1>2, <1>4 DEF RunOK
<1>6. st \in States
  <2>1. run[r].kv \in [Layers -> 0..2 * MaxRows]
    <3>1. st.pos \in Nat /\ st.pos <= 2 * MaxRows /\ MaxRows \in Nat
      BY <1>2, <1>4, Bounds
    <3> HIDE DEF st
    <3>2. ASSUME NEW l \in Layers PROVE run[r].kv[l] \in 0..2 * MaxRows
      <4>1. run[r].kv[l] \in Nat /\ run[r].kv[l] <= st.pos
        BY <1>2, <1>5
      <4> QED BY <3>1, <4>1
    <3> QED BY <1>2, <3>2
  <2>2. run[r].st.pos + Width(r) \in 0..MaxRows /\ run[r].st.pos + Width(r) + 1 \in 0..MaxRows + 1
    BY <1>2, Bounds
  <2> QED BY <1>2, <2>1, <2>2 DEF Picked, States, Handles
<1>7. StateOK(st)
  BY <1>2, <1>4, <1>5 DEF StateOK, RunOK
<1> HIDE DEF st
<1>8. MayGo(where, run[r].path, run[r].n, run[r].max, run[r].gen + 1, st)
  <2>1. run[r].n >= 1
    BY <1>2 DEF RunOK
  <2>2. /\ run[r].gen + 1 \in 0..MaxNew /\ run[r].max \in 0..MaxNew
        /\ run[r].gen + 1 <= run[r].max /\ run[r].max >= 1 /\ run[r].gen + 1 >= 1
        /\ st.pos = run[r].n + (run[r].gen + 1) - 1
        /\ where = "loop" => run[r].gen + 1 < run[r].max
    <3>1. run[r].gen + 1 = run[r].max => where = "return"
      BY <1>3
    <3>2. where = "loop" => run[r].gen + 1 # run[r].max
      BY <3>1
    <3> QED BY <1>2, <1>4, <3>2, Bounds
  <2> QED BY <1>2, <1>4, <1>6, <1>7, <2>1, <2>2 DEF MayGo, Places
<1>9. run' = [run EXCEPT ![r] = Going(r, where, run[r].path, run[r].n, run[r].max,
                                     run[r].gen + 1, st)]
  BY <1>3 DEF st
<1>10. PrefixOK' /\ UNCHANGED <<config, sessions>>
  BY <1>1 DEF Shape, PrefixOK
<1>11. Shape'
  BY <1>8, <1>9, <1>10, GoesShape
<1>12. Goes(r, where, run[r].n, st)
  BY <1>8, <1>9, GoesFacts DEF MayGo
<1> QED BY <1>1, <1>3, <1>11, <1>12 DEF st

\* What is stored names as many tokens as the state has processed.
LEMMA StoreShape ==
  ASSUME Shape, NEW r \in Runs, StoreSessionPrefix(r)
  PROVE  /\ Shape' /\ run'[r].at = "done" /\ run[r].at = "return"
         /\ prefix' = [tokens |-> ReusableTokens(r), st |-> run[r].st]
         /\ \A q \in Runs \ {r} : run'[q] = run[q]
         /\ UNCHANGED <<config, sessions>>
<1>1. /\ run[r].at = "return" /\ Quit(r) /\ UNCHANGED <<config, sessions>>
      /\ prefix' = [tokens |-> ReusableTokens(r), st |-> run[r].st]
  BY DEF StoreSessionPrefix
<1>2. /\ run[r].gen >= 1 /\ run[r].st.pos = run[r].n + run[r].gen - 1 /\ run[r].n >= 1
      /\ run[r].st.chain = run[r].st.pos + 1 /\ StateOK(run[r].st) /\ run[r].st \in States
      /\ run[r].gen \in Nat /\ run[r].n \in Nat
  BY <1>1, RunFacts, Bounds DEF RunOK, Active
<1>3. run[r].st.pos \in 1..MaxRows /\ run[r].st.pos \in Nat
  BY <1>2, StateFacts, Bounds
<1>4. ReusableTokens(r) = run[r].st.pos
  BY <1>2, <1>3 DEF ReusableTokens
<1>5. PrefixOK'
  <2>1. /\ prefix'.tokens = run[r].st.pos /\ prefix'.st = run[r].st
        /\ prefix' \in [tokens : 1..MaxRows, st : States]
    BY <1>1, <1>2, <1>3, <1>4
  <2> QED BY <1>2, <2>1 DEF PrefixOK, StateOK, OwnLayer
<1>6. Shape' /\ run'[r].at = "done" /\ \A q \in Runs \ {r} : run'[q] = run[q]
  BY <1>1, <1>5, QuitShape
<1> QED BY <1>1, <1>6

\* A cancel: the run leaves for good, or with the state it has.
LEMMA StopShape ==
  ASSUME Shape, NEW r \in Runs, StopInStack(r) \/ StopBetweenSteps(r)
  PROVE  /\ Shape' /\ UNCHANGED <<config, sessions, prefix>> /\ ~calm
         /\ \/ run'[r].at = "done" /\ \A q \in Runs \ {r} : run'[q] = run[q]
            \/ run' = [run EXCEPT ![r] = Going(r, "return", run[r].path, run[r].n, run[r].max,
                                              run[r].gen, run[r].st)] /\ Active(r)
<1>1. UNCHANGED <<config, sessions, prefix>> /\ ~calm
  BY DEF StopInStack, StopBetweenSteps
<1>2. Quit(r) \/ (Goto(r, "return") /\ run[r].at \in {"loop", "step"})
  BY DEF StopInStack, StopBetweenSteps, InStack
<1>3. CASE Quit(r)
  <2>1. PrefixOK' /\ UNCHANGED <<config, sessions>>
    BY <1>1 DEF Shape, PrefixOK
  <2> QED BY <1>1, <1>3, <2>1, QuitShape
<1>4. CASE Goto(r, "return") /\ run[r].at \in {"loop", "step"}
  <2>1. "return" \in Places \ {"waiting", "first"}
    BY DEF Places
  <2>2. Shape' /\ run' = [run EXCEPT ![r] = Going(r, "return", run[r].path, run[r].n, run[r].max,
                                                  run[r].gen, run[r].st)]
    BY <1>1, <1>4, <2>1, GotoShape
  <2> QED BY <1>1, <1>4, <2>2 DEF Active
<1> QED BY <1>2, <1>3, <1>4

LEMMA DecodeStepShape ==
  ASSUME Shape, NEW r \in Runs, DecodeStep(r)
  PROVE  /\ Shape' /\ UNCHANGED <<config, sessions, prefix>> /\ run[r].at = "loop"
         /\ run' = [run EXCEPT ![r] = Going(r, "step", run[r].path, run[r].n, run[r].max,
                                           run[r].gen, run[r].st)]
<1>1. UNCHANGED <<config, sessions, prefix>> /\ run[r].at = "loop" /\ Goto(r, "step")
  BY DEF DecodeStep
<1>2. "step" \in Places \ {"waiting", "first"}
  BY DEF Places
<1>3. Shape' /\ run' = [run EXCEPT ![r] = Going(r, "step", run[r].path, run[r].n, run[r].max,
                                                run[r].gen, run[r].st)]
  BY <1>1, <1>2, GotoShape
<1> QED BY <1>1, <1>3

LEMMA DropShape ==
  ASSUME Shape, DropPrefix
  PROVE  Shape' /\ prefix' = None /\ UNCHANGED <<config, sessions, run>>
<1>1. prefix' = None /\ UNCHANGED <<config, sessions, run>>
  BY DEF DropPrefix
<1>2. \A r \in Runs : RunOK(r)'
  BY <1>1 DEF Shape, RunOK, Active, InStack, Width
<1> QED BY <1>1, <1>2 DEF Shape, PrefixOK, config

LEMMA StutterShape == ASSUME Shape, UNCHANGED vars PROVE Shape'
<1>1. UNCHANGED <<config, sessions, prefix, run>>
  BY DEF vars
<1>2. \A r \in Runs : RunOK(r)'
  BY <1>1 DEF Shape, RunOK, Active, InStack, Width
<1> QED BY <1>1, <1>2 DEF Shape, PrefixOK, config

-----------------------------------------------------------------------------
(* The rows                                                                *)

LEMMA EmptyClean == Clean(Empty)
  BY DEF Empty, Clean, NoSession, NoRows, NoSessions

LEMMA CleanExact == ASSUME NEW st, Clean(st) PROVE Exact(st)
  BY DEF Clean, NoSession, Exact, Rows

LEMMA PythonGoes ==
  ASSUME PythonInv, UNCHANGED <<config, prefix>>, NEW r \in Runs,
         NEW where, NEW n, NEW st, Goes(r, where, n, st), ~native => Clean(st)
  PROVE  PythonInv'
<1> SUFFICES ASSUME ~native' PROVE PythonInv'
  BY DEF PythonInv
<1>1. ~native /\ prefix' = prefix
  BY DEF config
<1>2. CleanRun(r)'
  <2>1. Clean(run'[r].st) /\ NoSession(run'[r].nat) /\ \A l \in Layers : ~(l < run'[r].layer)
    BY <1>1, Bounds DEF Goes, NoSession, NoSessions
  <2> QED BY <2>1 DEF CleanRun, Clean, NoSession
<1>3. ASSUME NEW q \in Runs \ {r}, Active(q)' PROVE CleanRun(q)'
  <2>1. run'[q] = run[q]
    BY DEF Goes
  <2>2. CleanRun(q)
    BY <1>1, <1>3, <2>1 DEF PythonInv, Active
  <2> QED BY <2>1, <2>2 DEF CleanRun, Clean, NoSession, InStack, Width
<1>4. prefix' # None => Clean(prefix'.st)
  BY <1>1 DEF PythonInv
<1> QED BY <1>2, <1>3, <1>4 DEF PythonInv, Clean, NoSession

LEMMA PythonGone ==
  ASSUME PythonInv, UNCHANGED config, NEW r \in Runs, Gone(r),
         ~native => (prefix' # None => Clean(prefix'.st))
  PROVE  PythonInv'
<1> SUFFICES ASSUME ~native' PROVE PythonInv'
  BY DEF PythonInv
<1>1. ~native
  BY DEF config
<1>2. ~Active(r)'
  BY DEF Gone, Active
<1>3. ASSUME NEW q \in Runs \ {r}, Active(q)' PROVE CleanRun(q)'
  <2>1. run'[q] = run[q]
    BY DEF Gone
  <2>2. CleanRun(q)
    BY <1>1, <1>3, <2>1 DEF PythonInv, Active
  <2> QED BY <2>1, <2>2 DEF CleanRun, Clean, NoSession, InStack, Width
<1> QED BY <1>1, <1>2, <1>3 DEF PythonInv, Clean, NoSession

LEMMA PythonPasses ==
  ASSUME Shape, PythonInv, NEW r \in Runs, RunPythonLayer(r)
  PROVE  PythonInv'
<1> DEFINE i == run[r].layer
<1>1. /\ run'[r].at = run[r].at /\ run'[r].st = run[r].st
      /\ run'[r].layer = i + 1 /\ Width(r)' = Width(r)
      /\ run'[r].kv = [run[r].kv EXCEPT ![i] = run[r].st.kv[i] + Width(r)]
      /\ run'[r].nat = [run[r].nat EXCEPT ![i] = None]
      /\ \A q \in Runs \ {r} : run'[q] = run[q]
  BY PythonShape
<1>2. /\ UNCHANGED <<config, prefix>> /\ InStack(r) /\ Active(r) /\ i \in Layers
      /\ run[r].kv \in [Layers -> Nat] /\ run[r].nat \in [Layers -> Handles \cup {None}]
  BY RunFacts DEF RunPythonLayer, InStack, Active
<1> SUFFICES ASSUME ~native' PROVE PythonInv'
  BY DEF PythonInv
<1>3. ~native /\ prefix' = prefix /\ CleanRun(r)
  BY <1>2 DEF config, PythonInv
<1> HIDE DEF i
<1>4. CleanRun(r)'
  <2>1. Clean(run[r].st) /\ run[r].st.kv[i] = run[r].st.pos /\ NoSession(run[r].nat)
    BY <1>2, <1>3 DEF CleanRun, Clean
  <2>2. NoSession(run'[r].nat)
    BY <1>1, <1>2, <2>1 DEF NoSession
  <2>3. ASSUME NEW l \in Layers, l < run'[r].layer
        PROVE  run'[r].kv[l] = run'[r].st.pos + Width(r)
    <3>1. CASE l = i
      BY <1>1, <1>2, <2>1, <3>1
    <3>2. CASE l # i
      <4>1. l < i
        BY <1>1, <1>2, <2>3, <3>2, Bounds
      <4>2. run[r].kv[l] = run[r].st.pos + Width(r)
        BY <1>2, <1>3, <4>1 DEF CleanRun, i
      <4> QED BY <1>1, <1>2, <3>2, <4>2
    <3> QED BY <3>1, <3>2
  <2> QED BY <1>1, <2>1, <2>2, <2>3 DEF CleanRun, Clean, NoSession
<1>5. ASSUME NEW q \in Runs \ {r}, Active(q)' PROVE CleanRun(q)'
  <2>1. run'[q] = run[q]
    BY <1>1
  <2>2. CleanRun(q)
    BY <1>3, <1>5, <2>1 DEF PythonInv, Active
  <2> QED BY <2>1, <2>2 DEF CleanRun, Clean, NoSession, InStack, Width
<1> QED BY <1>3, <1>4, <1>5 DEF PythonInv, Clean, NoSession

LEMMA PickedClean ==
  ASSUME NEW r \in Runs, CleanRun(r), InStack(r), run[r].layer = LayerCount, NEW finished
  PROVE  Clean(Picked(r, finished))
<1>1. \A l \in Layers : l < LayerCount
  BY Bounds DEF Layers
<1> QED BY <1>1 DEF Clean, CleanRun, Picked

LEMMA NativeGoes ==
  ASSUME NativeInv, UNCHANGED <<config, sessions, prefix>>, NEW r \in Runs,
         NEW where \in Places \ {"waiting", "done"}, NEW n, NEW st, Goes(r, where, n, st),
         Calmly => /\ \A q \in Runs \ {r} : ~Active(q)
                   /\ Exact(st)
                   /\ where = "first" /\ n - st.pos # 1 => NoSession(st.nat)
  PROVE  NativeInv'
<1> SUFFICES ASSUME Calmly' PROVE NativeInv'
  BY DEF NativeInv
<1>1. Calmly /\ prefix' = prefix /\ sessions' = sessions
  BY DEF config, Calmly
<1>2. \A q \in Runs \ {r} : ~Active(q)' /\ run'[q] = run[q]
  BY <1>1 DEF Goes, Active
<1>3. \A l \in Layers : Rows(st, l)' = st.pos
  BY <1>1 DEF Exact, Rows
<1>4. NativeRun(r)'
  <2>1. run'[r].at \in {"loop", "return"} => Exact(run[r].st)'
    BY <1>1, <1>3 DEF Goes, Exact, Rows
  <2>2. BuiltSoFar(r)'
    BY Bounds DEF BuiltSoFar, Goes
  <2>3. \A l \in Layers : Rows(run[r].st, l)' = run'[r].st.pos
    BY <1>1, <1>3 DEF Goes, Rows
  <2>4. InStack(r)' /\ Width(r)' # 1 => NoSession(run[r].st.nat)'
    BY <1>1 DEF InStack, Width, Goes, NoSession
  <2> QED BY <2>1, <2>2, <2>3, <2>4 DEF NativeRun
<1>5. ASSUME NEW q \in Runs \ {r} PROVE NativeRun(q)'
  BY <1>2, <1>5 DEF NativeRun, Active, InStack
<1>6. Active(r)' /\ ~Quiet'
  BY DEF Goes, Active, Quiet
<1> QED BY <1>2, <1>4, <1>5, <1>6 DEF NativeInv

LEMMA NativeGone ==
  ASSUME NativeInv, UNCHANGED <<config, sessions>>, NEW r \in Runs, Gone(r), Active(r),
         Calmly => (prefix' # None => Exact(prefix'.st))
  PROVE  NativeInv'
<1> SUFFICES ASSUME Calmly' PROVE NativeInv'
  BY DEF NativeInv
<1>1. Calmly /\ sessions' = sessions
  BY DEF config, Calmly
<1>2. \A q \in Runs : ~Active(q)'
  BY <1>1 DEF Gone, Active, NativeInv
<1>3. \A q \in Runs : NativeRun(q)'
  BY <1>2 DEF NativeRun, Active, InStack
<1>4. prefix' # None => Exact(prefix.st)'
  BY <1>1 DEF Exact, Rows
<1> QED BY <1>2, <1>3, <1>4 DEF NativeInv

\* A layer is passed, in Python or natively: what it leaves for the layers behind
\* it and how many rows it adds is all that matters.
LEMMA NativePasses ==
  ASSUME Shape, NativeInv, NEW r \in Runs, InStack(r), run[r].layer \in Layers,
         UNCHANGED <<config, prefix>>, Calmly => NativeRun(r),
         run'[r].at = run[r].at, run'[r].st = run[r].st,
         run'[r].layer = run[r].layer + 1, Width(r)' = Width(r),
         \A q \in Runs \ {r} : run'[q] = run[q],
         Calmly => \A l \in Layers :
           IF l > run[r].layer THEN Rows(run[r].st, l)' = Rows(run[r].st, l)
           ELSE (IF run'[r].nat[l] # None THEN sessions'[run'[r].nat[l]] ELSE run'[r].kv[l])
                  = run[r].st.pos + Width(r)
  PROVE  NativeInv'
<1> SUFFICES ASSUME Calmly' PROVE NativeInv'
  BY DEF NativeInv
<1>1. Calmly /\ prefix' = prefix /\ Active(r) /\ Active(r)' /\ ~Quiet' /\ InStack(r)'
  BY DEF config, Calmly, InStack, Active, Quiet
<1>2. \A q \in Runs \ {r} : ~Active(q)' /\ run'[q] = run[q]
  BY <1>1 DEF NativeInv, Active
<1>3. run[r].layer \in Nat /\ \A l \in Layers : l \in Nat
  BY Bounds
<1>4. NativeRun(r)'
  <2>1. ~(run'[r].at \in {"loop", "return"})
    BY DEF InStack
  <2>2. BuiltSoFar(r)'
    <3>1. ASSUME NEW l \in Layers, l < run[r].layer + 1 PROVE ~(l > run[r].layer)
      BY <1>3, <3>1
    <3> QED BY <1>1, <3>1 DEF BuiltSoFar
  <2>3. ASSUME NEW l \in Layers, l >= run'[r].layer PROVE Rows(run[r].st, l)' = run'[r].st.pos
    <3>1. l > run[r].layer /\ l >= run[r].layer
      BY <1>3, <2>3
    <3>2. Rows(run[r].st, l) = run[r].st.pos
      BY <1>1, <3>1 DEF NativeRun
    <3>3. Rows(run[r].st, l)' = Rows(run[r].st, l)
      BY <1>1, <3>1
    <3> QED BY <3>2, <3>3
  <2>4. Width(r)' # 1 => NoSession(run[r].st.nat)'
    BY <1>1 DEF NativeRun, NoSession
  <2> QED BY <2>1, <2>2, <2>3, <2>4 DEF NativeRun
<1>5. ASSUME NEW q \in Runs \ {r} PROVE NativeRun(q)'
  BY <1>2, <1>5 DEF NativeRun, Active, InStack
<1> QED BY <1>1, <1>2, <1>4, <1>5 DEF NativeInv

\* A stack of several tokens starts from nothing, so Python attention sees all
\* there is; a single token runs natively.
LEMMA NativeSeesPython ==
  ASSUME Shape, NativeInv, NEW r \in Runs, RunPythonLayer(r)
  PROVE  NativeInv'
<1> DEFINE i == run[r].layer
<1>1. /\ run'[r].at = run[r].at /\ run'[r].st = run[r].st
      /\ run'[r].layer = run[r].layer + 1 /\ Width(r)' = Width(r)
      /\ run'[r].kv = [run[r].kv EXCEPT ![i] = run[r].st.kv[i] + Width(r)]
      /\ run'[r].nat = [run[r].nat EXCEPT ![i] = None]
      /\ \A q \in Runs \ {r} : run'[q] = run[q]
  BY PythonShape
<1>2. /\ UNCHANGED <<config, prefix>> /\ sessions' = sessions
      /\ InStack(r) /\ i \in Layers /\ (Calmly => NativeRun(r))
      /\ run[r].kv \in [Layers -> Nat] /\ run[r].nat \in [Layers -> Handles \cup {None}]
      /\ native /\ Width(r) = 1 => ~calm
  BY RunFacts DEF RunPythonLayer, NativeInv
<1>0. i \in Nat /\ \A l \in Layers : l \in Nat
  BY <1>2, Bounds
<1>3. ASSUME Calmly, NEW l \in Layers
      PROVE  IF l > i THEN Rows(run[r].st, l)' = Rows(run[r].st, l)
             ELSE (IF run'[r].nat[l] # None THEN sessions'[run'[r].nat[l]] ELSE run'[r].kv[l])
                    = run[r].st.pos + Width(r)
  <2>1. NativeRun(r) /\ NoSession(run[r].st.nat) /\ BuiltSoFar(r)
    BY <1>2, <1>3 DEF NativeRun, Calmly
  <2>2. CASE l > i
    <3>1. Rows(run[r].st, l)' = Rows(run[r].st, l)
      BY <1>1, <1>2 DEF Rows
    <3> QED BY <2>2, <3>1
  <2>3. CASE l = i
    <3>1. run[r].st.kv[i] = run[r].st.pos /\ ~(l > i)
      <4>1. i >= i /\ ~(l > i)
        BY <1>2, <2>3, <1>0
      <4>2. Rows(run[r].st, i) = run[r].st.pos
        BY <1>2, <2>1, <4>1 DEF NativeRun
      <4> QED BY <1>2, <2>1, <4>1, <4>2 DEF Rows, NoSession
    <3>2. run'[r].nat[l] = None /\ run'[r].kv[l] = run[r].st.pos + Width(r)
      BY <1>1, <1>2, <2>3, <3>1
    <3> QED BY <3>1, <3>2
  <2>4. CASE l < i
    <3>1. ~(l > i) /\ run'[r].nat[l] = run[r].nat[l] /\ run'[r].kv[l] = run[r].kv[l]
      BY <1>1, <1>2, <2>4, <1>0
    <3> QED BY <1>2, <2>1, <2>4, <3>1 DEF BuiltSoFar
  <2>5. l > i \/ l = i \/ l < i
    BY <1>2, <1>0
  <2> QED BY <2>2, <2>3, <2>4, <2>5
<1> QED BY <1>1, <1>2, <1>3, NativePasses

\* The session of a layer is nobody else's, so the other layers keep their rows.
LEMMA NativeAppends ==
  ASSUME Shape, NativeInv, NEW r \in Runs, RunNativeLayer(r)
  PROVE  NativeInv'
<1> DEFINE i == run[r].layer
<1>1. /\ run'[r].at = run[r].at /\ run'[r].st = run[r].st
      /\ run'[r].layer = run[r].layer + 1 /\ Width(r)' = Width(r) /\ Width(r) = 1
      /\ Held(r) \in Handles /\ Held(r)[2] = i
      /\ run'[r].kv = [run[r].kv EXCEPT ![i] = 0]
      /\ run'[r].nat = [run[r].nat EXCEPT ![i] = Held(r)]
      /\ sessions' = [sessions EXCEPT ![Held(r)] = Rows(run[r].st, i) + 1]
      /\ \A q \in Runs \ {r} : run'[q] = run[q]
  BY NativeShape
<1>2. /\ UNCHANGED <<config, prefix>>
      /\ InStack(r) /\ i \in Layers /\ (Calmly => NativeRun(r))
      /\ run[r].kv \in [Layers -> Nat] /\ run[r].nat \in [Layers -> Handles \cup {None}]
      /\ sessions \in [Handles -> Nat] /\ RunOK(r) /\ Active(r) /\ run[r].st \in States
  BY RunFacts DEF RunNativeLayer, NativeInv, InStack, Active, Shape
<1>0. i \in Nat /\ (\A l \in Layers : l \in Nat) /\ Held(r) # None
  BY <1>1, <1>2, Bounds
<1>4. ASSUME Calmly, NEW l \in Layers
      PROVE  IF l > i THEN Rows(run[r].st, l)' = Rows(run[r].st, l)
             ELSE (IF run'[r].nat[l] # None THEN sessions'[run'[r].nat[l]] ELSE run'[r].kv[l])
                    = run[r].st.pos + Width(r)
  <2>1. NativeRun(r) /\ BuiltSoFar(r) /\ OwnLayer(run[r].nat) /\ OwnLayer(run[r].st.nat)
        /\ run[r].st.nat \in [Layers -> Handles \cup {None}]
    BY <1>2, <1>4, StateFacts DEF NativeRun, RunOK, StateOK
  <2>2. CASE l > i
    <3>1. l # i /\ run[r].st.nat[l] # Held(r)
      <4>1. l # i
        BY <1>0, <2>2
      <4> QED BY <1>0, <1>1, <2>1, <4>1 DEF OwnLayer
    <3>2. run[r].st.nat[l] # None => sessions'[run[r].st.nat[l]] = sessions[run[r].st.nat[l]]
      BY <1>1, <1>2, <2>1, <3>1
    <3> QED BY <1>1, <2>2, <3>2 DEF Rows
  <2>3. CASE l = i
    <3>1. Rows(run[r].st, i) = run[r].st.pos /\ ~(l > i)
      <4>1. i >= i /\ ~(l > i)
        BY <1>2, <2>3, <1>0
      <4> QED BY <1>2, <2>1, <4>1 DEF NativeRun
    <3>2. run'[r].nat[l] = Held(r) /\ Held(r) # None
      BY <1>1, <1>2, <2>3, <1>0
    <3>3. sessions'[Held(r)] = run[r].st.pos + Width(r)
      BY <1>1, <1>2, <3>1
    <3> QED BY <3>1, <3>2, <3>3
  <2>4. CASE l < i
    <3>1. ~(l > i) /\ l # i /\ run'[r].nat[l] = run[r].nat[l] /\ run'[r].kv[l] = run[r].kv[l]
      BY <1>1, <1>2, <2>4, <1>0
    <3>2. run[r].nat[l] # None => run[r].nat[l] # Held(r)
      BY <1>1, <2>1, <3>1 DEF OwnLayer
    <3>3. run[r].nat[l] # None => sessions'[run[r].nat[l]] = sessions[run[r].nat[l]]
      BY <1>1, <1>2, <3>2
    <3> QED BY <1>2, <2>1, <2>4, <3>1, <3>3 DEF BuiltSoFar
  <2>5. l > i \/ l = i \/ l < i
    BY <1>2, <1>0
  <2> QED BY <2>2, <2>3, <2>4, <2>5
<1> QED BY <1>1, <1>2, <1>4, NativePasses

LEMMA PickedExact ==
  ASSUME NEW r \in Runs, NativeRun(r), InStack(r), run[r].layer = LayerCount, NEW finished
  PROVE  Exact(Picked(r, finished))
<1>1. \A l \in Layers : l < LayerCount
  BY Bounds DEF Layers
<1>2. BuiltSoFar(r)
  BY DEF NativeRun
<1> QED BY <1>1, <1>2 DEF Exact, Rows, Picked, BuiltSoFar

-----------------------------------------------------------------------------
(* The invariant is inductive                                              *)

LEMMA InitIInv == Init => IInv
<1> SUFFICES ASSUME Init PROVE IInv
  OBVIOUS
<1>1. \A r \in Runs : run[r].at = "waiting"
  BY DEF Init, Waiting
<1>2. prefix = None
  BY DEF Init
<1>3. PythonInv
  BY <1>1, <1>2 DEF PythonInv, Active
<1>4. NativeInv
  BY <1>1, <1>2 DEF NativeInv, Active, NativeRun, InStack
<1> QED BY <1>3, <1>4, InitShape DEF IInv

LEMMA StartsKeep ==
  ASSUME IInv, NEW r \in Runs, NEW n \in 1..MaxPrompt, NEW max \in 1..MaxNew,
         NEW matches, NEW formatted, Starts(r, n, max, matches, formatted)
  PROVE  IInv'
<1>1. PICK path \in {"prefill", "append", "pending"}, st \in States,
           where \in {"first", "loop", "return"}, gen \in {0, 1} :
        /\ Entry(r, path, n, max, st, where, gen)
        /\ Shape' /\ run' = [run EXCEPT ![r] = Going(r, where, path, n, max, gen, st)]
  BY StartsFacts DEF IInv
<1>2. /\ UNCHANGED <<config, sessions, prefix>>
      /\ calm => \A q \in Runs : ~Active(q)
      /\ \/ st = prefix.st /\ prefix # None
         \/ st = Empty
      /\ where = "first" => \/ st = Empty
                            \/ st.pos < n /\ n - st.pos <= maxAppend
  BY <1>1 DEF Entry, Enter, Active
<1>3. Goes(r, where, n, st)
  <2>1. /\ where \in Places /\ n \in 0..MaxPrompt /\ max \in 0..MaxNew /\ gen \in 0..MaxNew
    BY Bounds DEF Places
  <2> QED BY <1>1, <2>1, GoesFacts DEF IInv
<1>4. PythonInv'
  <2>1. ~native => Clean(st)
    BY <1>2, EmptyClean DEF IInv, PythonInv
  <2> QED BY <1>2, <1>3, <2>1, PythonGoes DEF IInv
<1>5. NativeInv'
  <2>1. ASSUME Calmly
        PROVE  /\ \A q \in Runs \ {r} : ~Active(q)
               /\ Exact(st)
               /\ where = "first" /\ n - st.pos # 1 => NoSession(st.nat)
    <3>1. \A q \in Runs : ~Active(q)
      BY <1>2, <2>1 DEF Calmly
    <3>2. Quiet
      BY <3>1 DEF Quiet, Active
    <3>3. Exact(st)
      BY <1>2, <2>1, <3>2, EmptyClean, CleanExact DEF IInv, NativeInv
    <3>4. ASSUME where = "first", n - st.pos # 1 PROVE NoSession(st.nat)
      <4>1. CASE st = Empty
        BY <4>1, EmptyClean DEF Clean
      <4>2. CASE st.pos < n /\ n - st.pos <= 1
        <5>1. st.pos \in Nat /\ n \in Nat
          BY StateFacts, Bounds
        <5> QED BY <3>4, <4>2, <5>1
      <4> QED BY <1>2, <2>1, <3>4, <4>1, <4>2 DEF Calmly
    <3> QED BY <3>1, <3>3, <3>4
  <2>2. where \in Places \ {"waiting", "done"}
    BY DEF Places
  <2> QED BY <1>2, <1>3, <2>1, <2>2, NativeGoes DEF IInv
<1> QED BY <1>1, <1>4, <1>5 DEF IInv

LEMMA PickKeeps ==
  ASSUME IInv, NEW r \in Runs, PickToken(r)
  PROVE  IInv'
<1>1. Shape /\ PythonInv /\ NativeInv
  BY DEF IInv
<1>2. PICK finished \in BOOLEAN, where \in {"loop", "return"} :
        /\ Shape' /\ run[r].layer = LayerCount /\ InStack(r)
        /\ UNCHANGED <<config, sessions, prefix>>
        /\ run' = [run EXCEPT ![r] = Going(r, where, run[r].path, run[r].n, run[r].max,
                                          run[r].gen + 1, Picked(r, finished))]
        /\ Goes(r, where, run[r].n, Picked(r, finished))
  BY <1>1, PickShape
<1>3. Active(r) /\ where \in Places \ {"waiting", "done"} /\ where # "first"
  BY <1>2 DEF Active, InStack, Places
<1>4. PythonInv'
  <2>1. ~native => Clean(Picked(r, finished))
    BY <1>1, <1>2, <1>3, PickedClean DEF PythonInv
  <2> QED BY <1>1, <1>2, <2>1, PythonGoes
<1>5. NativeInv'
  <2>1. Calmly => Exact(Picked(r, finished)) /\ \A q \in Runs \ {r} : ~Active(q)
    BY <1>1, <1>2, <1>3, PickedExact DEF NativeInv
  <2> QED BY <1>1, <1>2, <1>3, <2>1, NativeGoes
<1> QED BY <1>2, <1>4, <1>5 DEF IInv

LEMMA DecodeStepKeeps ==
  ASSUME IInv, NEW r \in Runs, DecodeStep(r)
  PROVE  IInv'
<1>1. Shape /\ PythonInv /\ NativeInv
  BY DEF IInv
<1>2. /\ Shape' /\ UNCHANGED <<config, sessions, prefix>> /\ run[r].at = "loop"
      /\ run' = [run EXCEPT ![r] = Going(r, "step", run[r].path, run[r].n, run[r].max,
                                        run[r].gen, run[r].st)]
  BY <1>1, DecodeStepShape
<1>3. Active(r) /\ "step" \in Places \ {"waiting", "done"} /\ "step" # "first"
  BY <1>2 DEF Active, Places
<1>4. Goes(r, "step", run[r].n, run[r].st)
  <2>1. /\ run[r].path \in {"prefill", "append", "pending"}
        /\ run[r].n \in 0..MaxPrompt /\ run[r].max \in 0..MaxNew /\ run[r].gen \in 0..MaxNew
        /\ run[r].st \in States
    BY <1>1, RunFacts
  <2> QED BY <1>1, <1>2, <1>3, <2>1, GoesFacts
<1>5. PythonInv'
  <2>1. ~native => Clean(run[r].st)
    BY <1>1, <1>3 DEF PythonInv, CleanRun
  <2> QED BY <1>1, <1>2, <1>4, <2>1, PythonGoes
<1>6. NativeInv'
  <2>1. Calmly => Exact(run[r].st) /\ \A q \in Runs \ {r} : ~Active(q)
    BY <1>1, <1>2, <1>3 DEF NativeInv, NativeRun
  <2> QED BY <1>1, <1>2, <1>3, <1>4, <2>1, NativeGoes
<1> QED BY <1>2, <1>5, <1>6 DEF IInv

LEMMA StopKeeps ==
  ASSUME IInv, NEW r \in Runs, StopInStack(r) \/ StopBetweenSteps(r)
  PROVE  IInv'
<1>1. Shape /\ PythonInv /\ NativeInv
  BY DEF IInv
<1>2. /\ Shape' /\ UNCHANGED <<config, sessions, prefix>> /\ ~calm
      /\ \/ run'[r].at = "done" /\ \A q \in Runs \ {r} : run'[q] = run[q]
         \/ run' = [run EXCEPT ![r] = Going(r, "return", run[r].path, run[r].n, run[r].max,
                                           run[r].gen, run[r].st)] /\ Active(r)
  BY <1>1, StopShape
<1>3. NativeInv'
  BY <1>2 DEF NativeInv, Calmly, config
<1>4. CASE Gone(r)
  <2>1. ~native => (prefix' # None => Clean(prefix'.st))
    BY <1>1, <1>2 DEF PythonInv
  <2>2. PythonInv'
    BY <1>1, <1>2, <1>4, <2>1, PythonGone
  <2> QED BY <1>2, <1>3, <2>2 DEF IInv
<1>5. CASE run' = [run EXCEPT ![r] = Going(r, "return", run[r].path, run[r].n, run[r].max,
                                           run[r].gen, run[r].st)] /\ Active(r)
  <2>1. Goes(r, "return", run[r].n, run[r].st)
    <3>1. /\ run[r].path \in {"prefill", "append", "pending"} /\ "return" \in Places
          /\ run[r].n \in 0..MaxPrompt /\ run[r].max \in 0..MaxNew /\ run[r].gen \in 0..MaxNew
          /\ run[r].st \in States
      BY <1>1, RunFacts DEF Places
    <3> QED BY <1>1, <1>5, <3>1, GoesFacts
  <2>2. ~native => Clean(run[r].st)
    BY <1>1, <1>5 DEF PythonInv, CleanRun
  <2>3. PythonInv'
    BY <1>1, <1>2, <2>1, <2>2, PythonGoes
  <2> QED BY <1>2, <1>3, <2>3 DEF IInv
<1> QED BY <1>2, <1>4, <1>5 DEF Gone

LEMMA StoreKeeps ==
  ASSUME IInv, NEW r \in Runs, StoreSessionPrefix(r)
  PROVE  IInv'
<1>1. Shape /\ PythonInv /\ NativeInv
  BY DEF IInv
<1>2. /\ Shape' /\ run'[r].at = "done" /\ run[r].at = "return"
      /\ prefix' = [tokens |-> ReusableTokens(r), st |-> run[r].st]
      /\ \A q \in Runs \ {r} : run'[q] = run[q]
      /\ UNCHANGED <<config, sessions>>
  BY <1>1, StoreShape
<1>3. Gone(r) /\ Active(r) /\ prefix'.st = run[r].st
  BY <1>2 DEF Gone, Active
<1>4. PythonInv'
  <2>1. ~native => Clean(run[r].st)
    BY <1>1, <1>3 DEF PythonInv, CleanRun
  <2> QED BY <1>1, <1>2, <1>3, <2>1, PythonGone
<1>5. NativeInv'
  <2>1. Calmly => Exact(run[r].st)
    BY <1>1, <1>2 DEF NativeInv, NativeRun
  <2> QED BY <1>1, <1>2, <1>3, <2>1, NativeGone
<1> QED BY <1>2, <1>4, <1>5 DEF IInv

LEMMA DropKeeps == ASSUME IInv, DropPrefix PROVE IInv'
<1>1. Shape' /\ prefix' = None /\ UNCHANGED <<config, sessions, run>>
  BY DropShape DEF IInv
<1>2. PythonInv'
  BY <1>1 DEF IInv, PythonInv, Active, CleanRun, Clean, NoSession, InStack, Width, config
<1>3. NativeInv'
  <2>1. \A r \in Runs : NativeRun(r) => NativeRun(r)'
    BY <1>1 DEF NativeRun, InStack, BuiltSoFar, Rows, Width, Exact, NoSession
  <2> QED BY <1>1, <2>1 DEF IInv, NativeInv, Calmly, Active, config
<1> QED BY <1>1, <1>2, <1>3 DEF IInv

LEMMA StutterKeeps == ASSUME IInv, UNCHANGED vars PROVE IInv'
<1>1. Shape' /\ UNCHANGED <<config, sessions, prefix, run>>
  BY StutterShape DEF IInv, vars
<1>2. PythonInv'
  BY <1>1 DEF IInv, PythonInv, Active, CleanRun, Clean, NoSession, InStack, Width, config
<1>3. NativeInv'
  <2>1. \A r \in Runs : NativeRun(r) => NativeRun(r)'
    BY <1>1 DEF NativeRun, InStack, BuiltSoFar, Rows, Width, Exact, NoSession
  <2>2. (Quiet' => Quiet) /\ prefix' = prefix /\ (Exact(prefix.st) => Exact(prefix.st)')
    BY <1>1 DEF Quiet, Exact, Rows
  <2> QED BY <1>1, <2>1, <2>2 DEF IInv, NativeInv, Calmly, Active, config
<1> QED BY <1>1, <1>2, <1>3 DEF IInv

LEMMA Inductive == IInv /\ [Next]_vars => IInv'
<1> SUFFICES ASSUME IInv, [Next]_vars PROVE IInv'
  OBVIOUS
<1>1. CASE UNCHANGED vars
  BY <1>1, StutterKeeps
<1>2. CASE DropPrefix
  BY <1>2, DropKeeps
<1>3. ASSUME NEW r \in Runs, RunPythonLayer(r) PROVE IInv'
  BY <1>3, PythonShape, PythonPasses, NativeSeesPython DEF IInv
<1>4. ASSUME NEW r \in Runs, RunNativeLayer(r) PROVE IInv'
  <2>1. native /\ UNCHANGED config
    BY <1>4 DEF RunNativeLayer
  <2>2. PythonInv'
    BY <2>1 DEF PythonInv, config
  <2>3. Shape' /\ NativeInv'
    BY <1>4, NativeShape, NativeAppends DEF IInv
  <2> QED BY <2>2, <2>3 DEF IInv
<1>5. ASSUME NEW r \in Runs, StopInStack(r) \/ StopBetweenSteps(r) PROVE IInv'
  BY <1>5, StopKeeps
<1>6. ASSUME NEW r \in Runs, PickToken(r) PROVE IInv'
  BY <1>6, PickKeeps
<1>7. ASSUME NEW r \in Runs, DecodeStep(r) PROVE IInv'
  BY <1>7, DecodeStepKeeps
<1>8. ASSUME NEW r \in Runs, StoreSessionPrefix(r) PROVE IInv'
  BY <1>8, StoreKeeps
<1>9. ASSUME NEW r \in Runs, NEW n \in 1..MaxPrompt, NEW max \in 1..MaxNew,
             NEW matches, NEW formatted, Starts(r, n, max, matches, formatted)
      PROVE  IInv'
  BY <1>9, StartsKeep
<1> QED BY <1>1, <1>2, <1>3, <1>4, <1>5, <1>6, <1>7, <1>8, <1>9 DEF Next, Starts

\* Every state reached has the shape and the rows of the invariant.
THEOREM Invariance == Spec => []IInv
  BY InitIInv, Inductive, PTL DEF Spec

-----------------------------------------------------------------------------
(* What the runs check                                                     *)

\* Every variable has its type; a run has never generated more than it may.
THEOREM TypeCorrect == Spec => []TypeOK
<1>1. IInv => TypeOK
  <2> SUFFICES ASSUME Shape PROVE TypeOK
    BY DEF IInv
  <2>1. prefix = None \/ (prefix.tokens \in 1..MaxRows /\ prefix.st \in States)
    BY DEF Shape, PrefixOK
  <2>2. ASSUME NEW r \in Runs
        PROVE  /\ run[r].at \in {"waiting", "first", "loop", "step", "return", "done"}
               /\ run[r].path \in {"prefill", "append", "pending"}
               /\ run[r].n \in 0..MaxPrompt /\ run[r].max \in 0..MaxNew
               /\ run[r].gen \in 0..run[r].max
               /\ run[r].st \in States /\ run[r].layer \in 0..LayerCount
    <3>1. /\ run[r].gen \in 0..MaxNew /\ run[r].gen <= run[r].max /\ run[r].max \in 0..MaxNew
          /\ RunOK(r) /\ run[r].at \in Places /\ run[r].path \in {"prefill", "append", "pending"}
          /\ run[r].n \in 0..MaxPrompt /\ run[r].st \in States /\ run[r].layer \in 0..LayerCount
      BY RunFacts DEF RunOK
    <3>2. run[r].gen \in 0..run[r].max
      BY <3>1, Bounds
    <3> QED BY <3>1, <3>2 DEF Places
  <2> QED BY <2>1, <2>2 DEF Shape, TypeOK, Handles
<1> QED BY <1>1, Invariance, PTL

\* Without the native layer a cancel, a failure or another request of the chat at
\* any point leaves no state, stored or in a run, with a row too many or too few:
\* run_kv_decode_step builds new caches and the loop keeps them only with the token.
THEOREM PythonExact == Spec => []PythonKvExact
<1>1. IInv => PythonKvExact
  BY CleanExact DEF IInv, PythonInv, PythonKvExact, Holders, Active, CleanRun
<1> QED BY <1>1, Invariance, PTL

\* Native sessions, which a step extends in place, have a row for each position
\* as long as requests run one after another, none is stopped, and at most one
\* token is appended to a stored prefix.
THEOREM CalmNativeExact == Spec => []CalmNativeKvExact
<1>1. IInv => CalmNativeKvExact
  BY DEF IInv, NativeInv, Calmly, NativeRun, CalmNativeKvExact, Holders
<1> QED BY <1>1, Invariance, PTL

\* The token ids that a reply leaves behind are those the stored state has
\* processed, whichever way the loop was entered and left.
THEOREM PrefixIsAligned == Spec => []PrefixAligned
<1>1. IInv => PrefixAligned
  BY DEF IInv, Shape, PrefixOK, PrefixAligned
<1> QED BY <1>1, Invariance, PTL

=============================================================================
