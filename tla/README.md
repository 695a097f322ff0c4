# PocketLM: models, checks and proofs

This directory is a TLA+ development of PocketLM, a local runtime that runs
language models larger than the machine's memory. It models the parts of the
program whose correctness depends on the order of events: the jobs of the web
app and its caches, the K/V rows that live on between the requests of a chat,
speculative and FP8 generation, the ways a weight takes into memory, the warm
runner, the llama.cpp server, and the long jobs over files (conversion, download,
streaming). Paths below are relative to `src/src/pcketlm/`.

## The system

| Component | State it keeps | Operations | Talks to |
| --- | --- | --- | --- |
| Chat jobs, `app/web/main.py` | `_CHAT_JOBS` behind `_CHAT_JOBS_LOCK`; one daemon thread per job | start, status, cancel, worker, cleanup | runs `_run_chat_payload`, which calls the decoder, the warm runner or the GGUF backend |
| Response and prefix caches, `app/web/main.py` | two LRU tables with TTL | get, store, clean up, clear | read before a run, written after it, cleared by a settings change; runs, hits and polls read the settings file and set the environment |
| Prompt decode, `core/runtime/layer_bridge.py` | `KVDecodeState`: position, token chain, Python K/V tensors, native K/V sessions | prefill, append to a prefix, reuse a pending token, decode step | called by web app, warm runner and CLIs; loads tensors through residency |
| Tensor residency, `core/runtime/tensor_residency.py` | `_resident_tensors`, byte counters, expert activation, packed caches | load one or several, store, evict, clear | called by request threads and a prefetch thread per stack; reads through the tensor loader |
| Warm runner, `core/runtime/warm_runner.py` | `_RUNNERS` behind one lock; primed tokens, primed state, last state | start, prime, request, continue, stop | decoder, residency (clears), a JSON status file |
| GGUF backend, `core/runtime/gguf_backend.py` | a llama.cpp child, its pid file, a start lock shared by processes | start, stop, prompt, status | web app, CLIs |
| Q4 conversion, `core/model_import/q4_conversion_job.py` | state file, partial and final manifests, shard files | convert, resume | CLI |
| Speculative decoding, `core/runtime/speculative.py` | committed tokens, K/V rows, one pending token | propose, verify, commit, roll back, correct | layer bridge or FP8 verifier |
| FP8 and DeepSeek generation, `core/runtime/fp8_source.py`, `deepseek_gpu_residency.py` | K/V rows, prefill cache, resident layers, attention weights with a worker pool, shared by all decodes without a lock | decode, batched multi-token prediction, page in and out, prefetch | shards, GPU |
| Tensor loader and catalog, `core/runtime/tensor_loader.py`, `tensor_catalog.py`, `core/optimize/artifact_manifest.py` | remembered manifests, selected pack, file stamps, open handles | choose a source, read, clear | files that command lines of other processes write |
| Streaming, `core/runtime/streaming_*.py`, `window_schedule.py` | schedule, residency, index and cache files | bootstrap, rotate, materialize, verify, advance | CLI; source shards |
| Download, `app/chat_shell/import_cli.py` | received and named files, status file | download, resume | model hub |
| The rest | files or nothing | native kernels, registry, profiles, benchmarks, supervisor, desktop and CLI front ends | |

What is hard in this code:

- *Concurrency.* The HTTP server has a thread per request, each job a thread of
  its own, each layer stack a prefetch thread. Sections under a lock are short,
  and what is done between two of them is not protected: a job's answer is read
  without the lock, tensors are stored under a policy computed earlier. The attention
  weights of FP8 models and the environment have no lock at all.
- *Cancellation.* A cancel is a flag that a decode reads between layers and
  tokens. It may be seen late, never, or in the middle of a step that has
  already changed shared state in place.
- *Partial failure.* A layer, a prime or a caching loop may fail after part of
  its effects.
- *State that outlives a call.* Prefixes, native sessions, primed tokens and
  the experts of "the current step" are written by one call and trusted by
  later ones. Long sequences of legal calls matter more than any single one.
- *Crashes.* JSON and weight files are written in place: a death tears the one
  being written, and the next run decides by what it finds.
- *Limits.* Memory budgets, caps per layer, TTLs.

`PROJECT.json` lists the hazards one by one, at their lines.

What makes each component correct:

- a job ends exactly once, never completes after a cancel it could have seen,
  stays listed while alive, and every final status a client was told is final;
- every layer of a state that may be decoded next holds one K/V row per
  position the state claims, and the token ids stored beside it match it;
- byte counters equal what they count, every store leaves the cache within its
  policy, experts in use are the last to go;
- a warm answer is the answer the model would give to that prompt;
- an answer is the greedy one whatever was drafted, rejected, taken from a cache
  or paged out on the way;
- a launch does not load a second model while one is loaded, and the state file
  names the one that is;
- nothing that was cut off is later taken for whole, and work that is taken up
  again and again ends;
- a load gets what is on disk, whatever earlier loads have left in memory.

## Modules

`ChatLifecycle` is the abstract specification of a job: queued, running, one
final status, and no completion after a cancel. It has no threads, lock or
table.

`ChatJobs` is the implementation. `table`, `status`, `cancelReq`, `result` and
`updatedAt` are `_CHAT_JOBS` and the fields of `ChatJob`; `lock` is
`_CHAT_JOBS_LOCK`. A section under the lock is one action when no thread can
see it half done. The publication of a result is two actions with the lock held
in between (`PublishStatus`, `PublishResult`), because `_chat_job_payload` reads
the fields without the lock, which is two actions as well (`ReadStatus`,
`ReadResult`). `StartChatJob`, `InsertQueued` and `SpawnWorker` are the three
moments of `_start_chat_job`. What a run computes is abstracted to `full`,
`partial` (a cancel cut it short) or an exception. `KeepsThePromise` is the
refinement of `ChatLifecycle` with `phase <- status, cancelAsked <- cancelReq`.

`ChatJobs_proofs` proves about it (below).

`PromptDecode` models the K/V rows of one chat session. A row is a token processed
by a layer, so a Python cache is a row count; a native session is an object with a
committed length, which a decode step extends in place and which any state may refer
to. `run[r]` is one call of `run_prompt_decode_loop`: `ReusePendingToken`,
`AppendToPrefix` and `PrefillPrompt` are its three ways in, chosen by the predicates
of lines 5335-5379; one action runs one layer (`RunPythonLayer`, `RunNativeLayer`),
so that a cancel, a failure or another request may fall between two; `PickToken`
makes the next `KVDecodeState`; `StopInStack` and `StopBetweenSteps` are the exits
on cancel and failure, which differ in whether they return a state;
`StoreSessionPrefix` is what the web app does with the state. `MCPromptDecode` makes
the calls interchangeable. Three booleans and numbers are fixed per behavior:
whether native layers are used, the append limit, and `calm`, which restricts a
behavior to no cancel, failure or overlap.

`TensorResidency` models the cache of converted tensors. A load is a sequence
of actions: `BeginLoad` fixes the policy, `LookUp` is one lookup under the
lock, `ReadMissing` the disk read without it, `StoreTensor` or `SkipTensor` one
store under it. `Evictions` states what the three eviction loops remove without
saying which of several equal candidates goes first: minimal sets that make
room, idle experts before those of the current step. `MCTensorResidency` gives
it sizes, layers and two policies. The step of the model is the set of experts the
code goes by (`current`), which is not always that of a decode step (see below).

`WarmRunner` models one runner. All operations hold `_RUNNERS_LOCK`, so each is
one action; the difficulty is in sequences. An ask is a prompt and a chat
format, and its right (greedy) answer is the chain of its tokens 1, 2, ...; a
decode state is the ask it was made for and how many tokens it has generated.
`PrimeOutcomes` covers both prime modes, the caching loop and its partial
failures; `ServePrimed`, `ContinuePrimed`, `DecodeRequest` and `DecodeRaises`
are the branches of `run_warm_agent_prompt`. `WarmRunner_proofs` proves about it
(below).

### Generation

`GreedyDecode` is the abstract specification of every generator: the answer
grows by the tokens the verifier would choose one at a time, and is ready only
when complete.

`VerifierCore` holds what the generators share. The forward pass is the
constant `Argmax`, an operator from K/V rows to the preferred token; a row is a
token with the position it was rotated to, so that a lost, doubled or shifted row
changes the answer. `SpeculativeSession` is `speculative.py` over the layer
bridge (session with committed KV, generator, stateless verification);
`FP8Generation` the prefill cache, the plain loop and the cached session over the
FP8 verifier; `FP8MtpGeneration` batched multi-token prediction with a row or a
tree of candidates; `DeepSeekPager` the decode loops that page layers in and out
of a byte budget. `SpeculativeDecode` composes them: requests come one after
another, each to one generator, and share the prefill cache.
`MCSpeculativeDecode` gives it a vocabulary of three tokens, two prompts, a
verifier that is a hash of the rows, and requests of all kinds. A proposal is any
sequence of tokens and every pass may fail.

### Weights

`WeightSources` is the tensor loader. A file's content is the revision of the
shard it was made from, or `HalfWritten`; `stamp` is its modification time, new
with every write. `BeginPull` takes the catalog entry, `ChooseSource` is the
order Q4 artifact, runtime pack, shard; `LookUpCodes`, `ReadCodes`, `ReadScales`
are a Q4 load with its cache; `ReadBase`, `LookUpRaw`, `ReadBytes` the load of
raw bytes; `ReadScoped`, `OpenKept`, `ReadKept` the loads by handle. A command
line of another process opens a file (`OpenFile`), fills it (`FillFile`) or dies
(`JobDies`); a download replaces the shard; a clear comes in two steps.

`PackedCache` is the caches of raw bytes and of Q4 codes with their budgets;
`WeightLoads` puts `PackedCache`, `TensorResidency` and `WeightSources` beside one
another for one run.

`FP8AttentionCache` is the cache of dequantized attention weights. Any number of
decodes (`Decoders`: chat jobs and HTTP requests run in threads of their own and
no lock surrounds a decode) share it with each other and with the workers of the
prefetch executor, which is off unless the environment asks for it (`Workers = {}`).
One action is one access to state that no lock protects: finding a key and moving
it to the end, reading the count and writing it. Tasks of the executor outlive the
pass that sent them, and the table of futures. A clear
(`clear_fp8_attention_weight_cache`) comes in three steps at any time; in the
repository only tests and `tools/bench_fp8_avx512_moe.py` call it.

### Services

`Q4ConversionJob`: `files`, `partial`, `final` and `record` are the artifact
files, both manifests and the state file; a crash, a failing write or a failing
quantization may come at every step, and a run may resume or not.

`GgufServer`: launchers are threads or processes that go through the start lock,
the state file, the probe of the port, the spawn and the wait; a stop takes no
lock; the server is born, loads, is ready and dies by itself; launchers die too.
Every call of the system that the code makes may fail, in an action next to the one
where it does not (`ClientFails`): a probe (netstat, tasklist) that raises, times
out or exits otherwise counts as no process, a kill that fails is passed over, the
state file may not be readable, writable or removable. `lost` and `unnamed` record,
for the properties only, which servers these events cut loose. The control is that
of Windows, where `_process_exists` asks tasklist and the port is asked by netstat.

`ChatCaches`: the response cache and the session prefixes with their order lists,
TTL and limits. An entry is the settings it was made under. `saved` is the settings
file and `applied` the environment, as numbers of changes. A change saves and then
applies what it saved (`SaveSettings`, `ApplySettings`); every cache hit, every run
after its work (`Report`), every poll of the status (`Poll`) and the end of a change
(`ReportChange`) reads the file and sets the environment, in between which the file
may change (`Reapply`). A run or its entry is `astray` if the environment changed
under it, or had drifted from the file when it began, or if it went on from such a
prefix. `OrderLists`, which the pager and the streaming use too, says what is left
of an order when entries go and what bytes add up to; `OrderLists_proofs` has the
facts about it.

`ModelDownload`: bytes are modelled by the revision they come from, so a stretch
that is doubled, missing or of another revision shows.

`StreamingRuntime`: units of shards, a schedule of three windows, cache files,
index and residency; each call is a process of its own, and each file it writes
is a step at which it may die. `away` is a shard or a window directory that is
missing, without which the units are not ready. A schedule also records, for the
properties only, the manifests by whose sizes its windows were filled (`by`).
`MCStreaming` gives it two manifests over the same shards.

`LocalServices` puts these five beside one another. In the code they share no
state, so each behavior moves one of them.

`ServerMemory` puts what outlives a request in the web server's process beside one
another for one run: `WarmRunner`, `ChatCaches` and `FP8AttentionCache`.

A small operator next to the one it varies, marked as a mutant, belongs to no
specification: it is used to check that each property can fail.

## Runs

| Run | Instance | Shows |
| --- | --- | --- |
| `ChatJobs` | 2 jobs, 2 request threads, TTL 0, clock 0..1; 430 thousand states | `SettledOutcome`, `LiveJobsStayListed`, `FinalAnswersStand`, the refinement `KeepsThePromise` and, under fairness, `EveryJobEnds` |
| `PromptDecode` | 2 calls, 2 layers, prompts of 1..3 tokens, up to 3 new ones, append limit 1..2, calls interchangeable; 690 thousand states | `PythonKvExact` whatever happens, `CalmNativeKvExact` for undisturbed native decoding, `PrefixAligned` |
| `PromptDecodeTwice` | the same | `NoTokenTwice` fails: finding 1 |
| `PromptDecodeAppend` | the same | `AppendKeepsPrefix` fails: finding 2 |
| `TensorResidency` | module `MCWeightLoads`: 2 threads, 6 tensors, 2 policies, 4 batches; 2 loaders of 3 packed weights; 2 loads of 2 weights, 2 writing jobs or clears; 1.7 million states | `TotalsExact`, `EvictionsFollowPolicy` (`BudgetHolds`, `StepExpertsStay`), `PackedCacheSound`, `LoadsSound` |
| `ServerMemory` | module `MCServerMemory`: the warm runner with 2 prompts in 2 formats, both prime modes, up to 4 tokens asked, cap 2, chain of 6; 2 run threads and 2 changers, 2 keys, 2 sessions, 2 runs, 2 changes, 1 expiry, caches of 1; 2 decoders, 1 worker, 2 attention weights, room for 1, 3 passes or clears; 1.9 million states | `PrimedAnswersGreedy`, `AnswersMoveForward`, `ReusableMatchesState`, `OrderMatchesTable`, `OnlyAstrayIsStale`, `AttentionCacheSound` |
| `WarmRunnerContinue` | 1 prompt | `ContinuedAnswersGreedy` fails: finding 3 |
| `WarmRunnerStale` | 2 prompts, primes that may cache no tokens | `PrimedAnswersGreedy` fails: finding 4 |
| `SpeculativeDecode` | 3 tokens, 2 prompts, up to 4 new tokens, 2 requests of 7 kinds of generator, prefill cache of 1, 3 layers; 14 thousand states | `AnswerIsGreedy`, `CachesMatch`, `NextTokenIsGreedy`, `EndsAsItShould`, `PagerSound`, the refinement `ImplementsGreedy` and `RequestsEnd` |
| `SpeculativeNative` | 1 request, native layers, 2 candidates | `VerifiesAgainstCommitted` fails: finding 5 |
| `LocalServices` | 3 shards; 2 launchers, 2 servers, 1 stop, 2 failures; 1 run thread, 2 runs, 1 change; 2 files in 2 revisions; 3 shards cut in 3 or 4 units, 2 upsets; 380 thousand states | `SkippedShardsAreWhole`, `CompleteIsWhole`, `OneModelInMemory`, `StateNamesServer`, `WholeDownloads`, `StreamSound`, `FollowsOn`, and under fairness `WorkCompletes` and `CallsReturn` |
| `StreamPassesOver` | module `MCStreaming`: 2 manifests, no upset | `VerifiedIsWhole` fails: finding 6 |

Bounds. Two jobs show all interference between jobs, which only share the lock
and the cleanup; two request threads let a cancel or a second start fall into a
half-built answer; with TTL 0 and one tick, a job expires at every point after
it is final. Two layers suffice to stop between layers, two calls to overlap;
appends of one and of two tokens take different paths through the native test
`Width = 1`, and longer ones take the second again. The tensors are one pinned,
one evictable and one never cacheable under low memory, and experts that share
a layer and that do not; the budgets are such that each of them binds. `StopAt`
is beyond the longest answer of one request and within reach of continuation,
so that finished and unfinished states both occur. `MaxClock`, `MaxPrompt`,
`MaxNew` and `MaxAppend` bound what the code leaves unbounded or sets to
larger numbers.
Three tokens and positions in the hash tell rows apart that a mistake by one
would confuse; candidates of one and of three, answers of one and of four cover
a batch that ends before, at and after the limit; two requests let the second
find what the first left in the prefill cache. A layer takes 2 to 6 bytes and the
budgets are for about one and about two of them.

Two loads show what one leaves to the next and a clear between lookup and use; two
jobs let a conversion follow a replaced shard, and the initial shard may already be
newer than its catalog and artifacts. Three conversion shards are one done, one at
work and one to come; `Limits` has no limit and one shard per run; `MaxTrouble`
allows two crashes or failures. Two launchers and two servers are what a second
model needs; a stop may come once and two crashes or failing calls (`MaxFailures`),
at any step. Cache limits of one entry make every store evict. Two changes of the
settings are what the file and the environment need to part ways for longer than one
change takes, with one run before and one after, or two that overlap. Two decodes
are two that overlap; a third pass, or a clear, meets what both left behind; there
is room for one weight of two, one of which is pinned and one sent ahead, so that a
task evicts what a pass has just used. (With prefetch off the attention weights were
also run alone with three weights and room for two: 670 thousand states; the
responses and prefixes alone with three runs, four kinds of request and one change:
2.3 million; the streaming alone with three upsets: 360 thousand.) `MaxSetbacks` of
3 lets a download be cut off, answered without range, and cut off again. `Fine` and
`Coarse` cut the same bytes into other units; `MaxUpsets` of 2 lets a schedule that
was left by a death be found by a call with a file or a shard missing, or under the
other manifest.

Deadlock is not checked where the system may come to rest:
all jobs used and the clock at its bound, all calls returned, no load begun, or
the bounds on runs, changes, passes and upsets used up.

Fairness. `EveryJobEnds`: weak fairness of each worker thread and of the
request thread that still has to start one. The operating system schedules
threads that can run, and the lock is only held across a bounded number of
assignments. A run is assumed to return or raise; the code puts no time limit on
it. Clients are not fair: they may stop polling at any time. `RequestsEnd`: weak
fairness of the one thread a generator is. `CallsReturn`: weak fairness of each
launcher, whose waits the code limits by time, and none of the server.
`WorkCompletes`: a run that was begun goes on until it ends or dies, and whoever
wants the work done starts it again: weak fairness of `StartJob(TRUE)` and
`StartDownload`, strong fairness of a safe advance of the stream, which other
calls may disable in between. Crashes, failing calls and broken connections are
bounded and not fair. The other properties are about safety and need none.

## Findings

1. *A stopped step repeats its token* (`layer_bridge.py:1775`). With native
   layers, a decode step that is canceled or fails after some layers leaves
   their sessions one row ahead of the state that is stored for the chat. The
   comment at line 5904 promises that no token is processed twice.
2. *An append over native sessions loses the prefix* (`layer_bridge.py:5640`).
   A suffix of two or more tokens runs the Python attention over `kv_caches`,
   which is empty for a state made by native steps.
3. *A second continuation skips tokens* (`warm_runner.py:890`). The primed
   state moves on, the primed tokens do not.
4. *Tokens of a failed prime survive* (`warm_runner.py:533`) into a later prime
   of another prompt that caches none, and are served for it.
5. *A verification without the committed rows* (`speculative.py:497`). A
   corrected token is appended alone; if the layers decode single tokens
   natively, the session has no Python KV afterwards, and the next verification
   of several candidates sees neither prompt nor answer.
6. *A window that was never written passes the verification*
   (`streaming_materialize.py:285`). The blockers are what the index lists and the
   files lack. An index without segments has none, so the residency becomes ready
   and the stream is advanced past the hot window, and reported as healthy.

Findings 2 and 1 are why `CalmNativeKvExact` is stated for undisturbed behaviors
with appends of one token; finding 4 is why the `ServerMemory` run has `CacheTokens`
without 0 and the failing run has it. `Calm` in `SpeculativeDecode` is the same for
finding 5. `AdvancesHealthy` (in `StreamSound`) is `VerifiedIsWhole` for windows that
the index lists.

Other behaviour met while modelling, which the properties name as their exceptions:

- *Experts of the step.* Nothing in the program calls `advance_tensor_residency_step`
  (`tensor_residency.py:392`), so the experts "of the current decode step" (line 408)
  are those of all steps since the last clear: once every expert was seen, none is
  preferred for eviction.
- *Conversion.* A run that does not resume and is cut off leaves a torn file that
  state and final manifest call done, and, between codes and scales, a manifest
  over files of two conversions. A run with a limit may report a job complete
  without a final manifest after the partial one was lost, or if two shards have
  no tensors; such a shard is converted again by every run and uses up the limit.
- *Server.* A ready server is accepted whatever model it holds. A launch may start a
  second copy although `_server_start_lock` is there "so they cannot load duplicate
  models" (line 659): when netstat or tasklist fails, which counts as no process
  (lines 247-288), or when a server that is starting is lost (`lost`), that is, if
  neither a record nor a waiting launcher is left of it: its launcher died, could
  not write the state file or could not terminate it; a stop cleared the file
  meanwhile, or could not kill it; or the launch could not read the file. A server
  that listens is not the one the state file names (`unnamed` in `StateNamesServer`)
  if its launcher never wrote the file, or a stop cleared it although the server
  lives. The status then gives the model that its caller asks about
  (`gguf_backend.py:341-344`), which need not be the one that answers.
- *Caches of the web server.* Every run, cache hit and poll of the status reads the
  settings file and sets the environment from it, so a run has the settings change
  under it when a change, or any other request after its save, applies them; it
  stores an answer of the old ones after the clear. Two changes that overlap, or a
  thread that has read the file before a change and applies it after, leave file and
  environment different until the next report; runs that begin in between are
  answered under settings that are not saved, and those that are at work when the
  file is applied again have begun under the others. These are the runs astray that
  `OnlyAstrayIsStale` excepts; it holds of everything else.
- *Attention weights.* Two decodes that miss one weight both load and store it; its
  bytes are then counted twice and subtracted once (`overlapped`, `storedTwice`), so
  the cache holds less than it may, for good. A subtraction that is written over
  another thread's store, or a clear amid either, leaves the count wrong
  (`lostBytes`), and when it is below what is held, memory is not bounded by it. A
  hit leaves a finished future for a later miss, and tasks that a clear or an ended
  pass leaves behind store afterwards (`clearedAmid`). A thread whose key or victim
  another has evicted gets a `KeyError`.
- *Pager.* Layers on their way are not in the budget, and one layer may be larger
  than all of it.
- *Loader.* Bytes read under a catalog older than the shard are misplaced and no
  error shows. The stamps of Q4 files and the selected pack are remembered until a
  clear: weights of a new conversion are not seen before. A torn pack fails its
  loads, with no way back to the shard. Artifacts and packs do not know which
  revision of the shard they were made from. A clear may close a handle in use.
- *Download.* What was received of a longer older revision is answered with 416
  for good unless the size is known; a file that was received in full and whose
  size is unknown fails on every later run; a leftover of an older revision is
  accepted if the length fits.
- *Streaming.* The index is compared with the files and not with the schedule
  (finding 6): also after a failed materialization, a death between schedule and
  index, or a rebuilt schedule an advance may consume a window that was never on
  disk. No rotation passes over, loses or repeats a unit by itself (`FollowsOn`). A
  torn residency or index blocks for good. After a new bootstrap a unit of the same
  id may stand for other bytes, some of which are then streamed twice or not at all,
  and a rotation over ids that are gone ends with an exception. A rotation fills
  windows up to the targets of its schedule by the sizes of the present manifest:
  after two bootstraps that keep the ids of the units, a window may be larger than
  its target by the sizes of the manifest it then belongs to. `StreamInOrder`
  therefore goes by the sizes a window was filled by.
- *Page.* It stops polling at the first `completed`, which an unlocked read may
  return before the result is set; it then shows "(no generated text)".

## Proofs

`ChatJobs_proofs` holds for any sets of jobs and request threads, any TTL and
any bound of the clock, from `ConstantsAssumption` alone (natural numbers, and
`Free` and `None` distinct from the values they are compared with).

None of the safety properties is inductive by itself. That a listed job is
live, for example, depends on its thread being at a point that its status
allows, and that an answer stands depends on the thread that wrote it having
ended. `Inv` adds what is missing, for each job (`JobInv`: status, worker, lock,
flag and result together), for each request thread (`HandlerInv`), and that no
two request threads start one job (`OneStarter`). The module proves `Init =>
Inv`, one lemma for each action that it keeps `Inv`, and `Invariance`. From it
follow:

- `TypeCorrect`, `OutcomesSettle`, `LiveJobsListed`, `AnswersStand`: the four
  invariants of the run `ChatJobs`;
- `Implements`: every step of `ChatJobs` from a state of `Inv` is a step of
  `ChatLifecycle` or leaves it unchanged. The invariant is needed for the
  publication: a worker that publishes `completed` is in a job that is running
  and not asked to stop.

`WarmRunner_proofs` holds for any prompts, modes and limits, from
`ConstantsAssumption` and `NoneAssumption`. Its lemmas say what a decoding loop
returns (`LoopFacts`), what a prime leaves behind (`AfterPrimeKeeps`) and that
each operation keeps `Inv`: the runner is a well-formed record whose kept ids
agree with its kept state, and the answer is no longer than asked. `Inv` is
inductive because every state in it lies on a greedy chain and none passes
`StopAt`, which the continuation needs.

- `TypeCorrect`, `KeptIdsMatchState`: two invariants of the run `ServerMemory`;
- `PrimedAnswersAreOwn`: `PrimedAnswersGreedy`, under the premise that 0 is not
  in `CacheTokens`, the case of finding 4. It needs `PrimeInv`: a primed runner
  holds a beginning of the chain of its own ask, since in prefill mode the
  caching loop replaces whatever a failed prime left, and in generate mode a
  failed prime leaves no tokens;
- `AnswersGoForward`: `AnswersMoveForward`, under the same premise. A continued
  answer is put together from primed tokens and from steps that start at the primed
  state, which a continuation moves (finding 3). `ForwardInv` says that this state
  is of the same ask and never before the last primed token.

`PromptDecode_proofs` holds for any number of layers and calls and any lengths, from
`ConstantsAssumption`. `IInv` is `Shape`, which is about all behaviors, and one
part for each kind of layer. `Shape` has the types and what each place in a call
implies (`RunOK`), and that a stored prefix has as many token ids as its state has
positions (`PrefixOK`). `PythonInv`: without native layers nobody has a session,
every state, stored or in a call, is exact at every moment, and the layers a step
has passed are exactly one step further (`CleanRun`). `NativeInv`, for behaviors
that are calm and append one token at a time: one call is active, what it has not
passed is exact, and between calls the stored state is. That a native session is
extended in place is why the second part needs these premises and the first does
not: findings 1 and 2 are what happens without them. From `IInv` follow
`TypeCorrect`, `PythonExact`, `CalmNativeExact` and `PrefixIsAligned`, the four
invariants of the run.

`WeightLoads_proofs` is about `LoadSpec` and `WSpec`, for any threads, tensors,
sizes and policies, any number of loads and of writing jobs, from
`ConstantsAssumption` (finitely many tensors; experts have keys),
`SourceAssumption`, `PackAssumption` (packs have sizes) and `WeightAssumption`
(finitely many attention weights and workers, and a pass asks for a weight once,
since the names of a layer's projections differ).

- *Converted tensors.* `ResidencyInv`: both counters are the sums over what is
  resident. Sums are sizes of sets of bytes (`TotalOf` in `OrderLists`), so that
  they can be reasoned about without induction: `TotalAdds` and `BytesSwap` say what
  a store with its evictions makes of them. `TypeCorrect` and `CountersExact` are
  invariants; `StoresWithinBudget` (`BudgetHolds`) and `StepExpertsLast`
  (`StepExpertsStay`), together `EvictionsByPolicy`, are properties of steps, which
  rest on the counters being exact, since the evictions decide by the counters and
  the properties speak of what is there.
- *Files.* `LoadsAreSound` (`LoadsSound`). `SourceInv` relates what is remembered to
  the stamps: a manifest or bytes remembered under the present stamp are those on
  disk (`RecalledOK`, `CodesOK`, `RawOK`); a load that nothing overtook knows what
  is on disk at each point between its reads (`Knows`). The difficulty is the
  remembered stamps of the Q4 files, which stay until a clear: a load may then look
  up codes under old stamps. The invariant says that it still goes by the stamps
  that are remembered, or that all codes in memory are those on disk
  (`recalled.paths = p.held.key \/ AllCurrent`).
- *Packed weights.* `PackedIsSound` (`PackedCacheSound`). `PackInv`: the packs are
  listed once, their count is exact, and when it is over every budget, at most one
  pack besides those always kept is held, since a store evicts until the new one fits
  or nothing else may go.
- *Attention weights.* `AttentionIsSound` (`AttentionCacheSound`), for any number of
  decodes, workers, passes and clears that interleave in any way. `AttentionInv` has
  three layers. What always holds: the types, that what makes room is not larger
  than the cache (`Admitted`), and that workers and the tasks that were taken and not
  answered belong to one another (`TasksTaken`). While decodes came one after another
  and no clear fell among them, `OneByOne`: a task still to answer has the future of
  its key, a weight that has such a future or is loaded by the decoder is not held,
  and only one decoder is under way; so nothing is loaded or stored twice. While no
  update of the count was overwritten, `Counted`: the count is at least what is held
  and what threads have evicted and not yet subtracted (`Leaving`), and exactly that
  if no weight was stored twice; and what is held together with what is about to be
  stored (`Coming`) is over the limit by at most one weight for each thread but one,
  since a thread that found room compared with a count that the others may each raise
  by one weight. The exceptions of the property (`overlapped`, `clearedAmid`,
  `lostBytes`, `storedTwice`) are where these steps fail: two decodes that miss one
  weight, a task whose future a clear took, and a count written over another's.

`LoadTypes` has the types of all these parts but the attention weights, whose types
are part of `AttentionInv` (`AttentionTypes`).

`SpeculativeDecode_proofs` is about all generators together, for any vocabulary,
prompts, layers, windows, limits and requests, from the assumptions of
`VerifierCore` on its constants (a request to the loops that draft asks for at least
one token, one to a probe for none). Two hypotheses are stated in the theorems, as
TLC cannot evaluate them: `VerifierChooses`, that the verifier has a choice of the
vocabulary after any rows, which the argmax over its logits has; and
for `Implements` alone, `CalmRequests`: native sessions are asked for one candidate
at a time, the condition of finding 5. The requests of the run satisfy it; for the
others `AnswerIsGreedy` and `CachesMatch` make the exception themselves (`Calm`).

`IInv` has, besides the shapes, a part for each generator at work (`StatelessInv`,
`StatefulInv`, `CachedInv`, `PlainInv`, `PagedInv`, `MtpInv`): how prompt, answer,
committed tokens, K/V rows and pending token fit together at each point of its
loop, and, between a verification and the acceptance, that the verifier's ids are
its choices after each prefix of the candidates (`IdsExact`) and the tentative rows
those of the candidates. `AnswerInv` says the answer is exact so far (`Exact`).
`ExactExtend` is the lemma on which speculation rests: an exact answer, the
candidates that agree with the ids, and the next id are an exact answer. `Rows`
lemmas say that rows of a concatenation are the rows of its parts at their
positions, so rows cut or appended in the code are the rows of the tokens kept.
The pager of the DeepSeek layers has an invariant of its own, `PagerBooks`, about
the behaviors that `IInv` describes: the order lists each resident layer once and
nothing else, and no layer on its way (`Listed`); the pass has yet to come to what
is on its way (`OnTheirWay`); and from an eviction to the next store what is resident
fits the budget or is the protected layer alone (`Fits`). An eviction takes the
shortest beginning of the order after which the rest fits, which exists (`LeastOf`),
and leaves the order without it (`EnforcedBooks`).
The listed theorems are `TypeCorrect`, the six invariants of the run, and
`Implements`: initial states map to initial states of `GreedyDecode`, and every step
of every generator to one of its steps or to a stutter.

`LocalServices_proofs` is about `LocalServices`. Each step of it is a step of one
component that leaves the others alone (`OwnSteps`), so `ServicesInv` is the
conjunction of the components' invariants, and `ServicesStep` follows from what is
proved of each component: of the conversion in `Q4ConversionJob_proofs`, of the
others in `LocalServices_proofs` itself. The theorems state every invariant of the
run, and the two of `ServerMemory` about the responses and prefixes.

`Q4ConversionJob_proofs`, for any number of shards, any limits and any number of
crashes. `IInv` says what the run at work holds in memory, what it has claimed on
disk and which files are whole, at each point where a crash may come: the partial
manifest never names a shard before its files are whole, and the state file never
before the manifest. From it `SkipsWhole` and `ConversionSkipsWhole`; with
`Thorough`, which counts the shards a run has gone through, `CompleteWhole` and
`ConversionCompleteWhole`.

`GgufServer`, for any clients, servers and stops, and any number of crashes and of
probes, kills, reads and writes that fail. `ServerInv` says that the lock has one
holder (`LockHeld`, `Spawned`) and, until a server is lost, that no process lives but
a waiting launcher's own (`OwnsAll`), that whatever lives can be found by the port,
the state file or its launcher (`Traced`), also by a launcher that has read the state
file before (`StillFound`), that one lives at most (`OneLives`), and that the state
file names it, its launcher is about to record it, or it is among the servers that
were never recorded or lost their record (`Named`). `lost` and `unnamed` are set by
the very step that breaks these and by nothing else, so the proof is also the check
that the exceptions are all there are. `OneModel` and `StateNames` follow. A lost
server that has died leaves `lost` set: from then on nothing is claimed.

`ChatCaches`, for any runs, changes, hits and polls. `CacheInv` says of every run at
work that it is marked as astray, or works under the settings of the environment and
that has not drifted from the file (`OnCourse`, `RunsInForce`); and of every answer
and prefix that it is marked, is of the settings of the file, or a change that will
still clear it is under way (`AnswersInForce`, `PrefixesInForce`). The step that
matters is a report that takes an older value from the file: it either leaves the
environment as it is or marks every run at work (`Under`). `OnlyAstray` follows.
`OrdersKept` adds that a run past its start has a key, one that looks for a prefix
a session, and that the orders match the tables (`OrderMatchesTable`): moving an entry
to the end, taking out what has expired and evicting the first keep the match
(`UseKeepsMatch`, `RemovalKeepsMatch`, `PutMatches`). What is left of a list is
defined by the places that stay (`OrderLists`) and not by the recursion of
`SelectSeq`, so that `WithoutAllFacts` needs no induction.

`ModelDownload`, for any files, lengths, revisions and setbacks. `DownloadInv` says
that a run has finished every file it has not to do any more (`RunSoFar`), and
that as long as the repository did not change everything stored is the beginning
of the first revision's file, what is being received included (`OneRevision`).
`DownloadsAreWhole` follows: a file gets its name only when its length is right.

`StreamingRuntime`, for any manifests of finitely many bytes whose unit ids differ
and whose warm target is at most the hot one, and any number of upsets
(`StreamAssumption`), with shards and window directories that go missing.
`StreamInv` has three ideas besides the types. A schedule that
is ready, on disk or about to be written, splits the last units of its manifest in
three at two places, and its windows fit (`InWindows`); `BuiltSound` and
`RotatedSound` say that building and rotating make such a schedule, from what a
window that is filled holds (`FillFacts`) and what is left of a list without a
beginning of it (`CutOff`). A segment of the index has the bytes of its unit in some
manifest (`IndexSound`), which needs the manifest to stay during a call. And what
the index lists is in the cache, as long as nothing went wrong (`Unspoilt`), or when
a safe advance has verified it and the residency says so (`Verified`).
`StreamIsSound` (`StreamSound`) follows. `RotationsFollow` (`FollowsOn`) is about one
step, the write of a rotated schedule, but the schedule it replaces is the one the
rotation was made from only because nothing else writes one during the call
(`TurnSound`), and it loses no unit only because those it had are units of the
present manifest (`Follows` in `RotatedSound`).

Only model-checked: all liveness (`EveryJobEnds`, `RequestsEnd`, `CallsReturn`,
`WorkCompletes`), which is beyond the prover. Every other property of the passing
runs is stated by a theorem.

## Not modelled

- *Within the modelled parts.* The monolithic 14B path, native MoE layers, chunked
  prefill, native prefill (off unless the environment enables it) and the cached
  prefill tail of the decoder; how a policy or a budget is computed from free memory
  and the environment, including `_scoped_environment`; texts, timings, statistics
  and the warm runner's status file. A warm runner's states are taken to decode
  correctly: what native sessions do to them is the subject of `PromptDecode`. Of
  the FP8 path the caches of spans, experts and regular tensors, the pack file and
  remote range reads. Process ids are not reused; a server is asked only by its
  port. Two writes of one file within the resolution of its time stamp count as two
  stamps.
- *Not at all.* Tensor arithmetic, the bindings of the native kernels and the GPU
  code; registries, profiles, reports and benchmarks that run sequentially over
  files of their own; command lines and user interfaces.

The map covers about a sixth of the implementation's lines. The rest is, by size:
numeric kernels and their bindings (`native/__init__.py`, most of
`fp8_source.py`, the layer arithmetic of `layer_bridge.py`), code that formats
reports, and front ends. Its control is mostly a pass from first line to last,
which a model would only repeat.

## Plan

Done, in this order: `ChatLifecycle`, `ChatJobs`; `PromptDecode`; `TensorResidency`;
`WarmRunner`; the generators from `GreedyDecode` to `SpeculativeDecode`;
`Q4ConversionJob`, `GgufServer`, `ChatCaches`; `FP8AttentionCache`, `PackedCache`,
`WeightSources`, `WeightLoads`; `ModelDownload`, `StreamingRuntime`,
`LocalServices`, `ServerMemory`; the proofs above.

Next: the parts of the FP8 path that are not modelled (the caches of spans and of
experts), and the monolithic path of the decoder.
