-------------------------- MODULE Q4ConversionJob --------------------------
(***************************************************************************)
(* The resumable conversion of a model to Q4 (q4_conversion_job.py and     *)
(* q4_quantize.py).  The disk holds, per source shard, a pair of artifact  *)
(* files, and for the whole job a partial manifest, a final manifest and a *)
(* state file.  None of them is written atomically: a crash can tear the   *)
(* one being written, and a torn JSON file reads as if it were missing.    *)
(***************************************************************************)
EXTENDS Integers, FiniteSets

CONSTANTS ShardCount,   \* source shards, converted in the order 1 .. ShardCount
          Limits,       \* values of max_new_shards; 0 stands for None
          MaxTrouble,   \* bound on crashes, failures, blocks and fresh runs
          NoFile,       \* the JSON file does not exist
          TornFile      \* the JSON file exists and does not parse

ASSUME ShardAssumption == ShardCount \in Nat \ {0}
ASSUME LimitAssumption == Limits \subseteq Nat /\ MaxTrouble \in Nat

\* What a JSON file can hold is told from its absence and from a torn one.
ASSUME FileAssumption ==
    /\ \A shards \in SUBSET (1 .. ShardCount) : shards \notin {NoFile, TornFile}
    /\ \A state \in [status : {"blocked", "running", "error", "paused", "complete"},
                    completed : SUBSET (1 .. ShardCount)] : state \notin {NoFile, TornFile}

VARIABLES files,      \* the artifact pair of a shard
          partial,    \* q4_manifest.partial.json: the shards with entries
          final,      \* q4_manifest.json
          record,     \* the state file: [status, completed]
          floating,   \* the shards that have floating tensors at all
          step,       \* where the job is; "off" when none runs
          shard,      \* the shard of the loop
          manifest,   \* the shards with entries in the job's memory
          completed,  \* completed_shards in the job's memory
          limit,      \* max_new_shards of this run
          fresh,      \* new_shards_done
          stopped,    \* stopped_early
          past,       \* what went wrong so far: a "fresh" run, a
                      \* partial manifest "torn" or not written
          trouble     \* how often something went wrong

jobDisk == <<files, partial, final, record, floating>>
jobMemory == <<shard, manifest, completed, limit, fresh, stopped>>
jobVars == <<files, partial, final, record, floating, step, shard, manifest,
             completed, limit, fresh, stopped, past, trouble>>

Shards == 1 .. ShardCount

\* "half": not both files exist; "torn": both exist and one is cut short.
FileStates == {"none", "half", "torn", "whole"}

\* _read_json: a missing file and a torn one both read as None.
Readable(file) == file \notin {NoFile, TornFile}

\* A plan without any floating tensor is not ready for conversion.
JobInit ==
    /\ files = [s \in Shards |-> "none"]
    /\ partial = NoFile /\ final = NoFile /\ record = NoFile
    /\ floating \in (SUBSET Shards) \ {{}}
    /\ step = "off" /\ shard = 1 /\ manifest = {} /\ completed = {}
    /\ limit = 0 /\ fresh = 0 /\ stopped = FALSE
    /\ past = {} /\ trouble = 0

-----------------------------------------------------------------------------
(***************************************************************************)
(* One run.                                                                *)
(***************************************************************************)
\* What a resuming run finds on disk.
RecordedShards == IF Readable(record) THEN record.completed ELSE {}

RecordedManifest == CASE Readable(partial) -> partial
                      [] ~Readable(partial) /\ Readable(final) -> final
                      [] OTHER -> {}

\* A run without resume starts from nothing, over whatever is on disk.
StartJob(resume) ==
    /\ step = "off"
    /\ completed' = IF resume THEN RecordedShards ELSE {}
    /\ manifest' = IF resume THEN RecordedManifest ELSE {}
    /\ limit' \in Limits
    /\ shard' = 1 /\ fresh' = 0 /\ stopped' = FALSE
    /\ step' = "shard"
    /\ IF resume THEN UNCHANGED <<past, trouble>>
                 ELSE /\ trouble < MaxTrouble
                      /\ past' = past \cup {"fresh"} /\ trouble' = trouble + 1
    /\ UNCHANGED jobDisk

\* The plan is not ready or the disk is full: the state file says so.
BlockJob ==
    /\ step = "shard" /\ shard = 1 /\ fresh = 0 /\ trouble < MaxTrouble
    /\ record' = [status |-> "blocked", completed |-> completed]
    /\ step' = "off" /\ trouble' = trouble + 1
    /\ UNCHANGED <<files, partial, final, floating, past>> /\ UNCHANGED jobMemory

CanSkip(s) == /\ s \in completed
              /\ files[s] \in {"torn", "whole"}
              /\ s \in manifest

LimitReached == limit # 0 /\ fresh >= limit

SkipShard ==
    /\ step = "shard" /\ shard \in Shards /\ CanSkip(shard)
    /\ step' = "partial"
    /\ UNCHANGED <<past, trouble>> /\ UNCHANGED jobDisk /\ UNCHANGED jobMemory

StopEarly ==
    /\ step = "shard" /\ shard \in Shards /\ ~CanSkip(shard) /\ LimitReached
    /\ stopped' = TRUE /\ step' = "close"
    /\ UNCHANGED <<shard, manifest, completed, limit, fresh, past, trouble>>
    /\ UNCHANGED jobDisk

\* Mutant: the loop goes one shard too far.
OpenShardBeyond ==
    /\ step = "shard" /\ ~CanSkip(shard) /\ ~LimitReached
    /\ manifest' = manifest \ {shard}
    /\ step' = "save"
    /\ UNCHANGED <<shard, completed, limit, fresh, stopped, past, trouble>>
    /\ UNCHANGED jobDisk

\* The entries of the shard leave the manifest before it is converted again.
OpenShard ==
    /\ step = "shard" /\ shard \in Shards /\ ~CanSkip(shard) /\ ~LimitReached
    /\ manifest' = manifest \ {shard}
    /\ step' = "save"
    /\ UNCHANGED <<shard, completed, limit, fresh, stopped, past, trouble>>
    /\ UNCHANGED jobDisk

\* A shard with no floating tensor has no files and no entries.
SaveShard ==
    /\ step = "save"
    /\ IF shard \in floating
         THEN /\ files' = [files EXCEPT ![shard] = "whole"]
              /\ manifest' = manifest \cup {shard}
         ELSE UNCHANGED <<files, manifest>>
    /\ fresh' = fresh + 1
    /\ step' = "partial"
    /\ UNCHANGED <<partial, final, record, floating, shard, completed, limit,
                   stopped, past, trouble>>

\* on_progress writes the manifest, then the state.
WritePartial ==
    /\ step = "partial"
    /\ completed' = completed \cup {shard}
    /\ partial' = manifest
    /\ step' = "record"
    /\ UNCHANGED <<files, final, record, floating, shard, manifest, limit, fresh,
                   stopped, past, trouble>>

WriteRecord ==
    /\ step = "record"
    /\ record' = [status |-> "running", completed |-> completed]
    /\ shard' = shard + 1
    /\ step' = "shard"
    /\ UNCHANGED <<files, partial, final, floating, manifest, completed, limit,
                   fresh, stopped, past, trouble>>

\* The loop is through all shards: the final manifest is written.
WriteFinal ==
    /\ step = "shard" /\ shard \notin Shards
    /\ final' = manifest
    /\ step' = "close"
    /\ UNCHANGED <<files, partial, record, floating, past, trouble>>
    /\ UNCHANGED jobMemory

Complete == Cardinality(completed) >= ShardCount

RemovePartial ==
    /\ step = "close"
    /\ partial' = IF Complete THEN NoFile ELSE partial
    /\ step' = "last"
    /\ UNCHANGED <<files, final, record, floating, past, trouble>>
    /\ UNCHANGED jobMemory

WriteLast ==
    /\ step = "last"
    /\ record' = [status    |-> IF Complete THEN "complete" ELSE "paused",
                  completed |-> completed]
    /\ step' = "off"
    /\ UNCHANGED <<files, partial, final, floating, past, trouble>>
    /\ UNCHANGED jobMemory

-----------------------------------------------------------------------------
(***************************************************************************)
(* What can go wrong.                                                      *)
(***************************************************************************)
\* Saving writes the Q4 file, then the scales; cut short, it leaves the pair
\* as it was or with one of the two incomplete.
CutFiles ==
    \/ UNCHANGED files
    \/ /\ shard \in floating
       /\ \E f \in IF files[shard] \in {"none", "half"} THEN {"half", "torn"}
                                                       ELSE {"torn"} :
             files' = [files EXCEPT ![shard] = f]

\* Mutant: the job goes on after a shard that failed.
ConversionGoesOn ==
    /\ step = "save" /\ trouble < MaxTrouble
    /\ CutFiles
    /\ manifest' = manifest \cup {shard}
    /\ step' = "partial" /\ trouble' = trouble + 1
    /\ UNCHANGED <<partial, final, record, floating, shard, completed, limit, fresh,
                   stopped, past>>

\* A tensor cannot be read or an artifact cannot be written: the exception is
\* reported in the state file.
ConversionFails ==
    /\ step = "save" /\ trouble < MaxTrouble
    /\ CutFiles
    /\ record' = [status |-> "error", completed |-> completed]
    /\ step' = "off" /\ trouble' = trouble + 1
    /\ UNCHANGED <<partial, final, floating, past>> /\ UNCHANGED jobMemory

\* The partial manifest, the state or the final manifest cannot be written,
\* for want of space say: the same handler writes the state once more.  The
\* shard was put into completed_shards before.
WriteFails ==
    /\ step \in {"partial", "record"} \/ (step = "shard" /\ shard \notin Shards)
    /\ trouble < MaxTrouble
    /\ partial' \in {partial} \cup (IF step = "partial" THEN {TornFile} ELSE {})
    /\ final' \in {final} \cup (IF step = "shard" THEN {TornFile} ELSE {})
    /\ past' = IF step = "partial" THEN past \cup {"torn"} ELSE past
    /\ record' = [status    |-> "error",
                  completed |-> completed \cup (IF step = "partial" THEN {shard} ELSE {})]
    /\ step' = "off" /\ trouble' = trouble + 1
    /\ UNCHANGED <<files, floating>> /\ UNCHANGED jobMemory

\* The process dies; a file that was being written may be torn.
Crash ==
    /\ step # "off" /\ trouble < MaxTrouble
    /\ IF step = "save" THEN CutFiles ELSE UNCHANGED files
    /\ \/ UNCHANGED <<partial, past>>
       \/ /\ step = "partial" /\ partial' = TornFile
          /\ past' = past \cup {"torn"}
    /\ \/ UNCHANGED record
       \/ step \in {"record", "last"} /\ record' = TornFile
    /\ \/ UNCHANGED final
       \/ step = "shard" /\ shard \notin Shards /\ final' = TornFile
    /\ step' = "off" /\ trouble' = trouble + 1
    /\ UNCHANGED floating /\ UNCHANGED jobMemory

JobRuns ==
    \/ SkipShard \/ StopEarly \/ OpenShard \/ SaveShard
    \/ WritePartial \/ WriteRecord \/ WriteFinal \/ RemovePartial \/ WriteLast

JobNext == \/ \E resume \in BOOLEAN : StartJob(resume)
           \/ JobRuns
           \/ BlockJob \/ ConversionFails \/ WriteFails \/ Crash

\* A run goes on until it returns or dies, and the user resumes a job that is
\* not complete.
JobFairness == WF_jobVars(JobRuns) /\ WF_jobVars(StartJob(TRUE))

JobSpec == JobInit /\ [][JobNext]_jobVars /\ JobFairness

-----------------------------------------------------------------------------
JobTypeOK ==
    /\ files \in [Shards -> FileStates]
    /\ partial \in (SUBSET Shards) \cup {NoFile, TornFile}
    /\ final \in (SUBSET Shards) \cup {NoFile, TornFile}
    /\ record \in [status : {"blocked", "running", "error", "paused", "complete"},
                   completed : SUBSET Shards] \cup {NoFile, TornFile}
    /\ floating \in SUBSET Shards
    /\ step \in {"off", "shard", "save", "partial", "record", "close", "last"}
    /\ shard \in 1 .. ShardCount + 1
    /\ manifest \in SUBSET Shards /\ completed \in SUBSET Shards
    /\ limit \in Nat /\ fresh \in Nat /\ stopped \in BOOLEAN
    /\ past \in SUBSET {"fresh", "torn"} /\ trouble \in 0 .. MaxTrouble

\* A shard that a resuming run skips has both its files in full, however the
\* runs before it were cut off, as long as none of them ran without resume.
\* (A run without resume that is cut off while it overwrites a shard leaves a
\* torn file that state and final manifest call done.)
SkippedShardsAreWhole ==
    ("fresh" \notin past /\ step = "shard" /\ shard \in Shards /\ CanSkip(shard))
        => files[shard] = "whole"

\* A job that says it is complete has a final manifest with every shard that
\* has tensors, and their files in full, unless a run without resume came before
\* or a partial manifest was torn or could not be written, or two shards have no
\* tensors.  (In each case a run with a limit can stop early with a full list of
\* completed shards: it calls itself complete and writes no final manifest.)
CompleteIsWhole ==
    (/\ past = {} /\ \A s, t \in Shards \ floating : s = t
     /\ step = "off" /\ Readable(record) /\ record.status = "complete") =>
        /\ final = floating
        /\ \A s \in floating : files[s] = "whole"

\* A job that is resumed whenever it stops completes, with a limit of new shards
\* per run too, if every shard has tensors.  (A shard without any is converted
\* again by every run and uses up the limit.)
JobCompletes ==
    (floating = Shards) ~> (Readable(record) /\ record.status = "complete")
=============================================================================
