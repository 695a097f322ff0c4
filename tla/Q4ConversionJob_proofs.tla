----------------------- MODULE Q4ConversionJob_proofs -----------------------
(***************************************************************************)
(* Proofs about Q4ConversionJob for any number of shards, limits and       *)
(* troubles: whatever a resuming run skips has both its files in full.     *)
(* The argument: a shard that the state file calls completed and that a    *)
(* manifest lists is whole; a shard that is being converted is not such a  *)
(* shard, so a crash that tears its files breaks no claim.                 *)
(***************************************************************************)
EXTENDS Q4ConversionJob, FiniteSetTheorems, TLAPS

\* What the state file and a manifest both claim is there in full.
Claim(file) == Readable(file) =>
                 \A s \in RecordedShards : s \in file => files[s] = "whole"

\* The partial manifest is never behind the final one.
PartialLeads == (Readable(partial) /\ Readable(final)) => final \subseteq partial

\* Manifests list shards with tensors only.
Tensors == /\ Readable(partial) => partial \subseteq floating
           /\ Readable(final) => final \subseteq floating
           /\ step # "off" => manifest \subseteq floating

Disk == Claim(partial) /\ Claim(final) /\ PartialLeads

\* The shard of the loop, once it is skipped or converted.
Done == /\ shard \in floating => shard \in manifest
        /\ shard \in manifest => files[shard] = "whole"

\* What the memory of a run knows of the disk, step by step.
Memory ==
    /\ step \in {"shard", "save", "partial", "close", "last"} =>
         completed = RecordedShards
    /\ step = "shard" => manifest = RecordedManifest
    /\ step \in {"save", "partial"} =>
         manifest \ {shard} = RecordedManifest \ {shard}
    /\ step = "save" =>
         ~(shard \in RecordedShards /\ shard \in RecordedManifest)
    /\ step \in {"partial", "record"} => Done
    /\ step = "record" => completed = RecordedShards \cup {shard} /\ partial = manifest

\* A shard is at work only where the loop has one.
InLoop == step \in {"save", "partial", "record"} => shard \in Shards

Sound == Tensors /\ Disk /\ Memory

IInv == JobTypeOK /\ InLoop /\ ("fresh" \notin past => Sound)

-----------------------------------------------------------------------------
\* The initial state: nothing is on disk and no job runs.
LEMMA Initially == JobInit => IInv
<1> SUFFICES ASSUME JobInit PROVE IInv
  OBVIOUS
<1>1. JobTypeOK /\ InLoop
  <2>1. trouble \in 0 .. MaxTrouble /\ shard \in 1 .. ShardCount + 1
    BY LimitAssumption, ShardAssumption DEF JobInit
  <2>2. files \in [Shards -> FileStates]
    BY DEF JobInit, FileStates
  <2> QED
    BY <2>1, <2>2 DEF JobInit, JobTypeOK, InLoop
<1>2. RecordedShards = {}
  BY DEF JobInit, RecordedShards, Readable
<1>3. Sound
  BY <1>2 DEF JobInit, Sound, Tensors, Disk, Memory, Claim, PartialLeads, Readable
<1> QED
  BY <1>1, <1>3 DEF IInv

\* What a resuming run finds consists of shards.
LEMMA RecordedTypes ==
  ASSUME JobTypeOK
  PROVE  RecordedShards \in SUBSET Shards /\ RecordedManifest \in SUBSET Shards
<1>1. RecordedShards \in SUBSET Shards
  BY DEF JobTypeOK, RecordedShards, Readable
<1>2. RecordedManifest \in SUBSET Shards
  BY DEF JobTypeOK, RecordedManifest, Readable
<1> QED
  BY <1>1, <1>2

\* A set of shards and a state can be read back.
LEMMA ReadBack ==
  /\ \A shards \in SUBSET Shards : Readable(shards)
  /\ \A status \in {"blocked", "running", "error", "paused", "complete"} :
       \A shards \in SUBSET Shards :
         Readable([status |-> status, completed |-> shards])
BY FileAssumption DEF Readable, Shards

\* A job's cut-off save touches the files of its own shard only.
LEMMA CutOwnFiles ==
  ASSUME JobTypeOK, CutFiles
  PROVE  /\ files' \in [Shards -> FileStates]
         /\ \A s \in Shards : s # shard => files'[s] = files[s]
BY DEF CutFiles, JobTypeOK, FileStates

-----------------------------------------------------------------------------
\* Every action keeps the types.
LEMMA TypesKept ==
  ASSUME JobTypeOK, InLoop, [JobNext]_jobVars
  PROVE  JobTypeOK' /\ InLoop'
<1>1. ASSUME NEW resume \in BOOLEAN, StartJob(resume) PROVE JobTypeOK' /\ InLoop'
  <2>1. trouble' \in 0 .. MaxTrouble /\ shard' \in 1 .. ShardCount + 1 /\ limit' \in Nat
    BY <1>1, LimitAssumption, ShardAssumption DEF StartJob, JobTypeOK
  <2>2. completed' \in SUBSET Shards /\ manifest' \in SUBSET Shards
    BY <1>1, RecordedTypes DEF StartJob
  <2> QED
    BY <1>1, <2>1, <2>2 DEF StartJob, jobDisk, JobTypeOK, InLoop
<1>2. ASSUME SkipShard PROVE JobTypeOK' /\ InLoop'
  BY <1>2
  DEF SkipShard, jobDisk, jobMemory, JobTypeOK, InLoop
<1>3. ASSUME StopEarly PROVE JobTypeOK' /\ InLoop'
  BY <1>3
  DEF StopEarly, jobDisk, jobMemory, JobTypeOK, InLoop
<1>4. ASSUME OpenShard PROVE JobTypeOK' /\ InLoop'
  BY <1>4
  DEF OpenShard, jobDisk, jobMemory, JobTypeOK, InLoop, Shards
<1>5. ASSUME SaveShard PROVE JobTypeOK' /\ InLoop'
  BY <1>5
  DEF SaveShard, jobDisk, jobMemory, JobTypeOK, InLoop, FileStates
<1>6. ASSUME WritePartial PROVE JobTypeOK' /\ InLoop'
  BY <1>6
  DEF WritePartial, jobDisk, jobMemory, JobTypeOK, InLoop
<1>7. ASSUME WriteRecord PROVE JobTypeOK' /\ InLoop'
  BY <1>7, ShardAssumption
  DEF WriteRecord, jobDisk, jobMemory, JobTypeOK, InLoop, Shards
<1>8. ASSUME WriteFinal PROVE JobTypeOK' /\ InLoop'
  BY <1>8
  DEF WriteFinal, jobDisk, jobMemory, JobTypeOK, InLoop
<1>9. ASSUME RemovePartial PROVE JobTypeOK' /\ InLoop'
  BY <1>9
  DEF RemovePartial, jobDisk, jobMemory, JobTypeOK, InLoop
<1>10. ASSUME WriteLast PROVE JobTypeOK' /\ InLoop'
  BY <1>10
  DEF WriteLast, jobDisk, jobMemory, JobTypeOK, InLoop
<1>11. ASSUME BlockJob PROVE JobTypeOK' /\ InLoop'
  BY <1>11, LimitAssumption
  DEF BlockJob, jobDisk, jobMemory, JobTypeOK, InLoop
<1>12. ASSUME ConversionFails PROVE JobTypeOK' /\ InLoop'
  BY <1>12, LimitAssumption, CutOwnFiles
  DEF ConversionFails, jobDisk, jobMemory, JobTypeOK, InLoop
<1>13. ASSUME WriteFails PROVE JobTypeOK' /\ InLoop'
  BY <1>13, LimitAssumption
  DEF WriteFails, jobDisk, jobMemory, JobTypeOK, InLoop, Shards
<1>14. ASSUME Crash PROVE JobTypeOK' /\ InLoop'
  <2>1. trouble' \in 0 .. MaxTrouble
    BY <1>14, LimitAssumption DEF Crash, JobTypeOK
  <2>2. files' \in [Shards -> FileStates]
    BY <1>14, CutOwnFiles DEF Crash, JobTypeOK
  <2>3. /\ partial' \in (SUBSET Shards) \cup {NoFile, TornFile}
        /\ past' \in SUBSET {"fresh", "torn"}
    BY <1>14 DEF Crash, JobTypeOK
  <2> QED
    BY <1>14, <2>1, <2>2, <2>3 DEF Crash, jobMemory, JobTypeOK, InLoop
<1>15. ASSUME UNCHANGED jobVars PROVE JobTypeOK' /\ InLoop'
  BY <1>15 DEF jobVars, JobTypeOK, InLoop
<1> QED
  BY <1>1, <1>2, <1>3, <1>4, <1>5, <1>6, <1>7, <1>8, <1>9, <1>10, <1>11, <1>12,
     <1>13, <1>14, <1>15
  DEF JobNext, JobRuns

-----------------------------------------------------------------------------

\* What a resuming run would skip is whole: the state file and the manifest
\* that it reads both claim it.
LEMMA ClaimsHold ==
  ASSUME Sound
  PROVE  \A s \in RecordedShards : s \in RecordedManifest => files[s] = "whole"
BY DEF Sound, Disk, Claim, RecordedManifest

\* A resuming run finds at least what the final manifest lists.
LEMMA FinalRecorded ==
  ASSUME Sound, Readable(final)
  PROVE  final \subseteq RecordedManifest
BY DEF Sound, Disk, PartialLeads, RecordedManifest

\* What the loop skips is whole.
LEMMA SkippedIsWhole ==
  ASSUME Sound, step = "shard", CanSkip(shard)
  PROVE  files[shard] = "whole" /\ shard \in manifest
BY ClaimsHold DEF CanSkip, Sound, Memory

\* A run that resumes reads its memory from the disk.
LEMMA StartSound ==
  ASSUME JobTypeOK, InLoop, Sound, StartJob(TRUE)
  PROVE  Sound'
<1>1. RecordedShards' = RecordedShards /\ RecordedManifest' = RecordedManifest
  BY DEF StartJob, jobDisk, RecordedShards, RecordedManifest, Readable
<1>2. Tensors'
  BY DEF StartJob, jobDisk, RecordedManifest, Sound, Tensors, Readable
<1>3. Disk'
  BY <1>1 DEF StartJob, jobDisk, Sound, Disk, Claim, PartialLeads, Readable
<1>4. Memory'
  BY <1>1 DEF StartJob, Memory
<1> QED
  BY <1>2, <1>3, <1>4 DEF Sound

\* A shard that is skipped is whole.
LEMMA SkipShardSound ==
  ASSUME JobTypeOK, InLoop, Sound, SkipShard
  PROVE  Sound'
<1>1. RecordedShards' = RecordedShards /\ RecordedManifest' = RecordedManifest
  BY DEF SkipShard, jobDisk, RecordedShards, RecordedManifest, Readable
<1>2. Tensors'
  BY DEF SkipShard, jobDisk, jobMemory, Sound, Tensors, Readable
<1>3. Disk'
  BY <1>1 DEF SkipShard, jobDisk, Sound, Disk, Claim, PartialLeads, Readable
<1>4. files[shard] = "whole" /\ shard \in manifest
  BY SkippedIsWhole DEF SkipShard
<1>5. Memory'
  BY <1>1, <1>4 DEF SkipShard, jobDisk, jobMemory, Sound, Memory, Done
<1> QED
  BY <1>2, <1>3, <1>5 DEF Sound

\* A run that stops early has done nothing since its last record.
LEMMA StopEarlySound ==
  ASSUME JobTypeOK, InLoop, Sound, StopEarly
  PROVE  Sound'
<1>1. RecordedShards' = RecordedShards /\ RecordedManifest' = RecordedManifest
  BY DEF StopEarly, jobDisk, RecordedShards, RecordedManifest, Readable
<1>2. Tensors'
  BY DEF StopEarly, jobDisk, jobMemory, Sound, Tensors, Readable
<1>3. Disk'
  BY <1>1 DEF StopEarly, jobDisk, Sound, Disk, Claim, PartialLeads, Readable
<1>4. Memory'
  BY <1>1 DEF StopEarly, jobDisk, Sound, Memory
<1> QED
  BY <1>2, <1>3, <1>4 DEF Sound

\* A shard that both claims list is whole and would have been skipped.
LEMMA OpenShardSound ==
  ASSUME JobTypeOK, InLoop, Sound, OpenShard
  PROVE  Sound'
<1>1. RecordedShards' = RecordedShards /\ RecordedManifest' = RecordedManifest
  BY DEF OpenShard, jobDisk, RecordedShards, RecordedManifest, Readable
<1>2. Tensors'
  BY DEF OpenShard, jobDisk, jobMemory, Sound, Tensors, Readable
<1>3. Disk'
  BY <1>1 DEF OpenShard, jobDisk, Sound, Disk, Claim, PartialLeads, Readable
<1>4. completed = RecordedShards /\ manifest = RecordedManifest /\ shard \in Shards
  BY DEF OpenShard, Sound, Memory
<1>5. ~(shard \in RecordedShards /\ shard \in RecordedManifest)
  BY <1>4, ClaimsHold DEF OpenShard, CanSkip
<1>6. Memory'
  BY <1>1, <1>4, <1>5 DEF OpenShard, jobDisk, Memory
<1> QED
  BY <1>2, <1>3, <1>6 DEF Sound

\* The shard that is saved was claimed by nobody and becomes whole.
LEMMA SaveShardSound ==
  ASSUME JobTypeOK, InLoop, Sound, SaveShard
  PROVE  Sound'
<1>1. RecordedShards' = RecordedShards /\ RecordedManifest' = RecordedManifest
  BY DEF SaveShard, RecordedShards, RecordedManifest, Readable
<1>2. Tensors'
  BY DEF SaveShard, Sound, Tensors, Readable
<1>3. \A s \in Shards : files[s] = "whole" => files'[s] = "whole"
  BY DEF SaveShard, JobTypeOK
<1>4. Disk'
  BY <1>1, <1>3, RecordedTypes DEF SaveShard, Sound, Disk, Claim, PartialLeads, Readable
<1>5. Done'
  BY DEF SaveShard, JobTypeOK, InLoop, Sound, Tensors, Done
<1>6. Memory'
  BY <1>1, <1>5 DEF SaveShard, Sound, Memory
<1> QED
  BY <1>2, <1>4, <1>6 DEF Sound

\* The partial manifest takes over what was recorded, and the shard.
LEMMA WritePartialSound ==
  ASSUME JobTypeOK, InLoop, Sound, WritePartial
  PROVE  Sound'
<1>1. RecordedShards' = RecordedShards
  BY DEF WritePartial, RecordedShards, Readable
<1>2. Tensors'
  BY DEF WritePartial, Sound, Tensors, Readable
<1>3. manifest \ {shard} = RecordedManifest \ {shard} /\ Done
  BY DEF WritePartial, Sound, Memory
<1>4. \A s \in RecordedShards : s \in manifest => files[s] = "whole"
  BY <1>3, ClaimsHold DEF Done
<1>5. Claim(partial)'
  BY <1>1, <1>4 DEF WritePartial, Claim
<1>6. Claim(final)'
  BY <1>1 DEF WritePartial, Sound, Disk, Claim, Readable
<1>7. PartialLeads'
  BY <1>3, FinalRecorded DEF WritePartial, PartialLeads, Readable, Done, Sound, Tensors
<1>8. Memory'
  BY <1>1, <1>3 DEF WritePartial, Sound, Memory, Done
<1> QED
  BY <1>2, <1>5, <1>6, <1>7, <1>8 DEF Sound, Disk

\* The state file takes over the shard, which is whole where it is listed.
LEMMA WriteRecordSound ==
  ASSUME JobTypeOK, InLoop, Sound, WriteRecord
  PROVE  Sound'
<1>1. completed = RecordedShards \cup {shard} /\ partial = manifest /\ Done
  BY DEF WriteRecord, Sound, Memory
<1>2. RecordedShards' = completed
  BY ReadBack DEF WriteRecord, RecordedShards, JobTypeOK
<1>3. RecordedManifest' = manifest
  BY <1>1, ReadBack DEF WriteRecord, RecordedManifest, JobTypeOK
<1>4. Tensors'
  BY DEF WriteRecord, Sound, Tensors, Readable
<1>5. Claim(partial)' /\ Claim(final)'
  BY <1>1, <1>2 DEF WriteRecord, Sound, Disk, Tensors, Claim, Readable, Done
<1>6. PartialLeads'
  BY DEF WriteRecord, Sound, Disk, PartialLeads, Readable
<1>7. Memory'
  BY <1>2, <1>3 DEF WriteRecord, Memory
<1> QED
  BY <1>4, <1>5, <1>6, <1>7 DEF Sound, Disk

\* The final manifest is what a resuming run would have found.
LEMMA WriteFinalSound ==
  ASSUME JobTypeOK, InLoop, Sound, WriteFinal
  PROVE  Sound'
<1>1. RecordedShards' = RecordedShards /\ completed = RecordedShards
  BY DEF WriteFinal, jobMemory, RecordedShards, Readable, Sound, Memory
<1>2. manifest = RecordedManifest
  BY DEF WriteFinal, Sound, Memory
<1>3. Tensors'
  BY DEF WriteFinal, jobMemory, Sound, Tensors, Readable
<1>4. Claim(partial)'
  BY <1>1 DEF WriteFinal, Sound, Disk, Claim, Readable
<1>5. Claim(final)'
  BY <1>1, <1>2, ClaimsHold DEF WriteFinal, Claim
<1>6. PartialLeads'
  BY <1>2 DEF WriteFinal, PartialLeads, RecordedManifest, Readable
<1>7. Memory'
  BY <1>1 DEF WriteFinal, jobMemory, Memory
<1> QED
  BY <1>3, <1>4, <1>5, <1>6, <1>7 DEF Sound, Disk

\* A partial manifest that goes takes its claim with it.
LEMMA RemovePartialSound ==
  ASSUME JobTypeOK, InLoop, Sound, RemovePartial
  PROVE  Sound'
<1>1. RecordedShards' = RecordedShards
  BY DEF RemovePartial, RecordedShards, Readable
<1>2. Tensors' /\ Disk'
  BY <1>1 DEF RemovePartial, jobMemory, Sound, Tensors, Disk, Claim, PartialLeads,
     Readable
<1>3. Memory'
  BY <1>1 DEF RemovePartial, jobMemory, Sound, Memory
<1> QED
  BY <1>2, <1>3 DEF Sound

\* The last record says what the one before it said.
LEMMA WriteLastSound ==
  ASSUME JobTypeOK, InLoop, Sound, WriteLast
  PROVE  Sound'
<1>1. completed = RecordedShards
  BY DEF WriteLast, Sound, Memory
<1>2. RecordedShards' = RecordedShards
  BY <1>1, ReadBack DEF WriteLast, RecordedShards, JobTypeOK
<1>3. Tensors' /\ Disk'
  BY <1>2 DEF WriteLast, jobMemory, Sound, Tensors, Disk, Claim, PartialLeads, Readable
<1>4. Memory'
  BY DEF WriteLast, Memory
<1> QED
  BY <1>3, <1>4 DEF Sound

\* A blocked run records what it read.
LEMMA BlockJobSound ==
  ASSUME JobTypeOK, InLoop, Sound, BlockJob
  PROVE  Sound'
<1>1. completed = RecordedShards
  BY DEF BlockJob, Sound, Memory
<1>2. RecordedShards' = RecordedShards
  BY <1>1, ReadBack DEF BlockJob, RecordedShards, JobTypeOK
<1>3. Tensors' /\ Disk'
  BY <1>2 DEF BlockJob, jobMemory, Sound, Tensors, Disk, Claim, PartialLeads, Readable
<1>4. Memory'
  BY DEF BlockJob, Memory
<1> QED
  BY <1>3, <1>4 DEF Sound

\* A save that is cut off tears the files of a shard that nobody claims.
LEMMA CutSaveSound ==
  ASSUME JobTypeOK, InLoop, Sound, step = "save", CutFiles
  PROVE  \A s \in RecordedShards :
           /\ Readable(partial) /\ s \in partial => files'[s] = "whole"
           /\ Readable(final) /\ s \in final => files'[s] = "whole"
<1>1. ~(shard \in RecordedShards /\ shard \in RecordedManifest)
  BY DEF Sound, Memory
<1>2. \A s \in Shards : s # shard => files'[s] = files[s]
  BY CutOwnFiles
<1>3. \A s \in RecordedShards : s \in RecordedManifest => files'[s] = "whole"
  BY <1>1, <1>2, ClaimsHold, RecordedTypes
<1>4. \A s \in RecordedShards : Readable(final) /\ s \in final => files'[s] = "whole"
  BY <1>3, FinalRecorded
<1> QED
  BY <1>3, <1>4 DEF RecordedManifest, Readable

\* A conversion that fails records what was recorded before.
LEMMA ConversionFailsSound ==
  ASSUME JobTypeOK, InLoop, Sound, ConversionFails
  PROVE  Sound'
<1>1. completed = RecordedShards
  BY DEF ConversionFails, Sound, Memory
<1>2. RecordedShards' = RecordedShards
  BY <1>1, ReadBack DEF ConversionFails, RecordedShards, JobTypeOK
<1>3. Tensors'
  BY DEF ConversionFails, jobMemory, Sound, Tensors, Readable
<1>4. Disk'
  BY <1>2, CutSaveSound DEF ConversionFails, Sound, Disk, Claim, PartialLeads, Readable
<1>5. Memory'
  BY DEF ConversionFails, Memory
<1> QED
  BY <1>3, <1>4, <1>5 DEF Sound

\* A write that fails leaves the shard, which is whole where it is listed.
LEMMA WriteFailsSound ==
  ASSUME JobTypeOK, InLoop, Sound, WriteFails
  PROVE  Sound'
<1>1. Tensors'
  BY DEF WriteFails, jobMemory, Sound, Tensors, Readable
<1>2. RecordedShards' \subseteq RecordedShards \cup {shard}
  <2>1. completed \cup (IF step = "partial" THEN {shard} ELSE {})
          \in SUBSET Shards
    BY DEF JobTypeOK, InLoop
  <2>2. RecordedShards' = completed \cup (IF step = "partial" THEN {shard} ELSE {})
    BY <2>1, ReadBack DEF WriteFails, RecordedShards
  <2> QED
    BY <2>2 DEF WriteFails, Sound, Memory
<1>3. shard \in RecordedShards' => shard \in RecordedShards \/ Done
  <2>1. CASE step \in {"partial", "record"}
    BY <2>1 DEF Sound, Memory
  <2>2. CASE step = "shard"
    <3>1. RecordedShards' = completed
      BY <2>2, ReadBack DEF WriteFails, RecordedShards, JobTypeOK
    <3> QED
      BY <2>2, <3>1 DEF Sound, Memory
  <2> QED
    BY <2>1, <2>2 DEF WriteFails
<1>4. (Claim(partial) /\ Claim(final))'
  BY <1>2, <1>3 DEF WriteFails, Sound, Tensors, Disk, Claim, Readable, Done
<1>5. PartialLeads'
  BY DEF WriteFails, Sound, Disk, PartialLeads, Readable
<1>6. Memory'
  BY DEF WriteFails, Memory
<1> QED
  BY <1>1, <1>4, <1>5, <1>6 DEF Sound, Disk

\* A crash leaves each file as it was, torn, or without a claim.
LEMMA CrashSound ==
  ASSUME JobTypeOK, InLoop, Sound, Crash
  PROVE  Sound'
<1>1. Tensors'
  BY DEF Crash, jobMemory, Sound, Tensors, Readable
<1>2. RecordedShards' \subseteq RecordedShards
  BY DEF Crash, RecordedShards, Readable
<1>3. (Claim(partial) /\ Claim(final))'
  <2>1. CASE step = "save"
    BY <1>2, <2>1, CutSaveSound DEF Crash, Claim, Readable
  <2>2. CASE step # "save"
    BY <1>2, <2>2 DEF Crash, Sound, Disk, Claim, Readable
  <2> QED
    BY <2>1, <2>2
<1>4. PartialLeads'
  BY DEF Crash, Sound, Disk, PartialLeads, Readable
<1>5. Memory'
  BY DEF Crash, Memory
<1> QED
  BY <1>1, <1>3, <1>4, <1>5 DEF Sound, Disk

-----------------------------------------------------------------------------
\* No step spoils the invariant.
LEMMA Inductive ==
  ASSUME IInv, [JobNext]_jobVars
  PROVE  IInv'
<1>1. JobTypeOK' /\ InLoop'
  BY TypesKept DEF IInv
<1>2. ASSUME "fresh" \notin past' PROVE Sound'
  <2>1. "fresh" \notin past
    BY <1>2 DEF JobNext, JobRuns, StartJob, SkipShard, StopEarly, OpenShard,
       SaveShard, WritePartial, WriteRecord, WriteFinal, RemovePartial, WriteLast,
       BlockJob, ConversionFails, WriteFails, Crash, jobVars
  <2>2. Sound /\ JobTypeOK /\ InLoop
    BY <2>1 DEF IInv
  <2>3. CASE \E resume \in BOOLEAN : StartJob(resume)
    BY <1>2, <2>2, <2>3, StartSound DEF StartJob
  <2>4. CASE JobRuns
    BY <2>2, <2>4, SkipShardSound, StopEarlySound, OpenShardSound, SaveShardSound,
       WritePartialSound, WriteRecordSound, WriteFinalSound, RemovePartialSound,
       WriteLastSound
    DEF JobRuns
  <2>5. CASE BlockJob \/ ConversionFails \/ WriteFails \/ Crash
    BY <2>2, <2>5, BlockJobSound, ConversionFailsSound, WriteFailsSound, CrashSound
  <2>6. CASE UNCHANGED jobVars
    BY <2>2, <2>6 DEF jobVars, Sound, Tensors, Disk, Memory, Claim, PartialLeads, Done,
       RecordedShards, RecordedManifest, Readable
  <2> QED
    BY <2>3, <2>4, <2>5, <2>6 DEF JobNext
<1> QED
  BY <1>1, <1>2 DEF IInv

\* The invariant holds of every reachable state, for any number of shards, any
\* limits and any number of troubles.
THEOREM Invariance == JobSpec => []IInv
<1>1. IInv /\ [JobNext]_jobVars => IInv'
  BY Inductive
<1> QED
  BY Initially, <1>1, PTL DEF JobSpec

\* Type correctness of the conversion job (q4_conversion_job.py).
THEOREM TypeCorrect == JobSpec => []JobTypeOK
<1>1. IInv => JobTypeOK
  BY DEF IInv
<1> QED
  BY Invariance, <1>1, PTL

\* A shard that a resuming run skips (q4_quantize.py) has both its files in
\* full, however the runs before it were cut off, unless one ran without resume.
THEOREM SkipsWhole == JobSpec => []SkippedShardsAreWhole
<1>1. IInv => SkippedShardsAreWhole
  BY SkippedIsWhole DEF IInv, SkippedShardsAreWhole
<1> QED
  BY Invariance, <1>1, PTL

-----------------------------------------------------------------------------
(***************************************************************************)
(* CompleteIsWhole.  Besides the invariant above it takes that the shards  *)
(* are completed in order, and what the loop has left behind.              *)
(***************************************************************************)
\* Of what follows the runs without trouble to the partial manifest are sure.
\* What the state file calls completed, the manifest that is read lists.
Kept == \A s \in RecordedShards : s \in floating => s \in RecordedManifest

\* The shards are completed in their order.
InOrder == \A s \in RecordedShards : \A t \in Shards : t < s => t \in RecordedShards

\* The final manifest has every shard that has tensors, and they are whole.
AllThere == final = floating /\ \A s \in floating : files[s] = "whole"

\* A state file that says so.
Finished == (Readable(record) /\ record.status = "complete") =>
              RecordedShards = Shards /\ AllThere

\* The shards that the loop is past.
Behind == step \in {"shard", "save", "partial", "record"} =>
            \A s \in Shards : s < shard =>
              /\ s \in completed
              /\ s \in floating => s \in manifest /\ files[s] = "whole"

\* The records that the loop has made of them.
OnRecord == (step = "shard" /\ shard # 1) =>
              /\ partial = manifest
              /\ record = [status |-> "running", completed |-> completed]

\* A run that has converted shards below n has either completed no shard from n
\* on or has met the shard that has no tensors.
Worked(n) == fresh > 0 => \/ \A s \in completed : s < n
                          \/ \E t \in Shards : t < n /\ t \notin floating

Progress == /\ step = "shard" => Worked(shard)
            /\ step \in {"partial", "record"} => Worked(shard + 1)

\* A run that ends with all shards completed has written the final manifest.
Closed == (step \in {"close", "last"} /\ completed = Shards) => AllThere

Thorough == /\ Kept /\ InOrder /\ Finished
            /\ Behind /\ OnRecord /\ Progress /\ Closed

\* The case that CompleteIsWhole is about.
Orderly == past = {} /\ \A s, t \in Shards \ floating : s = t

IInvComplete == IInv /\ (Orderly => Thorough)

-----------------------------------------------------------------------------
\* A job counts its completed shards; all of them are the full set.
LEMMA CountsAll ==
  ASSUME JobTypeOK
  PROVE  Complete <=> completed = Shards
<1>1. IsFiniteSet(Shards) /\ Cardinality(Shards) = ShardCount
  BY ShardAssumption, FS_Interval DEF Shards
<1>2. completed \subseteq Shards
  BY DEF JobTypeOK
<1>3. /\ IsFiniteSet(completed) /\ Cardinality(completed) <= ShardCount
      /\ Cardinality(completed) = ShardCount => completed = Shards
  BY <1>1, <1>2, FS_Subset
<1>4. Cardinality(completed) \in Nat
  BY <1>3, FS_CardinalityType
<1> QED
  BY <1>1, <1>3, <1>4, ShardAssumption DEF Complete

\* The initial state: no file claims anything.
LEMMA InitiallyThorough == JobInit => Thorough
<1> SUFFICES ASSUME JobInit PROVE Thorough
  OBVIOUS
<1>1. RecordedShards = {} /\ ~Readable(record) /\ step = "off"
  BY DEF JobInit, RecordedShards, Readable
<1> QED
  BY <1>1 DEF Thorough, Kept, InOrder, Finished, Behind, OnRecord, Progress, Closed

\* What lies below a shard.
LEMMA ShardsBelow ==
  /\ \A n \in 1 .. ShardCount + 1 : \A s \in Shards : s < n => s # n /\ s < n + 1
  /\ \A n \in Shards : n < n + 1 /\ n \in 1 .. ShardCount + 1
  /\ \A n, s \in Shards : s < n + 1 => s < n \/ s = n
BY ShardAssumption DEF Shards

\* A shard that is converted is the first that is not completed, or has no
\* tensors.
LEMMA OpenedIsNew ==
  ASSUME JobTypeOK, InLoop, Sound, Thorough, step = "save"
  PROVE  (\A s \in completed : s < shard + 1) \/ shard \notin floating
<1>1. /\ completed = RecordedShards /\ shard \in Shards
      /\ ~(shard \in RecordedShards /\ shard \in RecordedManifest)
  BY DEF Sound, Memory, InLoop
<1>2. CASE shard \in RecordedShards
  BY <1>1, <1>2 DEF Thorough, Kept
<1>3. CASE shard \notin RecordedShards
  <2>1. \A s \in RecordedShards : s \in Shards /\ ~(shard < s)
    BY <1>1, <1>3, RecordedTypes DEF Thorough, InOrder
  <2> QED
    BY <1>1, <2>1, ShardAssumption DEF Shards
<1> QED
  BY <1>2, <1>3

\* When the loop is through, its manifest is full and on disk.
LEMMA LoopIsThrough ==
  ASSUME JobTypeOK, Sound, Thorough, step = "shard", shard \notin Shards
  PROVE  /\ manifest = floating /\ \A s \in floating : files[s] = "whole"
         /\ partial = manifest
         /\ record = [status |-> "running", completed |-> completed]
<1>1. shard # 1 /\ \A s \in Shards : s < shard
  BY ShardAssumption DEF JobTypeOK, Shards
<1>2. \A s \in floating : s \in manifest /\ files[s] = "whole"
  BY <1>1 DEF Thorough, Behind, JobTypeOK
<1>3. manifest \subseteq floating
  BY DEF Sound, Tensors
<1> QED
  BY <1>1, <1>2, <1>3 DEF Thorough, OnRecord

\* A run starts with nothing behind it.
LEMMA StartThorough ==
  ASSUME JobTypeOK, InLoop, Sound, Thorough, StartJob(TRUE)
  PROVE  Thorough'
<1>1. RecordedShards' = RecordedShards /\ RecordedManifest' = RecordedManifest
  BY DEF StartJob, jobDisk, RecordedShards, RecordedManifest, Readable
<1>2. (Kept /\ InOrder /\ Finished)'
  BY <1>1 DEF StartJob, jobDisk, Thorough, Kept, InOrder, Finished, AllThere, Readable
<1>3. \A s \in Shards : ~(s < shard')
  BY DEF StartJob, Shards
<1>4. (Behind /\ OnRecord /\ Progress /\ Closed)'
  BY <1>3 DEF StartJob, Behind, OnRecord, Progress, Worked, Closed
<1> QED
  BY <1>2, <1>4 DEF Thorough

\* A shard that is skipped is behind the loop already.
LEMMA SkipShardThorough ==
  ASSUME JobTypeOK, InLoop, Sound, Thorough, SkipShard
  PROVE  Thorough'
<1>1. RecordedShards' = RecordedShards /\ RecordedManifest' = RecordedManifest
  BY DEF SkipShard, jobDisk, RecordedShards, RecordedManifest, Readable
<1>2. (Kept /\ InOrder /\ Finished)'
  BY <1>1 DEF SkipShard, jobDisk, Thorough, Kept, InOrder, Finished, AllThere, Readable
<1>3. (Behind /\ OnRecord /\ Closed)'
  BY DEF SkipShard, jobDisk, jobMemory, Thorough, Behind, OnRecord, Closed
<1>4. Progress'
  <2>1. Worked(shard) /\ shard \in Nat
    BY DEF SkipShard, Thorough, Progress, Shards
  <2>2. Worked(shard + 1)
    BY <2>1, ShardsBelow DEF Worked, JobTypeOK
  <2> QED
    BY <2>2 DEF SkipShard, jobDisk, jobMemory, Progress, Worked
<1> QED
  BY <1>2, <1>3, <1>4 DEF Thorough

\* A run that stops early has not completed all shards: it has converted one,
\* so that either no shard from this one on is completed, or this one has tensors
\* and would have been skipped.
LEMMA StopEarlyThorough ==
  ASSUME JobTypeOK, InLoop, Sound, Thorough, StopEarly,
         \A s, t \in Shards \ floating : s = t
  PROVE  Thorough'
<1>1. RecordedShards' = RecordedShards /\ RecordedManifest' = RecordedManifest
  BY DEF StopEarly, jobDisk, RecordedShards, RecordedManifest, Readable
<1>2. (Kept /\ InOrder /\ Finished)'
  BY <1>1 DEF StopEarly, jobDisk, Thorough, Kept, InOrder, Finished, AllThere, Readable
<1>3. (Behind /\ OnRecord /\ Progress)'
  BY DEF StopEarly, Behind, OnRecord, Progress
<1>4. completed # Shards
  <2> SUFFICES ASSUME completed = Shards PROVE FALSE
    OBVIOUS
  <2>1. shard \in Shards /\ shard \in Nat /\ completed = RecordedShards /\ manifest = RecordedManifest
    BY DEF StopEarly, Shards, Sound, Memory
  <2>2. fresh > 0
    BY DEF StopEarly, LimitReached, JobTypeOK
  <2>3. PICK t \in Shards : t < shard /\ t \notin floating
    BY <2>1, <2>2 DEF StopEarly, Thorough, Progress, Worked
  <2>4. shard \in floating
    BY <2>1, <2>3
  <2>5. shard \in manifest /\ files[shard] = "whole"
    BY <2>1, <2>4, ClaimsHold DEF Thorough, Kept
  <2> QED
    BY <2>1, <2>5 DEF StopEarly, CanSkip
<1>5. Closed'
  BY <1>4 DEF StopEarly, Closed
<1> QED
  BY <1>2, <1>3, <1>5 DEF Thorough

\* Only the entries of the shard itself leave the manifest.
LEMMA OpenShardThorough ==
  ASSUME JobTypeOK, InLoop, Sound, Thorough, OpenShard
  PROVE  Thorough'
<1>1. RecordedShards' = RecordedShards /\ RecordedManifest' = RecordedManifest
  BY DEF OpenShard, jobDisk, RecordedShards, RecordedManifest, Readable
<1>2. (Kept /\ InOrder /\ Finished)'
  BY <1>1 DEF OpenShard, jobDisk, Thorough, Kept, InOrder, Finished, AllThere, Readable
<1>3. (OnRecord /\ Progress /\ Closed)'
  BY DEF OpenShard, OnRecord, Progress, Closed
<1>4. Behind'
  BY ShardsBelow DEF OpenShard, jobDisk, Thorough, Behind, JobTypeOK
<1> QED
  BY <1>2, <1>3, <1>4 DEF Thorough

\* The shard that is saved is new, or it is the one that has no tensors.
LEMMA SaveShardThorough ==
  ASSUME JobTypeOK, InLoop, Sound, Thorough, SaveShard
  PROVE  Thorough'
<1>1. RecordedShards' = RecordedShards /\ RecordedManifest' = RecordedManifest
  BY DEF SaveShard, RecordedShards, RecordedManifest, Readable
<1>2. \A s \in Shards : files[s] = "whole" => files'[s] = "whole"
  BY DEF SaveShard, JobTypeOK
<1>3. (Kept /\ InOrder)'
  BY <1>1 DEF SaveShard, Thorough, Kept, InOrder
<1>4. Finished'
  BY <1>1, <1>2 DEF SaveShard, Thorough, Finished, AllThere, JobTypeOK
<1>5. Behind'
  BY <1>2, ShardsBelow DEF SaveShard, Thorough, Behind, JobTypeOK
<1>6. Progress'
  BY OpenedIsNew, ShardsBelow DEF SaveShard, Progress, Worked, InLoop
<1>7. (OnRecord /\ Closed)'
  BY DEF SaveShard, OnRecord, Closed
<1> QED
  BY <1>3, <1>4, <1>5, <1>6, <1>7 DEF Thorough

\* The partial manifest takes over what was recorded, and the shard.
LEMMA WritePartialThorough ==
  ASSUME JobTypeOK, InLoop, Sound, Thorough, WritePartial
  PROVE  Thorough'
<1>1. RecordedShards' = RecordedShards /\ RecordedManifest' = manifest
  BY ReadBack DEF WritePartial, RecordedShards, RecordedManifest, Readable, JobTypeOK
<1>2. manifest \ {shard} = RecordedManifest \ {shard} /\ Done /\ completed = RecordedShards
  BY DEF WritePartial, Sound, Memory
<1>3. (Kept /\ InOrder /\ Finished)'
  BY <1>1, <1>2 DEF WritePartial, Thorough, Kept, InOrder, Finished, AllThere, Done
<1>4. Behind'
  BY ShardsBelow DEF WritePartial, Thorough, Behind
<1>5. Progress'
  BY ShardsBelow DEF WritePartial, Thorough, Progress, Worked, InLoop
<1>6. (OnRecord /\ Closed)'
  BY DEF WritePartial, OnRecord, Closed
<1> QED
  BY <1>3, <1>4, <1>5, <1>6 DEF Thorough

\* The shard joins those behind the loop.
LEMMA WriteRecordThorough ==
  ASSUME JobTypeOK, InLoop, Sound, Thorough, WriteRecord
  PROVE  Thorough'
<1>1. completed = RecordedShards \cup {shard} /\ partial = manifest /\ Done
  BY DEF WriteRecord, Sound, Memory
<1>2. /\ RecordedShards' = completed
      /\ RecordedManifest' = manifest /\ RecordedManifest = manifest
  BY <1>1, ReadBack DEF WriteRecord, RecordedShards, RecordedManifest, JobTypeOK
<1>3. Kept'
  BY <1>1, <1>2 DEF WriteRecord, Thorough, Kept, Done, JobTypeOK
<1>4. InOrder'
  BY <1>1, <1>2 DEF WriteRecord, Thorough, InOrder, Behind
<1>5. (Finished /\ OnRecord /\ Closed)'
  BY <1>1 DEF WriteRecord, Finished, OnRecord, Closed
<1>6. Behind'
  BY <1>1, ShardsBelow DEF WriteRecord, Thorough, Behind, InLoop, Done
<1>7. Progress'
  BY DEF WriteRecord, Thorough, Progress, Worked
<1> QED
  BY <1>3, <1>4, <1>5, <1>6, <1>7 DEF Thorough

\* With the whole loop behind it the run writes a final manifest that is full.
LEMMA WriteFinalThorough ==
  ASSUME JobTypeOK, InLoop, Sound, Thorough, WriteFinal
  PROVE  Thorough'
<1>1. RecordedShards' = RecordedShards /\ manifest = RecordedManifest
  BY DEF WriteFinal, RecordedShards, Readable, Sound, Memory
<1>2. manifest = floating /\ \A s \in floating : files[s] = "whole"
  BY LoopIsThrough DEF WriteFinal
<1>3. RecordedManifest' = manifest
  BY <1>1, ReadBack DEF WriteFinal, RecordedManifest, Readable, JobTypeOK
<1>4. (Kept /\ InOrder)'
  BY <1>1, <1>2, <1>3 DEF WriteFinal, Thorough, Kept, InOrder
<1>5. AllThere'
  BY <1>2 DEF WriteFinal, AllThere
<1>6. (Finished /\ Closed)'
  BY <1>1, <1>5 DEF WriteFinal, Thorough, Finished, Closed
<1>7. (Behind /\ OnRecord /\ Progress)'
  BY DEF WriteFinal, Behind, OnRecord, Progress
<1> QED
  BY <1>4, <1>6, <1>7 DEF Thorough

\* A partial manifest goes only when the final one has everything.
LEMMA RemovePartialThorough ==
  ASSUME JobTypeOK, InLoop, Sound, Thorough, RemovePartial
  PROVE  Thorough'
<1>1. RecordedShards' = RecordedShards /\ completed = RecordedShards
  BY DEF RemovePartial, RecordedShards, Readable, Sound, Memory
<1>2. Kept'
  <2>1. CASE Complete
    <3>1. final = floating
      BY <2>1, CountsAll DEF RemovePartial, Thorough, Closed, AllThere
    <3>2. RecordedManifest' = floating
      BY <2>1, <3>1, ReadBack DEF RemovePartial, RecordedManifest, Readable, JobTypeOK
    <3> QED
      BY <3>2 DEF RemovePartial, Kept
  <2>2. CASE ~Complete
    <3>1. RecordedManifest' = RecordedManifest
      BY <2>2 DEF RemovePartial, RecordedManifest, Readable
    <3> QED
      BY <1>1, <3>1 DEF RemovePartial, Thorough, Kept
  <2> QED
    BY <2>1, <2>2
<1>3. (InOrder /\ Finished /\ Closed)'
  BY <1>1 DEF RemovePartial, jobMemory, Thorough, InOrder, Finished, Closed,
     AllThere, Readable
<1>4. (Behind /\ OnRecord /\ Progress)'
  BY DEF RemovePartial, Behind, OnRecord, Progress
<1> QED
  BY <1>2, <1>3, <1>4 DEF Thorough

\* The last record says complete only of a job that has written everything.
LEMMA WriteLastThorough ==
  ASSUME JobTypeOK, InLoop, Sound, Thorough, WriteLast
  PROVE  Thorough'
<1>1. completed = RecordedShards
  BY DEF WriteLast, Sound, Memory
<1>2. RecordedShards' = RecordedShards /\ RecordedManifest' = RecordedManifest
  BY <1>1, ReadBack DEF WriteLast, RecordedShards, RecordedManifest, Readable, JobTypeOK
<1>3. (Kept /\ InOrder)'
  BY <1>2 DEF WriteLast, Thorough, Kept, InOrder
<1>4. Finished'
  BY <1>1, <1>2, CountsAll DEF WriteLast, Thorough, Finished, Closed, AllThere
<1>5. (Behind /\ OnRecord /\ Progress /\ Closed)'
  BY DEF WriteLast, Behind, OnRecord, Progress, Closed
<1> QED
  BY <1>3, <1>4, <1>5 DEF Thorough

\* A blocked run records what it read.
LEMMA BlockJobThorough ==
  ASSUME JobTypeOK, InLoop, Sound, Thorough, BlockJob
  PROVE  Thorough'
<1>1. completed = RecordedShards
  BY DEF BlockJob, Sound, Memory
<1>2. RecordedShards' = RecordedShards /\ RecordedManifest' = RecordedManifest
  BY <1>1, ReadBack DEF BlockJob, RecordedShards, RecordedManifest, Readable, JobTypeOK
<1>3. (Kept /\ InOrder /\ Finished)'
  BY <1>2 DEF BlockJob, Thorough, Kept, InOrder, Finished
<1>4. (Behind /\ OnRecord /\ Progress /\ Closed)'
  BY DEF BlockJob, Behind, OnRecord, Progress, Closed
<1> QED
  BY <1>3, <1>4 DEF Thorough

\* A conversion that fails leaves a state that is not complete.
LEMMA ConversionFailsThorough ==
  ASSUME JobTypeOK, InLoop, Sound, Thorough, ConversionFails
  PROVE  Thorough'
<1>1. completed = RecordedShards
  BY DEF ConversionFails, Sound, Memory
<1>2. RecordedShards' = RecordedShards /\ RecordedManifest' = RecordedManifest
  BY <1>1, ReadBack DEF ConversionFails, RecordedShards, RecordedManifest, Readable,
     JobTypeOK
<1>3. (Kept /\ InOrder /\ Finished)'
  BY <1>2 DEF ConversionFails, Thorough, Kept, InOrder, Finished
<1>4. (Behind /\ OnRecord /\ Progress /\ Closed)'
  BY DEF ConversionFails, Behind, OnRecord, Progress, Closed
<1> QED
  BY <1>3, <1>4 DEF Thorough

\* A write that fails leaves a state that is not complete, and the shard in it.
LEMMA WriteFailsThorough ==
  ASSUME JobTypeOK, InLoop, Sound, Thorough, WriteFails, past' = {}
  PROVE  Thorough'
<1>1. step # "partial"
  BY DEF WriteFails
<1>2. RecordedShards' = completed
  BY <1>1, ReadBack DEF WriteFails, RecordedShards, JobTypeOK
<1>3. RecordedManifest' = manifest /\ (manifest # RecordedManifest => step = "record")
  BY <1>1, LoopIsThrough, ReadBack
  DEF WriteFails, RecordedManifest, JobTypeOK, Sound, Memory
<1>4. (Kept /\ InOrder)'
  <2>1. CASE step = "record"
    <3>1. completed = RecordedShards \cup {shard} /\ partial = manifest /\ Done
      BY <2>1 DEF Sound, Memory
    <3>2. RecordedManifest = manifest
      BY <3>1, ReadBack DEF RecordedManifest, JobTypeOK
    <3>3. Kept'
      BY <1>2, <1>3, <3>1, <3>2 DEF WriteFails, Thorough, Kept, Done
    <3>4. InOrder'
      BY <1>2, <2>1, <3>1 DEF Thorough, InOrder, Behind
    <3> QED
      BY <3>3, <3>4
  <2>2. CASE step = "shard"
    BY <1>2, <1>3, <2>2 DEF WriteFails, Sound, Memory, Thorough, Kept, InOrder
  <2> QED
    BY <1>1, <2>1, <2>2 DEF WriteFails
<1>5. (Finished /\ Behind /\ OnRecord /\ Progress /\ Closed)'
  BY DEF WriteFails, Finished, Behind, OnRecord, Progress, Closed
<1> QED
  BY <1>4, <1>5 DEF Thorough

\* A crash tears no partial manifest here, and no final one that is spoken for.
LEMMA CrashThorough ==
  ASSUME JobTypeOK, InLoop, Sound, Thorough, Crash, past' = {}
  PROVE  Thorough'
<1>1. RecordedShards' = RecordedShards \/ RecordedShards' = {}
  BY DEF Crash, RecordedShards, Readable
<1>2. partial' = partial
  BY DEF Crash
<1>3. RecordedManifest' = RecordedManifest
  <2>1. CASE final' = final
    BY <1>2, <2>1 DEF RecordedManifest, Readable
  <2>2. CASE final' # final
    <3>1. Readable(partial)
      BY <2>2, LoopIsThrough, ReadBack DEF Crash, JobTypeOK
    <3> QED
      BY <1>2, <3>1 DEF RecordedManifest
  <2> QED
    BY <2>1, <2>2
<1>4. (Kept /\ InOrder)'
  BY <1>1, <1>3 DEF Crash, Thorough, Kept, InOrder
<1>5. Finished'
  <2> SUFFICES ASSUME Readable(record'), record'.status = "complete"
               PROVE  RecordedShards' = Shards /\ AllThere'
    BY DEF Finished, Readable
  <2>1. record' = record /\ RecordedShards = Shards /\ AllThere
    BY DEF Crash, Thorough, Finished, Readable
  <2>2. RecordedShards' = Shards
    BY <2>1 DEF RecordedShards, Readable
  <2>3. final' = final
    BY <2>1, LoopIsThrough DEF Crash
  <2>4. files' = files
    BY <2>1, OpenedIsNew DEF Crash, CutFiles, Thorough, Kept, Sound, Memory, InLoop
  <2> QED
    BY <2>1, <2>2, <2>3, <2>4 DEF Crash, AllThere
<1>6. (Behind /\ OnRecord /\ Progress /\ Closed)'
  BY DEF Crash, Behind, OnRecord, Progress, Closed
<1> QED
  BY <1>4, <1>5, <1>6 DEF Thorough

-----------------------------------------------------------------------------
\* No step spoils the invariant.
LEMMA CompleteInductive ==
  ASSUME IInvComplete, [JobNext]_jobVars
  PROVE  IInvComplete'
<1>1. IInv'
  BY Inductive DEF IInvComplete
<1>2. ASSUME Orderly' PROVE Thorough'
  <2>1. past' = {} /\ past = {} /\ floating' = floating
    BY <1>2 DEF Orderly, JobNext, JobRuns, StartJob, SkipShard, StopEarly, OpenShard,
       SaveShard, WritePartial, WriteRecord, WriteFinal, RemovePartial, WriteLast,
       BlockJob, ConversionFails, WriteFails, Crash, jobDisk, jobVars
  <2>2. \A s, t \in Shards \ floating : s = t
    BY <1>2, <2>1 DEF Orderly
  <2>3. JobTypeOK /\ InLoop /\ Sound /\ Thorough
    BY <2>1, <2>2 DEF IInvComplete, IInv, Orderly
  <2>4. CASE \E resume \in BOOLEAN : StartJob(resume)
    BY <2>1, <2>3, <2>4, StartThorough DEF StartJob
  <2>5. CASE JobRuns
    BY <2>2, <2>3, <2>5, SkipShardThorough, StopEarlyThorough, OpenShardThorough,
       SaveShardThorough, WritePartialThorough, WriteRecordThorough,
       WriteFinalThorough, RemovePartialThorough, WriteLastThorough
    DEF JobRuns
  <2>6. CASE BlockJob \/ ConversionFails \/ WriteFails \/ Crash
    BY <2>1, <2>3, <2>6, BlockJobThorough, ConversionFailsThorough,
       WriteFailsThorough, CrashThorough
  <2>7. CASE UNCHANGED jobVars
    BY <2>3, <2>7 DEF jobVars, Thorough, Kept, InOrder, Finished, Behind, OnRecord,
       Progress, Worked, Closed, AllThere, RecordedShards, RecordedManifest, Readable
  <2> QED
    BY <2>4, <2>5, <2>6, <2>7 DEF JobNext
<1> QED
  BY <1>1, <1>2 DEF IInvComplete

\* The stronger invariant holds of every reachable state.
THEOREM InvarianceComplete == JobSpec => []IInvComplete
<1>1. JobInit => IInvComplete
  BY Initially, InitiallyThorough DEF IInvComplete
<1>2. IInvComplete /\ [JobNext]_jobVars => IInvComplete'
  BY CompleteInductive
<1> QED
  BY <1>1, <1>2, PTL DEF JobSpec

\* A job that says it is complete (q4_conversion_job.py) has a final manifest
\* with every shard that has tensors, and their files in full, in the cases that
\* CompleteIsWhole names.
THEOREM CompleteWhole == JobSpec => []CompleteIsWhole
<1>1. IInvComplete => CompleteIsWhole
  BY DEF IInvComplete, Orderly, Thorough, Finished, AllThere, CompleteIsWhole
<1> QED
  BY InvarianceComplete, <1>1, PTL
=============================================================================
