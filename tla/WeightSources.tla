---------------------------- MODULE WeightSources ----------------------------
(***************************************************************************)
(* Where a weight is read from (core/runtime/tensor_loader.py): the Q4     *)
(* artifact if there is one, else the runtime pack, else the shard, by     *)
(* name or at the offset the catalog gives.  Threads of the server load    *)
(* while a command line of another process replaces the shard or writes    *)
(* the catalog, a conversion or a pack; the server remembers what it has   *)
(* read of the files until their time stamp changes, or until a clear.     *)
(* A file's content is the revision of the shard it was made from.         *)
(***************************************************************************)
EXTENDS Integers, Sequences, FiniteSets

CONSTANTS WeightNames,  \* the weights of the shard
          Quantized,    \* those a conversion turns into Q4
          Packable,     \* those a runtime pack holds
          BaseOf,       \* of each revision of the shard, where its data begins
          OffsetOf,     \* of each weight and revision, its offset in the data
          MaxJobs,      \* bound on writing jobs and clears
          MaxPulls,     \* bound on loads: each is a thread of its own
          NoArtifact,   \* there is no such file
          HalfWritten,  \* a file that is being written, or was cut off
          Unknown       \* nothing is remembered, or nothing was got

Revisions == {0, 1}

Pulls == 1 .. MaxPulls

ASSUME SourceAssumption ==
    /\ Quantized \subseteq WeightNames /\ Packable \subseteq WeightNames
    /\ BaseOf \in [Revisions -> Nat] /\ OffsetOf \in [WeightNames -> [Revisions -> Nat]]
    /\ MaxJobs \in Nat /\ MaxPulls \in Nat
    /\ Unknown \notin Nat \X Nat

Artifacts == {"shard", "catalog", "codes", "scales", "q4", "packed", "pack"}

\* The files whose modification time the server compares.
Stamped == {"shard", "codes", "scales", "q4"}

VARIABLES stored,    \* of each file, its content
          stamp,     \* of each file of Stamped, its modification time
          writer,    \* the job that writes files: those to come, half written or not
          recalled,  \* what the server remembers of the Q4 manifest, of the pack
                     \* that was selected and of the stamps of the Q4 files
          codeCache, \* Q4 codes and scales in memory
          rawCache,  \* raw bytes in memory
          clearing,  \* a clear has dropped the weights and not the handles yet
          pull,      \* the loads
          jobs, pulls

bVars == <<stored, stamp, writer, recalled, codeCache, rawCache, clearing, pull, jobs, pulls>>

diskVars == <<stored, stamp, writer, jobs>>
memoVars == <<recalled, codeCache, rawCache, clearing>>

Whole(f) == stored[f] \in Revisions

NoWriter == [todo |-> <<>>, rev |-> 0, half |-> FALSE]

\* A load of one weight, and what it holds between two steps.
Unloaded == [at |-> "idle", name |-> Unknown, entry |-> 0, from |-> "shard", held |-> <<>>,
             got |-> Unknown, upset |-> FALSE]

\* A catalog, either all artifacts or none of them, and a shard that may have been
\* replaced since.
BInit ==
    /\ stored \in {[f \in Artifacts |-> CASE f = "shard" -> r [] f = "catalog" -> 0 [] OTHER -> c] :
                       r \in Revisions, c \in {0, NoArtifact}}
    /\ stamp = [f \in Stamped |-> 0]
    /\ writer = NoWriter
    /\ recalled = [q4 |-> Unknown, pack |-> Unknown, paths |-> Unknown]
    /\ codeCache = {} /\ rawCache = {} /\ clearing = FALSE
    /\ pull = [l \in Pulls |-> Unloaded] /\ jobs = 0 /\ pulls = 0

-----------------------------------------------------------------------------
\* What changes a file.  A load that is at work notices it or not.

Rewrite(f, content) ==
    /\ stored' = [stored EXCEPT ![f] = content]
    /\ stamp' = [g \in Stamped |-> IF g = f THEN stamp[g] + 1 ELSE stamp[g]]
    /\ pull' = [l \in Pulls |-> IF pull[l].at \in {"idle", "done"} THEN Unloaded
                                 ELSE [pull[l] EXCEPT !.upset = TRUE]]
    /\ UNCHANGED <<memoVars, pulls>>

NewJob == writer.todo = <<>> /\ jobs < MaxJobs /\ jobs' = jobs + 1

\* A download of the next revision gives the shard its name.
ReplaceShard ==
    /\ NewJob /\ stored["shard"] = 0
    /\ Rewrite("shard", 1) /\ UNCHANGED writer

StartJobOf(todo) ==
    /\ NewJob
    /\ writer' = [todo |-> todo, rev |-> stored["shard"], half |-> FALSE]
    /\ UNCHANGED <<stored, stamp, memoVars, pull, pulls>>

BuildCatalog == StartJobOf(<<"catalog">>)

\* A conversion that does not resume writes over the files there are.
ConvertAnew == StartJobOf(<<"codes", "scales", "q4">>)

BuildPack == Whole("catalog") /\ StartJobOf(<<"packed", "pack">>)

\* Opening a file for writing empties it.
OpenFile ==
    /\ writer.todo # <<>> /\ ~writer.half
    /\ Rewrite(Head(writer.todo), HalfWritten)
    /\ writer' = [writer EXCEPT !.half = TRUE]
    /\ UNCHANGED jobs

FillFile ==
    /\ writer.half
    /\ Rewrite(Head(writer.todo), writer.rev)
    /\ writer' = IF Len(writer.todo) = 1 THEN NoWriter
                 ELSE [writer EXCEPT !.half = FALSE, !.todo = Tail(@)]
    /\ UNCHANGED jobs

JobDies ==
    /\ writer.todo # <<>> /\ writer' = NoWriter
    /\ UNCHANGED <<stored, stamp, memoVars, jobs, pull, pulls>>

-----------------------------------------------------------------------------
\* Loads.  One of several weights does the same for each, and a group that fails
\* at one of them fails as a whole.

\* A load that has come to its end is forgotten with the next step.
Now(l, r) == pull' = [m \in Pulls |-> IF m = l THEN r
                                       ELSE IF pull[m].at = "done" THEN Unloaded ELSE pull[m]]

Goes(l, at, held) == Now(l, [pull[l] EXCEPT !.at = at, !.held = held])

\* No catalog, or one that is being written, ends the load.
BeginPull(l, n) ==
    /\ l = pulls + 1 /\ pulls' = l
    /\ IF Whole("catalog")
         THEN Now(l, [Unloaded EXCEPT !.at = "choose", !.name = n,
                                      !.entry = stored["catalog"]])
         ELSE Now(l, Unloaded)
    /\ UNCHANGED <<diskVars, memoVars>>

\* The Q4 manifest, read again when its stamp has changed; one that cannot be
\* read lists nothing.
RecallQ4 ==
    IF recalled.q4 # Unknown /\ recalled.q4.stamp = stamp["q4"] THEN recalled.q4
    ELSE [stamp |-> stamp["q4"], ready |-> Whole("q4")]

\* The pack is selected once; its tensors need not be whole.
RecallPack ==
    IF recalled.pack # Unknown THEN recalled.pack
    ELSE Whole("pack") /\ stored["packed"] # NoArtifact

ChooseSource(l) ==
    LET n == pull[l].name
        fromQ4 == RecallQ4.ready /\ n \in Quantized
    IN  /\ pull[l].at = "choose"
        /\ recalled' = [recalled EXCEPT !.q4 = RecallQ4,
                                        !.pack = IF fromQ4 THEN @ ELSE RecallPack]
        /\ Now(l, [pull[l] EXCEPT !.at = "read", !.from =
                     IF fromQ4 THEN "q4"
                     ELSE IF n \in Packable /\ RecallPack THEN "pack" ELSE "shard"])
        /\ UNCHANGED <<diskVars, codeCache, rawCache, clearing, pulls>>

Reads(l, source) == pull[l].at = "read" /\ pull[l].from = source

\* A load that was disturbed ends like one that has not begun.
Gets(l, value) ==
    Now(l, IF pull[l].upset THEN Unloaded
           ELSE [pull[l] EXCEPT !.at = "done", !.held = <<>>, !.got = value])

ReadFails(l) == Gets(l, [from |-> "none", of |-> pull[l].from])

-----------------------------------------------------------------------------
\* Q4: codes and scales are looked up under the stamps the server remembers.

PathStamps == IF recalled.paths # Unknown THEN recalled.paths
              ELSE <<stamp["codes"], stamp["scales"]>>

LookUpCodes(l) ==
    LET found == {e \in codeCache : e.name = pull[l].name /\ e.key = PathStamps}
    IN  /\ Reads(l, "q4")
        /\ recalled' = [recalled EXCEPT !.paths = PathStamps]
        /\ \/ \E e \in found : Gets(l, e.value)
           \/ found = {} /\ Goes(l, "codes", [key |-> PathStamps, codes |-> NoArtifact])
        /\ UNCHANGED <<diskVars, codeCache, rawCache, clearing, pulls>>

\* Both files are opened before either is read.
ReadCodes(l) ==
    /\ pull[l].at = "codes"
    /\ IF Whole("codes") /\ Whole("scales")
         THEN Goes(l, "scales", [pull[l].held EXCEPT !.codes = stored["codes"]])
         ELSE ReadFails(l)
    /\ UNCHANGED <<diskVars, memoVars, pulls>>

\* What another load has stored meanwhile is preferred; what does not fit is not
\* stored.
ReadScales(l) ==
    LET p == pull[l].held
        value == [from |-> "q4", codes |-> p.codes, scales |-> stored["scales"],
                  doubt |-> pull[l].upset \/ stored["codes"] # stored["scales"]]
        found == {e \in codeCache : e.name = pull[l].name /\ e.key = p.key}
    IN  /\ pull[l].at = "scales"
        /\ \/ ~Whole("scales") /\ ReadFails(l) /\ UNCHANGED codeCache
           \/ /\ Whole("scales") /\ UNCHANGED codeCache
              /\ \E e \in found : Gets(l, e.value)
           \/ /\ Whole("scales") /\ found = {}
              /\ Gets(l, value)
              /\ codeCache' \in {codeCache, codeCache \cup
                           {[name |-> pull[l].name, key |-> p.key, value |-> value]}}
        /\ UNCHANGED <<diskVars, recalled, rawCache, clearing, pulls>>

-----------------------------------------------------------------------------
\* The pack, by name.
ReadPacked(l) ==
    /\ Reads(l, "pack")
    /\ IF Whole("packed") THEN Gets(l, [from |-> "pack", rev |-> stored["packed"]])
                          ELSE ReadFails(l)
    /\ UNCHANGED <<diskVars, memoVars, pulls>>

\* The shard: by a handle of the load's own scope, by one that is kept for all, or
\* by bytes, as the process is set up.
ByName(rev) == [from |-> "shard", rev |-> rev, inPlace |-> TRUE, doubt |-> FALSE]

\* Through a handle of the load's own scope.
ReadScoped(l) ==
    /\ Reads(l, "shard") \/ pull[l].at = "again"
    /\ Gets(l, ByName(stored["shard"]))
    /\ UNCHANGED <<diskVars, memoVars, pulls>>

\* Through a handle that is kept for all loads: it goes on reading the file that
\* was opened.
OpenKept(l) ==
    /\ Reads(l, "shard")
    /\ Goes(l, "handle", [open |-> TRUE, rev |-> stored["shard"]])
    /\ UNCHANGED <<diskVars, memoVars, pulls>>

\* A clear may have closed it.
ReadKept(l) ==
    /\ pull[l].at = "handle"
    /\ IF pull[l].held.open THEN Gets(l, ByName(pull[l].held.rev)) ELSE ReadFails(l)
    /\ UNCHANGED <<diskVars, memoVars, pulls>>

\* By bytes: where the data begins comes from the shard, the offset in it from the
\* catalog.
ReadBase(l) ==
    /\ Reads(l, "shard")
    /\ Goes(l, "key", [base |-> BaseOf[stored["shard"]]])
    /\ UNCHANGED <<diskVars, memoVars, pulls>>

\* Mutant: the key of raw bytes does not tell when the shard was written.
RawKeyOfName(l) == <<pull[l].name, OffsetOf[pull[l].name][pull[l].entry]>>

RawKey(l) == <<pull[l].name, stamp["shard"], OffsetOf[pull[l].name][pull[l].entry]>>

LookUpRaw(l) ==
    LET found == {e \in rawCache : e.key = RawKey(l)}
    IN  /\ pull[l].at = "key"
        /\ \/ \E e \in found : Gets(l, e.value)
           \/ found = {} /\ Goes(l, "bytes", [base |-> pull[l].held.base, key |-> RawKey(l)])
        /\ UNCHANGED <<diskVars, memoVars, pulls>>

ReadBytes(l) ==
    LET p == pull[l].held
        rev == stored["shard"]
        offset == OffsetOf[pull[l].name]
        value == [from |-> "shard", rev |-> rev,
                  inPlace |-> p.base = BaseOf[rev] /\ offset[pull[l].entry] = offset[rev],
                  doubt |-> pull[l].upset \/ pull[l].entry # rev]
        found == {e \in rawCache : e.key = p.key}
    IN  /\ pull[l].at = "bytes"
        /\ \/ \E e \in found : Gets(l, e.value) /\ UNCHANGED rawCache
           \/ /\ found = {} /\ Gets(l, value)
              /\ rawCache' \in {rawCache, rawCache \cup {[key |-> p.key, value |-> value]}}
        /\ UNCHANGED <<diskVars, recalled, codeCache, clearing, pulls>>

\* Bytes cannot be read: the weight is read by name.
BytesFail(l) ==
    /\ pull[l].at \in {"key", "bytes"}
    /\ Goes(l, "again", <<>>)
    /\ UNCHANGED <<diskVars, memoVars, pulls>>

-----------------------------------------------------------------------------
\* A clear: first the weights in memory and the stamps they are kept under, then
\* the handles and the pack that was selected.

ClearWeightsInMemory ==
    /\ ~clearing /\ jobs < MaxJobs /\ jobs' = jobs + 1 /\ clearing' = TRUE
    /\ codeCache' = {} /\ rawCache' = {}
    /\ recalled' = [recalled EXCEPT !.paths = Unknown]
    /\ UNCHANGED <<stored, stamp, writer, pull, pulls>>

ClearHandles ==
    /\ clearing /\ clearing' = FALSE
    /\ recalled' = [recalled EXCEPT !.pack = Unknown]
    /\ pull' = [l \in Pulls |-> IF pull[l].at = "handle"
                                    THEN [pull[l] EXCEPT !.held.open = FALSE] ELSE pull[l]]
    /\ UNCHANGED <<diskVars, codeCache, rawCache, pulls>>

BNext ==
    \/ ReplaceShard \/ BuildCatalog \/ ConvertAnew \/ BuildPack
    \/ OpenFile \/ FillFile \/ JobDies
    \/ ClearWeightsInMemory \/ ClearHandles
    \/ \E l \in Pulls :
          \/ \E n \in WeightNames : BeginPull(l, n)
          \/ ChooseSource(l) \/ LookUpCodes(l) \/ ReadCodes(l) \/ ReadScales(l)
          \/ ReadPacked(l) \/ ReadScoped(l) \/ OpenKept(l) \/ ReadKept(l)
          \/ ReadBase(l) \/ LookUpRaw(l) \/ ReadBytes(l) \/ BytesFail(l)

BSpec == BInit /\ [][BNext]_bVars

-----------------------------------------------------------------------------
BTypeOK ==
    /\ \A f \in Artifacts : stored[f] \in Revisions \cup {NoArtifact, HalfWritten}
    /\ \A l \in Pulls :
          /\ pull[l].at \in {"idle", "choose", "read", "codes", "scales", "handle", "key",
                             "bytes", "again", "done"}
          /\ pull[l].name \in WeightNames \cup {Unknown} /\ pull[l].entry \in Revisions
          /\ pull[l].at = "done" => ~pull[l].upset
    /\ jobs \in 0 .. MaxJobs /\ pulls \in 0 .. MaxPulls

\* What a load got is what is on disk: the shard as it is, in its place, a pack as
\* it is, and codes and scales of one conversion, which is the last one unless the
\* server keeps weights under older stamps.  In doubt are weights that were put
\* in memory while files were written, under an old catalog, or from a conversion
\* that was cut off between codes and scales.
GotWhatIsThere(value) ==
    /\ (value.from = "shard" /\ ~value.doubt) => value.inPlace /\ value.rev = stored["shard"]
    /\ value.from = "pack" => value.rev = stored["packed"]
    /\ (value.from = "q4" /\ ~value.doubt) =>
          /\ value.codes = value.scales
          /\ recalled.paths = <<stamp["codes"], stamp["scales"]>> => value.codes = stored["codes"]

\* It came from the Q4 artifact exactly if that has a manifest now, and failed
\* only for a file that is not whole, or a handle a clear closed.
FromTheRightPlace(n, value) ==
    LET source == IF value.from = "none" THEN value.of ELSE value.from
    IN  /\ n \in Quantized => (source = "q4" <=> Whole("q4"))
        /\ value.from = "none" =>
              \/ source = "q4" /\ ~(Whole("codes") /\ Whole("scales"))
              \/ source = "pack" /\ ~Whole("packed")
              \/ source = "shard"

\* However loads, clears and the writing of files overlap, a load during which no
\* file was written gets what is there, whatever others have left in memory.
LoadsSound ==
    \A l \in Pulls : pull[l].at = "done" =>
        /\ GotWhatIsThere(pull[l].got)
        /\ FromTheRightPlace(pull[l].name, pull[l].got)
=============================================================================
