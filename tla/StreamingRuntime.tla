-------------------------- MODULE StreamingRuntime --------------------------
(***************************************************************************)
(* Staged streaming of a model's weights (streaming_*.py and               *)
(* window_schedule.py).  Source shards are cut into units; a schedule      *)
(* keeps a hot window, a warm window and the rest of the units; each       *)
(* rotation consumes the hot window and writes the units of the next two   *)
(* windows to cache files.  All of it is on disk, each call is a process   *)
(* of its own, and no file is written atomically.                          *)
(***************************************************************************)
EXTENDS Integers, Sequences, FiniteSets, SequencesExt, Functions, OrderLists

CONSTANTS Layouts,    \* manifests the program may write for the model
          Units,      \* of each, the ids of the units in order
          UnitBytes,  \* of each, the bytes of the model a unit holds
          HotTarget,  \* of each, working_window_bytes
          WarmTarget, \* of each, prefetch_window_bytes
          MaxUpsets,  \* bound on deaths, failures, losses and restarts
          Absent,     \* the file does not exist
          Torn        \* the file exists and does not parse

ASSUME StreamAssumption ==
    /\ MaxUpsets \in Nat
    /\ \A l \in Layouts :
          /\ HotTarget[l] \in Nat /\ WarmTarget[l] \in 0 .. HotTarget[l]
          /\ Units[l] \in Seq(ToSet(Units[l])) \ {<<>>} /\ Once(Units[l])
          /\ \A id \in ToSet(Units[l]) : IsFiniteSet(UnitBytes[l][id])
    /\ Absent \notin Layouts /\ Torn \notin Layouts /\ Absent # Torn

VARIABLES layout,     \* manifest.json
          away,       \* what is missing: a "shard", a "window" directory, "nothing"
          schedule,   \* schedule.json: [hot, warm, over, for, by, ready]
          residency,  \* residency.json: [hot, ahead, ready, missed]
          index,      \* cache-index.json: the segments it lists
          cache,      \* the bytes of each file in the window directories
          call,       \* the call at work
          upsets      \* how often something went wrong or was begun anew

sVars == <<layout, away, schedule, residency, index, cache, call, upsets>>

Exists(file) == file \notin {Absent, Torn}

NoCall == [cmd |-> "none", at |-> "idle", sched |-> Absent, turn |-> FALSE,
         brief |-> FALSE, todo |-> <<>>, segs |-> {}, blocked |-> FALSE]

SInit ==
    /\ layout = Absent /\ away = "nothing" /\ schedule = Absent
    /\ residency = Absent /\ index = Absent
    /\ cache = <<>> /\ call = NoCall /\ upsets = 0

Upset == upsets < MaxUpsets /\ upsets' = upsets + 1

-----------------------------------------------------------------------------
(***************************************************************************)
(* Windows.                                                                *)
(***************************************************************************)
Ids(l) == ToSet(Units[l])

Size(ids, l) ==
    TotalOf(1 .. Len(ids), [i \in 1 .. Len(ids) |-> Cardinality(UnitBytes[l][ids[i]])])

\* The first units that fit, up to one that does not.
Fill(ids, target, l) ==
    LET fits(n) == Size(SubSeq(ids, 1, n), l) <= target
    IN  SubSeq(ids, 1, CHOOSE n \in 0 .. Len(ids) :
                          fits(n) /\ (n = Len(ids) \/ ~fits(n + 1)))

Except(ids, taken) == WithoutAll(ids, ToSet(taken))

\* for: the manifest of the targets; by: the manifest by whose sizes the hot window
\* was filled, and that of the warm window (what hot_window_bytes and
\* warm_window_bytes go by when they are first written).
Windows(hot, warm, over, for, by) ==
    [hot |-> hot, warm |-> warm, over |-> over, for |-> for, by |-> by,
     ready |-> hot # <<>>]

\* Of the manifest and of the map of its units: ready.  Neither is without both
\* window directories, and the map not without every shard.
ManifestReady == layout \in Layouts /\ away # "window"

MapReady == layout \in Layouts /\ away = "nothing"

\* Without units there is nothing to schedule.
BuiltSchedule ==
    IF ~MapReady THEN Windows(<<>>, <<>>, <<>>, layout, <<layout, layout>>)
    ELSE LET ids  == Units[layout]
             hot  == Fill(SubSeq(ids, 1, 1), HotTarget[layout], layout)
             warm == Fill(Tail(ids), WarmTarget[layout], layout)
         IN  Windows(hot, warm, Except(ids, hot \o warm), layout, <<layout, layout>>)

\* Mutant: the hot window is filled from the rest, whatever is warm.
RotatedPast(s) ==
    LET hot  == Fill(s.over, HotTarget[s.for], layout)
        rest == Except(s.over, hot)
        warm == Fill(rest, WarmTarget[s.for], layout)
    IN  Windows(hot, warm, Except(rest, warm), s.for, <<layout, layout>>)

\* The warm window becomes the hot one and the rest fills a new warm window, by
\* the targets of the schedule and the units of the present manifest.
Rotated(s) ==
    LET hot  == IF s.warm # <<>> THEN s.warm ELSE Fill(s.over, HotTarget[s.for], layout)
        rest == Except(s.over, hot)
        warm == Fill(rest, WarmTarget[s.for], layout)
        by   == <<IF s.warm # <<>> THEN s.by[2] ELSE layout, layout>>
    IN  Windows(hot, warm, Except(rest, warm), s.for, by)

Scheduled == Exists(schedule) /\ schedule.ready

-----------------------------------------------------------------------------
(***************************************************************************)
(* The start of a call.  A torn file it has to read makes it raise, which  *)
(* changes nothing.                                                        *)
(***************************************************************************)
\* bootstrap_streaming_state makes the window directories and writes the manifest.
Bootstrap(l) ==
    /\ call = NoCall /\ (layout # l \/ away = "window")
    /\ IF layout \in {Absent, l} THEN UNCHANGED upsets ELSE Upset
    /\ layout' = l
    /\ away' = IF away = "window" THEN "nothing" ELSE away
    /\ UNCHANGED <<schedule, residency, index, cache, call>>

\* write_window_schedule; over another schedule it begins the stream anew.
BuildSchedule ==
    /\ call = NoCall /\ layout # Torn
    /\ IF schedule = Absent THEN UNCHANGED upsets ELSE Upset
    /\ call' = [NoCall EXCEPT !.cmd = "schedule", !.at = "schedule", !.sched = BuiltSchedule]
    /\ UNCHANGED <<layout, away, schedule, residency, index, cache>>

\* A rotation begins with the schedule, unless that or the map of the units is not
\* ready, or the schedule has units the map does not know.
Rotating(c) ==
    IF ~Scheduled \/ ~MapReady THEN NoCall
    ELSE IF ~(ToSet(schedule.warm \o schedule.over) \subseteq Ids(layout)) THEN NoCall
    ELSE [c EXCEPT !.at = "schedule", !.sched = Rotated(schedule), !.turn = TRUE]

\* A materialization takes the schedule on disk, or one that it keeps to itself.
\* If that or the map of the units is not ready it only writes an index without
\* segments.
Materializing(c) ==
    LET s == IF Scheduled THEN schedule ELSE BuiltSchedule
    IN  IF s.ready /\ MapReady THEN [c EXCEPT !.at = "clear", !.sched = s]
        ELSE [c EXCEPT !.at = "index", !.sched = s, !.brief = TRUE, !.blocked = TRUE]

StartCall(cmd) ==
    LET c == [NoCall EXCEPT !.cmd = cmd]
    IN  /\ call = NoCall /\ layout # Torn
        /\ call' = CASE cmd = "rotate" -> IF schedule = Torn THEN NoCall ELSE Rotating(c)
                     [] cmd = "materialize" ->
                           IF schedule = Torn THEN NoCall ELSE Materializing(c)
                     [] cmd = "advance" -> [c EXCEPT !.at = "control"]
                     [] OTHER -> [c EXCEPT !.at = "verify"]
        /\ UNCHANGED <<layout, away, schedule, residency, index, cache, upsets>>

-----------------------------------------------------------------------------
(***************************************************************************)
(* The steps of a call.                                                    *)
(***************************************************************************)
\* Mutant: a file is only looked for, not read.
MissesGone == {s \in index : s.file \notin DOMAIN cache}

\* What the index lists and the cache does not hold as it was written.
Misses == {s \in index : s.file \notin DOMAIN cache \/ cache[s.file] # s.bytes}

\* verify_materialized_cache compares the files with the index and tells the
\* residency; it does not compare the index with the schedule.  A manifest that is
\* not ready blocks the residency too.
Verify ==
    /\ call.at = "verify"
    /\ LET writes == Exists(index) /\ Scheduled /\ residency # Torn
           raises == index = Torn \/ (index # Absent /\ (schedule = Torn \/ residency = Torn))
       IN  /\ residency' = IF ~writes THEN residency
                           ELSE [hot |-> schedule.hot,
                                 ahead |-> schedule.warm # <<>> \/ schedule.over # <<>>,
                                 ready |-> Misses = {} /\ ManifestReady, missed |-> Misses # {}]
           /\ call' = IF raises \/ call.cmd = "verify" THEN NoCall
                      ELSE [call EXCEPT !.at = "control"]
    /\ UNCHANGED <<layout, away, schedule, index, cache, upsets>>

\* build_streaming_control_state.
Decision ==
    IF ~Scheduled \/ ~ManifestReady THEN "await"
    ELSE IF residency # Absent /\ residency.missed THEN "repair"
    ELSE IF residency = Absent \/ ~residency.ready \/ residency.hot = <<>> THEN "materialize"
    ELSE IF residency.ahead THEN "rotate" ELSE "hold"

Control ==
    /\ call.at = "control"
    /\ call' = IF schedule = Torn \/ residency = Torn THEN NoCall
               ELSE CASE Decision = "rotate" -> Rotating(call)
                      [] Decision \in {"repair", "materialize"} -> Materializing(call)
                      [] OTHER -> NoCall
    /\ UNCHANGED <<layout, away, schedule, residency, index, cache, upsets>>

\* A rotation writes a schedule that is not ready too, and then an empty index.
WriteSchedule ==
    /\ call.at = "schedule"
    /\ schedule' = call.sched
    /\ call' = IF ~call.turn THEN NoCall
               ELSE IF call.sched.ready THEN [call EXCEPT !.at = "clear"]
               ELSE [call EXCEPT !.at = "index", !.brief = TRUE, !.blocked = TRUE]
    /\ UNCHANGED <<layout, away, residency, index, cache, upsets>>

\* Both window directories are emptied.  Files that cannot be removed end the
\* materialization with an empty index.
ClearWindows ==
    /\ call.at = "clear"
    /\ \/ /\ cache' = <<>>
          /\ call' = [call EXCEPT !.at = "unit",
                         !.todo = [i \in 1 .. Len(call.sched.hot) |-> <<"hot", call.sched.hot[i]>>]
                               \o [i \in 1 .. Len(call.sched.warm) |-> <<"warm", call.sched.warm[i]>>]]
          /\ UNCHANGED upsets
       \/ /\ Upset
          /\ \E left \in SUBSET DOMAIN cache :
                left # {} /\ cache' = Restrict(cache, left)
          /\ call' = [call EXCEPT !.at = "index", !.brief = TRUE, !.blocked = TRUE]
    /\ UNCHANGED <<layout, away, schedule, residency, index>>

\* The cache with what a file now holds.
Written(file, bytes) ==
    [f \in DOMAIN cache \cup {file} |-> IF f = file THEN bytes ELSE cache[f]]

\* A unit the manifest does not know, or that cannot be copied, is left out and
\* the others are written all the same; a failed write may leave a part of it.
WriteUnit ==
    /\ call.at = "unit" /\ call.todo # <<>>
    /\ LET file  == Head(call.todo)
           next  == [call EXCEPT !.todo = Tail(@)]
           fails == call' = [next EXCEPT !.blocked = TRUE]
       IN  IF file[2] \notin Ids(layout)
             THEN fails /\ UNCHANGED <<cache, upsets>>
             ELSE \/ /\ cache' = Written(file, UnitBytes[layout][file[2]])
                     /\ call' = [next EXCEPT !.segs = @ \cup
                                   {[file |-> file, bytes |-> UnitBytes[layout][file[2]]]}]
                     /\ UNCHANGED upsets
                  \/ /\ fails /\ Upset
                     /\ cache' \in {cache, Written(file, {})}
    /\ UNCHANGED <<layout, away, schedule, residency, index>>

WriteIndex ==
    /\ call.at = "index" \/ (call.at = "unit" /\ call.todo = <<>>)
    /\ index' = call.segs
    /\ call' = IF call.brief /\ ~call.turn THEN NoCall ELSE [call EXCEPT !.at = "residency"]
    /\ UNCHANGED <<layout, away, schedule, residency, cache, upsets>>

\* It reads the residency before it writes it, and raises if that is torn.
WriteResidency ==
    /\ call.at = "residency"
    /\ residency' = IF residency = Torn THEN Torn
                    ELSE [hot |-> call.sched.hot,
                          ahead |-> call.sched.warm # <<>> \/ call.sched.over # <<>>,
                          ready |-> ~call.blocked, missed |-> FALSE]
    /\ call' = NoCall
    /\ UNCHANGED <<layout, away, schedule, index, cache, upsets>>

-----------------------------------------------------------------------------
(***************************************************************************)
(* What goes wrong.                                                        *)
(***************************************************************************)
\* The process dies, and may leave the file it is writing torn.
CallDies ==
    /\ call # NoCall /\ Upset /\ call' = NoCall
    /\ schedule' \in {schedule} \cup (IF call.at = "schedule" THEN {Torn} ELSE {})
    /\ index' \in {index} \cup (IF call.at = "index" THEN {Torn} ELSE {})
    /\ residency' \in {residency}
          \cup (IF call.at \in {"residency", "verify"} THEN {Torn} ELSE {})
    /\ cache' \in {cache} \cup (IF call.at = "unit" /\ call.todo # <<>>
                                  THEN {Written(Head(call.todo), {})} ELSE {})
    /\ UNCHANGED <<layout, away>>

BootstrapDies ==
    /\ call = NoCall /\ Upset /\ layout' = Torn
    /\ away' = IF away = "window" THEN "nothing" ELSE away
    /\ UNCHANGED <<schedule, residency, index, cache, call>>

\* Between two calls a cache file is deleted or damaged.
LoseFile ==
    /\ call = NoCall /\ Upset
    /\ \E file \in DOMAIN cache :
          cache' \in {Restrict(cache, DOMAIN cache \ {file}), Written(file, {})}
    /\ UNCHANGED <<layout, away, schedule, residency, index, call>>

\* A shard is moved away, or a window directory deleted with its files.
LosePart ==
    /\ call = NoCall /\ away = "nothing" /\ Upset
    /\ \/ away' = "shard" /\ UNCHANGED cache
       \/ /\ away' = "window"
          /\ \E window \in {"hot", "warm"} :
                cache' = Restrict(cache, {file \in DOMAIN cache : file[1] # window})
    /\ UNCHANGED <<layout, schedule, residency, index, call>>

FindShard ==
    /\ call = NoCall /\ away = "shard" /\ away' = "nothing"
    /\ UNCHANGED <<layout, schedule, residency, index, cache, call, upsets>>

CallGoesOn ==
    \/ Verify \/ Control \/ WriteSchedule \/ ClearWindows \/ WriteUnit \/ WriteIndex
    \/ WriteResidency

SNext ==
    \/ \E l \in Layouts : Bootstrap(l)
    \/ BuildSchedule
    \/ \E cmd \in {"rotate", "materialize", "verify", "advance", "safe"} : StartCall(cmd)
    \/ CallGoesOn
    \/ CallDies \/ BootstrapDies \/ LoseFile \/ LosePart \/ FindShard

\* A call goes on, and the stream is advanced again and again.
SFairness == WF_sVars(CallGoesOn) /\ SF_sVars(StartCall("safe"))

SSpec == SInit /\ [][SNext]_sVars /\ SFairness

-----------------------------------------------------------------------------
STypeOK ==
    /\ layout \in Layouts \cup {Absent, Torn} /\ away \in {"nothing", "shard", "window"}
    /\ Exists(schedule) => schedule.for \in Layouts \cup {Absent}
    /\ Exists(residency) => DOMAIN residency = {"hot", "ahead", "ready", "missed"}
    /\ call.at \in {"idle", "schedule", "clear", "unit", "index", "residency",
                    "verify", "control"}
    /\ upsets \in 0 .. MaxUpsets

\* The windows of a schedule that is ready follow one another in the order of the
\* units and end with the last one.  Each fits its target by the sizes it was filled
\* by, a hot window that was warm before too.  (What one schedule leaves to the next
\* is FollowsOn.)
StreamInOrder ==
    Scheduled =>
        /\ \E n \in 0 .. Len(Units[schedule.for]) :
              schedule.hot \o schedule.warm \o schedule.over
                 = SubSeq(Units[schedule.for], n + 1, Len(Units[schedule.for]))
        /\ Size(schedule.hot, schedule.by[1]) <= HotTarget[schedule.for]
        /\ Size(schedule.warm, schedule.by[2]) <= WarmTarget[schedule.for]

HotIsWhole ==
    \A i \in 1 .. Len(schedule.hot) :
        \E l \in Layouts : /\ <<"hot", schedule.hot[i]>> \in DOMAIN cache
                           /\ schedule.hot[i] \in Ids(l)
                           /\ cache[<<"hot", schedule.hot[i]>>] = UnitBytes[l][schedule.hot[i]]

HotIsListed ==
    {"hot"} \X ToSet(schedule.hot) \subseteq {s.file : s \in index}

\* "The current cache window is healthy, so the next step is to advance": when
\* an advance goes on to rotate, and the index lists the hot window that the
\* rotation consumes, every unit of it is on disk in full: after a verification
\* always, without one unless something went wrong before.  Where the index does not
\* list it the window can be passed over (VerifiedIsWhole).
AdvancesHealthy ==
    (/\ call.at = "control" /\ Scheduled /\ Exists(index) /\ residency # Torn
     /\ Decision = "rotate" /\ HotIsListed
     /\ call.cmd = "safe" \/ upsets = 0)
    => HotIsWhole

StreamSound == StreamInOrder /\ AdvancesHealthy

\* A rotation takes from the stream the hot window it found and nothing else: what
\* was warm and what was left are what is now hot, warm and left, in the same order,
\* and what was warm is the hot window.  So no rotation passes over a unit, loses one
\* or brings one back; only a schedule that is built anew begins again.
RotationFollowsOn ==
    (schedule' # schedule /\ schedule' # Torn /\ call.turn)
    => /\ Scheduled /\ schedule'.for = schedule.for
       /\ schedule'.hot \o schedule'.warm \o schedule'.over = schedule.warm \o schedule.over
       /\ schedule.warm # <<>> => schedule'.hot = schedule.warm

FollowsOn == [][RotationFollowsOn]_sVars

\* "Verification passed, so the stream advanced" (streaming_control.py): every unit of
\* the hot window that an advance after a verification consumes is on disk in full.
\* An index without segments passes the verification, and so does that of an earlier
\* schedule, left by a call that died between its schedule and its index.
VerifiedIsWhole ==
    (call.at = "control" /\ call.cmd = "safe" /\ residency # Torn /\ schedule # Torn
     /\ Decision = "rotate" /\ Rotating(call) # NoCall)
    => HotIsWhole

\* A stream that is advanced again and again comes to its last window, if its
\* schedule stays that of the manifest, nothing of the model is missing, and neither
\* index nor residency is torn.
Streaming == /\ Scheduled /\ schedule.for = layout /\ away = "nothing"
             /\ Torn \notin {index, residency}

AtLastWindow == schedule.warm = <<>> /\ schedule.over = <<>>

StreamFinishes == Streaming ~> (~Streaming \/ AtLastWindow)
=============================================================================
