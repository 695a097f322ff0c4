---------------------------- MODULE LocalServices ----------------------------
(***************************************************************************)
(* What Pocket LLM keeps beside the decoding itself: the conversion of a   *)
(* model to Q4, the llama.cpp server, the caches of the web server, the    *)
(* download of a model and the streaming of its weights.                   *)
(* They share no state in the code (a stop of the server clears the caches *)
(* and the caches model that stop as StopClears), so it is enough to let   *)
(* each of them move by itself.                                            *)
(***************************************************************************)
EXTENDS Q4ConversionJob, GgufServer, ChatCaches, ModelDownload, StreamingRuntime

VARIABLE part    \* the one that moves

serviceVars == <<part, jobVars, gVars, cVars, dVars, sVars>>

\* Where no conversion runs, it does not matter which shards have tensors, and
\* where nothing is downloaded, which sizes are known.
Init ==
    /\ JobInit /\ GInit /\ CInit /\ DInit /\ SInit
    /\ part \in {"conversion", "server", "caches", "download", "stream"}
    /\ part = "conversion" \/ floating = Shards
    /\ part = "download" \/ sized = Files

Next ==
    /\ UNCHANGED part
    /\ \/ part = "conversion" /\ JobNext /\ UNCHANGED <<gVars, cVars, dVars, sVars>>
       \/ part = "server" /\ GNext /\ UNCHANGED <<jobVars, cVars, dVars, sVars>>
       \/ part = "caches" /\ CNext /\ UNCHANGED <<jobVars, gVars, dVars, sVars>>
       \/ part = "download" /\ DNext /\ UNCHANGED <<jobVars, gVars, cVars, sVars>>
       \/ part = "stream" /\ SNext /\ UNCHANGED <<jobVars, gVars, cVars, dVars>>

\* Each part under its own fairness; a job is resumed only where jobs run.
Fairness == /\ WF_jobVars(JobRuns)
            /\ WF_jobVars(part = "conversion" /\ StartJob(TRUE))
            /\ GFairness
            /\ WF_dVars(RunGoesOn)
            /\ WF_dVars(part = "download" /\ StartDownload)
            /\ WF_sVars(CallGoesOn)
            /\ SF_sVars(part = "stream" /\ StartCall("safe"))

Spec == Init /\ [][Next]_serviceVars /\ Fairness

-----------------------------------------------------------------------------
TypeOK == JobTypeOK /\ GTypeOK /\ CTypeOK /\ DTypeOK /\ STypeOK

\* Work that is taken up again and again comes to its end, whatever cut it off
\* before: JobCompletes where a conversion runs, DownloadCompletes where a model
\* is downloaded and StreamFinishes where one is streamed.
WorkCompletes ==
    (\/ part = "conversion" /\ floating = Shards
     \/ part = "download" /\ sized = Files /\ repo = 0
     \/ part = "stream" /\ Streaming)
    ~> (\/ part = "conversion" /\ Readable(record) /\ record.status = "complete"
        \/ part = "download" /\ (repo # 0 \/ progress = "complete")
        \/ part = "stream" /\ (~Streaming \/ AtLastWindow))
=============================================================================
