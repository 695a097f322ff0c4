---------------------------- MODULE ChatLifecycle ----------------------------
(***************************************************************************)
(* What the chat job API of the web app promises a client, with no threads *)
(* and no lock: a job goes from queued to running to exactly one final     *)
(* status, and a job asked to stop before it was final never completes.    *)
(***************************************************************************)

CONSTANT Jobs  \* the job ids clients may be handed

VARIABLES
  phase,       \* phase[j]: the status a client can observe, or "absent"
  cancelAsked  \* cancelAsked[j]: some client asked for the job to stop

lifeVars == <<phase, cancelAsked>>

Final == {"completed", "failed", "canceled"}
Phases == {"absent", "queued", "running"} \cup Final

Init ==
  /\ phase = [j \in Jobs |-> "absent"]
  /\ cancelAsked = [j \in Jobs |-> FALSE]

Move(j, from, to) ==
  /\ phase[j] = from
  /\ phase' = [phase EXCEPT ![j] = to]
  /\ UNCHANGED cancelAsked

Accept(j)  == Move(j, "absent", "queued")
Answer(j)  == Move(j, "absent", "completed")
Begin(j)   == ~cancelAsked[j] /\ Move(j, "queued", "running")
Complete(j) == ~cancelAsked[j] /\ Move(j, "running", "completed")
Abort(j)   == cancelAsked[j] /\ Move(j, "running", "canceled")
Fail(j)    == Move(j, "running", "failed")

Cancel(j) ==
  /\ phase[j] # "absent"
  /\ cancelAsked' = [cancelAsked EXCEPT ![j] = TRUE]
  /\ phase' = IF phase[j] = "queued" THEN [phase EXCEPT ![j] = "canceled"]
                                      ELSE phase

Next ==
  \E j \in Jobs :
    \/ Accept(j) \/ Answer(j) \/ Begin(j) \/ Complete(j)
    \/ Abort(j) \/ Fail(j) \/ Cancel(j)

LifeSpec == Init /\ [][Next]_lifeVars
=============================================================================
