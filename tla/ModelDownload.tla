---------------------------- MODULE ModelDownload ----------------------------
(***************************************************************************)
(* The download of a model (app/chat_shell/import_cli.py): every file of   *)
(* the repository is received into an ".incomplete" file, which a later    *)
(* run resumes, and then takes its name.  Bytes are modelled by the        *)
(* revision of the repository they come from.                              *)
(***************************************************************************)
EXTENDS Integers, Sequences, Functions

CONSTANTS Files,         \* the files of the repository
          FileOrder,     \* ... in the order it lists them
          Lengths,       \* of each revision, the length of each file
          MaxSetbacks,   \* bound on deaths, failures and new revisions
          Missing,       \* there is no such file
          Unreadable     \* a status that was cut off

ASSUME DownloadAssumption ==
    /\ MaxSetbacks \in Nat
    /\ FileOrder \in Seq(Files) /\ IsInjective(FileOrder) /\ Range(FileOrder) = Files
    /\ 0 \in DOMAIN Lengths /\ DOMAIN Lengths \subseteq Nat
    /\ \A v \in DOMAIN Lengths : Lengths[v] \in [Files -> Nat \ {0}]
    /\ Missing \notin Seq(Nat) /\ "complete" \notin {Missing, Unreadable}

VARIABLES repo,       \* the revision the repository serves
          sized,      \* the files whose size it tells
          named,      \* of each file, what is stored under its name
          received,   \* of each file, what is in its ".incomplete"
          fetch,      \* the run at work
          progress,   \* the status it last recorded
          setbacks    \* how often something went wrong

dVars == <<repo, sized, named, received, fetch, progress, setbacks>>

NoRun == [at |-> "idle", want |-> <<>>, todo |-> <<>>, from |-> 0, to |-> 0]

DInit ==
    /\ repo = 0 /\ sized \in SUBSET Files /\ setbacks = 0
    /\ named = [f \in Files |-> Missing] /\ received = [f \in Files |-> Missing]
    /\ fetch = NoRun /\ progress = Missing

Setback == setbacks < MaxSetbacks /\ setbacks' = setbacks + 1

\* A whole file of a revision.
Copy(f, v) == [i \in 1 .. Lengths[v][f] |-> v]

Present(file) == file # Missing

-----------------------------------------------------------------------------
\* What the repository lists is what a run expects; 0 where it tells no size.
StartDownload ==
    /\ fetch.at = "idle"
    /\ fetch' = [at |-> "next", todo |-> FileOrder, from |-> 0, to |-> 0,
                 want |-> [f \in Files |-> IF f \in sized THEN Lengths[repo][f] ELSE 0]]
    /\ progress' = "starting"
    /\ UNCHANGED <<repo, sized, named, received, setbacks>>

Expected(f) == fetch.want[f] > 0 /\ Present(named[f]) /\ Len(named[f]) = fetch.want[f]

SkipFile ==
    /\ fetch.at = "next" /\ fetch.todo # <<>> /\ Expected(Head(fetch.todo))
    /\ fetch' = [fetch EXCEPT !.todo = Tail(@)]
    /\ UNCHANGED <<repo, sized, named, received, progress, setbacks>>

\* A file of another length is taken for one that is not complete.
TakeUp ==
    /\ fetch.at = "next" /\ fetch.todo # <<>>
    /\ LET f == Head(fetch.todo)
       IN  /\ ~Expected(f)
           /\ named' = [named EXCEPT ![f] = Missing]
           /\ received' = IF Present(named[f]) /\ ~Present(received[f])
                        THEN [received EXCEPT ![f] = named[f]] ELSE received
    /\ fetch' = [fetch EXCEPT !.at = "get"]
    /\ UNCHANGED <<repo, sized, progress, setbacks>>

\* The run ends with an error.
Fails == fetch' = [fetch EXCEPT !.at = "idle"] /\ progress' = "error"

\* The file takes its name.
Keep(f) ==
    /\ named' = [named EXCEPT ![f] = received[f]]
    /\ received' = [received EXCEPT ![f] = Missing]
    /\ fetch' = [fetch EXCEPT !.at = "next", !.todo = Tail(@)]
    /\ UNCHANGED progress

\* Mutant: a body sent from the start is appended to what is there.
AfreshAppended(f) ==
    /\ received' = [received EXCEPT ![f] = IF Present(@) THEN @ ELSE <<>>]
    /\ fetch' = [fetch EXCEPT !.at = "body", !.from = repo,
                              !.to = Len(received'[f]) + Lengths[repo][f]]
    /\ UNCHANGED <<named, progress>>

\* Receive the body from the start.
Afresh(f) ==
    /\ received' = [received EXCEPT ![f] = <<>>]
    /\ fetch' = [fetch EXCEPT !.at = "body", !.from = repo, !.to = Lengths[repo][f]]
    /\ UNCHANGED <<named, progress>>

\* Mutant: a file that was received in full and not renamed is not recognised.
PastEndFails(f) == Fails /\ UNCHANGED <<named, received>>

\* The server has nothing after what is there: the file is complete if that is
\* what the run expects.
PastEnd(f) ==
    IF fetch.want[f] > 0 /\ Len(received[f]) = fetch.want[f]
      THEN Keep(f) ELSE Fails /\ UNCHANGED <<named, received>>

\* What is there is asked to be continued; a server may ignore that.
Respond ==
    /\ fetch.at = "get"
    /\ LET f == Head(fetch.todo)
           got == IF Present(received[f]) THEN Len(received[f]) ELSE 0
       IN  \/ Afresh(f)
           \/ /\ got > 0 /\ got < Lengths[repo][f]
              /\ fetch' = [fetch EXCEPT !.at = "body", !.from = repo, !.to = Lengths[repo][f]]
              /\ UNCHANGED <<named, received, progress>>
           \/ got > 0 /\ got >= Lengths[repo][f] /\ PastEnd(f)
    /\ UNCHANGED <<repo, sized, setbacks>>

\* The next bytes of the revision that is being sent, until the body is through;
\* now and then the progress is recorded.
ReceiveChunk ==
    /\ fetch.at = "body"
    /\ LET f == Head(fetch.todo)
       IN  /\ Len(received[f]) < fetch.to
           /\ received' = [received EXCEPT ![f] = Append(@, fetch.from)]
    /\ progress' \in {progress, "downloading"}
    /\ UNCHANGED <<repo, sized, named, fetch, setbacks>>

EndBody ==
    /\ fetch.at = "body"
    /\ LET f == Head(fetch.todo)
       IN  /\ Len(received[f]) = fetch.to
           /\ IF fetch.want[f] > 0 /\ Len(received[f]) # fetch.want[f]
                THEN Fails /\ UNCHANGED <<named, received>>
                ELSE Keep(f)
    /\ UNCHANGED <<repo, sized, setbacks>>

EndDownload ==
    /\ fetch.at = "next" /\ fetch.todo = <<>>
    /\ fetch' = [fetch EXCEPT !.at = "idle"] /\ progress' = "complete"
    /\ UNCHANGED <<repo, sized, named, received, setbacks>>

-----------------------------------------------------------------------------
\* The connection breaks, or the disk is full.
BreakOff ==
    /\ fetch.at \in {"get", "body"} /\ Setback /\ Fails
    /\ UNCHANGED <<repo, sized, named, received>>

\* The process dies, perhaps while it records its status.
RunDies ==
    /\ fetch.at # "idle" /\ Setback
    /\ fetch' = [fetch EXCEPT !.at = "idle"]
    /\ progress' \in {progress, Unreadable}
    /\ UNCHANGED <<repo, sized, named, received>>

\* The model's owner publishes another revision, during a run or between two.
Publish ==
    /\ repo + 1 \in DOMAIN Lengths /\ Setback /\ repo' = repo + 1
    /\ UNCHANGED <<sized, named, received, fetch, progress>>

RunGoesOn ==
    SkipFile \/ TakeUp \/ Respond \/ ReceiveChunk \/ EndBody \/ EndDownload

DNext == StartDownload \/ RunGoesOn \/ BreakOff \/ RunDies \/ Publish

\* A run goes on, and a user who has no model yet runs the import again.
DFairness == WF_dVars(RunGoesOn) /\ WF_dVars(StartDownload)

DSpec == DInit /\ [][DNext]_dVars /\ DFairness

-----------------------------------------------------------------------------
DTypeOK ==
    /\ repo \in DOMAIN Lengths /\ sized \in SUBSET Files
    /\ \A f \in Files :
          /\ Present(named[f]) => named[f] \in Seq(DOMAIN Lengths)
          /\ Present(received[f]) => received[f] \in Seq(DOMAIN Lengths)
    /\ fetch.at \in {"idle", "next", "get", "body"}
    /\ progress \in {Missing, Unreadable, "starting", "downloading", "error", "complete"}
    /\ setbacks \in 0 .. MaxSetbacks

\* A download that was recorded as complete has every file, and those of known
\* size have it; and unless the repository changed, every file is what it serves:
\* nothing is lost, doubled or out of place, however often runs were cut off.
WholeDownloads ==
    progress = "complete" =>
        \A f \in Files :
            /\ Present(named[f])
            /\ f \in sized => Len(named[f]) = fetch.want[f]
            /\ repo = 0 => named[f] = Copy(f, 0)

\* If the repository tells every size and does not change, an import that is run
\* again and again completes, wherever the runs before it were cut off.
DownloadCompletes ==
    (sized = Files /\ repo = 0) ~> (repo # 0 \/ progress = "complete")
=============================================================================
