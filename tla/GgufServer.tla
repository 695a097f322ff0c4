----------------------------- MODULE GgufServer -----------------------------
(***************************************************************************)
(* The control of the llama.cpp server (gguf_backend.py).  Launchers, which *)
(* are threads of the web server or other processes, start at most one     *)
(* server under a file lock and wait for it; a stop takes no lock.  All    *)
(* they know of each other is the lock, the state file with a process id   *)
(* and the port, each seen through calls that can fail: a probe that raises, *)
(* times out or ends with an error counts as no process, and a kill that   *)
(* fails is passed over.  The server itself is external.                   *)
(***************************************************************************)
EXTENDS Integers, FiniteSets

CONSTANTS Clients,      \* who starts, asks and stops
          ServerCount,  \* bound on the servers spawned
          MaxStops,     \* bound on the stops
          MaxFailures,  \* bound on the crashes of a client and on calls that fail
          NoClient, NoPid

ASSUME ServerAssumption == ServerCount \in Nat /\ NoPid \notin 1 .. ServerCount
ASSUME ClientAssumption == NoClient \notin Clients
ASSUME TroubleAssumption == MaxStops \in Nat /\ MaxFailures \in Nat

VARIABLES at,         \* where a client is
          asks,       \* does the client go on to send a prompt?
          pid,        \* the process a client found or spawned
          startLock,  \* who holds _server_start_lock
          life,       \* of each process: unborn, born, loading, ready, dead
          statePid,   \* the pid of the state file
          lost,       \* a server was left with no trace of it, or overlooked
          unnamed,    \* the servers never recorded, or whose record a stop took
          stops, failures

\* The last four count and remember for the bounds and the properties only.
books == <<lost, unnamed, stops, failures>>
gVars == <<at, asks, pid, startLock, life, statePid, lost, unnamed, stops, failures>>

Pids == 1 .. ServerCount

\* A "born" process does not listen yet; a "loading" one answers 503.
Live(p) == life[p] \in {"born", "loading", "ready"}
Listening == {p \in Pids : life[p] \in {"loading", "ready"}}
ServerReady == \E p \in Pids : life[p] = "ready"

GInit ==
    /\ at = [c \in Clients |-> "idle"]
    /\ asks = [c \in Clients |-> FALSE]
    /\ pid = [c \in Clients |-> NoPid]
    /\ startLock = NoClient
    /\ life = [p \in Pids |-> "unborn"]
    /\ statePid = NoPid
    /\ lost = FALSE /\ unnamed = {} /\ stops = 0 /\ failures = 0

Goto(c, label) == at' = [at EXCEPT ![c] = label]

\* A call that reports success goes on to the prompt if there is one.
Return(c, started) ==
    Goto(c, IF started /\ asks[c] THEN "ask" ELSE "idle")

\* A server that is starting and that nobody could find again, were it not
\* for the launcher that waits for it.
Traceless(p, waiting, recorded) ==
    /\ life[p] = "born" /\ recorded # p
    /\ ~\E c \in waiting : at[c] \in {"record", "wait"} /\ pid[c] = p

-----------------------------------------------------------------------------
(***************************************************************************)
(* start_gguf_server and the start that every prompt begins with.          *)
(***************************************************************************)
Call(c, prompt) ==
    /\ at[c] = "idle"
    /\ Goto(c, "lock") /\ asks' = [asks EXCEPT ![c] = prompt]
    /\ UNCHANGED <<pid, startLock, life, statePid, books>>

TakeLock(c) ==
    /\ at[c] = "lock" /\ startLock = NoClient
    /\ startLock' = c /\ Goto(c, "check")
    /\ UNCHANGED <<asks, pid, life, statePid, books>>

\* Mutant: a launcher waits for the lock without a deadline.
LockWaitsForever(c) == FALSE /\ UNCHANGED gVars

LockTimesOut(c) ==
    /\ at[c] = "lock" /\ startLock # NoClient
    /\ Return(c, FALSE)
    /\ UNCHANGED <<asks, pid, startLock, life, statePid, books>>

\* A server that answers is taken, whatever model it was started with; one
\* that is ready may not answer within the two seconds.
CheckReady(c) ==
    /\ at[c] = "check"
    /\ \/ ServerReady /\ Return(c, TRUE) /\ startLock' = NoClient
       \/ Goto(c, "state") /\ UNCHANGED startLock
    /\ UNCHANGED <<asks, pid, life, statePid, books>>

\* _llama_server_pid reads the state file before it looks at the port.
ReadState(c) ==
    /\ at[c] \in {"state", "stop"}
    /\ pid' = [pid EXCEPT ![c] = statePid]
    /\ Goto(c, IF at[c] = "state" THEN "port" ELSE "stopport")
    /\ UNCHANGED <<asks, startLock, life, statePid, books>>

\* A state file that cannot be read counts as an empty one; a launch may then
\* overlook a server that does not listen yet.
ReadStateFails(c) ==
    /\ at[c] \in {"state", "stop"} /\ failures < MaxFailures
    /\ pid' = [pid EXCEPT ![c] = NoPid]
    /\ lost' = (lost \/ /\ at[c] = "state"
                        /\ \E p \in Pids : statePid = p /\ life[p] = "born")
    /\ Goto(c, IF at[c] = "state" THEN "port" ELSE "stopport")
    /\ failures' = failures + 1
    /\ UNCHANGED <<asks, startLock, life, statePid, unnamed, stops>>

\* Mutant: only the port is asked.
FindsListening(c) == IF Listening # {} THEN Listening ELSE {NoPid}

\* What it returns if netstat and tasklist do: whoever listens, else the
\* recorded process if it exists.
Finds(c) == CASE Listening # {} -> Listening
              [] Listening = {} /\ pid[c] # NoPid /\ Live(pid[c]) -> {pid[c]}
              [] OTHER -> {NoPid}

\* Where one of them fails it may return the recorded process, or none.
FindsWithout(c) == {NoPid} \cup {p \in Pids : p = pid[c] /\ Live(p)}

LeaveToOther(c) ==
    /\ at[c] = "port" /\ NoPid \notin Finds(c)
    /\ Return(c, FALSE) /\ startLock' = NoClient
    /\ UNCHANGED <<asks, pid, life, statePid, books>>

Popen(c) ==
    /\ \E p \in Pids :
         /\ life[p] = "unborn" /\ \A q \in Pids : q < p => life[q] # "unborn"
         /\ life' = [life EXCEPT ![p] = "born"]
         /\ pid' = [pid EXCEPT ![c] = p]
    /\ Goto(c, "record")

Spawn(c) ==
    /\ at[c] = "port" /\ NoPid \in Finds(c)
    /\ Popen(c)
    /\ UNCHANGED <<asks, startLock, statePid, books>>

\* A probe fails that would have found a server.
SpawnUnseeing(c) ==
    /\ at[c] = "port" /\ NoPid \notin Finds(c) /\ failures < MaxFailures
    /\ Popen(c)
    /\ lost' = TRUE /\ failures' = failures + 1
    /\ UNCHANGED <<asks, startLock, statePid, unnamed, stops>>

\* Popen fails: no file handle, no memory, or the bound is reached.
SpawnFails(c) ==
    /\ at[c] = "port" /\ NoPid \in Finds(c)
    /\ Return(c, FALSE) /\ startLock' = NoClient
    /\ UNCHANGED <<asks, pid, life, statePid, books>>

\* Mutant: a state file that is there is left as it is.
WriteStateOnce(c) ==
    /\ at[c] = "record"
    /\ statePid' = IF statePid = NoPid THEN pid[c] ELSE statePid
    /\ Goto(c, "wait")
    /\ UNCHANGED <<asks, pid, startLock, life, books>>

WriteState(c) ==
    /\ at[c] = "record"
    /\ statePid' = pid[c] /\ Goto(c, "wait")
    /\ UNCHANGED <<asks, pid, startLock, life, books>>

\* The state file cannot be written: the call gives up and leaves the process.
WriteStateFails(c) ==
    /\ at[c] = "record" /\ failures < MaxFailures
    /\ Return(c, FALSE) /\ startLock' = NoClient
    /\ lost' = (lost \/ \E p \in Pids : Traceless(p, Clients \ {c}, statePid))
    /\ unnamed' = unnamed \cup {pid[c]}
    /\ failures' = failures + 1
    /\ UNCHANGED <<asks, pid, life, statePid, stops>>

WaitEnds(c) ==
    /\ at[c] = "wait"
    /\ \/ ServerReady /\ Return(c, TRUE)
       \/ ~ServerReady /\ ~Live(pid[c]) /\ Return(c, FALSE)
    /\ startLock' = NoClient
    /\ UNCHANGED <<asks, pid, life, statePid, books>>

\* The deadline passes: the launcher terminates its own process.
WaitTimesOut(c) ==
    /\ at[c] = "wait"
    /\ life' = [life EXCEPT ![pid[c]] = "dead"]
    /\ Return(c, FALSE) /\ startLock' = NoClient
    /\ UNCHANGED <<asks, pid, statePid, books>>

\* It cannot be terminated.
TerminateFails(c) ==
    /\ at[c] = "wait" /\ failures < MaxFailures
    /\ Return(c, FALSE) /\ startLock' = NoClient
    /\ lost' = (lost \/ \E p \in Pids : Traceless(p, Clients \ {c}, statePid))
    /\ failures' = failures + 1
    /\ UNCHANGED <<asks, pid, life, statePid, unnamed, stops>>

\* The request is answered, refused, or given up after ten minutes.
Ask(c) ==
    /\ at[c] = "ask"
    /\ Goto(c, "idle")
    /\ UNCHANGED <<asks, pid, startLock, life, statePid, books>>

-----------------------------------------------------------------------------
(***************************************************************************)
(* stop_gguf_server.                                                       *)
(***************************************************************************)
CallStop(c) ==
    /\ at[c] = "idle" /\ stops < MaxStops
    /\ Goto(c, "stop") /\ stops' = stops + 1
    /\ UNCHANGED <<asks, pid, startLock, life, statePid, lost, unnamed, failures>>

\* os.kill of what was found; with nothing found the state file goes at once.
Kill(c) ==
    /\ at[c] = "stopport"
    /\ \E p \in Finds(c) :
         /\ pid' = [pid EXCEPT ![c] = p]
         /\ life' = IF p = NoPid THEN life ELSE [life EXCEPT ![p] = "dead"]
         /\ Goto(c, IF p = NoPid THEN "clear" ELSE "silence")
    /\ UNCHANGED <<asks, startLock, statePid, books>>

\* A probe fails and none is found, or os.kill fails and nothing shows it.
KillFails(c) ==
    /\ at[c] = "stopport" /\ failures < MaxFailures
    /\ \/ \E p \in FindsWithout(c) :
            /\ pid' = [pid EXCEPT ![c] = p]
            /\ life' = IF p = NoPid THEN life ELSE [life EXCEPT ![p] = "dead"]
            /\ Goto(c, IF p = NoPid THEN "clear" ELSE "silence")
       \/ \E p \in Finds(c) \ {NoPid} :
            /\ pid' = [pid EXCEPT ![c] = p]
            /\ Goto(c, "silence") /\ UNCHANGED life
    /\ failures' = failures + 1
    /\ UNCHANGED <<asks, startLock, statePid, lost, unnamed, stops>>

\* Nothing listens, or eight seconds are over and taskkill takes the pid that
\* os.kill was given.
Silence(c) ==
    /\ at[c] = "silence"
    /\ life' = IF Listening = {} THEN life ELSE [life EXCEPT ![pid[c]] = "dead"]
    /\ Goto(c, "clear")
    /\ UNCHANGED <<asks, pid, startLock, statePid, books>>

\* The probe or taskkill fails.
SilenceFails(c) ==
    /\ at[c] = "silence" /\ failures < MaxFailures
    /\ Goto(c, "clear") /\ failures' = failures + 1
    /\ UNCHANGED <<asks, pid, startLock, life, statePid, lost, unnamed, stops>>

\* The state file goes, and with it what a start has recorded meanwhile.
ClearState(c) ==
    /\ at[c] = "clear"
    /\ statePid' = NoPid
    /\ lost' = (lost \/ \E p \in Pids : Traceless(p, Clients, NoPid))
    /\ unnamed' = unnamed \cup {p \in Pids : statePid = p /\ Live(p)}
    /\ Goto(c, "idle")
    /\ UNCHANGED <<asks, pid, startLock, life, stops, failures>>

\* It stays where it cannot be removed.
ClearStateFails(c) ==
    /\ at[c] = "clear" /\ failures < MaxFailures
    /\ Goto(c, "idle") /\ failures' = failures + 1
    /\ UNCHANGED <<asks, pid, startLock, life, statePid, lost, unnamed, stops>>

-----------------------------------------------------------------------------
(***************************************************************************)
(* The processes.                                                          *)
(***************************************************************************)
\* A server listens (on a port nobody else has), loads, is ready; it can die
\* at any time.
ServerMoves(p) ==
    /\ \/ life[p] = "born" /\ Listening = {} /\ life' = [life EXCEPT ![p] = "loading"]
       \/ life[p] = "loading" /\ life' = [life EXCEPT ![p] = "ready"]
       \/ Live(p) /\ life' = [life EXCEPT ![p] = "dead"]
    /\ UNCHANGED <<at, asks, pid, startLock, statePid, books>>

\* A client dies: the system releases its lock, its server lives on.
ClientCrash(c) ==
    /\ at[c] # "idle" /\ failures < MaxFailures
    /\ Goto(c, "idle")
    /\ startLock' = IF startLock = c THEN NoClient ELSE startLock
    /\ lost' = (lost \/ \E p \in Pids : Traceless(p, Clients \ {c}, statePid))
    /\ unnamed' = IF at[c] = "record" THEN unnamed \cup {pid[c]} ELSE unnamed
    /\ failures' = failures + 1
    /\ UNCHANGED <<asks, pid, life, statePid, stops>>

ClientRuns(c) ==
    \/ TakeLock(c) \/ LockTimesOut(c) \/ CheckReady(c) \/ ReadState(c)
    \/ LeaveToOther(c) \/ Spawn(c) \/ SpawnFails(c) \/ WriteState(c)
    \/ WaitEnds(c) \/ WaitTimesOut(c) \/ Ask(c)
    \/ Kill(c) \/ Silence(c) \/ ClearState(c)

\* The calls of the system that can fail.
ClientFails(c) ==
    \/ ReadStateFails(c) \/ SpawnUnseeing(c) \/ WriteStateFails(c)
    \/ TerminateFails(c) \/ KillFails(c) \/ SilenceFails(c)
    \/ ClearStateFails(c)

GNext ==
    \/ \E c \in Clients :
         \/ \E prompt \in BOOLEAN : Call(c, prompt)
         \/ CallStop(c) \/ ClientRuns(c)
         \/ ClientFails(c) \/ ClientCrash(c)
    \/ \E p \in Pids : ServerMoves(p)

\* Every wait has a deadline, so every client goes on.
GFairness == \A c \in Clients : WF_gVars(ClientRuns(c))

GSpec == GInit /\ [][GNext]_gVars /\ GFairness

-----------------------------------------------------------------------------
GTypeOK ==
    /\ at \in [Clients -> {"idle", "lock", "check", "state", "port", "record",
                           "wait", "ask", "stop", "stopport", "silence", "clear"}]
    /\ asks \in [Clients -> BOOLEAN]
    /\ pid \in [Clients -> Pids \cup {NoPid}]
    /\ startLock \in Clients \cup {NoClient}
    /\ life \in [Pids -> {"unborn", "born", "loading", "ready", "dead"}]
    /\ statePid \in Pids \cup {NoPid}
    /\ lost \in BOOLEAN /\ unnamed \in SUBSET Pids
    /\ stops \in 0 .. MaxStops /\ failures \in 0 .. MaxFailures

\* Two models are never loaded at the same time ("so they cannot load duplicate
\* models", _server_start_lock), however starts, stops, waits and deaths overlap,
\* with two exceptions, after which `lost` is set.  A server was left while it was
\* starting, before it listened, with no record of it and no launcher that waits for
\* it: the launcher died or gave up before it wrote the state file or after a stop
\* removed it, or could not terminate it; or a stop that could not kill it removed
\* the file.  Or a launch overlooked a server because netstat, tasklist or the reading
\* of the state file failed.
OneModelInMemory ==
    lost \/ \A p, q \in Pids : Live(p) /\ Live(q) => p = q

\* The state file names the server that listens, so that the status gives the
\* model that answers and not the one its caller asks about, except before the
\* launcher has written the file, when it never did, and when a stop has
\* removed the file although the server lives: it was started while the stop
\* was at work, or the stop could not find or kill it.
StateNamesServer ==
    \A p \in Listening :
        \/ lost \/ p \in unnamed
        \/ statePid = p
        \/ \E c \in Clients : at[c] = "record" /\ pid[c] = p

\* Every start, prompt and stop returns.
CallsReturn == \A c \in Clients : at[c] # "idle" ~> at[c] = "idle"
=============================================================================
