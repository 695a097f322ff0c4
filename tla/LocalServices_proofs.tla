------------------------- MODULE LocalServices_proofs -------------------------
(***************************************************************************)
(* Proofs about the services of Pocket LLM: the llama.cpp server, the      *)
(* caches of the web server, the download of a model, and LocalServices    *)
(* that has them all, for any value of their constants.                    *)
(***************************************************************************)
EXTENDS LocalServices, Q4ConversionJob_proofs, OrderLists_proofs, SequenceTheorems, TLAPS

-----------------------------------------------------------------------------
(***************************************************************************)
(* GgufServer: one model in memory, and a state file that names the server. *)
(* The argument: the lock has one holder; a process that lives either      *)
(* listens, or is recorded, or its launcher still waits for it with the lock *)
(* held, so whoever looks under the lock finds it and does not spawn.      *)
(***************************************************************************)
\* Where a client holds _server_start_lock.
Held == {"check", "state", "port", "record", "wait"}

\* A client that has spawned a process and still waits for it.
Launching(c) == at[c] \in {"record", "wait"}

\* The lock is held by who is inside, and by one client only.
LockHeld == \A c \in Clients : at[c] \in Held <=> startLock = c

Spawned == \A c \in Clients : Launching(c) => pid[c] \in Pids

\* While a launcher waits, no process lives but its own.
OwnsAll == \A c \in Clients : Launching(c) => \A p \in Pids : Live(p) => p = pid[c]

\* Whatever lives can be found, by the port, the state file or its launcher.
Traced == \A p \in Pids : Live(p) =>
             \/ p \in Listening \/ statePid = p
             \/ \E c \in Clients : Launching(c) /\ pid[c] = p

\* A launcher that has read the state file still finds what lives.
StillFound == \A c \in Clients : at[c] = "port" =>
                \A p \in Pids : Live(p) => p \in Listening \/ pid[c] = p

OneLives == \A p, q \in Pids : Live(p) /\ Live(q) => p = q

\* A process that lives is recorded, about to be, or will not be any more.
Named == \A p \in Pids : Live(p) =>
            \/ p \in unnamed \/ statePid = p
            \/ \E c \in Clients : at[c] = "record" /\ pid[c] = p

OneServer == OwnsAll /\ Traced /\ StillFound /\ OneLives /\ Named

ServerInv == GTypeOK /\ LockHeld /\ Spawned /\ (lost \/ OneServer)

Places == {"idle", "lock", "check", "state", "port", "record", "wait", "ask",
           "stop", "stopport", "silence", "clear"}

-----------------------------------------------------------------------------
\* The initial state: nobody is inside, nothing lives.
LEMMA ServerInitially == GInit => ServerInv
<1> SUFFICES ASSUME GInit PROVE ServerInv
  OBVIOUS
<1>1. GTypeOK
  <2>1. stops \in 0 .. MaxStops /\ failures \in 0 .. MaxFailures
    BY TroubleAssumption DEF GInit
  <2>2. /\ at \in [Clients -> Places] /\ asks \in [Clients -> BOOLEAN]
        /\ pid \in [Clients -> Pids \cup {NoPid}]
    BY DEF GInit, Places
  <2>3. life \in [Pids -> {"unborn", "born", "loading", "ready", "dead"}]
    BY DEF GInit
  <2> QED
    BY <2>1, <2>2, <2>3 DEF GInit, GTypeOK, Places
<1>2. LockHeld /\ Spawned
  BY ClientAssumption DEF GInit, LockHeld, Spawned, Held, Launching
<1>3. OneServer
  BY DEF GInit, OneServer, OwnsAll, Traced, StillFound, OneLives, Named, Live,
         Launching, Pids
<1> QED
  BY <1>1, <1>2, <1>3 DEF ServerInv

\* What Finds returns is a process that lives, or NoPid when neither the port
\* nor the pid that was read leads to one.
LEMMA FindsLive ==
  ASSUME GTypeOK, NEW c \in Clients, NEW p \in Finds(c)
  PROVE  /\ (p \in Pids /\ Live(p)) \/ p = NoPid
         /\ NoPid \in Finds(c) =>
              Listening = {} /\ ~(pid[c] \in Pids /\ Live(pid[c]))
<1>1. pid[c] \in Pids \cup {NoPid} /\ NoPid \notin Pids
  BY ServerAssumption DEF GTypeOK, Pids
<1>2. CASE Listening # {}
  BY <1>1, <1>2 DEF Finds, Listening, Live
<1>3. CASE Listening = {} /\ pid[c] # NoPid /\ Live(pid[c])
  BY <1>1, <1>3 DEF Finds
<1>4. CASE Listening = {} /\ ~(pid[c] # NoPid /\ Live(pid[c]))
  BY <1>1, <1>4 DEF Finds
<1> QED
  BY <1>2, <1>3, <1>4

-----------------------------------------------------------------------------
\* Every action keeps the types.
LEMMA ServerTypesKept ==
  ASSUME GTypeOK, Spawned, [GNext]_gVars
  PROVE  GTypeOK'
<1>1. ASSUME NEW c \in Clients, NEW prompt \in BOOLEAN, Call(c, prompt)
      PROVE  GTypeOK'
  BY <1>1
  DEF Call, Goto, books, GTypeOK
<1>2. ASSUME NEW c \in Clients, TakeLock(c)
      PROVE  GTypeOK'
  BY <1>2
  DEF TakeLock, Goto, books, GTypeOK
<1>3. ASSUME NEW c \in Clients, LockTimesOut(c)
      PROVE  GTypeOK'
  BY <1>3
  DEF LockTimesOut, Goto, Return, books, GTypeOK
<1>4. ASSUME NEW c \in Clients, CheckReady(c)
      PROVE  GTypeOK'
  BY <1>4
  DEF CheckReady, Goto, Return, books, GTypeOK
<1>5. ASSUME NEW c \in Clients, ReadState(c)
      PROVE  GTypeOK'
  BY <1>5 DEF ReadState, Goto, books, GTypeOK
<1>6. ASSUME NEW c \in Clients, LeaveToOther(c)
      PROVE  GTypeOK'
  BY <1>6
  DEF LeaveToOther, Goto, Return, books, GTypeOK
<1>7. ASSUME NEW c \in Clients, Spawn(c)
      PROVE  GTypeOK'
  BY <1>7
  DEF Spawn, Popen, Goto, books, GTypeOK
<1>8. ASSUME NEW c \in Clients, SpawnFails(c)
      PROVE  GTypeOK'
  BY <1>8
  DEF SpawnFails, Goto, Return, books, GTypeOK
<1>9. ASSUME NEW c \in Clients, WriteState(c)
      PROVE  GTypeOK'
  BY <1>9 DEF WriteState, Goto, books, GTypeOK, Spawned, Launching
<1>10. ASSUME NEW c \in Clients, WaitEnds(c)
      PROVE  GTypeOK'
  BY <1>10
  DEF WaitEnds, Goto, Return, books, GTypeOK
<1>11. ASSUME NEW c \in Clients, WaitTimesOut(c)
      PROVE  GTypeOK'
  BY <1>11
  DEF WaitTimesOut, Goto, Return, books, GTypeOK
<1>12. ASSUME NEW c \in Clients, Ask(c)
      PROVE  GTypeOK'
  BY <1>12
  DEF Ask, Goto, books, GTypeOK
<1>13. ASSUME NEW c \in Clients, Kill(c)
      PROVE  GTypeOK'
  BY <1>13, FindsLive DEF Kill, Goto, books, GTypeOK
<1>14. ASSUME NEW c \in Clients, Silence(c)
      PROVE  GTypeOK'
  BY <1>14
  DEF Silence, Goto, books, GTypeOK
<1>15. ASSUME NEW c \in Clients, ClearState(c)
      PROVE  GTypeOK'
  BY <1>15
  DEF ClearState, Goto, books, GTypeOK
<1>16. ASSUME NEW c \in Clients, CallStop(c)
      PROVE  GTypeOK'
  <2>1. stops' \in 0 .. MaxStops
    BY <1>16, TroubleAssumption DEF CallStop, GTypeOK
  <2>2. at' \in [Clients -> Places]
    BY <1>16 DEF CallStop, Goto, GTypeOK, Places
  <2> QED
    BY <1>16, <2>1, <2>2 DEF CallStop, GTypeOK, Places
<1>17. ASSUME NEW c \in Clients, WriteStateFails(c)
      PROVE  GTypeOK'
  <2>1. failures' \in 0 .. MaxFailures
    BY <1>17, TroubleAssumption DEF WriteStateFails, GTypeOK
  <2>2. unnamed' \in SUBSET Pids
    BY <1>17 DEF WriteStateFails, GTypeOK, Spawned, Launching
  <2>3. at' \in [Clients -> Places] /\ startLock' \in Clients \cup {NoClient}
    BY <1>17 DEF WriteStateFails, Return, Goto, GTypeOK, Places
  <2>4. lost' \in BOOLEAN
    BY <1>17 DEF WriteStateFails
  <2> QED
    BY <1>17, <2>1, <2>2, <2>3, <2>4 DEF WriteStateFails, GTypeOK, Places
<1>18. ASSUME NEW c \in Clients, ClientCrash(c)
      PROVE  GTypeOK'
  <2>1. failures' \in 0 .. MaxFailures
    BY <1>18, TroubleAssumption DEF ClientCrash, GTypeOK
  <2>2. unnamed' \in SUBSET Pids
    BY <1>18 DEF ClientCrash, GTypeOK, Spawned, Launching
  <2>3. at' \in [Clients -> Places] /\ startLock' \in Clients \cup {NoClient}
    BY <1>18 DEF ClientCrash, Goto, GTypeOK, Places
  <2>4. lost' \in BOOLEAN
    BY <1>18 DEF ClientCrash
  <2> QED
    BY <1>18, <2>1, <2>2, <2>3, <2>4 DEF ClientCrash, GTypeOK, Places
<1>19. ASSUME NEW p \in Pids, ServerMoves(p)
      PROVE  GTypeOK'
  BY <1>19
  DEF ServerMoves, books, GTypeOK
<1>20. CASE UNCHANGED gVars
  BY <1>20 DEF gVars, books, GTypeOK
<1>21. ASSUME NEW c \in Clients, ReadStateFails(c)
      PROVE  GTypeOK'
  <2>1. failures' \in 0 .. MaxFailures
    BY <1>21, TroubleAssumption DEF ReadStateFails, GTypeOK
  <2>2. at' \in [Clients -> Places]
    BY <1>21 DEF ReadStateFails, Goto, GTypeOK, Places
  <2>3. pid' \in [Clients -> Pids \cup {NoPid}]
    BY <1>21, FindsLive DEF ReadStateFails, Goto, GTypeOK
  <2>4. life' \in [Pids -> {"unborn", "born", "loading", "ready", "dead"}]
    BY <1>21 DEF ReadStateFails, Goto, GTypeOK
  <2>5. startLock' \in Clients \cup {NoClient} /\ lost' \in BOOLEAN
    BY <1>21 DEF ReadStateFails, GTypeOK
  <2> QED
    BY <1>21, <2>1, <2>2, <2>3, <2>4, <2>5 DEF ReadStateFails, GTypeOK, Places
<1>22. ASSUME NEW c \in Clients, SpawnUnseeing(c)
      PROVE  GTypeOK'
  <2>1. failures' \in 0 .. MaxFailures
    BY <1>22, TroubleAssumption DEF SpawnUnseeing, GTypeOK
  <2>2. at' \in [Clients -> Places]
    BY <1>22 DEF SpawnUnseeing, Popen, Goto, GTypeOK, Places
  <2>3. pid' \in [Clients -> Pids \cup {NoPid}]
    BY <1>22, FindsLive DEF SpawnUnseeing, Popen, Goto, GTypeOK
  <2>4. life' \in [Pids -> {"unborn", "born", "loading", "ready", "dead"}]
    BY <1>22 DEF SpawnUnseeing, Popen, Goto, GTypeOK
  <2>5. startLock' \in Clients \cup {NoClient} /\ lost' \in BOOLEAN
    BY <1>22 DEF SpawnUnseeing, GTypeOK
  <2> QED
    BY <1>22, <2>1, <2>2, <2>3, <2>4, <2>5 DEF SpawnUnseeing, GTypeOK, Places
<1>23. ASSUME NEW c \in Clients, TerminateFails(c)
      PROVE  GTypeOK'
  <2>1. failures' \in 0 .. MaxFailures
    BY <1>23, TroubleAssumption DEF TerminateFails, GTypeOK
  <2>2. at' \in [Clients -> Places]
    BY <1>23 DEF TerminateFails, Goto, Return, GTypeOK, Places
  <2>3. pid' \in [Clients -> Pids \cup {NoPid}]
    BY <1>23, FindsLive DEF TerminateFails, Goto, Return, GTypeOK
  <2>4. life' \in [Pids -> {"unborn", "born", "loading", "ready", "dead"}]
    BY <1>23 DEF TerminateFails, Goto, Return, GTypeOK
  <2>5. startLock' \in Clients \cup {NoClient} /\ lost' \in BOOLEAN
    BY <1>23 DEF TerminateFails, GTypeOK
  <2> QED
    BY <1>23, <2>1, <2>2, <2>3, <2>4, <2>5 DEF TerminateFails, GTypeOK, Places
<1>24. ASSUME NEW c \in Clients, KillFails(c)
      PROVE  GTypeOK'
  <2>1. failures' \in 0 .. MaxFailures
    BY <1>24, TroubleAssumption DEF KillFails, GTypeOK
  <2>2. at' \in [Clients -> Places]
    BY <1>24 DEF KillFails, Goto, FindsWithout, GTypeOK, Places
  <2>3. pid' \in [Clients -> Pids \cup {NoPid}]
    BY <1>24, FindsLive DEF KillFails, Goto, FindsWithout, GTypeOK
  <2>4. life' \in [Pids -> {"unborn", "born", "loading", "ready", "dead"}]
    BY <1>24 DEF KillFails, Goto, FindsWithout, GTypeOK
  <2>5. startLock' \in Clients \cup {NoClient} /\ lost' \in BOOLEAN
    BY <1>24 DEF KillFails, GTypeOK
  <2> QED
    BY <1>24, <2>1, <2>2, <2>3, <2>4, <2>5 DEF KillFails, GTypeOK, Places
<1>25. ASSUME NEW c \in Clients, SilenceFails(c)
      PROVE  GTypeOK'
  <2>1. failures' \in 0 .. MaxFailures
    BY <1>25, TroubleAssumption DEF SilenceFails, GTypeOK
  <2>2. at' \in [Clients -> Places]
    BY <1>25 DEF SilenceFails, Goto, GTypeOK, Places
  <2>3. pid' \in [Clients -> Pids \cup {NoPid}]
    BY <1>25, FindsLive DEF SilenceFails, Goto, GTypeOK
  <2>4. life' \in [Pids -> {"unborn", "born", "loading", "ready", "dead"}]
    BY <1>25 DEF SilenceFails, Goto, GTypeOK
  <2>5. startLock' \in Clients \cup {NoClient} /\ lost' \in BOOLEAN
    BY <1>25 DEF SilenceFails, GTypeOK
  <2> QED
    BY <1>25, <2>1, <2>2, <2>3, <2>4, <2>5 DEF SilenceFails, GTypeOK, Places
<1>26. ASSUME NEW c \in Clients, ClearStateFails(c)
      PROVE  GTypeOK'
  <2>1. failures' \in 0 .. MaxFailures
    BY <1>26, TroubleAssumption DEF ClearStateFails, GTypeOK
  <2>2. at' \in [Clients -> Places]
    BY <1>26 DEF ClearStateFails, Goto, GTypeOK, Places
  <2>3. pid' \in [Clients -> Pids \cup {NoPid}]
    BY <1>26, FindsLive DEF ClearStateFails, Goto, GTypeOK
  <2>4. life' \in [Pids -> {"unborn", "born", "loading", "ready", "dead"}]
    BY <1>26 DEF ClearStateFails, Goto, GTypeOK
  <2>5. startLock' \in Clients \cup {NoClient} /\ lost' \in BOOLEAN
    BY <1>26 DEF ClearStateFails, GTypeOK
  <2> QED
    BY <1>26, <2>1, <2>2, <2>3, <2>4, <2>5 DEF ClearStateFails, GTypeOK, Places
<1> QED
  BY <1>1, <1>2, <1>3, <1>4, <1>5, <1>6, <1>7, <1>8, <1>9, <1>10, <1>11, <1>12,
     <1>13, <1>14, <1>15, <1>16, <1>17, <1>18, <1>19, <1>20, <1>21, <1>22, <1>23, <1>24,
     <1>25, <1>26
  DEF GNext, ClientRuns, ClientFails

\* The lock is taken free and given up by who leaves.
LEMMA LockKept ==
  ASSUME GTypeOK, LockHeld, [GNext]_gVars
  PROVE  LockHeld'
<1>1. ASSUME NEW c \in Clients, NEW prompt \in BOOLEAN, Call(c, prompt)
      PROVE  LockHeld'
  BY <1>1, ClientAssumption
  DEF Call, Goto, books, GTypeOK, LockHeld, Held
<1>2. ASSUME NEW c \in Clients, TakeLock(c)
      PROVE  LockHeld'
  BY <1>2, ClientAssumption
  DEF TakeLock, Goto, books, GTypeOK, LockHeld, Held
<1>3. ASSUME NEW c \in Clients, LockTimesOut(c)
      PROVE  LockHeld'
  BY <1>3, ClientAssumption
  DEF LockTimesOut, Goto, Return, books, GTypeOK, LockHeld, Held
<1>4. ASSUME NEW c \in Clients, CheckReady(c)
      PROVE  LockHeld'
  BY <1>4, ClientAssumption
  DEF CheckReady, Goto, Return, books, GTypeOK, LockHeld, Held
<1>5. ASSUME NEW c \in Clients, ReadState(c)
      PROVE  LockHeld'
  BY <1>5, ClientAssumption
  DEF ReadState, Goto, books, GTypeOK, LockHeld, Held
<1>6. ASSUME NEW c \in Clients, LeaveToOther(c)
      PROVE  LockHeld'
  BY <1>6, ClientAssumption
  DEF LeaveToOther, Goto, Return, books, GTypeOK, LockHeld, Held
<1>7. ASSUME NEW c \in Clients, Spawn(c)
      PROVE  LockHeld'
  BY <1>7, ClientAssumption
  DEF Spawn, Popen, Goto, books, GTypeOK, LockHeld, Held
<1>8. ASSUME NEW c \in Clients, SpawnFails(c)
      PROVE  LockHeld'
  BY <1>8, ClientAssumption
  DEF SpawnFails, Goto, Return, books, GTypeOK, LockHeld, Held
<1>9. ASSUME NEW c \in Clients, WriteState(c)
      PROVE  LockHeld'
  BY <1>9, ClientAssumption
  DEF WriteState, Goto, books, GTypeOK, LockHeld, Held
<1>10. ASSUME NEW c \in Clients, WaitEnds(c)
      PROVE  LockHeld'
  BY <1>10, ClientAssumption
  DEF WaitEnds, Goto, Return, books, GTypeOK, LockHeld, Held
<1>11. ASSUME NEW c \in Clients, WaitTimesOut(c)
      PROVE  LockHeld'
  BY <1>11, ClientAssumption
  DEF WaitTimesOut, Goto, Return, books, GTypeOK, LockHeld, Held
<1>12. ASSUME NEW c \in Clients, Ask(c)
      PROVE  LockHeld'
  BY <1>12, ClientAssumption
  DEF Ask, Goto, books, GTypeOK, LockHeld, Held
<1>13. ASSUME NEW c \in Clients, Kill(c)
      PROVE  LockHeld'
  BY <1>13, ClientAssumption
  DEF Kill, Goto, books, GTypeOK, LockHeld, Held
<1>14. ASSUME NEW c \in Clients, Silence(c)
      PROVE  LockHeld'
  BY <1>14, ClientAssumption
  DEF Silence, Goto, books, GTypeOK, LockHeld, Held
<1>15. ASSUME NEW c \in Clients, ClearState(c)
      PROVE  LockHeld'
  BY <1>15, ClientAssumption
  DEF ClearState, Goto, books, GTypeOK, LockHeld, Held
<1>16. ASSUME NEW c \in Clients, CallStop(c)
      PROVE  LockHeld'
  BY <1>16, ClientAssumption
  DEF CallStop, Goto, books, GTypeOK, LockHeld, Held
<1>17. ASSUME NEW c \in Clients, WriteStateFails(c)
      PROVE  LockHeld'
  BY <1>17, ClientAssumption
  DEF WriteStateFails, Goto, Return, books, GTypeOK, LockHeld, Held
<1>18. ASSUME NEW c \in Clients, ClientCrash(c)
      PROVE  LockHeld'
  BY <1>18, ClientAssumption
  DEF ClientCrash, Goto, books, GTypeOK, LockHeld, Held
<1>19. ASSUME NEW p \in Pids, ServerMoves(p)
      PROVE  LockHeld'
  BY <1>19, ClientAssumption
  DEF ServerMoves, books, GTypeOK, LockHeld, Held
<1>20. CASE UNCHANGED gVars
  BY <1>20 DEF gVars, books, GTypeOK, LockHeld, Held
<1>21. ASSUME NEW c \in Clients, ReadStateFails(c)
      PROVE  LockHeld'
  BY <1>21, ClientAssumption
  DEF ReadStateFails, Goto, books, GTypeOK, LockHeld, Held
<1>22. ASSUME NEW c \in Clients, SpawnUnseeing(c)
      PROVE  LockHeld'
  BY <1>22, ClientAssumption
  DEF SpawnUnseeing, Popen, Goto, books, GTypeOK, LockHeld, Held
<1>23. ASSUME NEW c \in Clients, TerminateFails(c)
      PROVE  LockHeld'
  BY <1>23, ClientAssumption
  DEF TerminateFails, Goto, Return, books, GTypeOK, LockHeld, Held
<1>24. ASSUME NEW c \in Clients, KillFails(c)
      PROVE  LockHeld'
  BY <1>24, ClientAssumption
  DEF KillFails, Goto, FindsWithout, books, GTypeOK, LockHeld, Held
<1>25. ASSUME NEW c \in Clients, SilenceFails(c)
      PROVE  LockHeld'
  BY <1>25, ClientAssumption
  DEF SilenceFails, Goto, books, GTypeOK, LockHeld, Held
<1>26. ASSUME NEW c \in Clients, ClearStateFails(c)
      PROVE  LockHeld'
  BY <1>26, ClientAssumption
  DEF ClearStateFails, Goto, books, GTypeOK, LockHeld, Held
<1> QED
  BY <1>1, <1>2, <1>3, <1>4, <1>5, <1>6, <1>7, <1>8, <1>9, <1>10, <1>11, <1>12,
     <1>13, <1>14, <1>15, <1>16, <1>17, <1>18, <1>19, <1>20, <1>21, <1>22, <1>23, <1>24,
     <1>25, <1>26
  DEF GNext, ClientRuns, ClientFails

\* A launcher has the process it spawned.
LEMMA SpawnedKept ==
  ASSUME GTypeOK, Spawned, [GNext]_gVars
  PROVE  Spawned'
<1>1. ASSUME NEW c \in Clients, NEW prompt \in BOOLEAN, Call(c, prompt)
      PROVE  Spawned'
  BY <1>1
  DEF Call, Goto, books, GTypeOK, Spawned, Launching
<1>2. ASSUME NEW c \in Clients, TakeLock(c)
      PROVE  Spawned'
  BY <1>2
  DEF TakeLock, Goto, books, GTypeOK, Spawned, Launching
<1>3. ASSUME NEW c \in Clients, LockTimesOut(c)
      PROVE  Spawned'
  BY <1>3
  DEF LockTimesOut, Goto, Return, books, GTypeOK, Spawned, Launching
<1>4. ASSUME NEW c \in Clients, CheckReady(c)
      PROVE  Spawned'
  BY <1>4
  DEF CheckReady, Goto, Return, books, GTypeOK, Spawned, Launching
<1>5. ASSUME NEW c \in Clients, ReadState(c)
      PROVE  Spawned'
  BY <1>5
  DEF ReadState, Goto, books, GTypeOK, Spawned, Launching
<1>6. ASSUME NEW c \in Clients, LeaveToOther(c)
      PROVE  Spawned'
  BY <1>6
  DEF LeaveToOther, Goto, Return, books, GTypeOK, Spawned, Launching
<1>7. ASSUME NEW c \in Clients, Spawn(c)
      PROVE  Spawned'
  BY <1>7
  DEF Spawn, Popen, Goto, books, GTypeOK, Spawned, Launching
<1>8. ASSUME NEW c \in Clients, SpawnFails(c)
      PROVE  Spawned'
  BY <1>8
  DEF SpawnFails, Goto, Return, books, GTypeOK, Spawned, Launching
<1>9. ASSUME NEW c \in Clients, WriteState(c)
      PROVE  Spawned'
  BY <1>9
  DEF WriteState, Goto, books, GTypeOK, Spawned, Launching
<1>10. ASSUME NEW c \in Clients, WaitEnds(c)
      PROVE  Spawned'
  BY <1>10
  DEF WaitEnds, Goto, Return, books, GTypeOK, Spawned, Launching
<1>11. ASSUME NEW c \in Clients, WaitTimesOut(c)
      PROVE  Spawned'
  BY <1>11
  DEF WaitTimesOut, Goto, Return, books, GTypeOK, Spawned, Launching
<1>12. ASSUME NEW c \in Clients, Ask(c)
      PROVE  Spawned'
  BY <1>12
  DEF Ask, Goto, books, GTypeOK, Spawned, Launching
<1>13. ASSUME NEW c \in Clients, Kill(c)
      PROVE  Spawned'
  BY <1>13
  DEF Kill, Goto, books, GTypeOK, Spawned, Launching
<1>14. ASSUME NEW c \in Clients, Silence(c)
      PROVE  Spawned'
  BY <1>14
  DEF Silence, Goto, books, GTypeOK, Spawned, Launching
<1>15. ASSUME NEW c \in Clients, ClearState(c)
      PROVE  Spawned'
  BY <1>15
  DEF ClearState, Goto, books, GTypeOK, Spawned, Launching
<1>16. ASSUME NEW c \in Clients, CallStop(c)
      PROVE  Spawned'
  BY <1>16
  DEF CallStop, Goto, books, GTypeOK, Spawned, Launching
<1>17. ASSUME NEW c \in Clients, WriteStateFails(c)
      PROVE  Spawned'
  BY <1>17
  DEF WriteStateFails, Goto, Return, books, GTypeOK, Spawned, Launching
<1>18. ASSUME NEW c \in Clients, ClientCrash(c)
      PROVE  Spawned'
  BY <1>18
  DEF ClientCrash, Goto, books, GTypeOK, Spawned, Launching
<1>19. ASSUME NEW p \in Pids, ServerMoves(p)
      PROVE  Spawned'
  BY <1>19
  DEF ServerMoves, books, GTypeOK, Spawned, Launching
<1>20. CASE UNCHANGED gVars
  BY <1>20 DEF gVars, books, GTypeOK, Spawned, Launching
<1>21. ASSUME NEW c \in Clients, ReadStateFails(c)
      PROVE  Spawned'
  BY <1>21
  DEF ReadStateFails, Goto, books, GTypeOK, Spawned, Launching
<1>22. ASSUME NEW c \in Clients, SpawnUnseeing(c)
      PROVE  Spawned'
  BY <1>22
  DEF SpawnUnseeing, Popen, Goto, books, GTypeOK, Spawned, Launching
<1>23. ASSUME NEW c \in Clients, TerminateFails(c)
      PROVE  Spawned'
  BY <1>23
  DEF TerminateFails, Goto, Return, books, GTypeOK, Spawned, Launching
<1>24. ASSUME NEW c \in Clients, KillFails(c)
      PROVE  Spawned'
  BY <1>24
  DEF KillFails, Goto, FindsWithout, books, GTypeOK, Spawned, Launching
<1>25. ASSUME NEW c \in Clients, SilenceFails(c)
      PROVE  Spawned'
  BY <1>25
  DEF SilenceFails, Goto, books, GTypeOK, Spawned, Launching
<1>26. ASSUME NEW c \in Clients, ClearStateFails(c)
      PROVE  Spawned'
  BY <1>26
  DEF ClearStateFails, Goto, books, GTypeOK, Spawned, Launching
<1> QED
  BY <1>1, <1>2, <1>3, <1>4, <1>5, <1>6, <1>7, <1>8, <1>9, <1>10, <1>11, <1>12,
     <1>13, <1>14, <1>15, <1>16, <1>17, <1>18, <1>19, <1>20, <1>21, <1>22, <1>23, <1>24,
     <1>25, <1>26
  DEF GNext, ClientRuns, ClientFails

\* A launcher that is about to spawn has the machine to itself.
LEMMA NothingLives ==
  ASSUME GTypeOK, OneServer, NEW c \in Clients, at[c] = "port", NoPid \in Finds(c)
  PROVE  \A p \in Pids : ~Live(p)
<1>1. Listening = {} /\ ~(pid[c] \in Pids /\ Live(pid[c]))
  BY FindsLive
<1> QED
  BY <1>1 DEF OneServer, StillFound

\* While a launcher waits nobody else spawns.
LEMMA OwnsAllKept ==
  ASSUME GTypeOK, LockHeld, Spawned, OneServer, [GNext]_gVars, ~lost'
  PROVE  OwnsAll'
<1>1. ASSUME NEW c \in Clients, NEW prompt \in BOOLEAN, Call(c, prompt)
      PROVE  OwnsAll'
  BY <1>1, ClientAssumption, ServerAssumption
  DEF Call, Goto, books, GTypeOK, LockHeld, Held, Spawned, Launching, Live, OneServer, OwnsAll
<1>2. ASSUME NEW c \in Clients, TakeLock(c)
      PROVE  OwnsAll'
  BY <1>2, ClientAssumption, ServerAssumption
  DEF TakeLock, Goto, books, GTypeOK, LockHeld, Held, Spawned, Launching, Live,
     OneServer, OwnsAll
<1>3. ASSUME NEW c \in Clients, LockTimesOut(c)
      PROVE  OwnsAll'
  BY <1>3, ClientAssumption, ServerAssumption
  DEF LockTimesOut, Goto, Return, books, GTypeOK, LockHeld, Held, Spawned, Launching,
     Live, OneServer, OwnsAll
<1>4. ASSUME NEW c \in Clients, CheckReady(c)
      PROVE  OwnsAll'
  BY <1>4, ClientAssumption, ServerAssumption
  DEF CheckReady, Goto, Return, books, GTypeOK, LockHeld, Held, Spawned, Launching,
     Live, OneServer, OwnsAll
<1>5. ASSUME NEW c \in Clients, ReadState(c)
      PROVE  OwnsAll'
  BY <1>5, ClientAssumption, ServerAssumption
  DEF ReadState, Goto, books, GTypeOK, LockHeld, Held, Spawned, Launching, Live,
     OneServer, OwnsAll
<1>6. ASSUME NEW c \in Clients, LeaveToOther(c)
      PROVE  OwnsAll'
  BY <1>6, ClientAssumption, ServerAssumption
  DEF LeaveToOther, Goto, Return, books, GTypeOK, LockHeld, Held, Spawned, Launching,
     Live, OneServer, OwnsAll
<1>7. ASSUME NEW c \in Clients, Spawn(c)
      PROVE  OwnsAll'
  BY <1>7, NothingLives DEF Spawn, Popen, Goto, books, OwnsAll, Launching, Live, GTypeOK,
     LockHeld, Held
<1>8. ASSUME NEW c \in Clients, SpawnFails(c)
      PROVE  OwnsAll'
  BY <1>8, ClientAssumption, ServerAssumption
  DEF SpawnFails, Goto, Return, books, GTypeOK, LockHeld, Held, Spawned, Launching,
     Live, OneServer, OwnsAll
<1>9. ASSUME NEW c \in Clients, WriteState(c)
      PROVE  OwnsAll'
  BY <1>9, ClientAssumption, ServerAssumption
  DEF WriteState, Goto, books, GTypeOK, LockHeld, Held, Spawned, Launching, Live,
     OneServer, OwnsAll
<1>10. ASSUME NEW c \in Clients, WaitEnds(c)
      PROVE  OwnsAll'
  BY <1>10, ClientAssumption, ServerAssumption
  DEF WaitEnds, Goto, Return, books, GTypeOK, LockHeld, Held, Spawned, Launching,
     Live, OneServer, OwnsAll
<1>11. ASSUME NEW c \in Clients, WaitTimesOut(c)
      PROVE  OwnsAll'
  BY <1>11, ClientAssumption, ServerAssumption
  DEF WaitTimesOut, Goto, Return, books, GTypeOK, LockHeld, Held, Spawned, Launching,
     Live, OneServer, OwnsAll
<1>12. ASSUME NEW c \in Clients, Ask(c)
      PROVE  OwnsAll'
  BY <1>12, ClientAssumption, ServerAssumption
  DEF Ask, Goto, books, GTypeOK, LockHeld, Held, Spawned, Launching, Live, OneServer, OwnsAll
<1>13. ASSUME NEW c \in Clients, Kill(c)
      PROVE  OwnsAll'
  BY <1>13, ClientAssumption, ServerAssumption
  DEF Kill, Goto, books, GTypeOK, LockHeld, Held, Spawned, Launching, Live, OneServer, OwnsAll
<1>14. ASSUME NEW c \in Clients, Silence(c)
      PROVE  OwnsAll'
  BY <1>14, ClientAssumption, ServerAssumption
  DEF Silence, Goto, books, GTypeOK, LockHeld, Held, Spawned, Launching, Live,
     OneServer, OwnsAll
<1>15. ASSUME NEW c \in Clients, ClearState(c)
      PROVE  OwnsAll'
  BY <1>15, ClientAssumption, ServerAssumption
  DEF ClearState, Goto, books, GTypeOK, LockHeld, Held, Spawned, Launching, Live,
     OneServer, OwnsAll
<1>16. ASSUME NEW c \in Clients, CallStop(c)
      PROVE  OwnsAll'
  BY <1>16, ClientAssumption, ServerAssumption
  DEF CallStop, Goto, books, GTypeOK, LockHeld, Held, Spawned, Launching, Live,
     OneServer, OwnsAll
<1>17. ASSUME NEW c \in Clients, WriteStateFails(c)
      PROVE  OwnsAll'
  BY <1>17, ClientAssumption, ServerAssumption
  DEF WriteStateFails, Goto, Return, books, GTypeOK, LockHeld, Held, Spawned,
     Launching, Live, OneServer, OwnsAll
<1>18. ASSUME NEW c \in Clients, ClientCrash(c)
      PROVE  OwnsAll'
  BY <1>18, ClientAssumption, ServerAssumption
  DEF ClientCrash, Goto, books, GTypeOK, LockHeld, Held, Spawned, Launching, Live,
     OneServer, OwnsAll
<1>19. ASSUME NEW p \in Pids, ServerMoves(p)
      PROVE  OwnsAll'
  BY <1>19, ClientAssumption, ServerAssumption
  DEF ServerMoves, books, GTypeOK, LockHeld, Held, Spawned, Launching, Live, OneServer,
     OwnsAll
<1>20. CASE UNCHANGED gVars
  BY <1>20 DEF gVars, books, GTypeOK, LockHeld, Held, Spawned, Launching, Live,
     OneServer, OwnsAll
<1>21. ASSUME NEW c \in Clients, ReadStateFails(c)
      PROVE  OwnsAll'
  BY <1>21, ClientAssumption, ServerAssumption
  DEF ReadStateFails, Goto, books, GTypeOK, LockHeld, Held, Spawned, Launching, Live,
     OneServer, OwnsAll
<1>22. ASSUME NEW c \in Clients, SpawnUnseeing(c)
      PROVE  OwnsAll'
  BY <1>22 DEF SpawnUnseeing
<1>23. ASSUME NEW c \in Clients, TerminateFails(c)
      PROVE  OwnsAll'
  BY <1>23, ClientAssumption, ServerAssumption
  DEF TerminateFails, Goto, Return, books, GTypeOK, LockHeld, Held, Spawned, Launching,
     Live, OneServer, OwnsAll
<1>24. ASSUME NEW c \in Clients, KillFails(c)
      PROVE  OwnsAll'
  BY <1>24, ClientAssumption, ServerAssumption
  DEF KillFails, Goto, FindsWithout, books, GTypeOK, LockHeld, Held, Spawned, Launching,
     Live, OneServer, OwnsAll
<1>25. ASSUME NEW c \in Clients, SilenceFails(c)
      PROVE  OwnsAll'
  BY <1>25, ClientAssumption, ServerAssumption
  DEF SilenceFails, Goto, books, GTypeOK, LockHeld, Held, Spawned, Launching, Live,
     OneServer, OwnsAll
<1>26. ASSUME NEW c \in Clients, ClearStateFails(c)
      PROVE  OwnsAll'
  BY <1>26, ClientAssumption, ServerAssumption
  DEF ClearStateFails, Goto, books, GTypeOK, LockHeld, Held, Spawned, Launching, Live,
     OneServer, OwnsAll
<1> QED
  BY <1>1, <1>2, <1>3, <1>4, <1>5, <1>6, <1>7, <1>8, <1>9, <1>10, <1>11, <1>12,
     <1>13, <1>14, <1>15, <1>16, <1>17, <1>18, <1>19, <1>20, <1>21, <1>22, <1>23, <1>24,
     <1>25, <1>26
  DEF GNext, ClientRuns, ClientFails

\* What lives stays within reach, or it is lost.
LEMMA TracedKept ==
  ASSUME GTypeOK, LockHeld, Spawned, OneServer, [GNext]_gVars, ~lost'
  PROVE  Traced'
<1>1. ASSUME NEW c \in Clients, NEW prompt \in BOOLEAN, Call(c, prompt)
      PROVE  Traced'
  BY <1>1, ClientAssumption, ServerAssumption
  DEF Call, Goto, books, GTypeOK, LockHeld, Held, Spawned, Launching, Live, OneServer,
     Traced, Listening, Traceless
<1>2. ASSUME NEW c \in Clients, TakeLock(c)
      PROVE  Traced'
  BY <1>2, ClientAssumption, ServerAssumption
  DEF TakeLock, Goto, books, GTypeOK, LockHeld, Held, Spawned, Launching, Live,
     OneServer, Traced, Listening, Traceless
<1>3. ASSUME NEW c \in Clients, LockTimesOut(c)
      PROVE  Traced'
  BY <1>3, ClientAssumption, ServerAssumption
  DEF LockTimesOut, Goto, Return, books, GTypeOK, LockHeld, Held, Spawned, Launching,
     Live, OneServer, Traced, Listening, Traceless
<1>4. ASSUME NEW c \in Clients, CheckReady(c)
      PROVE  Traced'
  BY <1>4, ClientAssumption, ServerAssumption
  DEF CheckReady, Goto, Return, books, GTypeOK, LockHeld, Held, Spawned, Launching,
     Live, OneServer, Traced, Listening, Traceless
<1>5. ASSUME NEW c \in Clients, ReadState(c)
      PROVE  Traced'
  BY <1>5, ClientAssumption, ServerAssumption
  DEF ReadState, Goto, books, GTypeOK, LockHeld, Held, Spawned, Launching, Live,
     OneServer, Traced, Listening, Traceless
<1>6. ASSUME NEW c \in Clients, LeaveToOther(c)
      PROVE  Traced'
  BY <1>6, ClientAssumption, ServerAssumption
  DEF LeaveToOther, Goto, Return, books, GTypeOK, LockHeld, Held, Spawned, Launching,
     Live, OneServer, Traced, Listening, Traceless
<1>7. ASSUME NEW c \in Clients, Spawn(c)
      PROVE  Traced'
  BY <1>7, ClientAssumption, ServerAssumption
  DEF Spawn, Popen, Goto, books, GTypeOK, LockHeld, Held, Spawned, Launching, Live, OneServer,
     Traced, Listening, Traceless
<1>8. ASSUME NEW c \in Clients, SpawnFails(c)
      PROVE  Traced'
  BY <1>8, ClientAssumption, ServerAssumption
  DEF SpawnFails, Goto, Return, books, GTypeOK, LockHeld, Held, Spawned, Launching,
     Live, OneServer, Traced, Listening, Traceless
<1>9. ASSUME NEW c \in Clients, WriteState(c)
      PROVE  Traced'
  <2>1. Launching(c)' /\ pid' = pid /\ life' = life
    BY <1>9 DEF WriteState, Goto, Launching, GTypeOK, books
  <2>2. \A p \in Pids : Live(p) => p = pid[c]
    BY <1>9 DEF WriteState, OneServer, OwnsAll, Launching
  <2> QED
    BY <2>1, <2>2 DEF Traced, Live
<1>10. ASSUME NEW c \in Clients, WaitEnds(c)
      PROVE  Traced'
  <2>1. \A p \in Pids : Live(p) => p \in Listening
    BY <1>10 DEF WaitEnds, ServerReady, OneServer, OwnsAll, Launching, Live, Listening
  <2> QED
    BY <1>10, <2>1 DEF WaitEnds, books, Traced, Live, Listening
<1>11. ASSUME NEW c \in Clients, WaitTimesOut(c)
      PROVE  Traced'
  <2>1. \A p \in Pids : ~Live(p)'
    BY <1>11 DEF WaitTimesOut, GTypeOK, OneServer, OwnsAll, Launching, Live
  <2> QED
    BY <2>1 DEF Traced
<1>12. ASSUME NEW c \in Clients, Ask(c)
      PROVE  Traced'
  BY <1>12, ClientAssumption, ServerAssumption
  DEF Ask, Goto, books, GTypeOK, LockHeld, Held, Spawned, Launching, Live, OneServer,
     Traced, Listening, Traceless
<1>13. ASSUME NEW c \in Clients, Kill(c)
      PROVE  Traced'
  BY <1>13, ClientAssumption, ServerAssumption
  DEF Kill, Goto, books, GTypeOK, LockHeld, Held, Spawned, Launching, Live, OneServer,
     Traced, Listening, Traceless
<1>14. ASSUME NEW c \in Clients, Silence(c)
      PROVE  Traced'
  BY <1>14, ClientAssumption, ServerAssumption
  DEF Silence, Goto, books, GTypeOK, LockHeld, Held, Spawned, Launching, Live,
     OneServer, Traced, Listening, Traceless
<1>15. ASSUME NEW c \in Clients, ClearState(c)
      PROVE  Traced'
  BY <1>15, ClientAssumption, ServerAssumption
  DEF ClearState, Goto, books, GTypeOK, LockHeld, Held, Spawned, Launching, Live,
     OneServer, Traced, Listening, Traceless
<1>16. ASSUME NEW c \in Clients, CallStop(c)
      PROVE  Traced'
  BY <1>16, ClientAssumption, ServerAssumption
  DEF CallStop, Goto, books, GTypeOK, LockHeld, Held, Spawned, Launching, Live,
     OneServer, Traced, Listening, Traceless
<1>17. ASSUME NEW c \in Clients, WriteStateFails(c)
      PROVE  Traced'
  <2> SUFFICES ASSUME NEW p \in Pids, Live(p)', p \notin Listening', statePid # p
               PROVE  \E d \in Clients : Launching(d)' /\ pid'[d] = p
    BY <1>17 DEF WriteStateFails, Traced
  <2>1. life' = life /\ pid' = pid /\ \A d \in Clients \ {c} : at'[d] = at[d]
    BY <1>17 DEF WriteStateFails, Goto, Return, GTypeOK
  <2>2. life[p] = "born"
    BY <2>1 DEF Live, Listening
  <2>3. ~Traceless(p, Clients \ {c}, statePid)
    BY <1>17 DEF WriteStateFails
  <2> QED
    BY <2>1, <2>2, <2>3 DEF Traceless, Launching
<1>18. ASSUME NEW c \in Clients, ClientCrash(c)
      PROVE  Traced'
  <2> SUFFICES ASSUME NEW p \in Pids, Live(p)', p \notin Listening', statePid # p
               PROVE  \E d \in Clients : Launching(d)' /\ pid'[d] = p
    BY <1>18 DEF ClientCrash, Traced
  <2>1. life' = life /\ pid' = pid /\ \A d \in Clients \ {c} : at'[d] = at[d]
    BY <1>18 DEF ClientCrash, Goto, GTypeOK
  <2>2. life[p] = "born"
    BY <2>1 DEF Live, Listening
  <2>3. ~Traceless(p, Clients \ {c}, statePid)
    BY <1>18 DEF ClientCrash
  <2> QED
    BY <2>1, <2>2, <2>3 DEF Traceless, Launching
<1>19. ASSUME NEW p \in Pids, ServerMoves(p)
      PROVE  Traced'
  BY <1>19, ClientAssumption, ServerAssumption
  DEF ServerMoves, books, GTypeOK, LockHeld, Held, Spawned, Launching, Live, OneServer,
     Traced, Listening, Traceless
<1>20. CASE UNCHANGED gVars
  BY <1>20 DEF gVars, books, GTypeOK, LockHeld, Held, Spawned, Launching, Live,
     OneServer, Traced, Listening, Traceless
<1>21. ASSUME NEW c \in Clients, ReadStateFails(c)
      PROVE  Traced'
  BY <1>21, ClientAssumption, ServerAssumption
  DEF ReadStateFails, Goto, books, GTypeOK, LockHeld, Held, Spawned, Launching, Live,
     OneServer, Traced, Listening, Traceless
<1>22. ASSUME NEW c \in Clients, SpawnUnseeing(c)
      PROVE  Traced'
  BY <1>22 DEF SpawnUnseeing
<1>23. ASSUME NEW c \in Clients, TerminateFails(c)
      PROVE  Traced'
  BY <1>23, ClientAssumption, ServerAssumption
  DEF TerminateFails, Goto, Return, books, GTypeOK, LockHeld, Held, Spawned, Launching,
     Live, OneServer, Traced, Listening, Traceless
<1>24. ASSUME NEW c \in Clients, KillFails(c)
      PROVE  Traced'
  BY <1>24, ClientAssumption, ServerAssumption
  DEF KillFails, Goto, FindsWithout, books, GTypeOK, LockHeld, Held, Spawned, Launching,
     Live, OneServer, Traced, Listening, Traceless
<1>25. ASSUME NEW c \in Clients, SilenceFails(c)
      PROVE  Traced'
  BY <1>25, ClientAssumption, ServerAssumption
  DEF SilenceFails, Goto, books, GTypeOK, LockHeld, Held, Spawned, Launching, Live,
     OneServer, Traced, Listening, Traceless
<1>26. ASSUME NEW c \in Clients, ClearStateFails(c)
      PROVE  Traced'
  BY <1>26, ClientAssumption, ServerAssumption
  DEF ClearStateFails, Goto, books, GTypeOK, LockHeld, Held, Spawned, Launching, Live,
     OneServer, Traced, Listening, Traceless
<1> QED
  BY <1>1, <1>2, <1>3, <1>4, <1>5, <1>6, <1>7, <1>8, <1>9, <1>10, <1>11, <1>12,
     <1>13, <1>14, <1>15, <1>16, <1>17, <1>18, <1>19, <1>20, <1>21, <1>22, <1>23, <1>24,
     <1>25, <1>26
  DEF GNext, ClientRuns, ClientFails

\* Whoever read the state file under the lock finds what lives.
LEMMA StillFoundKept ==
  ASSUME GTypeOK, LockHeld, Spawned, OneServer, [GNext]_gVars, ~lost'
  PROVE  StillFound'
<1>1. ASSUME NEW c \in Clients, NEW prompt \in BOOLEAN, Call(c, prompt)
      PROVE  StillFound'
  BY <1>1, ClientAssumption, ServerAssumption
  DEF Call, Goto, books, GTypeOK, LockHeld, Held, Spawned, Launching, Live, OneServer,
     Traced, StillFound, Listening, Traceless
<1>2. ASSUME NEW c \in Clients, TakeLock(c)
      PROVE  StillFound'
  BY <1>2, ClientAssumption, ServerAssumption
  DEF TakeLock, Goto, books, GTypeOK, LockHeld, Held, Spawned, Launching, Live,
     OneServer, Traced, StillFound, Listening, Traceless
<1>3. ASSUME NEW c \in Clients, LockTimesOut(c)
      PROVE  StillFound'
  BY <1>3, ClientAssumption, ServerAssumption
  DEF LockTimesOut, Goto, Return, books, GTypeOK, LockHeld, Held, Spawned, Launching,
     Live, OneServer, Traced, StillFound, Listening, Traceless
<1>4. ASSUME NEW c \in Clients, CheckReady(c)
      PROVE  StillFound'
  BY <1>4, ClientAssumption, ServerAssumption
  DEF CheckReady, Goto, Return, books, GTypeOK, LockHeld, Held, Spawned, Launching,
     Live, OneServer, Traced, StillFound, Listening, Traceless
<1>5. ASSUME NEW c \in Clients, ReadState(c)
      PROVE  StillFound'
  BY <1>5, ClientAssumption, ServerAssumption
  DEF ReadState, Goto, books, GTypeOK, LockHeld, Held, Spawned, Launching, Live,
     OneServer, Traced, StillFound, Listening, Traceless
<1>6. ASSUME NEW c \in Clients, LeaveToOther(c)
      PROVE  StillFound'
  BY <1>6, ClientAssumption, ServerAssumption
  DEF LeaveToOther, Goto, Return, books, GTypeOK, LockHeld, Held, Spawned, Launching,
     Live, OneServer, Traced, StillFound, Listening, Traceless
<1>7. ASSUME NEW c \in Clients, Spawn(c)
      PROVE  StillFound'
  BY <1>7, ClientAssumption, ServerAssumption
  DEF Spawn, Popen, Goto, books, GTypeOK, LockHeld, Held, Spawned, Launching, Live, OneServer,
     Traced, StillFound, Listening, Traceless
<1>8. ASSUME NEW c \in Clients, SpawnFails(c)
      PROVE  StillFound'
  BY <1>8, ClientAssumption, ServerAssumption
  DEF SpawnFails, Goto, Return, books, GTypeOK, LockHeld, Held, Spawned, Launching,
     Live, OneServer, Traced, StillFound, Listening, Traceless
<1>9. ASSUME NEW c \in Clients, WriteState(c)
      PROVE  StillFound'
  BY <1>9, ClientAssumption, ServerAssumption
  DEF WriteState, Goto, books, GTypeOK, LockHeld, Held, Spawned, Launching, Live,
     OneServer, Traced, StillFound, Listening, Traceless
<1>10. ASSUME NEW c \in Clients, WaitEnds(c)
      PROVE  StillFound'
  BY <1>10, ClientAssumption, ServerAssumption
  DEF WaitEnds, Goto, Return, books, GTypeOK, LockHeld, Held, Spawned, Launching,
     Live, OneServer, Traced, StillFound, Listening, Traceless
<1>11. ASSUME NEW c \in Clients, WaitTimesOut(c)
      PROVE  StillFound'
  BY <1>11, ClientAssumption, ServerAssumption
  DEF WaitTimesOut, Goto, Return, books, GTypeOK, LockHeld, Held, Spawned, Launching,
     Live, OneServer, Traced, StillFound, Listening, Traceless
<1>12. ASSUME NEW c \in Clients, Ask(c)
      PROVE  StillFound'
  BY <1>12, ClientAssumption, ServerAssumption
  DEF Ask, Goto, books, GTypeOK, LockHeld, Held, Spawned, Launching, Live, OneServer,
     Traced, StillFound, Listening, Traceless
<1>13. ASSUME NEW c \in Clients, Kill(c)
      PROVE  StillFound'
  BY <1>13, ClientAssumption, ServerAssumption
  DEF Kill, Goto, books, GTypeOK, LockHeld, Held, Spawned, Launching, Live, OneServer,
     Traced, StillFound, Listening, Traceless
<1>14. ASSUME NEW c \in Clients, Silence(c)
      PROVE  StillFound'
  BY <1>14, ClientAssumption, ServerAssumption
  DEF Silence, Goto, books, GTypeOK, LockHeld, Held, Spawned, Launching, Live,
     OneServer, Traced, StillFound, Listening, Traceless
<1>15. ASSUME NEW c \in Clients, ClearState(c)
      PROVE  StillFound'
  BY <1>15, ClientAssumption, ServerAssumption
  DEF ClearState, Goto, books, GTypeOK, LockHeld, Held, Spawned, Launching, Live,
     OneServer, Traced, StillFound, Listening, Traceless
<1>16. ASSUME NEW c \in Clients, CallStop(c)
      PROVE  StillFound'
  BY <1>16, ClientAssumption, ServerAssumption
  DEF CallStop, Goto, books, GTypeOK, LockHeld, Held, Spawned, Launching, Live,
     OneServer, Traced, StillFound, Listening, Traceless
<1>17. ASSUME NEW c \in Clients, WriteStateFails(c)
      PROVE  StillFound'
  BY <1>17, ClientAssumption, ServerAssumption
  DEF WriteStateFails, Goto, Return, books, GTypeOK, LockHeld, Held, Spawned,
     Launching, Live, OneServer, Traced, StillFound, Listening, Traceless
<1>18. ASSUME NEW c \in Clients, ClientCrash(c)
      PROVE  StillFound'
  BY <1>18, ClientAssumption, ServerAssumption
  DEF ClientCrash, Goto, books, GTypeOK, LockHeld, Held, Spawned, Launching, Live,
     OneServer, Traced, StillFound, Listening, Traceless
<1>19. ASSUME NEW p \in Pids, ServerMoves(p)
      PROVE  StillFound'
  BY <1>19, ClientAssumption, ServerAssumption
  DEF ServerMoves, books, GTypeOK, LockHeld, Held, Spawned, Launching, Live, OneServer,
     Traced, StillFound, Listening, Traceless
<1>20. CASE UNCHANGED gVars
  BY <1>20 DEF gVars, books, GTypeOK, LockHeld, Held, Spawned, Launching, Live,
     OneServer, Traced, StillFound, Listening, Traceless
<1>21. ASSUME NEW c \in Clients, ReadStateFails(c)
      PROVE  StillFound'
  <2> SUFFICES ASSUME NEW d \in Clients, at'[d] = "port", NEW p \in Pids, Live(p),
                      p \notin Listening
               PROVE  pid'[d] = p
    BY <1>21 DEF ReadStateFails, StillFound, Live, Listening
  <2>1. CASE d # c
    BY <1>21, <2>1 DEF ReadStateFails, Goto, GTypeOK, OneServer, StillFound
  <2>2. CASE d = c
    <3>1. at[c] = "state" /\ life[p] = "born"
      BY <1>21, <2>2 DEF ReadStateFails, Goto, GTypeOK, Live, Listening
    <3>2. \A e \in Clients : ~Launching(e)
      BY <3>1 DEF LockHeld, Held, Launching
    <3>3. statePid = p
      BY <3>2 DEF OneServer, Traced
    <3> QED
      BY <1>21, <3>1, <3>3 DEF ReadStateFails
  <2> QED
    BY <2>1, <2>2
<1>22. ASSUME NEW c \in Clients, SpawnUnseeing(c)
      PROVE  StillFound'
  BY <1>22 DEF SpawnUnseeing
<1>23. ASSUME NEW c \in Clients, TerminateFails(c)
      PROVE  StillFound'
  BY <1>23, ClientAssumption, ServerAssumption
  DEF TerminateFails, Goto, Return, books, GTypeOK, LockHeld, Held, Spawned, Launching,
     Live, OneServer, Traced, StillFound, Listening, Traceless
<1>24. ASSUME NEW c \in Clients, KillFails(c)
      PROVE  StillFound'
  BY <1>24, ClientAssumption, ServerAssumption
  DEF KillFails, Goto, FindsWithout, books, GTypeOK, LockHeld, Held, Spawned, Launching,
     Live, OneServer, Traced, StillFound, Listening, Traceless
<1>25. ASSUME NEW c \in Clients, SilenceFails(c)
      PROVE  StillFound'
  BY <1>25, ClientAssumption, ServerAssumption
  DEF SilenceFails, Goto, books, GTypeOK, LockHeld, Held, Spawned, Launching, Live,
     OneServer, Traced, StillFound, Listening, Traceless
<1>26. ASSUME NEW c \in Clients, ClearStateFails(c)
      PROVE  StillFound'
  BY <1>26, ClientAssumption, ServerAssumption
  DEF ClearStateFails, Goto, books, GTypeOK, LockHeld, Held, Spawned, Launching, Live,
     OneServer, Traced, StillFound, Listening, Traceless
<1> QED
  BY <1>1, <1>2, <1>3, <1>4, <1>5, <1>6, <1>7, <1>8, <1>9, <1>10, <1>11, <1>12,
     <1>13, <1>14, <1>15, <1>16, <1>17, <1>18, <1>19, <1>20, <1>21, <1>22, <1>23, <1>24,
     <1>25, <1>26
  DEF GNext, ClientRuns, ClientFails

\* A process is spawned only when none lives.
LEMMA OneLivesKept ==
  ASSUME GTypeOK, LockHeld, Spawned, OneServer, [GNext]_gVars, ~lost'
  PROVE  OneLives'
<1>1. ASSUME NEW c \in Clients, NEW prompt \in BOOLEAN, Call(c, prompt)
      PROVE  OneLives'
  BY <1>1, ClientAssumption, ServerAssumption
  DEF Call, Goto, books, GTypeOK, LockHeld, Held, Spawned, Launching, Live, OneServer,
     OneLives
<1>2. ASSUME NEW c \in Clients, TakeLock(c)
      PROVE  OneLives'
  BY <1>2, ClientAssumption, ServerAssumption
  DEF TakeLock, Goto, books, GTypeOK, LockHeld, Held, Spawned, Launching, Live,
     OneServer, OneLives
<1>3. ASSUME NEW c \in Clients, LockTimesOut(c)
      PROVE  OneLives'
  BY <1>3, ClientAssumption, ServerAssumption
  DEF LockTimesOut, Goto, Return, books, GTypeOK, LockHeld, Held, Spawned, Launching,
     Live, OneServer, OneLives
<1>4. ASSUME NEW c \in Clients, CheckReady(c)
      PROVE  OneLives'
  BY <1>4, ClientAssumption, ServerAssumption
  DEF CheckReady, Goto, Return, books, GTypeOK, LockHeld, Held, Spawned, Launching,
     Live, OneServer, OneLives
<1>5. ASSUME NEW c \in Clients, ReadState(c)
      PROVE  OneLives'
  BY <1>5, ClientAssumption, ServerAssumption
  DEF ReadState, Goto, books, GTypeOK, LockHeld, Held, Spawned, Launching, Live,
     OneServer, OneLives
<1>6. ASSUME NEW c \in Clients, LeaveToOther(c)
      PROVE  OneLives'
  BY <1>6, ClientAssumption, ServerAssumption
  DEF LeaveToOther, Goto, Return, books, GTypeOK, LockHeld, Held, Spawned, Launching,
     Live, OneServer, OneLives
<1>7. ASSUME NEW c \in Clients, Spawn(c)
      PROVE  OneLives'
  BY <1>7, NothingLives DEF Spawn, Popen, Goto, books, OneLives, Live, GTypeOK
<1>8. ASSUME NEW c \in Clients, SpawnFails(c)
      PROVE  OneLives'
  BY <1>8, ClientAssumption, ServerAssumption
  DEF SpawnFails, Goto, Return, books, GTypeOK, LockHeld, Held, Spawned, Launching,
     Live, OneServer, OneLives
<1>9. ASSUME NEW c \in Clients, WriteState(c)
      PROVE  OneLives'
  BY <1>9, ClientAssumption, ServerAssumption
  DEF WriteState, Goto, books, GTypeOK, LockHeld, Held, Spawned, Launching, Live,
     OneServer, OneLives
<1>10. ASSUME NEW c \in Clients, WaitEnds(c)
      PROVE  OneLives'
  BY <1>10, ClientAssumption, ServerAssumption
  DEF WaitEnds, Goto, Return, books, GTypeOK, LockHeld, Held, Spawned, Launching,
     Live, OneServer, OneLives
<1>11. ASSUME NEW c \in Clients, WaitTimesOut(c)
      PROVE  OneLives'
  BY <1>11, ClientAssumption, ServerAssumption
  DEF WaitTimesOut, Goto, Return, books, GTypeOK, LockHeld, Held, Spawned, Launching,
     Live, OneServer, OneLives
<1>12. ASSUME NEW c \in Clients, Ask(c)
      PROVE  OneLives'
  BY <1>12, ClientAssumption, ServerAssumption
  DEF Ask, Goto, books, GTypeOK, LockHeld, Held, Spawned, Launching, Live, OneServer, OneLives
<1>13. ASSUME NEW c \in Clients, Kill(c)
      PROVE  OneLives'
  BY <1>13, ClientAssumption, ServerAssumption
  DEF Kill, Goto, books, GTypeOK, LockHeld, Held, Spawned, Launching, Live, OneServer,
     OneLives
<1>14. ASSUME NEW c \in Clients, Silence(c)
      PROVE  OneLives'
  BY <1>14, ClientAssumption, ServerAssumption
  DEF Silence, Goto, books, GTypeOK, LockHeld, Held, Spawned, Launching, Live,
     OneServer, OneLives
<1>15. ASSUME NEW c \in Clients, ClearState(c)
      PROVE  OneLives'
  BY <1>15, ClientAssumption, ServerAssumption
  DEF ClearState, Goto, books, GTypeOK, LockHeld, Held, Spawned, Launching, Live,
     OneServer, OneLives
<1>16. ASSUME NEW c \in Clients, CallStop(c)
      PROVE  OneLives'
  BY <1>16, ClientAssumption, ServerAssumption
  DEF CallStop, Goto, books, GTypeOK, LockHeld, Held, Spawned, Launching, Live,
     OneServer, OneLives
<1>17. ASSUME NEW c \in Clients, WriteStateFails(c)
      PROVE  OneLives'
  BY <1>17, ClientAssumption, ServerAssumption
  DEF WriteStateFails, Goto, Return, books, GTypeOK, LockHeld, Held, Spawned,
     Launching, Live, OneServer, OneLives
<1>18. ASSUME NEW c \in Clients, ClientCrash(c)
      PROVE  OneLives'
  BY <1>18, ClientAssumption, ServerAssumption
  DEF ClientCrash, Goto, books, GTypeOK, LockHeld, Held, Spawned, Launching, Live,
     OneServer, OneLives
<1>19. ASSUME NEW p \in Pids, ServerMoves(p)
      PROVE  OneLives'
  BY <1>19, ClientAssumption, ServerAssumption
  DEF ServerMoves, books, GTypeOK, LockHeld, Held, Spawned, Launching, Live, OneServer,
     OneLives
<1>20. CASE UNCHANGED gVars
  BY <1>20 DEF gVars, books, GTypeOK, LockHeld, Held, Spawned, Launching, Live,
     OneServer, OneLives
<1>21. ASSUME NEW c \in Clients, ReadStateFails(c)
      PROVE  OneLives'
  BY <1>21, ClientAssumption, ServerAssumption
  DEF ReadStateFails, Goto, books, GTypeOK, LockHeld, Held, Spawned, Launching, Live,
     OneServer, OneLives
<1>22. ASSUME NEW c \in Clients, SpawnUnseeing(c)
      PROVE  OneLives'
  BY <1>22 DEF SpawnUnseeing
<1>23. ASSUME NEW c \in Clients, TerminateFails(c)
      PROVE  OneLives'
  BY <1>23, ClientAssumption, ServerAssumption
  DEF TerminateFails, Goto, Return, books, GTypeOK, LockHeld, Held, Spawned, Launching,
     Live, OneServer, OneLives
<1>24. ASSUME NEW c \in Clients, KillFails(c)
      PROVE  OneLives'
  BY <1>24, ClientAssumption, ServerAssumption
  DEF KillFails, Goto, FindsWithout, books, GTypeOK, LockHeld, Held, Spawned, Launching,
     Live, OneServer, OneLives
<1>25. ASSUME NEW c \in Clients, SilenceFails(c)
      PROVE  OneLives'
  BY <1>25, ClientAssumption, ServerAssumption
  DEF SilenceFails, Goto, books, GTypeOK, LockHeld, Held, Spawned, Launching, Live,
     OneServer, OneLives
<1>26. ASSUME NEW c \in Clients, ClearStateFails(c)
      PROVE  OneLives'
  BY <1>26, ClientAssumption, ServerAssumption
  DEF ClearStateFails, Goto, books, GTypeOK, LockHeld, Held, Spawned, Launching, Live,
     OneServer, OneLives
<1> QED
  BY <1>1, <1>2, <1>3, <1>4, <1>5, <1>6, <1>7, <1>8, <1>9, <1>10, <1>11, <1>12,
     <1>13, <1>14, <1>15, <1>16, <1>17, <1>18, <1>19, <1>20, <1>21, <1>22, <1>23, <1>24,
     <1>25, <1>26
  DEF GNext, ClientRuns, ClientFails

\* The state file is written by the launcher of what lives.
LEMMA NamedKept ==
  ASSUME GTypeOK, LockHeld, Spawned, OneServer, [GNext]_gVars, ~lost'
  PROVE  Named'
<1>1. ASSUME NEW c \in Clients, NEW prompt \in BOOLEAN, Call(c, prompt)
      PROVE  Named'
  BY <1>1, ClientAssumption, ServerAssumption
  DEF Call, Goto, books, GTypeOK, LockHeld, Held, Spawned, Launching, Live, OneServer,
     OwnsAll, Named
<1>2. ASSUME NEW c \in Clients, TakeLock(c)
      PROVE  Named'
  BY <1>2, ClientAssumption, ServerAssumption
  DEF TakeLock, Goto, books, GTypeOK, LockHeld, Held, Spawned, Launching, Live,
     OneServer, OwnsAll, Named
<1>3. ASSUME NEW c \in Clients, LockTimesOut(c)
      PROVE  Named'
  BY <1>3, ClientAssumption, ServerAssumption
  DEF LockTimesOut, Goto, Return, books, GTypeOK, LockHeld, Held, Spawned, Launching,
     Live, OneServer, OwnsAll, Named
<1>4. ASSUME NEW c \in Clients, CheckReady(c)
      PROVE  Named'
  BY <1>4, ClientAssumption, ServerAssumption
  DEF CheckReady, Goto, Return, books, GTypeOK, LockHeld, Held, Spawned, Launching,
     Live, OneServer, OwnsAll, Named
<1>5. ASSUME NEW c \in Clients, ReadState(c)
      PROVE  Named'
  BY <1>5, ClientAssumption, ServerAssumption
  DEF ReadState, Goto, books, GTypeOK, LockHeld, Held, Spawned, Launching, Live,
     OneServer, OwnsAll, Named
<1>6. ASSUME NEW c \in Clients, LeaveToOther(c)
      PROVE  Named'
  BY <1>6, ClientAssumption, ServerAssumption
  DEF LeaveToOther, Goto, Return, books, GTypeOK, LockHeld, Held, Spawned, Launching,
     Live, OneServer, OwnsAll, Named
<1>7. ASSUME NEW c \in Clients, Spawn(c)
      PROVE  Named'
  BY <1>7, NothingLives DEF Spawn, Popen, Goto, books, Named, Live, GTypeOK
<1>8. ASSUME NEW c \in Clients, SpawnFails(c)
      PROVE  Named'
  BY <1>8, ClientAssumption, ServerAssumption
  DEF SpawnFails, Goto, Return, books, GTypeOK, LockHeld, Held, Spawned, Launching,
     Live, OneServer, OwnsAll, Named
<1>9. ASSUME NEW c \in Clients, WriteState(c)
      PROVE  Named'
  BY <1>9, ClientAssumption, ServerAssumption
  DEF WriteState, Goto, books, GTypeOK, LockHeld, Held, Spawned, Launching, Live,
     OneServer, OwnsAll, Named
<1>10. ASSUME NEW c \in Clients, WaitEnds(c)
      PROVE  Named'
  BY <1>10, ClientAssumption, ServerAssumption
  DEF WaitEnds, Goto, Return, books, GTypeOK, LockHeld, Held, Spawned, Launching,
     Live, OneServer, OwnsAll, Named
<1>11. ASSUME NEW c \in Clients, WaitTimesOut(c)
      PROVE  Named'
  BY <1>11, ClientAssumption, ServerAssumption
  DEF WaitTimesOut, Goto, Return, books, GTypeOK, LockHeld, Held, Spawned, Launching,
     Live, OneServer, OwnsAll, Named
<1>12. ASSUME NEW c \in Clients, Ask(c)
      PROVE  Named'
  BY <1>12, ClientAssumption, ServerAssumption
  DEF Ask, Goto, books, GTypeOK, LockHeld, Held, Spawned, Launching, Live, OneServer,
     OwnsAll, Named
<1>13. ASSUME NEW c \in Clients, Kill(c)
      PROVE  Named'
  BY <1>13, ClientAssumption, ServerAssumption
  DEF Kill, Goto, books, GTypeOK, LockHeld, Held, Spawned, Launching, Live, OneServer,
     OwnsAll, Named
<1>14. ASSUME NEW c \in Clients, Silence(c)
      PROVE  Named'
  BY <1>14, ClientAssumption, ServerAssumption
  DEF Silence, Goto, books, GTypeOK, LockHeld, Held, Spawned, Launching, Live,
     OneServer, OwnsAll, Named
<1>15. ASSUME NEW c \in Clients, ClearState(c)
      PROVE  Named'
  BY <1>15, ClientAssumption, ServerAssumption
  DEF ClearState, Goto, books, GTypeOK, LockHeld, Held, Spawned, Launching, Live,
     OneServer, OwnsAll, Named
<1>16. ASSUME NEW c \in Clients, CallStop(c)
      PROVE  Named'
  BY <1>16, ClientAssumption, ServerAssumption
  DEF CallStop, Goto, books, GTypeOK, LockHeld, Held, Spawned, Launching, Live,
     OneServer, OwnsAll, Named
<1>17. ASSUME NEW c \in Clients, WriteStateFails(c)
      PROVE  Named'
  BY <1>17, ClientAssumption, ServerAssumption
  DEF WriteStateFails, Goto, Return, books, GTypeOK, LockHeld, Held, Spawned,
     Launching, Live, OneServer, OwnsAll, Named
<1>18. ASSUME NEW c \in Clients, ClientCrash(c)
      PROVE  Named'
  BY <1>18, ClientAssumption, ServerAssumption
  DEF ClientCrash, Goto, books, GTypeOK, LockHeld, Held, Spawned, Launching, Live,
     OneServer, OwnsAll, Named
<1>19. ASSUME NEW p \in Pids, ServerMoves(p)
      PROVE  Named'
  BY <1>19, ClientAssumption, ServerAssumption
  DEF ServerMoves, books, GTypeOK, LockHeld, Held, Spawned, Launching, Live, OneServer,
     OwnsAll, Named
<1>20. CASE UNCHANGED gVars
  BY <1>20 DEF gVars, books, GTypeOK, LockHeld, Held, Spawned, Launching, Live,
     OneServer, OwnsAll, Named
<1>21. ASSUME NEW c \in Clients, ReadStateFails(c)
      PROVE  Named'
  BY <1>21, ClientAssumption, ServerAssumption
  DEF ReadStateFails, Goto, books, GTypeOK, LockHeld, Held, Spawned, Launching, Live,
     OneServer, OwnsAll, Named
<1>22. ASSUME NEW c \in Clients, SpawnUnseeing(c)
      PROVE  Named'
  BY <1>22 DEF SpawnUnseeing
<1>23. ASSUME NEW c \in Clients, TerminateFails(c)
      PROVE  Named'
  BY <1>23, ClientAssumption, ServerAssumption
  DEF TerminateFails, Goto, Return, books, GTypeOK, LockHeld, Held, Spawned, Launching,
     Live, OneServer, OwnsAll, Named
<1>24. ASSUME NEW c \in Clients, KillFails(c)
      PROVE  Named'
  BY <1>24, ClientAssumption, ServerAssumption
  DEF KillFails, Goto, FindsWithout, books, GTypeOK, LockHeld, Held, Spawned, Launching,
     Live, OneServer, OwnsAll, Named
<1>25. ASSUME NEW c \in Clients, SilenceFails(c)
      PROVE  Named'
  BY <1>25, ClientAssumption, ServerAssumption
  DEF SilenceFails, Goto, books, GTypeOK, LockHeld, Held, Spawned, Launching, Live,
     OneServer, OwnsAll, Named
<1>26. ASSUME NEW c \in Clients, ClearStateFails(c)
      PROVE  Named'
  BY <1>26, ClientAssumption, ServerAssumption
  DEF ClearStateFails, Goto, books, GTypeOK, LockHeld, Held, Spawned, Launching, Live,
     OneServer, OwnsAll, Named
<1> QED
  BY <1>1, <1>2, <1>3, <1>4, <1>5, <1>6, <1>7, <1>8, <1>9, <1>10, <1>11, <1>12,
     <1>13, <1>14, <1>15, <1>16, <1>17, <1>18, <1>19, <1>20, <1>21, <1>22, <1>23, <1>24,
     <1>25, <1>26
  DEF GNext, ClientRuns, ClientFails

-----------------------------------------------------------------------------
\* No step spoils it.
LEMMA ServerStep == ServerInv /\ [GNext]_gVars => ServerInv'
<1> SUFFICES ASSUME ServerInv, [GNext]_gVars PROVE ServerInv'
  OBVIOUS
<1>1. GTypeOK' /\ LockHeld' /\ Spawned'
  BY ServerTypesKept, LockKept, SpawnedKept DEF ServerInv
<1>2. ASSUME ~lost' PROVE OneServer'
  <2>1. ~lost
    BY <1>2 DEF GNext, ClientRuns, gVars, books, Call, TakeLock, LockTimesOut,
       CheckReady, ReadState, LeaveToOther, Spawn, SpawnFails, WriteState,
       WaitEnds, WaitTimesOut, Ask, Kill, Silence, ClearState, CallStop,
       ClientFails, ReadStateFails, SpawnUnseeing, WriteStateFails, TerminateFails,
       KillFails, SilenceFails, ClearStateFails, ClientCrash, ServerMoves
  <2> QED
    BY <1>2, <2>1, OwnsAllKept, TracedKept, StillFoundKept, OneLivesKept, NamedKept
    DEF ServerInv, OneServer
<1> QED
  BY <1>1, <1>2 DEF ServerInv

\* Lock, state file, processes and clients of the server (gguf_backend.py) agree
\* in every state.
THEOREM ServerInvariance == GSpec => []ServerInv
BY ServerInitially, ServerStep, PTL DEF GSpec

-----------------------------------------------------------------------------
(***************************************************************************)
(* ChatCaches: once no change is under way, an entry made under other      *)
(* settings than the file holds can only come from a run that went astray. *)
(* The argument: a run that is not marked has the settings of the          *)
(* environment, which are those of the file or about to be replaced by     *)
(* them; and an entry that is not marked has those of the file, or some    *)
(* thread that changes the settings still has the clear of its cache ahead *)
(* of it.                                                                  *)
(***************************************************************************)
RunTypes == [at : {"idle", "lookup", "hit", "prefix", "get", "work", "keep", "store"},
             key : Keys \cup {Nothing}, session : Sessions \cup {Nothing},
             model : BOOLEAN, settings : 0 .. MaxChanges, astray : BOOLEAN]

ChangerTypes == [at : {"idle", "apply", "prefixes", "responses",
                       "responsesFirst", "prefixesLast", "report"},
                 change : 0 .. MaxChanges]

\* The types of what the argument is about.
TablesOK == /\ responses \in [Keys -> EntryTypes \cup {Nothing}]
            /\ prefixes \in [Sessions -> PrefixTypes \cup {Nothing}]
            /\ run \in [Runs -> RunTypes]
            /\ changer \in [Changers -> ChangerTypes]
            /\ saved \in 0 .. MaxChanges /\ saved <= changes
            /\ applied \in 0 .. MaxChanges /\ changes \in 0 .. MaxChanges

\* A thread that still has to clear the answers, or the prefixes.
ResponsesAhead == \E u \in Changers :
    changer[u].at \in {"apply", "prefixes", "responses", "responsesFirst"}

PrefixesAhead == \E u \in Changers :
    changer[u].at \in {"apply", "prefixes", "responsesFirst", "prefixesLast"}

\* Of an entry: the settings of the file, or marked.
InForce(x) == x.settings = saved \/ x.astray

\* Of a run: the settings of the environment, which has not drifted; or marked.
OnCourse(x) == (x.settings = applied /\ ~Drifted) \/ x.astray

RunsInForce == \A r \in Runs : run[r].at # "idle" => OnCourse(run[r])

AnswersInForce == \A k \in Keys :
    responses[k] # Nothing => InForce(responses[k]) \/ ResponsesAhead

PrefixesInForce == \A s \in Sessions :
    prefixes[s] # Nothing => InForce(prefixes[s]) \/ PrefixesAhead

CacheInv == TablesOK /\ RunsInForce /\ AnswersInForce /\ PrefixesInForce

\* A run at work knows its key, and one that gets a prefix its session.
RunsKnown == \A r \in Runs : /\ run[r].at # "idle" => run[r].key \in Keys
                             /\ run[r].at = "get" => run[r].session \in Sessions

-----------------------------------------------------------------------------
\* The caches are empty and nothing runs.
LEMMA CacheInitially == CInit => CacheInv
<1> SUFFICES ASSUME CInit PROVE CacheInv
  OBVIOUS
<1>1. 0 \in 0 .. MaxChanges
  BY CacheAssumption
<1>2. TablesOK
  BY <1>1 DEF CInit, TablesOK, Idle, Resting, RunTypes, ChangerTypes
<1> QED
  BY <1>2 DEF CInit, CacheInv, RunsInForce, AnswersInForce, PrefixesInForce, Idle

\* Who does nothing has the types.
LEMMA AtRest == Idle \in RunTypes /\ Resting \in ChangerTypes
<1>1. 0 \in 0 .. MaxChanges
  BY CacheAssumption
<1> QED
  BY <1>1 DEF Idle, Resting, RunTypes, ChangerTypes

\* Storing an entry changes no other entry but the one it evicts.
LEMMA PutInTable ==
  ASSUME NEW D, NEW V, NEW table \in [D -> V], NEW order, NEW x, NEW entry \in V,
         NEW max, Nothing \in V, NEW put, put = Put(table, order, x, entry, max)[1]
  PROVE  /\ put \in [D -> V]
         /\ \A y \in D : put[y] \in {table[y], entry, Nothing}
<1> DEFINE full == MovedToEnd(order, x)
           new == [table EXCEPT ![x] = entry]
           out == [new EXCEPT ![Head(full)] = Nothing]
<1>1. Put(table, order, x, entry, max)[1] = IF Len(full) > max THEN out ELSE new
  BY DEF Put
<1>2. new \in [D -> V] /\ \A y \in D : new[y] \in {table[y], entry}
  OBVIOUS
<1> HIDE DEF new, full
<1>3. out \in [D -> V] /\ \A y \in D : out[y] \in {new[y], Nothing}
  BY <1>2
<1> QED
  BY <1>1, <1>2, <1>3

-----------------------------------------------------------------------------

\* A run that goes on stays as much on course as it was, when the settings stay.
LEMMA StepKeepsRuns ==
  ASSUME CacheInv, NEW r \in Runs,
         NEW place \in {"hit", "prefix", "get", "work", "store"},
         Step(r, place), run[r].at # "idle", UNCHANGED <<saved, applied, changer>>
  PROVE  run' \in [Runs -> RunTypes] /\ RunsInForce'
<1>1. run[r] \in RunTypes /\ OnCourse(run[r])
  BY DEF CacheInv, TablesOK, RunsInForce
<1> DEFINE new == [run[r] EXCEPT !.at = place]
<1>2. run' = [run EXCEPT ![r] = new]
  BY DEF CacheInv, TablesOK, Step
<1>3. new \in RunTypes /\ new.settings = run[r].settings /\ new.astray = run[r].astray
  BY <1>1 DEF RunTypes
<1> HIDE DEF new
<1>4. run' \in [Runs -> RunTypes]
  BY <1>2, <1>3 DEF CacheInv, TablesOK
<1>5. OnCourse(new)
  BY <1>1, <1>3 DEF OnCourse
<1> QED
  BY <1>2, <1>4, <1>5 DEF CacheInv, TablesOK, RunsInForce, OnCourse, Drifted

\* A run starts with the settings of the environment, and on course unless those
\* have drifted.
LEMMA StartRunKeeps ==
  ASSUME CacheInv, NEW r \in Runs, StartRun(r)
  PROVE  CacheInv'
<1> DEFINE drift == Drifted
<1>1. PICK q \in Requests :
        run' = [run EXCEPT ![r] = [at |-> "lookup", key |-> q.key,
                                   session |-> q.session, model |-> q.model,
                                   settings |-> applied, astray |-> drift]]
  BY DEF StartRun
<1>2. q \in [key : Keys, session : Sessions \cup {Nothing}, model : BOOLEAN]
  BY RequestAssumption
<1>3. drift \in BOOLEAN /\ (drift <=> Drifted)
  BY DEF Drifted
<1>4. Drifted' <=> Drifted
  BY DEF StartRun, Drifted
<1> HIDE DEF drift
<1>5. TablesOK'
  BY <1>1, <1>2, <1>3 DEF CacheInv, StartRun, TablesOK, RunTypes
<1>6. RunsInForce'
  BY <1>1, <1>3, <1>4 DEF CacheInv, StartRun, TablesOK, RunsInForce, OnCourse
<1>7. (AnswersInForce /\ PrefixesInForce)'
  BY DEF CacheInv, StartRun, AnswersInForce, PrefixesInForce, InForce, ResponsesAhead,
     PrefixesAhead
<1> QED
  BY <1>5, <1>6, <1>7 DEF CacheInv

\* A run that ends stands for nothing.
LEMMA EndKeepsRuns ==
  ASSUME CacheInv, NEW r \in Runs, run' = [run EXCEPT ![r] = Idle],
         UNCHANGED <<saved, applied, changer>>
  PROVE  run' \in [Runs -> RunTypes] /\ RunsInForce'
<1>1. Drifted' <=> Drifted
  BY DEF Drifted
<1> QED
  BY <1>1, AtRest DEF CacheInv, TablesOK, RunsInForce, OnCourse, Idle

\* Whoever sets the environment to other settings marks what is at work, and
\* changes nothing else.
Marked(under, settings) ==
    /\ under \in [Runs -> RunTypes]
    /\ \A r \in Runs : /\ under[r].at = run[r].at /\ under[r].key = run[r].key
                       /\ under[r].session = run[r].session
                       /\ under[r].settings = run[r].settings
                       /\ run[r].astray => under[r].astray
                       /\ run[r].at # "idle" /\ settings # applied => under[r].astray

LEMMA UnderFacts ==
  ASSUME TablesOK, NEW settings
  PROVE  Marked(Under(settings), settings)
<1> DEFINE under == Under(settings)
<1>1. ASSUME NEW r \in Runs
      PROVE  /\ under[r] \in RunTypes
             /\ under[r].at = run[r].at /\ under[r].key = run[r].key
             /\ under[r].session = run[r].session
             /\ under[r].settings = run[r].settings
             /\ run[r].astray => under[r].astray
             /\ run[r].at # "idle" /\ settings # applied => under[r].astray
  <2>1. run[r] \in RunTypes
    BY DEF TablesOK
  <2>2. CASE run[r].at # "idle" /\ settings # applied
    <3>1. under[r] = [run[r] EXCEPT !.astray = TRUE]
      BY <2>2 DEF Under
    <3> QED
      BY <2>1, <3>1 DEF RunTypes
  <2>3. CASE ~(run[r].at # "idle" /\ settings # applied)
    <3>1. under[r] = run[r]
      BY <2>3 DEF Under
    <3> QED
      BY <2>1, <2>3, <3>1
  <2> QED
    BY <2>2, <2>3
<1>2. under \in [Runs -> RunTypes]
  <2>1. DOMAIN under = Runs /\ under = [r \in Runs |-> under[r]]
    BY DEF Under
  <2> HIDE DEF under
  <2> QED
    BY <1>1, <2>1
<1> QED
  BY <1>1, <1>2 DEF Marked

\* So who is not marked is on course.
LEMMA UnderKeepsRuns ==
  ASSUME CacheInv, NEW under, under = Under(applied'),
         applied' = applied /\ Drifted' => Drifted,
         \A r \in Runs : \/ run'[r].at = "idle"
                         \/ /\ run[r].at # "idle"
                            /\ run'[r].settings = under[r].settings
                            /\ under[r].astray => run'[r].astray
  PROVE  RunsInForce'
<1> SUFFICES ASSUME NEW r \in Runs, run'[r].at # "idle"
             PROVE  OnCourse(run[r])'
  BY DEF RunsInForce
<1>1. TablesOK
  BY DEF CacheInv
<1>2. Marked(under, applied')
  BY <1>1, UnderFacts
<1>3. (run[r].settings = applied /\ ~Drifted) \/ run[r].astray
  BY DEF CacheInv, RunsInForce, OnCourse
<1> QED
  BY <1>2, <1>3 DEF OnCourse, Marked

\* Entries that stay as they were, or go, while the file and the clears ahead do.
LEMMA AnswersStay ==
  ASSUME AnswersInForce, saved' = saved, ResponsesAhead => ResponsesAhead',
         \A k \in Keys : responses'[k] \in {responses[k], Nothing}
  PROVE  AnswersInForce'
BY DEF AnswersInForce, InForce

LEMMA PrefixesStay ==
  ASSUME PrefixesInForce, saved' = saved, PrefixesAhead => PrefixesAhead',
         \A s \in Sessions : prefixes'[s] \in {prefixes[s], Nothing}
  PROVE  PrefixesInForce'
BY DEF PrefixesInForce, InForce

\* What a run that is on course stores is in force, or is about to be cleared.
LEMMA StoredInForce ==
  ASSUME CacheInv, NEW r \in Runs, run[r].at # "idle"
  PROVE  run[r].settings = saved \/ run[r].astray \/ (ResponsesAhead /\ PrefixesAhead)
BY DEF CacheInv, RunsInForce, OnCourse, Drifted, ResponsesAhead, PrefixesAhead

\* A lookup changes no entry; one that is too old goes.
LEMMA LookupResponseKeeps ==
  ASSUME CacheInv, NEW r \in Runs, LookupResponse(r)
  PROVE  CacheInv'
<1>1. run' \in [Runs -> RunTypes] /\ RunsInForce'
  <2>1. CASE Step(r, "hit")
    BY <2>1, StepKeepsRuns DEF LookupResponse
  <2>2. CASE Step(r, "prefix")
    BY <2>2, StepKeepsRuns DEF LookupResponse
  <2> QED
    BY <2>1, <2>2 DEF LookupResponse
<1>2. /\ responses' \in [Keys -> EntryTypes \cup {Nothing}]
      /\ \A k \in Keys : responses'[k] \in {responses[k], Nothing}
  BY DEF CacheInv, LookupResponse, TablesOK
<1>3. TablesOK'
  BY <1>1, <1>2 DEF CacheInv, LookupResponse, TablesOK
<1>4. AnswersInForce'
  BY <1>2 DEF CacheInv, LookupResponse, AnswersInForce, InForce, ResponsesAhead
<1>5. PrefixesInForce'
  BY DEF CacheInv, LookupResponse, PrefixesInForce, InForce, PrefixesAhead
<1> QED
  BY <1>1, <1>3, <1>4, <1>5 DEF CacheInv

\* Cleaning up takes entries away and changes none.
LEMMA CleanPrefixesKeeps ==
  ASSUME CacheInv, NEW r \in Runs, CleanPrefixes(r)
  PROVE  CacheInv'
<1>1. run' \in [Runs -> RunTypes] /\ RunsInForce'
  BY StepKeepsRuns DEF CleanPrefixes
<1>2. /\ prefixes' \in [Sessions -> PrefixTypes \cup {Nothing}]
      /\ \A s \in Sessions : prefixes'[s] \in {prefixes[s], Nothing}
  BY DEF CacheInv, CleanPrefixes, TablesOK
<1>3. TablesOK'
  BY <1>1, <1>2 DEF CacheInv, CleanPrefixes, TablesOK
<1>4. PrefixesInForce'
  BY <1>2 DEF CacheInv, CleanPrefixes, PrefixesInForce, InForce, PrefixesAhead
<1>5. AnswersInForce'
  BY DEF CacheInv, CleanPrefixes, AnswersInForce, InForce, ResponsesAhead
<1> QED
  BY <1>1, <1>3, <1>4, <1>5 DEF CacheInv

\* A run that takes up a prefix of other settings is marked.
LEMMA GetPrefixKeeps ==
  ASSUME CacheInv, NEW r \in Runs, GetPrefix(r)
  PROVE  CacheInv'
<1>1. run' \in [Runs -> RunTypes] /\ RunsInForce'
  <2>1. CASE Step(r, "work")
    BY <2>1, StepKeepsRuns DEF GetPrefix
  <2>2. ASSUME NEW mark \in BOOLEAN, run[r].astray => mark,
               run' = [run EXCEPT ![r].at = "work", ![r].astray = mark]
        PROVE  run' \in [Runs -> RunTypes] /\ RunsInForce'
    <3>1. run[r] \in RunTypes /\ run[r].at # "idle" /\ OnCourse(run[r])
      BY DEF CacheInv, GetPrefix, TablesOK, RunsInForce
    <3> DEFINE new == [run[r] EXCEPT !.at = "work", !.astray = mark]
    <3>2. run' = [run EXCEPT ![r] = new]
      BY <2>2 DEF CacheInv, TablesOK
    <3>3. new \in RunTypes /\ new.settings = run[r].settings /\ new.astray = mark
      BY <2>2, <3>1 DEF RunTypes
    <3> HIDE DEF new
    <3>4. run' \in [Runs -> RunTypes]
      BY <3>2, <3>3 DEF CacheInv, TablesOK
    <3>5. OnCourse(new)
      BY <2>2, <3>1, <3>3 DEF OnCourse
    <3>6. applied' = applied /\ (Drifted' <=> Drifted)
      BY DEF GetPrefix, Drifted
    <3> QED
      BY <3>2, <3>4, <3>5, <3>6 DEF CacheInv, TablesOK, RunsInForce, OnCourse
  <2>3. CASE ~Step(r, "work")
    <3> DEFINE mark == \/ run[r].astray \/ prefixes[run[r].session].astray
                       \/ prefixes[run[r].session].settings # run[r].settings
    <3>1. mark \in BOOLEAN /\ (run[r].astray => mark)
      OBVIOUS
    <3>2. run' = [run EXCEPT ![r].at = "work", ![r].astray = mark]
      BY <2>3, Zenon DEF GetPrefix
    <3> HIDE DEF mark
    <3> QED
      BY <2>2, <3>1, <3>2
  <2> QED
    BY <2>1, <2>3
<1>2. prefixes' \in [Sessions -> PrefixTypes \cup {Nothing}]
  <2>1. CASE prefixes' = prefixes
    BY <2>1 DEF CacheInv, TablesOK
  <2>2. CASE /\ prefixes[run[r].session] # Nothing
             /\ prefixes' = [prefixes EXCEPT ![run[r].session].old = FALSE]
    BY <2>2 DEF CacheInv, TablesOK, PrefixTypes
  <2> QED
    BY <2>1, <2>2 DEF GetPrefix
<1>3. \A s \in Sessions : prefixes'[s] # Nothing =>
        /\ prefixes[s] # Nothing
        /\ prefixes'[s].settings = prefixes[s].settings
        /\ prefixes'[s].astray = prefixes[s].astray
  BY DEF CacheInv, GetPrefix, TablesOK, PrefixTypes
<1>4. TablesOK'
  BY <1>1, <1>2 DEF CacheInv, GetPrefix, TablesOK
<1>5. PrefixesInForce'
  BY <1>3 DEF CacheInv, GetPrefix, PrefixesInForce, InForce, PrefixesAhead
<1>6. AnswersInForce'
  BY DEF CacheInv, GetPrefix, AnswersInForce, InForce, ResponsesAhead
<1> QED
  BY <1>1, <1>4, <1>5, <1>6 DEF CacheInv

\* A prefix is as much in force as the run that stores it.
LEMMA StorePrefixKeeps ==
  ASSUME CacheInv, NEW r \in Runs, StorePrefix(r)
  PROVE  CacheInv'
<1>1. run' \in [Runs -> RunTypes] /\ RunsInForce'
  BY StepKeepsRuns DEF StorePrefix
<1>2. PrefixEntry(r) \in PrefixTypes /\ (InForce(PrefixEntry(r)) \/ PrefixesAhead)
  BY StoredInForce DEF CacheInv, StorePrefix, TablesOK, RunTypes, PrefixEntry,
     PrefixTypes, InForce
<1>3. /\ prefixes' \in [Sessions -> PrefixTypes \cup {Nothing}]
      /\ \A s \in Sessions : prefixes'[s] \in {prefixes[s], PrefixEntry(r), Nothing}
  <2>1. CASE UNCHANGED prefixes
    BY <2>1 DEF CacheInv, TablesOK
  <2>2. CASE prefixes' = Put(prefixes, prefixOrder, run[r].session, PrefixEntry(r), PrefixMax)[1]
    <3> DEFINE V == PrefixTypes \cup {Nothing}
    <3>1. prefixes \in [Sessions -> V] /\ PrefixEntry(r) \in V /\ Nothing \in V
      BY <1>2 DEF CacheInv, TablesOK
    <3> HIDE DEF V
    <3>2. PICK new, put : new = PrefixEntry(r) /\ put = Put(prefixes, prefixOrder, run[r].session, new, PrefixMax)[1]
      OBVIOUS
    <3>3. put \in [Sessions -> V] /\ \A y \in Sessions : put[y] \in {prefixes[y], new, Nothing}
      BY <3>1, <3>2, PutInTable
    <3>4. prefixes' = put
      BY <2>2, <3>2
    <3> QED
      BY <3>2, <3>3, <3>4 DEF V
  <2>3. \/ UNCHANGED prefixes
        \/ prefixes' = Put(prefixes, prefixOrder, run[r].session, PrefixEntry(r), PrefixMax)[1]
    BY DEF StorePrefix
  <2> QED
    BY <2>1, <2>2, <2>3
<1>4. TablesOK'
  BY <1>1, <1>3 DEF CacheInv, StorePrefix, TablesOK
<1>5. PrefixesInForce'
  BY <1>2, <1>3 DEF CacheInv, StorePrefix, PrefixesInForce, InForce, PrefixesAhead
<1>6. AnswersInForce'
  BY DEF CacheInv, StorePrefix, AnswersInForce, InForce, ResponsesAhead
<1> QED
  BY <1>1, <1>4, <1>5, <1>6 DEF CacheInv

\* An answer is as much in force as the run that stores it.
LEMMA StoreResponseKeeps ==
  ASSUME CacheInv, NEW r \in Runs, StoreResponse(r)
  PROVE  CacheInv'
<1>1. run' \in [Runs -> RunTypes] /\ RunsInForce'
  BY EndKeepsRuns DEF StoreResponse
<1>2. Entry(r) \in EntryTypes /\ (InForce(Entry(r)) \/ ResponsesAhead)
  BY StoredInForce DEF CacheInv, StoreResponse, TablesOK, RunTypes, Entry, EntryTypes,
     InForce
<1>3. /\ responses' \in [Keys -> EntryTypes \cup {Nothing}]
      /\ \A k \in Keys : responses'[k] \in {responses[k], Entry(r), Nothing}
  <2>1. CASE UNCHANGED responses
    BY <2>1 DEF CacheInv, TablesOK
  <2>2. CASE responses' = Put(responses, responseOrder, run[r].key, Entry(r), ResponseMax)[1]
    <3> DEFINE V == EntryTypes \cup {Nothing}
    <3>1. responses \in [Keys -> V] /\ Entry(r) \in V /\ Nothing \in V
      BY <1>2 DEF CacheInv, TablesOK
    <3> HIDE DEF V
    <3>2. PICK new, put : new = Entry(r) /\ put = Put(responses, responseOrder, run[r].key, new, ResponseMax)[1]
      OBVIOUS
    <3>3. put \in [Keys -> V] /\ \A y \in Keys : put[y] \in {responses[y], new, Nothing}
      BY <3>1, <3>2, PutInTable
    <3>4. responses' = put
      BY <2>2, <3>2
    <3> QED
      BY <3>2, <3>3, <3>4 DEF V
  <2>3. \/ UNCHANGED responses
        \/ responses' = Put(responses, responseOrder, run[r].key, Entry(r), ResponseMax)[1]
    BY DEF StoreResponse
  <2> QED
    BY <2>1, <2>2, <2>3
<1>4. TablesOK'
  BY <1>1, <1>3 DEF CacheInv, StoreResponse, TablesOK
<1>5. AnswersInForce'
  BY <1>2, <1>3 DEF CacheInv, StoreResponse, AnswersInForce, InForce, ResponsesAhead
<1>6. PrefixesInForce'
  BY DEF CacheInv, StoreResponse, PrefixesInForce, InForce, PrefixesAhead
<1> QED
  BY <1>1, <1>4, <1>5, <1>6 DEF CacheInv

-----------------------------------------------------------------------------

\* Saving puts both clears ahead, and the application of what is saved.
LEMMA SaveSettingsKeeps ==
  ASSUME CacheInv, NEW u \in Changers, SaveSettings(u)
  PROVE  CacheInv'
<1>1. /\ saved' = saved + 1 /\ changes' = changes + 1
      /\ saved' \in 0 .. MaxChanges /\ changes' \in 0 .. MaxChanges /\ saved' <= changes'
  <2>1. /\ saved \in Int /\ 0 <= saved /\ saved <= changes /\ changes \in Int
        /\ changes < MaxChanges /\ MaxChanges \in Int
    BY CacheAssumption DEF CacheInv, SaveSettings, TablesOK
  <2>2. saved' = saved + 1 /\ changes' = changes + 1
    BY DEF SaveSettings
  <2> QED
    BY <2>1, <2>2
<1>2. /\ changer' = [changer EXCEPT ![u] = [at |-> "apply", change |-> saved']]
      /\ changer' \in [Changers -> ChangerTypes]
      /\ changer'[u].at = "apply" /\ changer'[u].change = saved'
  BY <1>1 DEF CacheInv, SaveSettings, TablesOK, ChangerTypes
<1>3. TablesOK'
  BY <1>1, <1>2 DEF CacheInv, SaveSettings, TablesOK
<1>4. ResponsesAhead' /\ PrefixesAhead' /\ ~Drifted'
  BY <1>2 DEF ResponsesAhead, PrefixesAhead, Drifted
<1>5. RunsInForce'
  BY <1>4 DEF CacheInv, SaveSettings, RunsInForce, OnCourse
<1> QED
  BY <1>3, <1>4, <1>5 DEF CacheInv, AnswersInForce, PrefixesInForce

\* Applying marks what runs, and leaves both clears ahead.
LEMMA ApplySettingsKeeps ==
  ASSUME CacheInv, NEW u \in Changers, ApplySettings(u)
  PROVE  CacheInv'
<1>1. PICK under : under = Under(applied')
  OBVIOUS
<1>2. run' = under /\ applied' = changer[u].change /\ changer[u].at = "apply"
  BY <1>1 DEF ApplySettings
<1>3. TablesOK /\ changer \in [Changers -> ChangerTypes] /\ 0 \in 0 .. MaxChanges
  BY CacheAssumption DEF CacheInv, TablesOK
<1>4. run' \in [Runs -> RunTypes] /\ \A r \in Runs : run'[r].at = run[r].at
  <2>1. Marked(under, applied')
    BY <1>1, <1>3, UnderFacts
  <2> QED
    BY <1>2, <2>1 DEF Marked
<1>5. /\ changer' = [changer EXCEPT ![u] = [at |-> "prefixes", change |-> 0]]
      /\ changer' \in [Changers -> ChangerTypes] /\ changer'[u].at = "prefixes"
  BY <1>3 DEF ApplySettings, ChangerTypes
<1>6. TablesOK'
  BY <1>2, <1>3, <1>4, <1>5 DEF ApplySettings, TablesOK, ChangerTypes
<1>7. applied' = applied /\ Drifted' => Drifted
  BY <1>2, <1>3, <1>5 DEF ApplySettings, Drifted
<1>8. RunsInForce'
  BY <1>1, <1>2, <1>4, <1>7, UnderKeepsRuns
<1>9. (ResponsesAhead /\ PrefixesAhead)'
  BY <1>5 DEF ResponsesAhead, PrefixesAhead
<1> QED
  BY <1>6, <1>8, <1>9 DEF CacheInv, AnswersInForce, PrefixesInForce

\* A report applies what the file holds or held.
LEMMA ReapplyKeepsAll ==
  ASSUME CacheInv, NEW settings \in 0 .. saved, Reapply(settings),
         changer' \in [Changers -> ChangerTypes],
         \A v \in Changers : changer[v].at # "report" => changer'[v] = changer[v],
         UNCHANGED <<responses, prefixes, saved, changes>>,
         run' \in [Runs -> RunTypes],
         NEW under, under = Under(settings),
         \A r \in Runs : \/ run'[r].at = "idle"
                         \/ /\ run[r].at # "idle"
                            /\ run'[r].settings = under[r].settings
                            /\ under[r].astray => run'[r].astray
  PROVE  CacheInv'
<1>1. applied' = settings /\ settings \in 0 .. MaxChanges
  <2>1. saved \in 0 .. MaxChanges /\ MaxChanges \in Nat
    BY CacheAssumption DEF CacheInv, TablesOK
  <2> QED
    BY <2>1 DEF Reapply
<1>2. TablesOK'
  BY <1>1 DEF CacheInv, TablesOK
<1>3. /\ ResponsesAhead => ResponsesAhead'
      /\ PrefixesAhead => PrefixesAhead'
      /\ applied' = applied /\ Drifted' => Drifted
  BY DEF ResponsesAhead, PrefixesAhead, Drifted
<1>4. under = Under(applied')
  BY <1>1
<1>5. RunsInForce'
  BY <1>3, <1>4, UnderKeepsRuns
<1>6. AnswersInForce' /\ PrefixesInForce'
  BY <1>3, AnswersStay, PrefixesStay DEF CacheInv
<1> QED
  BY <1>2, <1>5, <1>6 DEF CacheInv

\* So does a run, or a hit, that reports.
LEMMA ReportKeeps ==
  ASSUME CacheInv, NEW r \in Runs, Report(r)
  PROVE  CacheInv' /\ (RunsKnown => RunsKnown')
<1>1. PICK settings \in 0 .. saved :
        /\ Reapply(settings)
        /\ \/ run[r].at = "hit" /\ run' = [Under(settings) EXCEPT ![r] = Idle]
           \/ run[r].at = "work" /\ run' = [Under(settings) EXCEPT ![r].at = "keep"]
  BY DEF Report
<1>2. PICK under : under = Under(settings)
  OBVIOUS
<1>3. TablesOK
  BY DEF CacheInv
<1>4. /\ under \in [Runs -> RunTypes]
      /\ \A q \in Runs : under[q].at = run[q].at /\ under[q].key = run[q].key
                          /\ under[q].session = run[q].session
  <2>1. Marked(under, settings)
    BY <1>2, <1>3, UnderFacts
  <2> QED
    BY <2>1 DEF Marked
<1>5. PICK new : /\ run' = [under EXCEPT ![r] = new] /\ run[r].at # "idle"
                 /\ new \in RunTypes
                 /\ \/ new.at = "idle"
                    \/ /\ new.at = "keep" /\ new.key = run[r].key
                       /\ new.settings = under[r].settings
                       /\ new.astray = under[r].astray
  <2>1. CASE run[r].at = "hit" /\ run' = [under EXCEPT ![r] = Idle]
    <3>1. run[r].at # "idle" /\ Idle \in RunTypes /\ Idle.at = "idle"
      BY <2>1, AtRest DEF Idle
    <3> WITNESS Idle
    <3> QED
      BY <2>1, <3>1
  <2>2. CASE run[r].at = "work" /\ run' = [under EXCEPT ![r].at = "keep"]
    <3>1. PICK new : new = [under[r] EXCEPT !.at = "keep"]
      OBVIOUS
    <3>2. run' = [under EXCEPT ![r] = new]
      BY <1>4, <2>2, <3>1
    <3>3. /\ new \in RunTypes /\ new.at = "keep" /\ new.key = under[r].key
          /\ new.settings = under[r].settings /\ new.astray = under[r].astray
      BY <1>4, <3>1 DEF RunTypes
    <3> QED
      BY <1>4, <2>2, <3>2, <3>3
  <2> QED
    BY <1>1, <1>2, <2>1, <2>2
<1>6. run' \in [Runs -> RunTypes] /\ run'[r] = new /\ \A q \in Runs \ {r} : run'[q] = under[q]
  BY <1>4, <1>5
<1>7. \A q \in Runs : \/ run'[q].at = "idle"
                      \/ /\ run[q].at # "idle"
                         /\ run'[q].settings = under[q].settings
                         /\ under[q].astray => run'[q].astray
  BY <1>4, <1>5, <1>6
<1>8. changer \in [Changers -> ChangerTypes] /\ UNCHANGED <<responses, prefixes, changer, saved, changes>>
  BY <1>3 DEF TablesOK, Report
<1>9. CacheInv'
  BY <1>1, <1>2, <1>6, <1>7, <1>8, ReapplyKeepsAll
<1>10. RunsKnown => RunsKnown'
  BY <1>4, <1>5, <1>6 DEF RunsKnown
<1> QED
  BY <1>9, <1>10

\* And a change that reports, or a poll.
LEMMA PollKeeps ==
  ASSUME CacheInv, NEW settings \in 0 .. saved, Reapply(settings),
         run' = Under(settings), changer' \in [Changers -> ChangerTypes],
         \A v \in Changers : changer[v].at # "report" => changer'[v] = changer[v],
         UNCHANGED <<responses, prefixes, saved, changes>>
  PROVE  CacheInv' /\ (RunsKnown => RunsKnown')
<1>1. PICK under : under = Under(settings)
  OBVIOUS
<1>2. TablesOK
  BY DEF CacheInv
<1>3. /\ under \in [Runs -> RunTypes]
      /\ \A q \in Runs : under[q].at = run[q].at /\ under[q].key = run[q].key
                          /\ under[q].session = run[q].session
  <2>1. Marked(under, settings)
    BY <1>1, <1>2, UnderFacts
  <2> QED
    BY <2>1 DEF Marked
<1>4. run' = under
  BY <1>1
<1>5. CacheInv'
  BY <1>1, <1>3, <1>4, ReapplyKeepsAll
<1>6. RunsKnown => RunsKnown'
  BY <1>3, <1>4 DEF RunsKnown
<1> QED
  BY <1>5, <1>6

LEMMA ReportChangeKeeps ==
  ASSUME CacheInv, NEW u \in Changers, ReportChange(u)
  PROVE  CacheInv' /\ (RunsKnown => RunsKnown')
<1>1. PICK settings \in 0 .. saved : Reapply(settings) /\ run' = Under(settings)
  BY DEF ReportChange
<1>2. changer \in [Changers -> ChangerTypes] /\ changer[u].at = "report"
  BY DEF CacheInv, TablesOK, ReportChange
<1>3. /\ changer' \in [Changers -> ChangerTypes]
      /\ \A v \in Changers : changer[v].at # "report" => changer'[v] = changer[v]
  BY <1>2, AtRest DEF ReportChange
<1>4. UNCHANGED <<responses, prefixes, saved, changes>>
  BY DEF ReportChange
<1> QED
  BY <1>1, <1>3, <1>4, PollKeeps

\* A stop puts nothing in force.
LEMMA StopClearsKeeps ==
  ASSUME CacheInv, NEW u \in Changers, StopClears(u)
  PROVE  CacheInv'
<1>1. changes + 1 \in 0 .. MaxChanges
  <2>1. changes < MaxChanges /\ changes \in 0 .. MaxChanges
    BY DEF CacheInv, StopClears, TablesOK
  <2> QED
    BY <2>1, CacheAssumption
<1>2. TablesOK'
  BY <1>1 DEF CacheInv, StopClears, TablesOK, ChangerTypes
<1>3. RunsInForce'
  BY DEF CacheInv, StopClears, TablesOK, RunsInForce, OnCourse, Drifted
<1>4. (AnswersInForce /\ PrefixesInForce)'
  BY DEF CacheInv, StopClears, TablesOK, AnswersInForce, PrefixesInForce, InForce,
     ResponsesAhead, PrefixesAhead
<1> QED
  BY <1>2, <1>3, <1>4 DEF CacheInv

\* Who clears the prefixes first has the answers still ahead.
LEMMA ClearPrefixesKeeps ==
  ASSUME CacheInv, NEW u \in Changers, ClearPrefixes(u)
  PROVE  CacheInv'
<1>1. TablesOK'
  <2>1. changer' \in [Changers -> ChangerTypes]
    BY AtRest DEF CacheInv, ClearPrefixes, TablesOK, ChangerTypes
  <2> QED
    BY <2>1 DEF CacheInv, ClearPrefixes, TablesOK
<1>2. RunsInForce'
  <2>1. Drifted' => Drifted
    BY DEF CacheInv, ClearPrefixes, TablesOK, Drifted
  <2> QED
    BY <2>1 DEF CacheInv, ClearPrefixes, RunsInForce, OnCourse
<1>3. ResponsesAhead => ResponsesAhead'
  BY DEF CacheInv, ClearPrefixes, TablesOK, ChangerTypes, Resting, ResponsesAhead
<1>4. AnswersInForce'
  BY <1>3 DEF CacheInv, ClearPrefixes, AnswersInForce, InForce
<1>5. PrefixesInForce'
  BY DEF ClearPrefixes, PrefixesInForce
<1> QED
  BY <1>1, <1>2, <1>4, <1>5 DEF CacheInv

\* Who clears the answers first has the prefixes still ahead.
LEMMA ClearResponsesKeeps ==
  ASSUME CacheInv, NEW u \in Changers, ClearResponses(u)
  PROVE  CacheInv'
<1>1. TablesOK'
  <2>1. changer' \in [Changers -> ChangerTypes]
    BY AtRest DEF CacheInv, ClearResponses, TablesOK, ChangerTypes
  <2> QED
    BY <2>1 DEF CacheInv, ClearResponses, TablesOK
<1>2. RunsInForce'
  <2>1. Drifted' => Drifted
    BY DEF CacheInv, ClearResponses, TablesOK, Drifted
  <2> QED
    BY <2>1 DEF CacheInv, ClearResponses, RunsInForce, OnCourse
<1>3. PrefixesAhead => PrefixesAhead'
  BY DEF CacheInv, ClearResponses, TablesOK, ChangerTypes, Resting, PrefixesAhead
<1>4. PrefixesInForce'
  BY <1>3 DEF CacheInv, ClearResponses, PrefixesInForce, InForce
<1>5. AnswersInForce'
  BY DEF ClearResponses, AnswersInForce
<1> QED
  BY <1>1, <1>2, <1>4, <1>5 DEF CacheInv

\* An entry that grows old keeps its settings and its mark.
LEMMA ExpireKeeps ==
  ASSUME CacheInv, Expire
  PROVE  CacheInv'
<1>1. RunsInForce'
  BY DEF CacheInv, Expire, RunsInForce, OnCourse, Drifted
<1>2. ASSUME NEW k \in Keys, responses[k] # Nothing,
             responses' = [responses EXCEPT ![k].old = TRUE], UNCHANGED prefixes
      PROVE  CacheInv'
  <2>1. responses' \in [Keys -> EntryTypes \cup {Nothing}]
    BY <1>2 DEF CacheInv, TablesOK, EntryTypes
  <2>2. \A j \in Keys : responses'[j] # Nothing =>
          /\ responses[j] # Nothing
          /\ responses'[j].settings = responses[j].settings
          /\ responses'[j].astray = responses[j].astray
    BY <1>2 DEF CacheInv, TablesOK, EntryTypes
  <2> QED
    BY <1>1, <1>2, <2>1, <2>2
    DEF CacheInv, Expire, TablesOK, AnswersInForce, PrefixesInForce, InForce,
       ResponsesAhead, PrefixesAhead
<1>3. ASSUME NEW s \in Sessions, prefixes[s] # Nothing,
             prefixes' = [prefixes EXCEPT ![s].old = TRUE], UNCHANGED responses
      PROVE  CacheInv'
  <2>1. prefixes' \in [Sessions -> PrefixTypes \cup {Nothing}]
    BY <1>3 DEF CacheInv, TablesOK, PrefixTypes
  <2>2. \A j \in Sessions : prefixes'[j] # Nothing =>
          /\ prefixes[j] # Nothing
          /\ prefixes'[j].settings = prefixes[j].settings
          /\ prefixes'[j].astray = prefixes[j].astray
    BY <1>3 DEF CacheInv, TablesOK, PrefixTypes
  <2> QED
    BY <1>1, <1>3, <2>1, <2>2
    DEF CacheInv, Expire, TablesOK, AnswersInForce, PrefixesInForce, InForce,
       ResponsesAhead, PrefixesAhead
<1> QED
  BY <1>2, <1>3 DEF Expire

-----------------------------------------------------------------------------
\* No step spoils it.
LEMMA CacheStep == CacheInv /\ [CNext]_cVars => CacheInv'
<1> SUFFICES ASSUME CacheInv, [CNext]_cVars PROVE CacheInv'
  OBVIOUS
<1>1. ASSUME NEW r \in Runs,
             \/ StartRun(r) \/ LookupResponse(r) \/ CleanPrefixes(r)
             \/ GetPrefix(r) \/ Report(r) \/ StorePrefix(r) \/ StoreResponse(r)
      PROVE  CacheInv'
  BY <1>1, StartRunKeeps, LookupResponseKeeps, CleanPrefixesKeeps, GetPrefixKeeps,
     ReportKeeps, StorePrefixKeeps, StoreResponseKeeps
<1>2. ASSUME NEW u \in Changers,
             \/ SaveSettings(u) \/ ApplySettings(u) \/ StopClears(u)
             \/ ClearPrefixes(u) \/ ClearResponses(u) \/ ReportChange(u)
      PROVE  CacheInv'
  BY <1>2, SaveSettingsKeeps, ApplySettingsKeeps, StopClearsKeeps,
     ClearPrefixesKeeps, ClearResponsesKeeps, ReportChangeKeeps
<1>3. CASE Poll
  BY <1>3, PollKeeps DEF Poll, CacheInv, TablesOK
<1>4. CASE UNCHANGED cVars
  BY <1>4 DEF cVars, CacheInv, TablesOK, RunsInForce, AnswersInForce, PrefixesInForce,
     InForce, OnCourse, Drifted, ResponsesAhead, PrefixesAhead
<1> QED
  BY <1>1, <1>2, <1>3, <1>4, ExpireKeeps DEF CNext

\* What the web server caches (main.py) is in force, marked, or about to be
\* cleared, in every state.
THEOREM CacheInvariance == CSpec => []CacheInv
BY CacheInitially, CacheStep, PTL DEF CSpec

-----------------------------------------------------------------------------
(***************************************************************************)
(* ChatCaches: the orders list what is in the tables, once, and no more    *)
(* than the limits allow.                                                  *)
(***************************************************************************)
\* An element taken from its place and put at the end.
LEMMA MoveFacts ==
  ASSUME NEW S, NEW order \in Seq(S), Once(order), NEW x \in S,
         NEW full, full = MovedToEnd(order, x)
  PROVE  /\ full \in Seq(S) /\ Len(full) \in Nat
         /\ Len(full) <= Len(order) + 1 /\ (Lists(order, x) => Len(full) <= Len(order))
         /\ Once(full)
         /\ \A y : Lists(full, y) <=> y = x \/ Lists(order, y)
<1>1. PICK q : q = Without(order, x)
  OBVIOUS
<1>2. /\ q \in Seq(S) /\ Len(q) \in Nat /\ Len(q) <= Len(order)
      /\ Lists(order, x) => Len(q) < Len(order)
      /\ \A y : Lists(q, y) <=> y # x /\ Lists(order, y)
      /\ Once(q)
  <2>1. PICK gone : gone = {x} /\ q = WithoutAll(order, gone)
    BY <1>1 DEF Without
  <2>2. /\ q \in Seq(S) /\ Len(q) \in Nat /\ Len(q) <= Len(order)
        /\ (\E y \in gone : Lists(order, y)) => Len(q) < Len(order)
        /\ \A y : Lists(q, y) <=> y \notin gone /\ Lists(order, y)
        /\ Once(order) => Once(q)
    BY <2>1, WithoutAllFacts
  <2> QED BY <2>1, <2>2
<1>3. /\ full \in Seq(S) /\ Len(full) = Len(q) + 1 /\ full[Len(q) + 1] = x
      /\ \A i \in 1 .. Len(q) : full[i] = q[i]
  BY <1>1, <1>2, AppendProperties DEF MovedToEnd
<1>4. Len(order) \in Nat
  BY LenProperties
<1>5. Once(full)
  <2> SUFFICES ASSUME NEW i \in 1 .. Len(full), NEW j \in 1 .. Len(full), full[i] = full[j]
               PROVE  i = j
    BY DEF Once
  <2>1. \A n \in 1 .. Len(q) : full[n] = q[n] /\ q[n] # x
    BY <1>2, <1>3 DEF Lists
  <2>2. (i \in 1 .. Len(q) \/ i = Len(q) + 1) /\ (j \in 1 .. Len(q) \/ j = Len(q) + 1)
    BY <1>2, <1>3
  <2> QED BY <1>2, <1>3, <2>1, <2>2 DEF Once
<1>6. \A y : Lists(full, y) <=> y = x \/ Lists(order, y)
  <2> TAKE y
  <2>1. Lists(full, y) <=> y = x \/ Lists(q, y)
    BY <1>2, <1>3 DEF Lists
  <2> QED BY <1>2, <2>1
<1> QED BY <1>2, <1>3, <1>4, <1>5, <1>6

\* The same of the list as a value.
LEMMA Moved ==
  ASSUME NEW S, NEW order \in Seq(S), Once(order), NEW x \in S
  PROVE  \E full \in Seq(S) :
            /\ full = MovedToEnd(order, x) /\ Len(full) \in Nat
            /\ Len(full) <= Len(order) + 1 /\ (Lists(order, x) => Len(full) <= Len(order))
            /\ Once(full)
            /\ \A y : Lists(full, y) <=> y = x \/ Lists(order, y)
<1>1. PICK full : full = MovedToEnd(order, x)
  OBVIOUS
<1>2. /\ full \in Seq(S) /\ Len(full) \in Nat
      /\ Len(full) <= Len(order) + 1 /\ (Lists(order, x) => Len(full) <= Len(order))
      /\ Once(full)
      /\ \A y : Lists(full, y) <=> y = x \/ Lists(order, y)
  BY <1>1, MoveFacts
<1> QED BY <1>1, <1>2

\* A use moves an entry and takes none away.
LEMMA UseKeepsMatch ==
  ASSUME NEW S, NEW order \in Seq(S), NEW table, DOMAIN table = S, NEW max \in Nat,
         Matches(table, order, max), NEW x \in S, table[x] # Nothing,
         NEW new, DOMAIN new = S, \A y \in S : new[y] # Nothing <=> table[y] # Nothing
  PROVE  /\ MovedToEnd(order, x) \in Seq(S)
         /\ Matches(new, MovedToEnd(order, x), max)
<1>2. /\ Len(order) <= max /\ Once(order) /\ Len(order) \in Nat
      /\ \A y \in S : table[y] # Nothing <=> Lists(order, y)
  BY LenProperties DEF Matches
<1>3. PICK full \in Seq(S) :
      /\ full = MovedToEnd(order, x) /\ Len(full) \in Nat /\ (Lists(order, x) => Len(full) <= Len(order))
      /\ Once(full) /\ \A y : Lists(full, y) <=> y = x \/ Lists(order, y)
  BY <1>2, Moved
<1>4. Len(full) <= max
  BY <1>2, <1>3
<1>5. \A y \in S : new[y] # Nothing <=> Lists(full, y)
  BY <1>2, <1>3
<1> QED BY <1>3, <1>4, <1>5 DEF Matches

\* Entries that go are taken from the order.
LEMMA RemovalKeepsMatch ==
  ASSUME NEW S, NEW order \in Seq(S), NEW table, DOMAIN table = S, NEW max \in Nat,
         Matches(table, order, max), NEW gone,
         NEW new, DOMAIN new = S,
         \A y \in S : new[y] # Nothing <=> table[y] # Nothing /\ y \notin gone
  PROVE  WithoutAll(order, gone) \in Seq(S) /\ Matches(new, WithoutAll(order, gone), max)
<1>1. PICK q : q = WithoutAll(order, gone)
  OBVIOUS
<1>2. /\ Len(order) <= max /\ Once(order) /\ Len(order) \in Nat
      /\ \A y \in S : table[y] # Nothing <=> Lists(order, y)
  BY LenProperties DEF Matches
<1>3. /\ q \in Seq(S) /\ Len(q) \in Nat /\ Len(q) <= Len(order) /\ Once(q)
      /\ \A y : Lists(q, y) <=> y \notin gone /\ Lists(order, y)
  BY <1>1, <1>2, WithoutAllFacts
<1>4. Len(q) <= max
  BY <1>2, <1>3
<1>5. \A y \in S : new[y] # Nothing <=> Lists(q, y)
  BY <1>2, <1>3
<1> QED BY <1>1, <1>3, <1>4, <1>5 DEF Matches

\* A store makes room, if it has to, by the first of the order.
LEMMA PutMatches ==
  ASSUME NEW S, NEW order \in Seq(S), NEW table, DOMAIN table = S, NEW max \in Nat \ {0},
         Matches(table, order, max), NEW x \in S, NEW entry, entry # Nothing,
         NEW put, put = Put(table, order, x, entry, max)
  PROVE  put[2] \in Seq(S) /\ Matches(put[1], put[2], max)
<1>1. PICK new : new = [table EXCEPT ![x] = entry]
  OBVIOUS
<1>2. /\ Len(order) <= max /\ Once(order) /\ Len(order) \in Nat
      /\ \A y \in S : table[y] # Nothing <=> Lists(order, y)
  BY LenProperties DEF Matches
<1>3. PICK full \in Seq(S) :
      /\ full = MovedToEnd(order, x) /\ Len(full) \in Nat
      /\ Len(full) <= Len(order) + 1 /\ Once(full)
      /\ \A y : Lists(full, y) <=> y = x \/ Lists(order, y)
  BY <1>2, Moved
<1>4. DOMAIN new = S /\ \A y \in S : new[y] # Nothing <=> Lists(full, y)
  BY <1>1, <1>2, <1>3
<1>5. CASE Len(full) > max
  <2>1. put = <<[new EXCEPT ![Head(full)] = Nothing], Tail(full)>>
    BY <1>1, <1>3, <1>5 DEF Put
  <2>2. PICK first, rest : first = Head(full) /\ rest = Tail(full)
    OBVIOUS
  <2>3. /\ first = full[1] /\ rest \in Seq(S) /\ Len(rest) = Len(full) - 1
        /\ \A i \in 1 .. Len(rest) : rest[i] = full[i + 1]
    <3>1. full # <<>>
      BY <1>3, <1>5
    <3> QED BY <1>3, <2>2, <3>1, HeadTailProperties
  <2>4. Len(rest) <= max /\ Len(rest) \in Nat
    BY <1>2, <1>3, <2>3
  <2>5. Once(rest)
    <3> SUFFICES ASSUME NEW i \in 1 .. Len(rest), NEW j \in 1 .. Len(rest), rest[i] = rest[j]
                 PROVE  i = j
      BY DEF Once
    <3>1. i + 1 \in 1 .. Len(full) /\ j + 1 \in 1 .. Len(full) /\ full[i + 1] = full[j + 1]
      BY <1>3, <2>3
    <3>2. i + 1 = j + 1
      BY <1>3, <3>1 DEF Once
    <3> QED BY <2>4, <3>2
  <2>6. \A y : Lists(rest, y) <=> y # first /\ Lists(full, y)
    <3> TAKE y
    <3>1. ASSUME NEW i \in 1 .. Len(rest), rest[i] = y PROVE y # first /\ Lists(full, y)
      <4>1. i + 1 \in 1 .. Len(full) /\ 1 \in 1 .. Len(full) /\ i + 1 # 1
        BY <1>3, <2>3, <2>4
      <4>2. full[i + 1] = y
        BY <2>3, <3>1
      <4> QED BY <1>3, <2>3, <4>1, <4>2 DEF Lists, Once
    <3>2. ASSUME y # first, NEW i \in 1 .. Len(full), full[i] = y PROVE Lists(rest, y)
      <4>1. i # 1
        BY <2>3, <3>2
      <4>2. i - 1 \in 1 .. Len(rest) /\ (i - 1) + 1 = i
        BY <1>3, <2>3, <4>1
      <4>3. rest[i - 1] = y
        BY <2>3, <3>2, <4>2
      <4> QED BY <4>2, <4>3 DEF Lists
    <3> QED BY <3>1, <3>2 DEF Lists
  <2>7. first \in S
    BY <1>3, <2>3, ElementOfSeq
  <2>8. PICK out : out = [new EXCEPT ![first] = Nothing]
    OBVIOUS
  <2>9. DOMAIN out = S /\ \A y \in S : out[y] # Nothing <=> Lists(rest, y)
    BY <1>4, <2>6, <2>7, <2>8
  <2>10. Matches(out, rest, max)
    BY <2>4, <2>5, <2>9 DEF Matches
  <2>11. put[1] = out /\ put[2] = rest
    BY <2>1, <2>2, <2>8
  <2> QED BY <2>3, <2>10, <2>11
<1>6. CASE ~(Len(full) > max)
  <2>1. put = <<new, full>>
    BY <1>1, <1>3, <1>6 DEF Put
  <2>2. Len(full) <= max
    BY <1>3, <1>6
  <2>3. Matches(new, full, max)
    BY <1>3, <1>4, <2>2 DEF Matches
  <2> QED BY <1>3, <2>1, <2>3
<1> QED BY <1>5, <1>6

\* An empty order matches an empty table.
LEMMA EmptyMatches ==
  ASSUME NEW S, NEW max \in Nat
  PROVE  <<>> \in Seq(S) /\ Matches([x \in S |-> Nothing], <<>>, max)
<1>1. PICK none : none = [x \in S |-> Nothing]
  OBVIOUS
<1>2. Len(<<>>) = 0 /\ <<>> \in Seq(S)
  OBVIOUS
<1>3. Once(<<>>) /\ \A x : ~Lists(<<>>, x)
  BY <1>2 DEF Once, Lists
<1>4. 0 <= max
  OBVIOUS
<1>5. DOMAIN none = S /\ \A x \in S : none[x] = Nothing
  BY <1>1
<1>6. Matches(none, <<>>, max)
  BY <1>2, <1>3, <1>4, <1>5 DEF Matches
<1> QED BY <1>1, <1>2, <1>6

\* A change of entries that removes none.
LEMMA SameMatches ==
  ASSUME NEW table, NEW order, NEW max, Matches(table, order, max), NEW new,
         DOMAIN new = DOMAIN table, \A y \in DOMAIN table : new[y] # Nothing <=> table[y] # Nothing
  PROVE  Matches(new, order, max)
  BY DEF Matches

OrdersKept == /\ responseOrder \in Seq(Keys) /\ prefixOrder \in Seq(Sessions)
              /\ runs \in 0 .. MaxRuns /\ expiries \in 0 .. MaxExpiries
              /\ RunsKnown /\ OrderMatchesTable

\* What the types say of the tables and the limits.
LEMMA TableFacts ==
  ASSUME TablesOK
  PROVE  /\ DOMAIN responses = Keys /\ DOMAIN prefixes = Sessions
         /\ \A k \in Keys : responses[k] # Nothing => responses[k] \in EntryTypes
         /\ \A s \in Sessions : prefixes[s] # Nothing => prefixes[s] \in PrefixTypes
         /\ \A r \in Runs : run[r] \in RunTypes
         /\ ResponseMax \in Nat \ {0} /\ PrefixMax \in Nat \ {0}
  BY CacheAssumption DEF TablesOK

\* What a run stores is an entry.
LEMMA EntriesCount ==
  ASSUME TablesOK
  PROVE  \A r \in Runs : Entry(r) # Nothing /\ PrefixEntry(r) # Nothing
<1> SUFFICES ASSUME NEW r \in Runs PROVE Entry(r) # Nothing /\ PrefixEntry(r) # Nothing
  OBVIOUS
<1>1. run[r] \in RunTypes
  BY TableFacts
<1>2. Entry(r) \in EntryTypes /\ PrefixEntry(r) \in PrefixTypes
  BY <1>1 DEF RunTypes, Entry, PrefixEntry, EntryTypes, PrefixTypes
<1> QED BY <1>2, NothingAssumption

\* What does not touch the orders.
LEMMA OrdersUntouched ==
  ASSUME TablesOK, OrdersKept, RunsKnown', UNCHANGED <<responseOrder, prefixOrder>>,
         runs' \in 0 .. MaxRuns, expiries' \in 0 .. MaxExpiries,
         DOMAIN responses' = Keys, DOMAIN prefixes' = Sessions,
         \A k \in Keys : responses'[k] # Nothing <=> responses[k] # Nothing,
         \A s \in Sessions : prefixes'[s] # Nothing <=> prefixes[s] # Nothing
  PROVE  OrdersKept'
<1>1. Matches(responses, responseOrder, ResponseMax) /\ Matches(prefixes, prefixOrder, PrefixMax)
  BY DEF OrdersKept, OrderMatchesTable
<1>2. DOMAIN responses = Keys /\ DOMAIN prefixes = Sessions
  BY TableFacts
<1>3. Matches(responses', responseOrder, ResponseMax) /\ Matches(prefixes', prefixOrder, PrefixMax)
  BY <1>1, <1>2 DEF Matches
<1>4. OrderMatchesTable'
  BY <1>3 DEF OrderMatchesTable, Matches
<1> QED BY <1>4 DEF OrdersKept

\* What changes the answers only, and what changes the prefixes only.
LEMMA OrdersOfAnswers ==
  ASSUME OrdersKept, RunsKnown', UNCHANGED <<prefixes, prefixOrder, runs, expiries>>,
         responseOrder' \in Seq(Keys), Matches(responses', responseOrder', ResponseMax)
  PROVE  OrdersKept'
  BY DEF OrdersKept, OrderMatchesTable, Matches

LEMMA OrdersOfPrefixes ==
  ASSUME OrdersKept, RunsKnown', UNCHANGED <<responses, responseOrder, runs, expiries>>,
         prefixOrder' \in Seq(Sessions), Matches(prefixes', prefixOrder', PrefixMax)
  PROVE  OrdersKept'
  BY DEF OrdersKept, OrderMatchesTable, Matches

\* A run that goes on, or ends.
LEMMA KnownStep ==
  ASSUME TablesOK, RunsKnown, NEW r \in Runs, run[r].at # "idle",
         \/ run' = [run EXCEPT ![r] = Idle]
         \/ \E place \in {"hit", "prefix", "work", "store"} :
              run' = [run EXCEPT ![r].at = place]
         \/ run[r].session \in Sessions /\ run' = [run EXCEPT ![r].at = "get"]
         \/ \E mark : run' = [run EXCEPT ![r].at = "work", ![r].astray = mark]
  PROVE  RunsKnown'
<1>1. run \in [Runs -> RunTypes]
  BY DEF TablesOK
<1>2. \A q \in Runs \ {r} : run'[q] = run[q]
  BY <1>1
<1>3. CASE run' = [run EXCEPT ![r] = Idle]
  BY <1>1, <1>2, <1>3 DEF RunsKnown, Idle
<1>4. ASSUME NEW place \in {"hit", "prefix", "work", "store"},
             run' = [run EXCEPT ![r].at = place]
      PROVE  RunsKnown'
  <2>1. PICK new : new = [run[r] EXCEPT !.at = place]
    OBVIOUS
  <2>2. run' = [run EXCEPT ![r] = new]
    BY <1>1, <1>4, <2>1
  <2>3. new.at = place /\ new.key = run[r].key
    BY <1>1, <2>1 DEF RunTypes
  <2>4. run'[r].at = place /\ run'[r].key = run[r].key
    BY <1>1, <2>2, <2>3
  <2> QED BY <1>2, <1>4, <2>4 DEF RunsKnown
<1>5. CASE run[r].session \in Sessions /\ run' = [run EXCEPT ![r].at = "get"]
  <2>1. PICK new : new = [run[r] EXCEPT !.at = "get"]
    OBVIOUS
  <2>2. run' = [run EXCEPT ![r] = new]
    BY <1>1, <1>5, <2>1
  <2>3. new.session = run[r].session /\ new.key = run[r].key
    BY <1>1, <2>1 DEF RunTypes
  <2>4. run'[r].session = run[r].session /\ run'[r].key = run[r].key
    BY <1>1, <2>2, <2>3
  <2> QED BY <1>2, <1>5, <2>4 DEF RunsKnown
<1>6. ASSUME NEW mark, run' = [run EXCEPT ![r].at = "work", ![r].astray = mark]
      PROVE  RunsKnown'
  <2>1. PICK new : new = [run[r] EXCEPT !.at = "work", !.astray = mark]
    OBVIOUS
  <2>2. run' = [run EXCEPT ![r] = new]
    BY <1>1, <1>6, <2>1
  <2>3. new.at = "work" /\ new.key = run[r].key
    BY <1>1, <2>1 DEF RunTypes
  <2>4. run'[r].at = "work" /\ run'[r].key = run[r].key
    BY <1>1, <2>2, <2>3
  <2> QED BY <1>2, <1>6, <2>4 DEF RunsKnown
<1> QED BY <1>3, <1>4, <1>5, <1>6

\* A run starts with a key.
LEMMA OrdersStartRun ==
  ASSUME TablesOK, OrdersKept, NEW r \in Runs, StartRun(r)
  PROVE  OrdersKept'
<1>1. PICK q \in Requests :
        run' = [run EXCEPT ![r] = [at |-> "lookup", key |-> q.key,
                                   session |-> q.session, model |-> q.model,
                                   settings |-> applied, astray |-> Drifted]]
  BY Zenon DEF StartRun
<1>2. q.key \in Keys
  BY RequestAssumption
<1>3. run \in [Runs -> RunTypes] /\ RunsKnown
  BY DEF TablesOK, OrdersKept
<1>4. RunsKnown'
  BY <1>1, <1>2, <1>3 DEF RunsKnown
<1>5. runs' \in 0 .. MaxRuns
  BY CacheAssumption DEF StartRun, OrdersKept
<1> QED BY <1>4, <1>5, TableFacts, OrdersUntouched DEF StartRun, OrdersKept

\* A hit moves its entry to the end, an expired one goes (_get_cached_chat_response).
LEMMA OrdersLookupResponse ==
  ASSUME TablesOK, OrdersKept, NEW r \in Runs, LookupResponse(r) PROVE OrdersKept'
<1>1. PICK k : k = run[r].key
  OBVIOUS
<1>2. k \in Keys /\ run[r].at # "idle" /\ RunsKnown
  BY <1>1 DEF OrdersKept, RunsKnown, LookupResponse
<1>3. RunsKnown'
  BY <1>2, KnownStep DEF LookupResponse, Step
<1>4. /\ responseOrder \in Seq(Keys) /\ Matches(responses, responseOrder, ResponseMax)
      /\ DOMAIN responses = Keys /\ ResponseMax \in Nat
  BY TableFacts DEF OrdersKept, OrderMatchesTable
<1>5. UNCHANGED <<prefixes, prefixOrder, runs, expiries>>
  BY DEF LookupResponse
<1>6. CASE UNCHANGED <<responses, responseOrder>>
  BY <1>3, <1>4, <1>5, <1>6, OrdersOfAnswers DEF Matches
<1>7. CASE /\ responses' = [responses EXCEPT ![k] = Nothing]
           /\ responseOrder' = Without(responseOrder, k)
  <2>1. PICK gone : gone = {k} /\ responseOrder' = WithoutAll(responseOrder, gone)
    BY <1>7 DEF Without
  <2>2. /\ DOMAIN responses' = Keys
        /\ \A y \in Keys : responses'[y] # Nothing <=> responses[y] # Nothing /\ y \notin gone
    BY <1>2, <1>4, <1>7, <2>1
  <2>3. responseOrder' \in Seq(Keys) /\ Matches(responses', responseOrder', ResponseMax)
    BY <1>4, <2>1, <2>2, RemovalKeepsMatch
  <2> QED BY <1>3, <1>5, <2>3, OrdersOfAnswers
<1>8. CASE responses[k] # Nothing /\ responseOrder' = MovedToEnd(responseOrder, k) /\ UNCHANGED responses
  <2>1. responseOrder' \in Seq(Keys) /\ Matches(responses', responseOrder', ResponseMax)
    BY <1>2, <1>4, <1>8, UseKeepsMatch
  <2> QED BY <1>3, <1>5, <2>1, OrdersOfAnswers
<1> QED BY <1>1, <1>6, <1>7, <1>8 DEF LookupResponse

\* Expired prefixes leave the table and the order (_cleanup_session_prefixes).
LEMMA OrdersCleanPrefixes ==
  ASSUME TablesOK, OrdersKept, NEW r \in Runs, CleanPrefixes(r) PROVE OrdersKept'
<1>1. run[r].at # "idle" /\ RunsKnown /\ UNCHANGED <<responses, responseOrder, runs, expiries>>
  BY DEF OrdersKept, CleanPrefixes
<1>2. /\ prefixOrder \in Seq(Sessions) /\ Matches(prefixes, prefixOrder, PrefixMax)
      /\ DOMAIN prefixes = Sessions /\ PrefixMax \in Nat /\ run[r] \in RunTypes
  BY TableFacts DEF OrdersKept, OrderMatchesTable
<1>3. CASE run[r].session = Nothing
  <2>1. Step(r, "work") /\ UNCHANGED <<prefixes, prefixOrder>>
    BY <1>3 DEF CleanPrefixes
  <2>2. RunsKnown'
    BY <1>1, <2>1, KnownStep DEF Step
  <2> QED BY <1>1, <1>2, <2>1, <2>2, OrdersOfPrefixes DEF Matches
<1>4. CASE run[r].session # Nothing
  <2>1. PICK gone : gone = {s \in Sessions : prefixes[s] # Nothing /\ prefixes[s].old}
    OBVIOUS
  <2>2. /\ prefixes' = [s \in Sessions |-> IF s \in gone THEN Nothing ELSE prefixes[s]]
        /\ prefixOrder' = WithoutAll(prefixOrder, gone) /\ Step(r, "get")
    BY <1>4, <2>1 DEF CleanPrefixes
  <2>3. run[r].session \in Sessions
    BY <1>2, <1>4 DEF RunTypes
  <2>4. RunsKnown'
    BY <1>1, <2>2, <2>3, KnownStep DEF Step
  <2>5. /\ DOMAIN prefixes' = Sessions
        /\ \A y \in Sessions : prefixes'[y] # Nothing <=> prefixes[y] # Nothing /\ y \notin gone
    BY <2>2
  <2>6. prefixOrder' \in Seq(Sessions) /\ Matches(prefixes', prefixOrder', PrefixMax)
    BY <1>2, <2>2, <2>5, RemovalKeepsMatch
  <2> QED BY <1>1, <2>4, <2>6, OrdersOfPrefixes
<1> QED BY <1>3, <1>4

\* A prefix that is found moves to the end (_get_session_prefix).
LEMMA OrdersGetPrefix ==
  ASSUME TablesOK, OrdersKept, NEW r \in Runs, GetPrefix(r) PROVE OrdersKept'
<1>1. /\ run[r].at # "idle" /\ RunsKnown /\ UNCHANGED <<responses, responseOrder, runs, expiries>>
      /\ run[r].session \in Sessions
  BY DEF OrdersKept, GetPrefix, RunsKnown
<1>2. /\ prefixOrder \in Seq(Sessions) /\ Matches(prefixes, prefixOrder, PrefixMax)
      /\ DOMAIN prefixes = Sessions /\ PrefixMax \in Nat
      /\ \A s \in Sessions : prefixes[s] # Nothing => prefixes[s] \in PrefixTypes
  BY TableFacts DEF OrdersKept, OrderMatchesTable
<1>3. RunsKnown'
  BY <1>1, KnownStep DEF GetPrefix, Step
<1>4. CASE UNCHANGED <<prefixes, prefixOrder>>
  BY <1>1, <1>2, <1>3, <1>4, OrdersOfPrefixes DEF Matches
<1>5. CASE ~UNCHANGED <<prefixes, prefixOrder>>
  <2>1. PICK s \in Sessions : s = run[r].session
    BY <1>1
  <2>2. /\ prefixes[s] # Nothing /\ prefixOrder' = MovedToEnd(prefixOrder, s)
        /\ prefixes' = [prefixes EXCEPT ![s].old = FALSE]
    BY <1>5, <2>1 DEF GetPrefix
  <2>3. PICK new : new = [prefixes[s] EXCEPT !.old = FALSE]
    OBVIOUS
  <2>4. new \in PrefixTypes /\ prefixes' = [prefixes EXCEPT ![s] = new]
    BY <1>2, <2>2, <2>3 DEF PrefixTypes
  <2>5. /\ DOMAIN prefixes' = Sessions
        /\ \A y \in Sessions : prefixes'[y] # Nothing <=> prefixes[y] # Nothing
    BY <1>2, <2>2, <2>4, NothingAssumption
  <2>6. prefixOrder' \in Seq(Sessions) /\ Matches(prefixes', prefixOrder', PrefixMax)
    BY <1>2, <2>2, <2>5, UseKeepsMatch
  <2> QED BY <1>1, <1>3, <2>6, OrdersOfPrefixes
<1> QED BY <1>4, <1>5

\* A prefix is stored within the limit (_store_session_prefix).
LEMMA OrdersStorePrefix ==
  ASSUME TablesOK, OrdersKept, NEW r \in Runs, StorePrefix(r) PROVE OrdersKept'
<1>1. run[r].at # "idle" /\ RunsKnown /\ UNCHANGED <<responses, responseOrder, runs, expiries>>
  BY DEF OrdersKept, StorePrefix
<1>2. /\ prefixOrder \in Seq(Sessions) /\ Matches(prefixes, prefixOrder, PrefixMax)
      /\ DOMAIN prefixes = Sessions /\ PrefixMax \in Nat \ {0} /\ run[r] \in RunTypes
  BY TableFacts DEF OrdersKept, OrderMatchesTable
<1>3. RunsKnown'
  BY <1>1, KnownStep DEF StorePrefix, Step
<1>4. CASE UNCHANGED <<prefixes, prefixOrder>>
  BY <1>1, <1>2, <1>3, <1>4, OrdersOfPrefixes DEF Matches
<1>5. CASE ~UNCHANGED <<prefixes, prefixOrder>>
  <2>1. PICK s, entry, put : s = run[r].session /\ entry = PrefixEntry(r)
                             /\ put = Put(prefixes, prefixOrder, s, entry, PrefixMax)
    OBVIOUS
  <2>2. s # Nothing /\ prefixes' = put[1] /\ prefixOrder' = put[2]
    BY <1>5, <2>1 DEF StorePrefix
  <2>3. s \in Sessions /\ entry # Nothing
    BY <1>2, <2>1, <2>2, EntriesCount DEF RunTypes
  <2>4. prefixOrder' \in Seq(Sessions) /\ Matches(prefixes', prefixOrder', PrefixMax)
    BY <1>2, <2>1, <2>2, <2>3, PutMatches
  <2> QED BY <1>1, <1>3, <2>4, OrdersOfPrefixes
<1> QED BY <1>4, <1>5

\* An answer is stored within the limit (_store_chat_response).
LEMMA OrdersStoreResponse ==
  ASSUME TablesOK, OrdersKept, NEW r \in Runs, StoreResponse(r) PROVE OrdersKept'
<1>1. /\ run[r].at # "idle" /\ RunsKnown /\ UNCHANGED <<prefixes, prefixOrder, runs, expiries>>
      /\ run[r].key \in Keys
  BY DEF OrdersKept, StoreResponse, RunsKnown
<1>2. /\ responseOrder \in Seq(Keys) /\ Matches(responses, responseOrder, ResponseMax)
      /\ DOMAIN responses = Keys /\ ResponseMax \in Nat \ {0}
  BY TableFacts DEF OrdersKept, OrderMatchesTable
<1>3. RunsKnown'
  BY <1>1, KnownStep DEF StoreResponse
<1>4. CASE UNCHANGED <<responses, responseOrder>>
  BY <1>1, <1>2, <1>3, <1>4, OrdersOfAnswers DEF Matches
<1>5. CASE ~UNCHANGED <<responses, responseOrder>>
  <2>1. PICK k \in Keys : k = run[r].key
    BY <1>1
  <2>2. PICK entry, put : entry = Entry(r) /\ put = Put(responses, responseOrder, k, entry, ResponseMax)
    OBVIOUS
  <2>3. responses' = put[1] /\ responseOrder' = put[2] /\ entry # Nothing
    BY <1>5, <2>1, <2>2, EntriesCount DEF StoreResponse
  <2>4. responseOrder' \in Seq(Keys) /\ Matches(responses', responseOrder', ResponseMax)
    BY <1>2, <2>1, <2>2, <2>3, PutMatches
  <2> QED BY <1>1, <1>3, <2>4, OrdersOfAnswers
<1> QED BY <1>4, <1>5

\* Changes of the settings and clears, by any thread.
LEMMA OrdersChanger ==
  ASSUME TablesOK, OrdersKept, NEW u \in Changers,
         \/ SaveSettings(u) \/ ApplySettings(u) \/ StopClears(u)
         \/ ClearPrefixes(u) \/ ClearResponses(u)
  PROVE  OrdersKept'
<1>1. RunsKnown /\ run \in [Runs -> RunTypes] /\ UNCHANGED <<runs, expiries>>
  BY DEF OrdersKept, TablesOK, SaveSettings, ApplySettings, StopClears, ClearPrefixes, ClearResponses
<1>2. RunsKnown'
  <2>1. CASE ApplySettings(u)
    <3>1. \A r \in Runs : /\ run'[r].at = run[r].at /\ run'[r].key = run[r].key
                          /\ run'[r].session = run[r].session
      <4>1. PICK settings : run' = Under(settings)
        BY <2>1 DEF ApplySettings
      <4>2. Marked(run', settings)
        BY <4>1, UnderFacts
      <4> QED
        BY <4>2 DEF Marked
    <3> QED BY <1>1, <3>1 DEF RunsKnown
  <2>2. CASE run' = run
    BY <1>1, <2>2 DEF RunsKnown
  <2> QED BY <2>1, <2>2 DEF SaveSettings, StopClears, ClearPrefixes, ClearResponses
<1>3. CASE SaveSettings(u) \/ ApplySettings(u) \/ StopClears(u)
  <2>1. UNCHANGED <<responses, responseOrder, prefixes, prefixOrder>>
    BY <1>3 DEF SaveSettings, ApplySettings, StopClears
  <2> QED BY <1>1, <1>2, <2>1, TableFacts, OrdersUntouched DEF OrdersKept
<1>4. CASE ClearPrefixes(u)
  <2>1. prefixes' = [s \in Sessions |-> Nothing] /\ prefixOrder' = <<>>
        /\ UNCHANGED <<responses, responseOrder>>
    BY <1>4 DEF ClearPrefixes
  <2>2. PrefixMax \in Nat
    BY CacheAssumption
  <2>3. prefixOrder' \in Seq(Sessions) /\ Matches(prefixes', prefixOrder', PrefixMax)
    BY <2>1, <2>2, EmptyMatches
  <2> QED BY <1>1, <1>2, <2>1, <2>3, OrdersOfPrefixes
<1>5. CASE ClearResponses(u)
  <2>1. responses' = [k \in Keys |-> Nothing] /\ responseOrder' = <<>>
        /\ UNCHANGED <<prefixes, prefixOrder>>
    BY <1>5 DEF ClearResponses
  <2>2. ResponseMax \in Nat
    BY CacheAssumption
  <2>3. responseOrder' \in Seq(Keys) /\ Matches(responses', responseOrder', ResponseMax)
    BY <2>1, <2>2, EmptyMatches
  <2> QED BY <1>1, <1>2, <2>1, <2>3, OrdersOfAnswers
<1> QED BY <1>3, <1>4, <1>5

\* An entry that grows old stays where it is.
LEMMA OrdersExpire == ASSUME TablesOK, OrdersKept, Expire PROVE OrdersKept'
<1>1. /\ UNCHANGED <<responseOrder, prefixOrder, run, runs>> /\ RunsKnown'
      /\ runs' \in 0 .. MaxRuns /\ expiries' \in 0 .. MaxExpiries
  BY CacheAssumption DEF Expire, OrdersKept, RunsKnown
<1>2. ASSUME NEW k \in Keys, responses[k] # Nothing,
             responses' = [responses EXCEPT ![k].old = TRUE], UNCHANGED prefixes
      PROVE  OrdersKept'
  <2>1. PICK new : new = [responses[k] EXCEPT !.old = TRUE]
    OBVIOUS
  <2>2. new \in EntryTypes /\ responses' = [responses EXCEPT ![k] = new]
    BY <1>2, <2>1, TableFacts DEF EntryTypes
  <2>3. /\ DOMAIN responses' = Keys /\ DOMAIN prefixes' = Sessions
        /\ \A y \in Keys : responses'[y] # Nothing <=> responses[y] # Nothing
    BY <1>2, <2>2, TableFacts, NothingAssumption
  <2> QED BY <1>1, <1>2, <2>3, OrdersUntouched
<1>3. ASSUME NEW s \in Sessions, prefixes[s] # Nothing,
             prefixes' = [prefixes EXCEPT ![s].old = TRUE], UNCHANGED responses
      PROVE  OrdersKept'
  <2>1. PICK new : new = [prefixes[s] EXCEPT !.old = TRUE]
    OBVIOUS
  <2>2. new \in PrefixTypes /\ prefixes' = [prefixes EXCEPT ![s] = new]
    BY <1>3, <2>1, TableFacts DEF PrefixTypes
  <2>3. /\ DOMAIN responses' = Keys /\ DOMAIN prefixes' = Sessions
        /\ \A y \in Sessions : prefixes'[y] # Nothing <=> prefixes[y] # Nothing
    BY <1>3, <2>2, TableFacts, NothingAssumption
  <2> QED BY <1>1, <1>3, <2>3, OrdersUntouched
<1> QED BY <1>2, <1>3 DEF Expire

\* The orders agree with the tables in the beginning and after every step.
LEMMA OrdersInitially == CInit => OrdersKept
<1> SUFFICES ASSUME CInit PROVE OrdersKept
  OBVIOUS
<1>1. ResponseMax \in Nat /\ PrefixMax \in Nat /\ 0 \in 0 .. MaxRuns /\ 0 \in 0 .. MaxExpiries
  BY CacheAssumption
<1>2. /\ responseOrder \in Seq(Keys) /\ Matches(responses, responseOrder, ResponseMax)
      /\ prefixOrder \in Seq(Sessions) /\ Matches(prefixes, prefixOrder, PrefixMax)
  BY <1>1, EmptyMatches DEF CInit
<1>3. RunsKnown
  BY DEF CInit, RunsKnown, Idle
<1> QED BY <1>1, <1>2, <1>3 DEF OrdersKept, OrderMatchesTable, CInit

\* The types of the caches.
LEMMA CacheTypes == TablesOK /\ OrdersKept => CTypeOK
BY DEF TablesOK, OrdersKept, CTypeOK, RunTypes, ChangerTypes

\* A report of the settings touches no table and no order.
LEMMA OrdersReport ==
  ASSUME CacheInv, OrdersKept, RunsKnown => RunsKnown',
         UNCHANGED <<responses, responseOrder, prefixes, prefixOrder, runs, expiries>>
  PROVE  OrdersKept'
BY TableFacts, OrdersUntouched DEF CacheInv, OrdersKept

\* No step spoils the agreement.
LEMMA OrdersStep == CacheInv /\ OrdersKept /\ [CNext]_cVars => OrdersKept'
<1> SUFFICES ASSUME CacheInv, OrdersKept, [CNext]_cVars PROVE OrdersKept'
  OBVIOUS
<1>1. ASSUME NEW r \in Runs,
             \/ StartRun(r) \/ LookupResponse(r) \/ CleanPrefixes(r)
             \/ GetPrefix(r) \/ StorePrefix(r) \/ StoreResponse(r)
      PROVE  OrdersKept'
  BY <1>1, OrdersStartRun, OrdersLookupResponse, OrdersCleanPrefixes, OrdersGetPrefix,
     OrdersStorePrefix, OrdersStoreResponse DEF CacheInv
<1>2. ASSUME NEW u \in Changers,
             \/ SaveSettings(u) \/ ApplySettings(u) \/ StopClears(u)
             \/ ClearPrefixes(u) \/ ClearResponses(u)
      PROVE  OrdersKept'
  BY <1>2, OrdersChanger DEF CacheInv
<1>3. ASSUME NEW r \in Runs, Report(r) PROVE OrdersKept'
  <2>1. UNCHANGED <<responses, responseOrder, prefixes, prefixOrder, runs, expiries>>
    BY <1>3 DEF Report
  <2> QED BY <1>3, <2>1, ReportKeeps, OrdersReport
<1>4. ASSUME NEW u \in Changers, ReportChange(u) PROVE OrdersKept'
  <2>1. UNCHANGED <<responses, responseOrder, prefixes, prefixOrder, runs, expiries>>
    BY <1>4 DEF ReportChange
  <2> QED BY <1>4, <2>1, ReportChangeKeeps, OrdersReport
<1>5. CASE Poll
  <2>1. UNCHANGED <<responses, responseOrder, prefixes, prefixOrder, runs, expiries>>
    BY <1>5 DEF Poll
  <2>2. RunsKnown => RunsKnown'
    BY <1>5, PollKeeps DEF Poll, CacheInv, TablesOK
  <2> QED BY <2>1, <2>2, OrdersReport
<1>6. CASE UNCHANGED cVars
  <2>1. UNCHANGED <<responses, responseOrder, prefixes, prefixOrder, run, runs, expiries>>
    BY <1>6 DEF cVars
  <2>2. RunsKnown => RunsKnown'
    BY <2>1 DEF RunsKnown
  <2> QED BY <2>1, <2>2, OrdersReport
<1> QED BY <1>1, <1>2, <1>3, <1>4, <1>5, <1>6, OrdersExpire DEF CNext, CacheInv

-----------------------------------------------------------------------------
(***************************************************************************)
(* ModelDownload: a complete download is whole.                            *)
(* The argument: a run has finished the files it has not to do any more;   *)
(* what is received of a file is its beginning, as long as there is one    *)
(* revision.                                                               *)
(***************************************************************************)
\* What may be under a name or in an ".incomplete", and what a run knows.
Bodies == Seq(DOMAIN Lengths) \cup {Missing}
FetchSet == [at : {"idle", "next", "get", "body"}, want : [Files -> Nat] \cup {<<>>},
             todo : Seq(Files), from : DOMAIN Lengths, to : Nat]

DownloadShape ==
    /\ repo \in DOMAIN Lengths /\ sized \in SUBSET Files /\ setbacks \in 0 .. MaxSetbacks
    /\ named \in [Files -> Bodies] /\ received \in [Files -> Bodies]
    /\ fetch \in FetchSet
    /\ progress \in {Missing, Unreadable, "starting", "downloading", "error", "complete"}

\* What a complete download promises of each file.
FileDone(f) ==
    /\ Present(named[f])
    /\ f \in sized => Len(named[f]) = fetch.want[f]
    /\ repo = 0 => named[f] = Copy(f, 0)

\* A run has finished the files it has not to do any more.
RunSoFar ==
    fetch.at # "idle" =>
        /\ fetch.want \in [Files -> Nat] /\ \A f \in sized : fetch.want[f] > 0
        /\ IsInjective(fetch.todo)
        /\ \A f \in Files \ Range(fetch.todo) : FileDone(f)
        /\ progress # "complete"
        /\ fetch.at \in {"get", "body"} => fetch.todo # <<>>
        /\ fetch.at = "body" => /\ Present(received[Head(fetch.todo)])
                                /\ Len(received[Head(fetch.todo)]) <= fetch.to

\* The beginning of a file of the first revision.
Begun(f) ==
    /\ Len(received[f]) <= Lengths[0][f]
    /\ \A i \in 1 .. Len(received[f]) : received[f][i] = 0

\* As long as there is one revision only, nothing but it is stored.
OneRevision ==
    repo = 0 =>
        /\ \A f \in Files : /\ Present(named[f]) => named[f] = Copy(f, 0)
                            /\ Present(received[f]) => Begun(f)
        /\ fetch.at # "idle" => \A f \in Files : fetch.want[f] \in {0, Lengths[0][f]}
        /\ fetch.at = "body" => fetch.from = 0 /\ fetch.to = Lengths[0][Head(fetch.todo)]

DownloadInv == DownloadShape /\ RunSoFar /\ OneRevision /\ WholeDownloads

\* What the assumptions say of revisions and lengths.
LEMMA LengthFacts ==
  /\ 0 \in DOMAIN Lengths /\ DOMAIN Lengths \subseteq Nat
  /\ \A v \in DOMAIN Lengths, f \in Files : Lengths[v][f] \in Nat /\ Lengths[v][f] > 0
  /\ Seq(DOMAIN Lengths) \subseteq Seq(Nat) /\ Missing \notin Seq(DOMAIN Lengths)
<1>1. /\ 0 \in DOMAIN Lengths /\ DOMAIN Lengths \subseteq Nat
      /\ \A v \in DOMAIN Lengths : Lengths[v] \in [Files -> Nat \ {0}]
      /\ Missing \notin Seq(Nat)
  BY DownloadAssumption
<1>2. \A v \in DOMAIN Lengths, f \in Files : Lengths[v][f] \in Nat /\ Lengths[v][f] > 0
  <2> SUFFICES ASSUME NEW v \in DOMAIN Lengths, NEW f \in Files
               PROVE  Lengths[v][f] \in Nat /\ Lengths[v][f] > 0
    OBVIOUS
  <2>1. Lengths[v] \in [Files -> Nat \ {0}]
    BY <1>1
  <2>2. Lengths[v][f] \in Nat \ {0}
    BY <2>1
  <2> QED BY <2>2
<1>3. Seq(DOMAIN Lengths) \subseteq Seq(Nat)
  BY <1>1
<1> QED BY <1>1, <1>2, <1>3

\* What the types say of a run and of the files.
LEMMA ShapeFacts ==
  ASSUME DownloadShape
  PROVE  /\ fetch.at \in {"idle", "next", "get", "body"}
         /\ fetch.want \in [Files -> Nat] \cup {<<>>}
         /\ fetch.todo \in Seq(Files) /\ fetch.from \in DOMAIN Lengths /\ fetch.to \in Nat
         /\ \A f \in Files : /\ named[f] \in Bodies /\ received[f] \in Bodies
                             /\ Present(named[f]) => named[f] \in Seq(DOMAIN Lengths)
                             /\ Present(received[f]) => received[f] \in Seq(DOMAIN Lengths)
  BY DEF DownloadShape, FetchSet, Bodies, Present

\* What a run takes up next is one of the files.
LEMMA TodoFacts ==
  ASSUME DownloadShape, fetch.todo # <<>>
  PROVE  /\ Head(fetch.todo) \in Files /\ Tail(fetch.todo) \in Seq(Files)
         /\ Head(fetch.todo) \in Range(fetch.todo)
         /\ Files \ Range(Tail(fetch.todo)) \subseteq
               (Files \ Range(fetch.todo)) \cup {Head(fetch.todo)}
         /\ IsInjective(fetch.todo) => /\ IsInjective(Tail(fetch.todo))
                                       /\ Head(fetch.todo) \notin Range(Tail(fetch.todo))
<1> DEFINE s == fetch.todo
<1>1. s \in Seq(Files) /\ s # <<>>
  BY ShapeFacts
<1> HIDE DEF s
<1>2. /\ Len(s) \in Nat /\ Len(s) >= 1 /\ DOMAIN s = 1 .. Len(s)
      /\ Head(s) = s[1] /\ s[1] \in Files
      /\ Tail(s) \in Seq(Files) /\ Len(Tail(s)) = Len(s) - 1
      /\ \A i \in 1 .. Len(s) - 1 : Tail(s)[i] = s[i + 1]
  BY <1>1, HeadTailProperties
<1>3. DOMAIN Tail(s) = 1 .. Len(s) - 1
  BY <1>2
<1>4. Head(s) \in Range(s)
  BY <1>2 DEF Range
<1>5. Range(s) \subseteq Range(Tail(s)) \cup {Head(s)}
  <2> SUFFICES ASSUME NEW i \in 1 .. Len(s)
               PROVE  s[i] \in Range(Tail(s)) \cup {Head(s)}
    BY <1>2 DEF Range
  <2>1. CASE i = 1
    BY <1>2, <2>1
  <2>2. CASE i # 1
    <3>1. i - 1 \in DOMAIN Tail(s) /\ Tail(s)[i - 1] = s[i]
      BY <1>2, <1>3, <2>2
    <3> QED BY <3>1 DEF Range
  <2> QED BY <2>1, <2>2
<1>6. ASSUME IsInjective(s)
      PROVE  IsInjective(Tail(s)) /\ Head(s) \notin Range(Tail(s))
  <2>1. \A i, j \in 1 .. Len(s) : s[i] = s[j] => i = j
    BY <1>2, <1>6 DEF IsInjective
  <2>2. \A i \in 1 .. Len(s) - 1 : i + 1 \in 1 .. Len(s) /\ Tail(s)[i] = s[i + 1]
    BY <1>2
  <2>3. IsInjective(Tail(s))
    <3> SUFFICES ASSUME NEW i \in 1 .. Len(s) - 1, NEW j \in 1 .. Len(s) - 1,
                        Tail(s)[i] = Tail(s)[j]
                 PROVE  i = j
      BY <1>3 DEF IsInjective
    <3>1. i + 1 = j + 1
      BY <2>1, <2>2
    <3> QED BY <3>1
  <2>4. Head(s) \notin Range(Tail(s))
    <3> SUFFICES ASSUME NEW i \in 1 .. Len(s) - 1, Tail(s)[i] = s[1]
                 PROVE  FALSE
      BY <1>2, <1>3 DEF Range
    <3>1. i + 1 = 1
      BY <1>2, <2>1, <2>2
    <3> QED BY <3>1
  <2> QED BY <2>3, <2>4
<1> QED BY <1>2, <1>4, <1>5, <1>6 DEF s

\* A sequence of as many zeros as the first revision has bytes is its copy.
LEMMA WholeCopy ==
  ASSUME NEW f \in Files, NEW s \in Seq(DOMAIN Lengths), Len(s) = Lengths[0][f],
         \A i \in 1 .. Len(s) : s[i] = 0
  PROVE  s = Copy(f, 0)
<1>1. s = [i \in 1 .. Len(s) |-> s[i]]
  OBVIOUS
<1>2. [i \in 1 .. Len(s) |-> s[i]] = [i \in 1 .. Len(s) |-> 0]
  OBVIOUS
<1> QED BY <1>1, <1>2 DEF Copy

\* A file of the first revision.
LEMMA CopyFacts ==
  ASSUME NEW f \in Files
  PROVE  /\ Copy(f, 0) \in Seq(DOMAIN Lengths) /\ Len(Copy(f, 0)) = Lengths[0][f]
         /\ \A i \in 1 .. Len(Copy(f, 0)) : Copy(f, 0)[i] = 0
         /\ Copy(f, 0) # Missing
<1>1. Lengths[0][f] \in Nat /\ 0 \in DOMAIN Lengths
  BY LengthFacts
<1>2. Copy(f, 0) \in [1 .. Lengths[0][f] -> DOMAIN Lengths]
  BY <1>1 DEF Copy
<1>3. Copy(f, 0) \in Seq(DOMAIN Lengths)
  BY <1>1, <1>2
<1>4. Len(Copy(f, 0)) = Lengths[0][f]
  BY <1>1, <1>2, <1>3, LenProperties
<1> QED BY <1>3, <1>4, LengthFacts DEF Copy

\* What becomes of a run's record.
LEMMA FetchGoes ==
  ASSUME DownloadShape, NEW a \in {"idle", "next", "get", "body"}
  PROVE  LET g == [fetch EXCEPT !.at = a] IN
           /\ g \in FetchSet /\ g.at = a /\ g.want = fetch.want /\ g.todo = fetch.todo
           /\ g.from = fetch.from /\ g.to = fetch.to
<1>1. fetch \in FetchSet
  BY DEF DownloadShape
<1> QED BY <1>1 DEF FetchSet

\* A run that goes on with other files has the type of a run.
LEMMA FetchPasses ==
  ASSUME DownloadShape, NEW t \in Seq(Files)
  PROVE  /\ LET g == [fetch EXCEPT !.at = "next", !.todo = t] IN
              g \in FetchSet /\ g.at = "next" /\ g.want = fetch.want /\ g.todo = t
         /\ LET g == [fetch EXCEPT !.todo = t] IN
              g \in FetchSet /\ g.at = fetch.at /\ g.want = fetch.want /\ g.todo = t
<1>1. fetch \in FetchSet
  BY DEF DownloadShape
<1> QED BY <1>1 DEF FetchSet

\* So has a run that begins to receive a file.
LEMMA FetchReceives ==
  ASSUME DownloadShape, NEW v \in DOMAIN Lengths, NEW n \in Nat
  PROVE  LET g == [fetch EXCEPT !.at = "body", !.from = v, !.to = n] IN
           /\ g \in FetchSet /\ g.at = "body" /\ g.want = fetch.want
           /\ g.todo = fetch.todo /\ g.from = v /\ g.to = n
<1>1. fetch \in FetchSet
  BY DEF DownloadShape
<1> QED BY <1>1 DEF FetchSet

\* A run that comes to an end without having finished.
LEMMA StopKeeps ==
  ASSUME DownloadInv, fetch' = [fetch EXCEPT !.at = "idle"],
         UNCHANGED <<repo, sized, named, received>>, setbacks' \in 0 .. MaxSetbacks,
         progress' \in {Missing, Unreadable, "starting", "downloading", "error"},
         progress' # "complete"
  PROVE  DownloadInv'
<1>1. fetch' \in FetchSet /\ fetch'.at = "idle"
  BY FetchGoes DEF DownloadInv
<1>2. DownloadShape'
  BY <1>1 DEF DownloadInv, DownloadShape
<1>3. OneRevision'
  <2>1. \A f \in Files : Copy(f, 0)' = Copy(f, 0) /\ (Begun(f) => Begun(f)')
    BY DEF Copy, Begun
  <2> QED BY <1>1, <2>1 DEF DownloadInv, OneRevision, Present
<1> QED BY <1>1, <1>2, <1>3 DEF DownloadInv, RunSoFar, WholeDownloads

\* A file that was received takes its name.
LEMMA KeepKeeps ==
  ASSUME DownloadInv, fetch.at \in {"get", "body"}, UNCHANGED <<repo, sized, setbacks>>,
         NEW f, f = Head(fetch.todo), Keep(f), Present(received[f]),
         f \in sized => Len(received[f]) = fetch.want[f],
         repo = 0 => received[f] = Copy(f, 0)
  PROVE  DownloadInv'
<1>1. /\ DownloadShape /\ fetch.todo # <<>> /\ IsInjective(fetch.todo)
      /\ fetch.want \in [Files -> Nat] /\ \A g \in sized : fetch.want[g] > 0
      /\ \A g \in Files \ Range(fetch.todo) : FileDone(g)
      /\ progress # "complete"
  BY DEF DownloadInv, RunSoFar
<1>2. /\ f \in Files /\ Tail(fetch.todo) \in Seq(Files)
      /\ Files \ Range(Tail(fetch.todo)) \subseteq (Files \ Range(fetch.todo)) \cup {f}
      /\ IsInjective(Tail(fetch.todo))
  BY <1>1, TodoFacts
<1>3. /\ fetch' = [fetch EXCEPT !.at = "next", !.todo = Tail(fetch.todo)]
      /\ named' = [named EXCEPT ![f] = received[f]]
      /\ received' = [received EXCEPT ![f] = Missing]
      /\ progress' = progress
  BY DEF Keep
<1>4. /\ fetch' \in FetchSet /\ fetch'.at = "next"
      /\ fetch'.want = fetch.want /\ fetch'.todo = Tail(fetch.todo)
  BY <1>1, <1>2, <1>3, FetchPasses
<1>5. /\ named' \in [Files -> Bodies] /\ received' \in [Files -> Bodies]
      /\ named'[f] = received[f] /\ received'[f] = Missing
      /\ \A g \in Files \ {f} : named'[g] = named[g] /\ received'[g] = received[g]
  BY <1>1, <1>2, <1>3 DEF DownloadShape, Bodies
<1>6. DownloadShape'
  BY <1>1, <1>3, <1>4, <1>5 DEF DownloadShape
<1>7. \A g \in Files : Copy(g, 0)' = Copy(g, 0)
  BY DEF Copy
<1>8. \A g \in Files \ Range(Tail(fetch.todo)) : FileDone(g)'
  <2> SUFFICES ASSUME NEW g \in Files \ Range(Tail(fetch.todo)) PROVE FileDone(g)'
    OBVIOUS
  <2>1. CASE g = f
    BY <1>4, <1>5, <1>7, <2>1 DEF FileDone, Present
  <2>2. CASE g # f
    <3>1. FileDone(g)
      BY <1>1, <1>2, <2>2
    <3> QED BY <1>4, <1>5, <1>7, <2>2, <3>1 DEF FileDone, Present
  <2> QED BY <2>1, <2>2
<1>9. RunSoFar'
  BY <1>1, <1>2, <1>3, <1>4, <1>8 DEF RunSoFar
<1>10. OneRevision'
  <2> SUFFICES ASSUME repo = 0 PROVE OneRevision'
    BY DEF OneRevision
  <2>1. \A g \in Files : /\ Present(named[g]) => named[g] = Copy(g, 0)
                         /\ Present(received[g]) => Begun(g)
                         /\ fetch.want[g] \in {0, Lengths[0][g]}
    BY DEF DownloadInv, OneRevision
  <2>2. \A g \in Files : /\ Present(named'[g]) => named'[g] = Copy(g, 0)
                         /\ Present(received'[g]) => Begun(g)'
    BY <1>5, <2>1 DEF Present, Begun
  <2> QED BY <1>4, <1>7, <2>1, <2>2 DEF OneRevision, Present
<1> QED BY <1>1, <1>3, <1>6, <1>9, <1>10 DEF DownloadInv, WholeDownloads

\* A run starts with all its files to do.
LEMMA StartKeeps == DownloadInv /\ StartDownload => DownloadInv'
<1> SUFFICES ASSUME DownloadInv, StartDownload PROVE DownloadInv'
  OBVIOUS
<1> DEFINE want == [f \in Files |-> IF f \in sized THEN Lengths[repo][f] ELSE 0]
<1>1. /\ fetch' = [at |-> "next", todo |-> FileOrder, from |-> 0, to |-> 0, want |-> want]
      /\ progress' = "starting"
      /\ UNCHANGED <<repo, sized, named, received, setbacks>>
  BY DEF StartDownload
<1>2. repo \in DOMAIN Lengths /\ sized \subseteq Files
  BY DEF DownloadInv, DownloadShape
<1>3. /\ want \in [Files -> Nat] /\ \A f \in sized : want[f] > 0
      /\ \A f \in Files : want[f] \in {0, Lengths[repo][f]}
  BY <1>2, LengthFacts
<1>4. FileOrder \in Seq(Files) /\ IsInjective(FileOrder) /\ Range(FileOrder) = Files
  BY DownloadAssumption
<1> HIDE DEF want
<1>5. /\ fetch' \in FetchSet /\ fetch'.at = "next" /\ fetch'.todo = FileOrder
      /\ fetch'.want = want
  BY <1>1, <1>3, <1>4, LengthFacts DEF FetchSet
<1>6. DownloadShape'
  BY <1>1, <1>5 DEF DownloadInv, DownloadShape
<1>7. RunSoFar'
  BY <1>1, <1>3, <1>4, <1>5 DEF RunSoFar
<1>8. OneRevision'
  <2>1. \A f \in Files : Copy(f, 0)' = Copy(f, 0) /\ (Begun(f) => Begun(f)')
    BY <1>1 DEF Copy, Begun
  <2> QED BY <1>1, <1>3, <1>5, <2>1 DEF DownloadInv, OneRevision, Present
<1> QED BY <1>1, <1>6, <1>7, <1>8 DEF DownloadInv, WholeDownloads

\* A file that is skipped is there as it should be.
LEMMA SkipKeeps == DownloadInv /\ SkipFile => DownloadInv'
<1> SUFFICES ASSUME DownloadInv, SkipFile PROVE DownloadInv'
  OBVIOUS
<1>0. PICK f : f = Head(fetch.todo)
  OBVIOUS
<1>1. /\ fetch.at = "next" /\ fetch.todo # <<>> /\ Expected(f)
      /\ fetch' = [fetch EXCEPT !.todo = Tail(fetch.todo)]
      /\ UNCHANGED <<repo, sized, named, received, progress, setbacks>>
  BY <1>0 DEF SkipFile
<1>2. /\ DownloadShape /\ IsInjective(fetch.todo)
      /\ fetch.want \in [Files -> Nat] /\ \A g \in sized : fetch.want[g] > 0
      /\ \A g \in Files \ Range(fetch.todo) : FileDone(g)
      /\ progress # "complete"
  BY <1>1 DEF DownloadInv, RunSoFar
<1>3. /\ f \in Files /\ Tail(fetch.todo) \in Seq(Files)
      /\ Files \ Range(Tail(fetch.todo)) \subseteq (Files \ Range(fetch.todo)) \cup {f}
      /\ IsInjective(Tail(fetch.todo))
  BY <1>0, <1>1, <1>2, TodoFacts
<1>4. /\ fetch' \in FetchSet /\ fetch'.at = "next"
      /\ fetch'.want = fetch.want /\ fetch'.todo = Tail(fetch.todo)
  BY <1>1, <1>2, <1>3, FetchPasses
<1>5. DownloadShape'
  BY <1>1, <1>2, <1>4 DEF DownloadShape
<1>6. FileDone(f)
  <2>1. repo = 0 => named[f] = Copy(f, 0)
    BY <1>1, <1>3 DEF DownloadInv, OneRevision, Expected
  <2> QED BY <1>1, <2>1 DEF Expected, FileDone
<1>7. \A g \in Files : FileDone(g) => FileDone(g)'
  BY <1>1, <1>4 DEF FileDone, Present, Copy
<1>8. RunSoFar'
  BY <1>1, <1>2, <1>3, <1>4, <1>6, <1>7 DEF RunSoFar
<1>9. OneRevision'
  <2>1. \A g \in Files : Copy(g, 0)' = Copy(g, 0) /\ (Begun(g) => Begun(g)')
    BY <1>1 DEF Copy, Begun
  <2> QED BY <1>1, <1>4, <2>1 DEF DownloadInv, OneRevision, Present
<1> QED BY <1>1, <1>2, <1>5, <1>8, <1>9 DEF DownloadInv, WholeDownloads

\* A run that takes up what was received before.
LEMMA TakeUpKeeps == DownloadInv /\ TakeUp => DownloadInv'
<1> SUFFICES ASSUME DownloadInv, TakeUp PROVE DownloadInv'
  OBVIOUS
<1>0. PICK f : f = Head(fetch.todo)
  OBVIOUS
<1>1. /\ fetch.at = "next" /\ fetch.todo # <<>>
      /\ named' = [named EXCEPT ![f] = Missing]
      /\ received' = IF Present(named[f]) /\ ~Present(received[f])
                       THEN [received EXCEPT ![f] = named[f]] ELSE received
      /\ fetch' = [fetch EXCEPT !.at = "get"]
      /\ UNCHANGED <<repo, sized, progress, setbacks>>
  BY <1>0 DEF TakeUp
<1>2. /\ DownloadShape /\ IsInjective(fetch.todo)
      /\ fetch.want \in [Files -> Nat] /\ \A g \in sized : fetch.want[g] > 0
      /\ \A g \in Files \ Range(fetch.todo) : FileDone(g)
      /\ progress # "complete"
  BY <1>1 DEF DownloadInv, RunSoFar
<1>3. f \in Files /\ f \in Range(fetch.todo)
  BY <1>0, <1>1, <1>2, TodoFacts
<1>4. /\ fetch' \in FetchSet /\ fetch'.at = "get"
      /\ fetch'.want = fetch.want /\ fetch'.todo = fetch.todo
  BY <1>1, <1>2, FetchGoes
<1>5. /\ named' \in [Files -> Bodies] /\ received' \in [Files -> Bodies]
      /\ named'[f] = Missing /\ received'[f] \in {received[f], named[f]}
      /\ \A g \in Files \ {f} : named'[g] = named[g] /\ received'[g] = received[g]
  BY <1>1, <1>2, <1>3 DEF DownloadShape, Bodies
<1>6. DownloadShape'
  BY <1>1, <1>2, <1>4, <1>5 DEF DownloadShape
<1>7. \A g \in Files \ {f} : FileDone(g) => FileDone(g)'
  BY <1>1, <1>4, <1>5 DEF FileDone, Present, Copy
<1>8. RunSoFar'
  BY <1>1, <1>2, <1>3, <1>4, <1>7 DEF RunSoFar
<1>9. OneRevision'
  <2> SUFFICES ASSUME repo = 0 PROVE OneRevision'
    BY <1>1 DEF OneRevision
  <2>1. \A g \in Files : /\ Present(named[g]) => named[g] = Copy(g, 0)
                         /\ Present(received[g]) => Begun(g)
                         /\ fetch.want[g] \in {0, Lengths[0][g]}
    BY <1>1 DEF DownloadInv, OneRevision
  <2>2. \A g \in Files : Copy(g, 0)' = Copy(g, 0)
    BY DEF Copy
  <2>3. Present(received'[f]) => Begun(f)'
    <3>1. CASE received'[f] = received[f]
      BY <1>3, <2>1, <3>1 DEF Begun, Present
    <3>2. CASE received'[f] = named[f] /\ Present(named[f])
      <4>1. received'[f] = Copy(f, 0)
        BY <1>3, <2>1, <3>2
      <4>2. Len(Copy(f, 0)) = Lengths[0][f] /\ Lengths[0][f] \in Nat
            /\ \A i \in 1 .. Len(Copy(f, 0)) : Copy(f, 0)[i] = 0
        BY <1>3, CopyFacts, LengthFacts
      <4> DEFINE c == Copy(f, 0)
      <4>3. received'[f] = c /\ Len(c) = Lengths[0][f] /\ \A i \in 1 .. Len(c) : c[i] = 0
        BY <4>1, <4>2
      <4> HIDE DEF c
      <4> QED BY <4>2, <4>3 DEF Begun
    <3> QED BY <1>5, <3>1, <3>2 DEF Present
  <2>4. \A g \in Files \ {f} : Present(received'[g]) => Begun(g)'
    BY <1>5, <2>1 DEF Begun, Present
  <2>5. \A g \in Files : Present(named'[g]) => named'[g] = Copy(g, 0)
    BY <1>3, <1>5, <2>1 DEF Present
  <2> QED BY <1>4, <2>1, <2>2, <2>3, <2>4, <2>5 DEF OneRevision, Present
<1> QED BY <1>1, <1>2, <1>6, <1>8, <1>9 DEF DownloadInv, WholeDownloads

\* The file a run is about, and what it knows of it.
LEMMA AtAFile ==
  ASSUME DownloadInv, fetch.at \in {"get", "body"}, NEW f, f = Head(fetch.todo)
  PROVE  /\ DownloadShape /\ f \in Files /\ fetch.todo # <<>>
         /\ fetch.want[f] \in Nat /\ (f \in sized => fetch.want[f] > 0)
         /\ progress # "complete"
         /\ repo = 0 => /\ Present(received[f]) => Begun(f)
                        /\ fetch.want[f] \in {0, Lengths[0][f]}
                        /\ fetch.at = "body" => fetch.from = 0 /\ fetch.to = Lengths[0][f]
<1>1. /\ DownloadShape /\ fetch.todo # <<>>
      /\ fetch.want \in [Files -> Nat] /\ \A g \in sized : fetch.want[g] > 0
      /\ progress # "complete"
  BY DEF DownloadInv, RunSoFar
<1>2. f \in Files
  BY <1>1, TodoFacts
<1> QED BY <1>1, <1>2 DEF DownloadInv, OneRevision

\* What is there of a file changes while it is received.
LEMMA ReceivingKeeps ==
  ASSUME DownloadInv, fetch.at \in {"get", "body"}, UNCHANGED <<repo, sized, named, setbacks>>,
         NEW f, f = Head(fetch.todo), NEW s \in Seq(DOMAIN Lengths),
         received' = [received EXCEPT ![f] = s], progress' \in {progress, "downloading"},
         NEW v \in DOMAIN Lengths, NEW n \in Nat, Len(s) <= n,
         fetch' \in FetchSet, fetch'.at = "body", fetch'.want = fetch.want,
         fetch'.todo = fetch.todo, fetch'.from = v, fetch'.to = n,
         repo = 0 => /\ v = 0 /\ n = Lengths[0][f]
                     /\ \A i \in 1 .. Len(s) : s[i] = 0
  PROVE  DownloadInv'
<1>1. DownloadShape /\ f \in Files /\ fetch.todo # <<>> /\ progress # "complete"
  BY AtAFile
<1>2. /\ received' \in [Files -> Bodies] /\ received'[f] = s /\ s # Missing
      /\ \A g \in Files \ {f} : received'[g] = received[g]
  BY <1>1, LengthFacts DEF DownloadShape, Bodies
<1>3. progress' # "complete"
  BY <1>1
<1>4. DownloadShape'
  BY <1>1, <1>2 DEF DownloadShape
<1>5. \A g \in Files : Copy(g, 0)' = Copy(g, 0) /\ (FileDone(g) => FileDone(g)')
  BY DEF Copy, FileDone, Present
<1>6. RunSoFar'
  BY <1>1, <1>2, <1>3, <1>5 DEF DownloadInv, RunSoFar, Present
<1>7. OneRevision'
  <2> SUFFICES ASSUME repo = 0 PROVE OneRevision'
    BY DEF OneRevision
  <2>1. \A g \in Files : /\ Present(named[g]) => named[g] = Copy(g, 0)
                         /\ Present(received[g]) => Begun(g)
                         /\ fetch.want[g] \in {0, Lengths[0][g]}
    BY DEF DownloadInv, OneRevision
  <2>2. Begun(f)'
    BY <1>2 DEF Begun
  <2>3. \A g \in Files \ {f} : Present(received'[g]) => Begun(g)'
    BY <1>2, <2>1 DEF Begun, Present
  <2>4. \A g \in Files : Present(received'[g]) => Begun(g)'
    BY <2>2, <2>3
  <2> QED BY <1>5, <2>1, <2>4 DEF OneRevision, Present
<1> QED BY <1>3, <1>4, <1>6, <1>7 DEF DownloadInv, WholeDownloads

\* A run that fails.
LEMMA FailsKeeps ==
  ASSUME DownloadInv, Fails, UNCHANGED <<repo, sized, named, received>>,
         setbacks' \in 0 .. MaxSetbacks
  PROVE  DownloadInv'
  BY StopKeeps DEF Fails

\* A response begins the file, or goes on where it broke off.
LEMMA RespondKeeps == DownloadInv /\ Respond => DownloadInv'
<1> SUFFICES ASSUME DownloadInv, Respond PROVE DownloadInv'
  OBVIOUS
<1>1. PICK f : f = Head(fetch.todo)
  OBVIOUS
<1> DEFINE got == IF Present(received[f]) THEN Len(received[f]) ELSE 0
<1>2. /\ fetch.at = "get" /\ UNCHANGED <<repo, sized, setbacks>>
      /\ \/ Afresh(f)
         \/ /\ got > 0 /\ got < Lengths[repo][f]
            /\ fetch' = [fetch EXCEPT !.at = "body", !.from = repo, !.to = Lengths[repo][f]]
            /\ UNCHANGED <<named, received, progress>>
         \/ got > 0 /\ got >= Lengths[repo][f] /\ PastEnd(f)
  BY <1>1 DEF Respond
<1>3. /\ DownloadShape /\ f \in Files /\ progress # "complete"
      /\ fetch.want[f] \in Nat /\ (f \in sized => fetch.want[f] > 0)
      /\ repo = 0 => /\ Present(received[f]) => Begun(f)
                     /\ fetch.want[f] \in {0, Lengths[0][f]}
  BY <1>1, <1>2, AtAFile
<1>4. repo \in DOMAIN Lengths /\ Lengths[repo][f] \in Nat
  BY <1>3, LengthFacts DEF DownloadShape
<1>5. setbacks' \in 0 .. MaxSetbacks
  BY <1>2, <1>3 DEF DownloadShape
<1>6. Present(received[f]) => received[f] \in Seq(DOMAIN Lengths) /\ Len(received[f]) \in Nat
  BY <1>3, ShapeFacts, LenProperties
<1>7. PICK v \in DOMAIN Lengths, n \in Nat : v = repo /\ n = Lengths[repo][f]
  BY <1>4
<1>8. LET g == [fetch EXCEPT !.at = "body", !.from = v, !.to = n] IN
        /\ g \in FetchSet /\ g.at = "body" /\ g.want = fetch.want
        /\ g.todo = fetch.todo /\ g.from = v /\ g.to = n
  BY <1>3, FetchReceives
<1>9. CASE Afresh(f)
  <2>1. /\ received' = [received EXCEPT ![f] = <<>>]
        /\ fetch' = [fetch EXCEPT !.at = "body", !.from = v, !.to = n]
        /\ UNCHANGED <<named, progress>>
    BY <1>7, <1>9 DEF Afresh
  <2>2. <<>> \in Seq(DOMAIN Lengths) /\ Len(<<>>) = 0
    OBVIOUS
  <2>3. /\ fetch' \in FetchSet /\ fetch'.at = "body" /\ fetch'.want = fetch.want
        /\ fetch'.todo = fetch.todo /\ fetch'.from = v /\ fetch'.to = n
    BY <1>8, <2>1
  <2>4. PICK s \in Seq(DOMAIN Lengths) : s = <<>>
    BY <2>2
  <2>5. Len(s) <= n /\ \A i \in 1 .. Len(s) : s[i] = 0
    BY <2>2, <2>4
  <2> QED BY <1>1, <1>2, <1>7, <2>1, <2>3, <2>4, <2>5, ReceivingKeeps
<1>10. CASE /\ got > 0 /\ got < Lengths[repo][f]
            /\ fetch' = [fetch EXCEPT !.at = "body", !.from = repo, !.to = Lengths[repo][f]]
            /\ UNCHANGED <<named, received, progress>>
  <2>1. Present(received[f]) /\ got = Len(received[f])
    BY <1>10
  <2>2. PICK s \in Seq(DOMAIN Lengths) : s = received[f]
    BY <1>6, <2>1
  <2>3. Len(s) <= n
    BY <1>6, <1>7, <1>10, <2>1, <2>2
  <2>4. received' = [received EXCEPT ![f] = s]
    BY <1>3, <1>10, <2>2 DEF DownloadShape
  <2>5. /\ fetch' \in FetchSet /\ fetch'.at = "body" /\ fetch'.want = fetch.want
        /\ fetch'.todo = fetch.todo /\ fetch'.from = v /\ fetch'.to = n
    BY <1>7, <1>8, <1>10
  <2>6. repo = 0 => \A i \in 1 .. Len(s) : s[i] = 0
    BY <1>3, <2>1, <2>2 DEF Begun
  <2>7. UNCHANGED named /\ progress' \in {progress, "downloading"}
    BY <1>10
  <2> QED BY <1>1, <1>2, <1>7, <2>3, <2>4, <2>5, <2>6, <2>7, ReceivingKeeps
<1>11. CASE got > 0 /\ got >= Lengths[repo][f] /\ PastEnd(f)
  <2>1. Present(received[f]) /\ got = Len(received[f])
    BY <1>11
  <2>2. CASE ~(fetch.want[f] > 0 /\ Len(received[f]) = fetch.want[f])
    <3>1. Fails /\ UNCHANGED <<named, received>>
      BY <1>11, <2>2 DEF PastEnd
    <3> QED BY <1>2, <1>5, <3>1, FailsKeeps
  <2>3. CASE fetch.want[f] > 0 /\ Len(received[f]) = fetch.want[f]
    <3>1. Keep(f)
      BY <1>11, <2>3 DEF PastEnd
    <3>2. repo = 0 => received[f] = Copy(f, 0)
      <4> SUFFICES ASSUME repo = 0 PROVE received[f] = Copy(f, 0)
        OBVIOUS
      <4>1. Len(received[f]) = Lengths[0][f] /\ Begun(f)
        BY <1>3, <2>1, <2>3
      <4> QED BY <1>3, <1>6, <2>1, <4>1, WholeCopy DEF Begun
    <3> QED BY <1>1, <1>2, <2>1, <2>3, <3>1, <3>2, KeepKeeps
  <2> QED BY <2>2, <2>3
<1> QED BY <1>2, <1>9, <1>10, <1>11

\* What comes is appended to the file.
LEMMA ReceiveKeeps == DownloadInv /\ ReceiveChunk => DownloadInv'
<1> SUFFICES ASSUME DownloadInv, ReceiveChunk PROVE DownloadInv'
  OBVIOUS
<1>1. PICK f : f = Head(fetch.todo)
  OBVIOUS
<1>2. /\ fetch.at = "body" /\ Len(received[f]) < fetch.to
      /\ received' = [received EXCEPT ![f] = Append(@, fetch.from)]
      /\ progress' \in {progress, "downloading"}
      /\ UNCHANGED <<repo, sized, named, fetch, setbacks>>
  BY <1>1 DEF ReceiveChunk
<1>3. /\ DownloadShape /\ f \in Files /\ Present(received[f])
      /\ repo = 0 => Begun(f) /\ fetch.from = 0 /\ fetch.to = Lengths[0][f]
  BY <1>1, <1>2, AtAFile DEF DownloadInv, RunSoFar
<1>4. /\ received[f] \in Seq(DOMAIN Lengths)
      /\ fetch.from \in DOMAIN Lengths /\ fetch.to \in Nat /\ fetch \in FetchSet
  BY <1>3, ShapeFacts DEF DownloadShape
<1>10. PICK v \in DOMAIN Lengths, n \in Nat, old \in Seq(DOMAIN Lengths) :
        v = fetch.from /\ n = fetch.to /\ old = received[f]
  BY <1>4
<1>11. Append(old, v) \in Seq(DOMAIN Lengths)
  BY AppendProperties
<1>5. PICK s \in Seq(DOMAIN Lengths) :
        v = fetch.from /\ n = fetch.to /\ old = received[f] /\ s = Append(old, v)
  BY <1>10, <1>11
<1>6. /\ Len(s) = Len(old) + 1 /\ Len(old) \in Nat
      /\ \A i \in 1 .. Len(s) : s[i] = IF i <= Len(old) THEN old[i] ELSE v
  BY <1>5, AppendProperties
<1>7. received' = [received EXCEPT ![f] = s]
  BY <1>2, <1>3, <1>5 DEF DownloadShape
<1>8. Len(s) <= n
  BY <1>2, <1>5, <1>6
<1>9. repo = 0 => /\ v = 0 /\ n = Lengths[0][f]
                  /\ \A i \in 1 .. Len(s) : s[i] = 0
  BY <1>3, <1>5, <1>6 DEF Begun
<1>12. /\ fetch' \in FetchSet /\ fetch'.at = "body" /\ fetch'.want = fetch.want
       /\ fetch'.todo = fetch.todo /\ fetch'.from = v /\ fetch'.to = n
  BY <1>2, <1>4, <1>10
<1>13. fetch.at \in {"get", "body"} /\ UNCHANGED <<repo, sized, named, setbacks>>
       /\ progress' \in {progress, "downloading"}
  BY <1>2
<1>14. repo = 0 => \A i \in 1 .. Len(s) : s[i] = 0
  BY <1>9
<1>15. repo = 0 => v = 0 /\ n = Lengths[0][f]
  BY <1>9
<1> QED BY <1>1, <1>7, <1>8, <1>12, <1>13, <1>14, <1>15, ReceivingKeeps

\* A file is kept under its name if it has its length.
LEMMA EndBodyKeeps == DownloadInv /\ EndBody => DownloadInv'
<1> SUFFICES ASSUME DownloadInv, EndBody PROVE DownloadInv'
  OBVIOUS
<1>1. PICK f : f = Head(fetch.todo)
  OBVIOUS
<1>2. /\ fetch.at = "body" /\ Len(received[f]) = fetch.to
      /\ IF fetch.want[f] > 0 /\ Len(received[f]) # fetch.want[f]
           THEN Fails /\ UNCHANGED <<named, received>> ELSE Keep(f)
      /\ UNCHANGED <<repo, sized, setbacks>>
  BY <1>1 DEF EndBody
<1>3. /\ DownloadShape /\ f \in Files /\ Present(received[f])
      /\ f \in sized => fetch.want[f] > 0
      /\ repo = 0 => Begun(f) /\ fetch.to = Lengths[0][f]
  BY <1>1, <1>2, AtAFile DEF DownloadInv, RunSoFar
<1>4. received[f] \in Seq(DOMAIN Lengths)
  BY <1>3, ShapeFacts
<1>5. CASE fetch.want[f] > 0 /\ Len(received[f]) # fetch.want[f]
  <2>1. setbacks' \in 0 .. MaxSetbacks
    BY <1>2, <1>3 DEF DownloadShape
  <2> QED BY <1>2, <1>5, <2>1, FailsKeeps
<1>6. CASE ~(fetch.want[f] > 0 /\ Len(received[f]) # fetch.want[f])
  <2>1. repo = 0 => received[f] = Copy(f, 0)
    BY <1>2, <1>3, <1>4, WholeCopy DEF Begun
  <2>2. f \in sized => Len(received[f]) = fetch.want[f]
    BY <1>3, <1>6
  <2> QED BY <1>1, <1>2, <1>3, <1>6, <2>1, <2>2, KeepKeeps
<1> QED BY <1>5, <1>6

\* At the end every file is done.
LEMMA EndKeeps == DownloadInv /\ EndDownload => DownloadInv'
<1> SUFFICES ASSUME DownloadInv, EndDownload PROVE DownloadInv'
  OBVIOUS
<1>1. /\ fetch.at = "next" /\ fetch.todo = <<>>
      /\ fetch' = [fetch EXCEPT !.at = "idle"] /\ progress' = "complete"
      /\ UNCHANGED <<repo, sized, named, received, setbacks>>
  BY DEF EndDownload
<1>2. /\ DownloadShape
      /\ \A f \in Files \ Range(fetch.todo) : FileDone(f)
  BY <1>1 DEF DownloadInv, RunSoFar
<1>3. Range(fetch.todo) = {}
  BY <1>1 DEF Range
<1>4. /\ fetch' \in FetchSet /\ fetch'.at = "idle" /\ fetch'.want = fetch.want
  BY <1>1, <1>2, FetchGoes
<1>5. DownloadShape'
  BY <1>1, <1>2, <1>4 DEF DownloadShape
<1>6. WholeDownloads'
  <2>1. \A f \in Files : FileDone(f)
    BY <1>2, <1>3
  <2> QED BY <1>1, <1>4, <2>1 DEF FileDone, WholeDownloads, Present, Copy
<1>7. OneRevision'
  <2>1. \A f \in Files : Copy(f, 0)' = Copy(f, 0) /\ (Begun(f) => Begun(f)')
    BY <1>1 DEF Copy, Begun
  <2> QED BY <1>1, <1>4, <2>1 DEF DownloadInv, OneRevision, Present
<1> QED BY <1>4, <1>5, <1>6, <1>7 DEF DownloadInv, RunSoFar

\* A connection breaks off, or the process dies.
LEMMA TroubleKeeps == DownloadInv /\ (BreakOff \/ RunDies) => DownloadInv'
<1> SUFFICES ASSUME DownloadInv, BreakOff \/ RunDies PROVE DownloadInv'
  OBVIOUS
<1>1. /\ DownloadShape /\ setbacks < MaxSetbacks /\ setbacks' = setbacks + 1
      /\ fetch.at # "idle" /\ UNCHANGED <<repo, sized, named, received>>
  BY DEF DownloadInv, BreakOff, RunDies, Setback
<1>2. setbacks' \in 0 .. MaxSetbacks
  BY <1>1, DownloadAssumption DEF DownloadShape
<1>3. CASE BreakOff
  BY <1>1, <1>2, <1>3, FailsKeeps DEF BreakOff
<1>4. CASE RunDies
  <2>1. fetch' = [fetch EXCEPT !.at = "idle"] /\ progress' \in {progress, Unreadable}
    BY <1>4 DEF RunDies
  <2>2. progress # "complete" /\ Unreadable # "complete"
    BY <1>1, DownloadAssumption DEF DownloadInv, RunSoFar
  <2>3. progress' \in {Missing, Unreadable, "starting", "downloading", "error"}
        /\ progress' # "complete"
    BY <1>1, <2>1, <2>2 DEF DownloadShape
  <2> QED BY <1>1, <1>2, <2>1, <2>3, StopKeeps
<1> QED BY <1>3, <1>4

\* A new revision excuses whatever is stored.
LEMMA PublishKeeps == DownloadInv /\ Publish => DownloadInv'
<1> SUFFICES ASSUME DownloadInv, Publish PROVE DownloadInv'
  OBVIOUS
<1>1. /\ DownloadShape /\ repo + 1 \in DOMAIN Lengths /\ repo' = repo + 1
      /\ setbacks < MaxSetbacks /\ setbacks' = setbacks + 1
      /\ UNCHANGED <<sized, named, received, fetch, progress>>
  BY DEF DownloadInv, Publish, Setback
<1>2. repo \in Nat /\ repo' # 0 /\ setbacks' \in 0 .. MaxSetbacks
  BY <1>1, LengthFacts, DownloadAssumption DEF DownloadShape
<1>3. DownloadShape'
  BY <1>1, <1>2 DEF DownloadShape
<1>4. \A f \in Files : FileDone(f) => FileDone(f)'
  BY <1>1, <1>2 DEF FileDone, Present
<1>5. RunSoFar' /\ OneRevision' /\ WholeDownloads'
  BY <1>1, <1>2, <1>4 DEF DownloadInv, RunSoFar, OneRevision, WholeDownloads, Present
<1> QED BY <1>3, <1>5 DEF DownloadInv

\* Nothing is stored and nothing runs.
LEMMA DownloadInitially == DInit => DownloadInv
<1> SUFFICES ASSUME DInit PROVE DownloadInv
  OBVIOUS
<1>1. <<>> \in Seq(Files) /\ 0 \in 0 .. MaxSetbacks
  BY DownloadAssumption
<1>2. NoRun \in FetchSet /\ NoRun.at = "idle"
  BY <1>1, LengthFacts DEF NoRun, FetchSet
<1>3. DownloadShape
  BY <1>1, <1>2, LengthFacts DEF DInit, DownloadShape, Bodies
<1>4. progress # "complete"
  BY DownloadAssumption DEF DInit
<1>5. OneRevision
  BY <1>2 DEF DInit, OneRevision, Present
<1> QED BY <1>2, <1>3, <1>4, <1>5 DEF DInit, DownloadInv, RunSoFar, WholeDownloads

\* No step spoils the invariant.
LEMMA DownloadStep == DownloadInv /\ [DNext]_dVars => DownloadInv'
<1> SUFFICES ASSUME DownloadInv, [DNext]_dVars PROVE DownloadInv'
  OBVIOUS
<1>1. CASE UNCHANGED dVars
  <2>1. /\ UNCHANGED <<repo, sized, named, received, fetch, progress, setbacks>>
    BY <1>1 DEF dVars
  <2>2. \A f \in Files : /\ Copy(f, 0)' = Copy(f, 0) /\ (Begun(f) => Begun(f)')
                         /\ (FileDone(f) => FileDone(f)')
    BY <2>1 DEF Copy, Begun, FileDone, Present
  <2>3. DownloadShape'
    BY <2>1 DEF DownloadInv, DownloadShape
  <2>4. RunSoFar' /\ OneRevision' /\ WholeDownloads'
    BY <2>1, <2>2 DEF DownloadInv, RunSoFar, OneRevision, WholeDownloads, Present
  <2> QED BY <2>3, <2>4 DEF DownloadInv
<1> QED BY <1>1, StartKeeps, SkipKeeps, TakeUpKeeps, RespondKeeps, ReceiveKeeps,
           EndBodyKeeps, EndKeeps, TroubleKeeps, PublishKeeps DEF DNext, RunGoesOn

\* The types of the download.
LEMMA DownloadTypes == DownloadInv => DTypeOK
  BY ShapeFacts DEF DownloadInv, DownloadShape, DTypeOK

-----------------------------------------------------------------------------
(***************************************************************************)
(* StreamingRuntime: the types of what is on disk and of the call at work. *)
(***************************************************************************)
CallPlaces == {"idle", "schedule", "clear", "unit", "index", "residency",
               "verify", "control"}

\* What the argument needs of a call and of a schedule.
CallKnown(c) ==
    /\ {"at", "cmd", "sched", "segs"} \subseteq DOMAIN c /\ c.at \in CallPlaces
    /\ c.at = "schedule" => c.sched.for \in Layouts \cup {Absent}

StreamTypes == STypeOK /\ CallKnown(call)

\* No call at all is one that is known.
LEMMA NoCallKnown == CallKnown(NoCall)
BY DEF CallKnown, CallPlaces, NoCall

\* A call that goes on somewhere else than to write its schedule.
LEMMA CallGoesTo ==
  ASSUME NEW c, CallKnown(c), NEW place \in CallPlaces \ {"schedule"}
  PROVE  CallKnown([c EXCEPT !.at = place])
BY DEF CallKnown

\* A call that rotates has a schedule of a known manifest.
LEMMA RotatingKnown ==
  ASSUME STypeOK, NEW c, CallKnown(c)
  PROVE  CallKnown(Rotating(c))
<1>1. CASE Rotating(c) = NoCall
  BY <1>1, NoCallKnown
<1>2. CASE /\ Scheduled
           /\ Rotating(c) = [c EXCEPT !.at = "schedule", !.sched = Rotated(schedule),
                                      !.turn = TRUE]
  <2>1. Rotated(schedule).for = schedule.for
    BY DEF Rotated, Windows
  <2>2. schedule.for \in Layouts \cup {Absent}
    BY <1>2 DEF Scheduled, STypeOK
  <2>3. PICK s : s = Rotated(schedule)
    OBVIOUS
  <2>4. /\ {"at", "cmd", "sched", "segs"} \subseteq DOMAIN Rotating(c)
        /\ Rotating(c).at = "schedule" /\ Rotating(c).sched = s
    BY <1>2, <2>3 DEF CallKnown
  <2> QED
    BY <2>1, <2>2, <2>3, <2>4 DEF CallKnown, CallPlaces
<1> QED
  BY <1>1, <1>2 DEF Rotating

\* So is a materialization.
LEMMA MaterializingKnown ==
  ASSUME NEW c, CallKnown(c)
  PROVE  CallKnown(Materializing(c))
<1>1. PICK s : s = IF Scheduled THEN schedule ELSE BuiltSchedule
  OBVIOUS
<1>2. Materializing(c) =
        IF s.ready /\ MapReady THEN [c EXCEPT !.at = "clear", !.sched = s]
        ELSE [c EXCEPT !.at = "index", !.sched = s, !.brief = TRUE, !.blocked = TRUE]
  BY <1>1 DEF Materializing
<1> QED
  BY <1>2 DEF CallKnown, CallPlaces

\* No step spoils the types of the stream.
LEMMA StreamTypesStep == StreamTypes /\ [SNext]_sVars => StreamTypes'
<1> SUFFICES ASSUME StreamTypes, [SNext]_sVars PROVE StreamTypes'
  OBVIOUS
<1>1. /\ STypeOK /\ CallKnown(call) /\ CallKnown(NoCall) /\ CallKnown(Rotating(call))
      /\ CallKnown(Materializing(call)) /\ MaxUpsets \in Nat /\ upsets \in 0 .. MaxUpsets
  BY NoCallKnown, RotatingKnown, MaterializingKnown, StreamAssumption
  DEF StreamTypes, STypeOK
<1>2. Upset \/ UNCHANGED upsets => upsets' \in 0 .. MaxUpsets
  BY <1>1 DEF Upset
<1>3. ASSUME CallKnown(call'), upsets' \in 0 .. MaxUpsets, UNCHANGED <<layout, away, schedule, residency>>
      PROVE  StreamTypes'
  BY <1>1, <1>3 DEF StreamTypes, STypeOK, CallKnown, CallPlaces, Exists
<1>4. ASSUME NEW l \in Layouts, Bootstrap(l) PROVE StreamTypes'
  BY <1>1, <1>2, <1>4 DEF Bootstrap, StreamTypes, STypeOK, CallKnown, Exists
<1>5. CASE BuildSchedule
  <2>1. BuiltSchedule.for = layout /\ layout \in Layouts \cup {Absent}
    BY <1>1, <1>5 DEF BuildSchedule, BuiltSchedule, Windows, STypeOK
  <2>2. PICK s : s = BuiltSchedule
    OBVIOUS
  <2>3. CallKnown([NoCall EXCEPT !.cmd = "schedule", !.at = "schedule", !.sched = s])
    BY <1>1, <2>1, <2>2 DEF CallKnown, CallPlaces
  <2> QED
    BY <1>2, <1>3, <1>5, <2>2, <2>3 DEF BuildSchedule
<1>6. ASSUME NEW cmd \in {"rotate", "materialize", "verify", "advance", "safe"}, StartCall(cmd)
      PROVE  StreamTypes'
  <2>1. PICK c : c = [NoCall EXCEPT !.cmd = cmd]
    OBVIOUS
  <2>2. CallKnown(c)
    BY <1>1, <2>1 DEF CallKnown
  <2>3. /\ CallKnown(Rotating(c)) /\ CallKnown(Materializing(c))
        /\ CallKnown([c EXCEPT !.at = "control"]) /\ CallKnown([c EXCEPT !.at = "verify"])
    BY <1>1, <2>2, RotatingKnown, MaterializingKnown, CallGoesTo DEF CallPlaces
  <2>4. CallKnown(call')
    BY <1>1, <1>6, <2>1, <2>3 DEF StartCall
  <2> QED
    BY <1>2, <1>3, <1>6, <2>4 DEF StartCall
<1>7. CASE Verify
  <2>1. CallKnown(call')
    BY <1>1, <1>7, CallGoesTo DEF Verify, CallPlaces
  <2>2. residency' = residency \/ DOMAIN residency' = {"hot", "ahead", "ready", "missed"}
    BY <1>7 DEF Verify
  <2> QED
    BY <1>1, <1>2, <1>7, <2>1, <2>2 DEF Verify, StreamTypes, STypeOK, CallKnown, CallPlaces, Exists
<1>8. CASE Control
  BY <1>1, <1>2, <1>3, <1>8 DEF Control
<1>9. CASE WriteSchedule
  <2>1. CallKnown(call')
    BY <1>1, <1>9 DEF WriteSchedule, CallKnown, CallPlaces
  <2>2. schedule'.for \in Layouts \cup {Absent}
    BY <1>1, <1>9 DEF WriteSchedule, CallKnown
  <2> QED
    BY <1>1, <1>2, <1>9, <2>1, <2>2
    DEF WriteSchedule, StreamTypes, STypeOK, CallKnown, CallPlaces, Exists
<1>10. CASE ClearWindows
  <2>1. CallKnown(call')
    BY <1>1, <1>10 DEF ClearWindows, CallKnown, CallPlaces
  <2> QED
    BY <1>2, <1>3, <1>10, <2>1 DEF ClearWindows
<1>11. CASE WriteUnit
  <2>1. CallKnown(call')
    BY <1>1, <1>11 DEF WriteUnit, CallKnown, CallPlaces
  <2> QED
    BY <1>2, <1>3, <1>11, <2>1 DEF WriteUnit
<1>12. CASE WriteIndex
  <2>1. CallKnown(call')
    BY <1>1, <1>12, CallGoesTo DEF WriteIndex, CallPlaces
  <2> QED
    BY <1>2, <1>3, <1>12, <2>1 DEF WriteIndex
<1>13. CASE WriteResidency
  <2>1. residency' = Torn \/ DOMAIN residency' = {"hot", "ahead", "ready", "missed"}
    BY <1>13 DEF WriteResidency
  <2> QED
    BY <1>1, <1>2, <1>13, <2>1
    DEF WriteResidency, StreamTypes, STypeOK, CallKnown, CallPlaces, Exists
<1>14. CASE CallDies
  <2>1. schedule' \in {schedule, Torn} /\ residency' \in {residency, Torn}
    BY <1>14 DEF CallDies
  <2> QED
    BY <1>1, <1>2, <1>14, <2>1
    DEF CallDies, StreamTypes, STypeOK, CallKnown, CallPlaces, Exists
<1>15. CASE BootstrapDies
  BY <1>1, <1>2, <1>15 DEF BootstrapDies, StreamTypes, STypeOK, CallKnown, Exists
<1>16. CASE LoseFile
  BY <1>1, <1>2, <1>3, <1>16 DEF LoseFile
<1>17. CASE LosePart \/ FindShard
  <2>1. /\ away' \in {"nothing", "shard", "window"}
        /\ upsets' \in 0 .. MaxUpsets /\ UNCHANGED <<layout, schedule, residency, call>>
    BY <1>1, <1>2, <1>17 DEF LosePart, FindShard
  <2> QED
    BY <1>1, <2>1 DEF StreamTypes, STypeOK, CallKnown, CallPlaces, Exists
<1>18. CASE UNCHANGED sVars
  BY <1>1, <1>2, <1>3, <1>18 DEF sVars
<1> QED
  BY <1>4, <1>5, <1>6, <1>7, <1>8, <1>9, <1>10, <1>11, <1>12, <1>13, <1>14, <1>15,
     <1>16, <1>17, <1>18
  DEF SNext, CallGoesOn

\* Nothing is on disk and no call is at work.
LEMMA StreamTypesInitially == SInit => StreamTypes
BY NoCallKnown, StreamAssumption DEF SInit, StreamTypes, STypeOK, NoCall, Exists

-----------------------------------------------------------------------------
(***************************************************************************)
(* StreamingRuntime: windows in order, and a hot window that is whole when *)
(* a rotation consumes it.  A schedule that is ready splits the last units *)
(* of its manifest in three at two places; a segment of the index has the  *)
(* bytes of its unit in some manifest; and what a verification calls ready, *)
(* or what nothing went wrong with, is in the cache.                       *)
(***************************************************************************)
\* The places of the units that a schedule has in its three windows.
Split(s, u, n, b, a) ==
    /\ s.hot = SubSeq(u, n + 1, b)
    /\ s.warm = SubSeq(u, b + 1, a)
    /\ s.over = SubSeq(u, a + 1, Len(u))

\* A schedule that is ready splits what is left of the units of its manifest, and
\* its windows fit.
InWindows(s) ==
    s.ready =>
        /\ s.for \in Layouts
        /\ \E n \in 0 .. Len(Units[s.for]) : \E b \in n .. Len(Units[s.for]) :
              \E a \in b .. Len(Units[s.for]) : Split(s, Units[s.for], n, b, a)
        /\ Size(s.hot, s.by[1]) <= HotTarget[s.for]
        /\ Size(s.warm, s.by[2]) \in 0 .. WarmTarget[s.for]

\* A segment has the bytes of its unit.
SegmentOf(s, l) == s.file[2] \in Ids(l) /\ s.bytes = UnitBytes[l][s.file[2]]

InCache(s) == s.file \in DOMAIN cache /\ cache[s.file] = s.bytes

ScheduleSound == Exists(schedule) => InWindows(schedule) /\ (schedule.ready => layout # Absent)

CallSound(c) ==
    /\ c.at # "idle" => layout # Torn
    /\ c.at = "schedule" => InWindows(c.sched) /\ (c.sched.ready => layout # Absent)
    /\ c.at \in {"clear", "unit"} => layout \in Layouts
    /\ c.at \notin {"unit", "residency"} => c.segs = {}
    /\ c.at = "unit" => \A s \in c.segs : SegmentOf(s, layout)

IndexSound == Exists(index) => \A s \in index : \E l \in Layouts : SegmentOf(s, l)

Unspoilt ==
    upsets = 0 =>
        /\ call.at = "unit" => \A s \in call.segs : InCache(s)
        /\ call.at # "unit" => (Exists(index) => \A s \in index : InCache(s))

Verified ==
    /\ call.at = "control" /\ call.cmd = "safe" 
    /\ Exists(index) /\ Scheduled /\ residency # Torn
    => (residency.ready => \A s \in index : InCache(s))

\* What the stream has on disk is sound.
DiskSound == ScheduleSound /\ CallSound(call) /\ IndexSound /\ Unspoilt /\ Verified

StreamInv == StreamTypes /\ DiskSound

\* What a rotation is about to write is still the rotated schedule of those on disk.
TurnSound ==
    (call.at = "schedule" /\ call.turn)
    => /\ Scheduled /\ layout \in Layouts
       /\ ToSet(schedule.warm \o schedule.over) \subseteq Ids(layout)
       /\ call.sched = Rotated(schedule)

-----------------------------------------------------------------------------
\* The elements of a part of a list.
LEMMA PartMembers ==
  ASSUME NEW S, NEW u \in Seq(S), NEW b \in 0 .. Len(u), NEW c \in b .. Len(u), NEW x
  PROVE  x \in ToSet(SubSeq(u, b + 1, c)) <=> \E j \in b + 1 .. c : u[j] = x
<1>1. Len(u) \in Nat /\ b \in Int /\ c \in Int
  BY LenProperties
<1>2. PICK t, p : t = SubSeq(u, b + 1, c) /\ p = b + 1
  OBVIOUS
<1>3. p \in 1 .. Len(u) + 1 /\ c \in p - 1 .. Len(u) /\ c - p + 1 = c - b
  BY <1>1, <1>2
<1>4. /\ t \in Seq(S) /\ Len(t) = c - p + 1
      /\ \A i \in 1 .. c - p + 1 : t[i] = u[p + i - 1]
  BY <1>2, <1>3, PartOfList
<1>5. DOMAIN t = 1 .. c - b
  BY <1>3, <1>4
<1>6. ASSUME NEW i \in 1 .. c - b PROVE i + b \in b + 1 .. c /\ u[i + b] = t[i]
  <2>1. p + i - 1 = i + b /\ i + b \in b + 1 .. c
    BY <1>1, <1>2
  <2> QED BY <1>3, <1>4, <2>1
<1>7. ASSUME NEW j \in b + 1 .. c PROVE j - b \in 1 .. c - b /\ t[j - b] = u[j]
  <2>1. j - b \in 1 .. c - b /\ p + (j - b) - 1 = j
    BY <1>1, <1>2
  <2> QED BY <1>3, <1>4, <2>1
<1>8. x \in ToSet(t) <=> \E i \in 1 .. c - b : t[i] = x
  BY <1>5 DEF ToSet
<1> QED BY <1>2, <1>6, <1>7, <1>8

\* What is left of the last units when the first of them are taken out.
LEMMA CutOff ==
  ASSUME NEW S, NEW u \in Seq(S), Once(u), NEW b \in 0 .. Len(u), NEW a \in b .. Len(u),
         NEW c \in a .. Len(u)
  PROVE  Except(SubSeq(u, a + 1, Len(u)), SubSeq(u, b + 1, c)) = SubSeq(u, c + 1, Len(u))
<1>1. PICK L \in Nat : L = Len(u)
  BY LenProperties
<1>2. /\ a \in Int /\ b \in Int /\ c \in Int /\ 0 <= b /\ b <= a /\ a <= c /\ c <= L
      /\ b \in 0 .. Len(u) /\ c \in b .. Len(u)
  BY <1>1
<1>3. PICK order, gone : /\ order = SubSeq(u, a + 1, L)
                         /\ gone = ToSet(SubSeq(u, b + 1, c))
  OBVIOUS
<1>4. \A x : x \in gone <=> \E j \in b + 1 .. c : u[j] = x
  BY <1>2, <1>3, PartMembers
<1>5. a + 1 \in 1 .. Len(u) + 1 /\ L \in (a + 1) - 1 .. Len(u) /\ L - (a + 1) + 1 = L - a
  BY <1>1, <1>2
<1>6. /\ order \in Seq(S) /\ Len(order) = L - a
      /\ \A i \in 1 .. L - a : order[i] = u[a + i]
  <2>1. PICK p : p = a + 1
    OBVIOUS
  <2>2. p \in 1 .. Len(u) + 1 /\ L \in p - 1 .. Len(u) /\ L - p + 1 = L - a
    BY <1>5, <2>1
  <2>3. /\ SubSeq(u, p, L) \in Seq(S) /\ Len(SubSeq(u, p, L)) = L - p + 1
        /\ \A i \in 1 .. L - p + 1 : SubSeq(u, p, L)[i] = u[p + i - 1]
    BY <2>2, PartOfList
  <2>4. \A i \in 1 .. L - a : p + i - 1 = a + i
    BY <1>2, <2>1
  <2> QED BY <1>3, <2>1, <2>2, <2>3, <2>4
<1>7. PICK n \in 0 .. Len(order) : n = c - a
  BY <1>2, <1>6
<1>8. \A i \in 1 .. n : order[i] \in gone
  <2> TAKE i \in 1 .. n
  <2>1. i \in 1 .. L - a /\ a + i \in b + 1 .. c
    BY <1>2, <1>7
  <2> QED BY <1>4, <1>6, <2>1
<1>9. \A i \in n + 1 .. Len(order) : order[i] \notin gone
  <2> SUFFICES ASSUME NEW i \in n + 1 .. Len(order), NEW j \in b + 1 .. c, u[j] = order[i]
               PROVE  FALSE
    BY <1>4
  <2>1. i \in 1 .. L - a /\ a + i \in 1 .. Len(u) /\ j \in 1 .. Len(u) /\ j < a + i
    BY <1>1, <1>2, <1>6, <1>7
  <2>2. u[j] = u[a + i]
    BY <1>6, <2>1
  <2>3. j = a + i
    BY <2>1, <2>2 DEF Once
  <2> QED BY <2>1, <2>3
<1>10. WithoutAll(order, gone) = SubSeq(order, n + 1, Len(order))
  BY <1>6, <1>8, <1>9, WithoutFirst
<1>11. SubSeq(order, n + 1, Len(order)) = SubSeq(u, c + 1, L)
  <2>1. PICK i, m, k : i = a + 1 /\ m = n + 1 /\ k = L - a
    OBVIOUS
  <2>2. /\ i \in 1 .. Len(u) + 1 /\ L \in i - 1 .. Len(u)
        /\ m \in 1 .. L - i + 2 /\ k \in m - 1 .. L - i + 1
        /\ i + m - 1 = c + 1 /\ i + k - 1 = L
    BY <1>1, <1>2, <1>7, <2>1
  <2>3. SubSeq(SubSeq(u, i, L), m, k) = SubSeq(u, i + m - 1, i + k - 1)
    BY <2>2, PartOfPart
  <2> QED BY <1>3, <1>6, <2>1, <2>2, <2>3
<1> QED BY <1>1, <1>3, <1>10, <1>11 DEF Except

\* The size of a window in the units of a manifest.
LEMMA SizeFacts ==
  ASSUME NEW l \in Layouts, NEW ids \in Seq(Ids(l))
  PROVE  Size(ids, l) \in Nat
<1>1. PICK L \in Nat : L = Len(ids)
  BY LenProperties
<1>2. PICK size : size = [i \in 1 .. L |-> Cardinality(UnitBytes[l][ids[i]])]
  OBVIOUS
<1>3. IsFiniteSet(1 .. L)
  <2>1. 1 \in Int /\ L \in Int
    OBVIOUS
  <2> QED BY <2>1, FS_Interval, Zenon
<1>4. Sizes(1 .. L, size)
  <2> SUFFICES ASSUME NEW i \in 1 .. L PROVE size[i] \in Nat
    BY DEF Sizes
  <2>1. ids[i] \in Ids(l)
    BY <1>1, ElementOfSeq
  <2>2. IsFiniteSet(UnitBytes[l][ids[i]])
    BY <2>1, StreamAssumption DEF Ids
  <2>3. size[i] = Cardinality(UnitBytes[l][ids[i]])
    BY <1>2
  <2> QED BY <2>2, <2>3, FS_CardinalityType
<1>5. TotalOf(1 .. L, size) \in Nat
  BY <1>3, <1>4, TotalType
<1> QED BY <1>1, <1>2, <1>5 DEF Size

\* An empty window has no bytes.
LEMMA SizeOfNone ==
  ASSUME NEW l PROVE Size(<<>>, l) = 0
<1>1. PICK none : none = <<>>
  OBVIOUS
<1>2. PICK places : places = 1 .. Len(none)
  OBVIOUS
<1>3. places = {}
  BY <1>1, <1>2
<1>4. PICK size : size = [i \in places |-> Cardinality(UnitBytes[l][none[i]])]
  OBVIOUS
<1>5. Size(none, l) = TotalOf(places, size)
  BY <1>2, <1>4, Zenon DEF Size
<1>6. TotalOf({}, size) = 0
  BY TotalOfNone
<1> QED BY <1>1, <1>3, <1>5, <1>6

\* A window is filled with the first units, and they fit.
LEMMA FillFacts ==
  ASSUME NEW l \in Layouts, NEW ids \in Seq(Ids(l)), NEW target \in Nat
  PROVE  \E n \in 0 .. Len(ids) :
            /\ Fill(ids, target, l) = SubSeq(ids, 1, n)
            /\ Size(SubSeq(ids, 1, n), l) \in 0 .. target
<1> DEFINE fits(n) == Size(SubSeq(ids, 1, n), l) <= target
           ends(n) == fits(n) /\ (n = Len(ids) \/ ~fits(n + 1))
<1>1. PICK L \in Nat : L = Len(ids)
  BY LenProperties
<1>2. Fill(ids, target, l) = SubSeq(ids, 1, CHOOSE n \in 0 .. Len(ids) : ends(n))
  BY DEF Fill
<1>3. fits(0)
  <2>1. SubSeq(ids, 1, 0) = <<>>
    BY SubSeqEmpty
  <2>2. Size(SubSeq(ids, 1, 0), l) = Size(<<>>, l)
    BY <2>1, Zenon
  <2>3. Size(SubSeq(ids, 1, 0), l) = 0
    BY <2>2, SizeOfNone, Zenon
  <2>4. PICK size : size = Size(SubSeq(ids, 1, 0), l)
    OBVIOUS
  <2>5. size <= target
    BY <2>3, <2>4
  <2> QED BY <2>4, <2>5, Zenon
<1> HIDE DEF fits
<1>4. \E n \in 0 .. L : ends(n)
  <2>1. PICK T \in SUBSET (0 .. L) : T = {n \in 0 .. L : n = L \/ ~fits(n + 1)}
    OBVIOUS
  <2>2. L \in T
    BY <2>1
  <2>3. PICK n \in T : \A m \in 0 .. n - 1 : m \notin T
    BY <2>2, LeastOf
  <2>4. CASE n = 0
    <3>1. n \in 0 .. L /\ (n = L \/ ~fits(n + 1)) /\ fits(n)
      BY <1>3, <2>1, <2>4
    <3> QED BY <1>1, <3>1
  <2>5. CASE n # 0
    <3>1. n \in 0 .. L /\ n - 1 \in 0 .. n - 1 /\ n - 1 \in 0 .. L /\ n - 1 # L /\ n - 1 + 1 = n
      BY <2>1, <2>5
    <3>2. fits(n)
      <4>1. n - 1 \notin T
        BY <2>3, <3>1
      <4>2. ~(~fits(n - 1 + 1))
        BY <2>1, <3>1, <4>1
      <4> QED BY <3>1, <4>2
    <3>3. n = L \/ ~fits(n + 1)
      BY <2>1
    <3> QED BY <1>1, <3>1, <3>2, <3>3
  <2> QED BY <2>4, <2>5
<1>5. PICK n : n = CHOOSE k \in 0 .. Len(ids) : ends(k)
  OBVIOUS
<1>6. n \in 0 .. L /\ ends(n)
  BY <1>1, <1>4, <1>5
<1>7. Size(SubSeq(ids, 1, n), l) <= target
  BY <1>6 DEF fits
<1>8. Size(SubSeq(ids, 1, n), l) \in Nat
  <2>1. 1 \in 1 .. Len(ids) + 1 /\ n \in 1 - 1 .. Len(ids)
    BY <1>1, <1>6
  <2>2. SubSeq(ids, 1, n) \in Seq(Ids(l))
    BY <2>1, PartOfList
  <2> QED BY <2>2, SizeFacts
<1>9. n \in 0 .. Len(ids) /\ Fill(ids, target, l) = SubSeq(ids, 1, n)
  BY <1>1, <1>2, <1>5, <1>6, Zenon
<1>10. PICK size : size = Size(SubSeq(ids, 1, n), l)
  OBVIOUS
<1>11. size \in 0 .. target
  BY <1>7, <1>8, <1>10
<1> QED BY <1>9, <1>10, <1>11, Zenon

\* A window is filled with the first of the last units, and they fit.
LEMMA FillsLast ==
  ASSUME NEW l \in Layouts, NEW S, NEW u \in Seq(S), NEW a \in 0 .. Len(u),
         NEW c \in a .. Len(u), SubSeq(u, a + 1, c) \in Seq(Ids(l)), NEW target \in Nat
  PROVE  \E k \in a .. c :
            /\ Fill(SubSeq(u, a + 1, c), target, l) = SubSeq(u, a + 1, k)
            /\ Size(SubSeq(u, a + 1, k), l) \in 0 .. target
<1>1. PICK ids, p : ids = SubSeq(u, p, c) /\ p = a + 1
  OBVIOUS
<1>2. Len(u) \in Nat /\ a \in Int /\ c \in Int /\ p \in 1 .. Len(u) + 1 /\ c \in p - 1 .. Len(u)
      /\ c - p + 1 = c - a
  BY <1>1, LenProperties
<1>3. Len(ids) = c - a
  BY <1>1, <1>2, PartOfList
<1>4. PICK n \in 0 .. c - a : /\ Fill(ids, target, l) = SubSeq(ids, 1, n)
                             /\ Size(SubSeq(ids, 1, n), l) \in 0 .. target
  <2>1. ids \in Seq(Ids(l))
    BY <1>1
  <2> QED BY <1>3, <2>1, FillFacts
<1>5. /\ 1 \in 1 .. c - p + 2 /\ n \in 1 - 1 .. c - p + 1
      /\ p + 1 - 1 = a + 1 /\ p + n - 1 = a + n /\ a + n \in a .. c
  BY <1>1, <1>2
<1>6. SubSeq(ids, 1, n) = SubSeq(u, a + 1, a + n)
  <2>1. SubSeq(SubSeq(u, p, c), 1, n) = SubSeq(u, p + 1 - 1, p + n - 1)
    BY <1>2, <1>5, PartOfPart
  <2> QED BY <1>1, <1>5, <2>1
<1> QED BY <1>1, <1>4, <1>5, <1>6

-----------------------------------------------------------------------------
\* The units of a manifest, each of them once, and the targets of its windows.
LEMMA LayoutFacts ==
  ASSUME NEW l \in Layouts
  PROVE  /\ Units[l] \in Seq(Ids(l)) /\ Units[l] # <<>> /\ Once(Units[l])
         /\ Len(Units[l]) \in Nat \ {0}
         /\ HotTarget[l] \in Nat /\ WarmTarget[l] \in 0 .. HotTarget[l]
         /\ l # Absent /\ l # Torn
<1>1. /\ Units[l] \in Seq(Ids(l)) /\ Units[l] # <<>> /\ Once(Units[l])
      /\ HotTarget[l] \in Nat /\ WarmTarget[l] \in 0 .. HotTarget[l]
      /\ l # Absent /\ l # Torn
  BY StreamAssumption DEF Ids
<1>2. Len(Units[l]) \in Nat \ {0}
  <2>1. PICK u : u = Units[l]
    OBVIOUS
  <2>2. u \in Seq(Ids(l)) /\ u # <<>>
    BY <1>1, <2>1
  <2>3. Len(u) \in Nat /\ Len(u) # 0
    BY <2>2, LenProperties, EmptySeq
  <2> QED BY <2>1, <2>3
<1> QED BY <1>1, <1>2

\* A schedule that is built begins with the first unit.
LEMMA BuiltSound ==
  ASSUME layout \in Layouts \cup {Absent}, NEW s, s = BuiltSchedule
  PROVE  InWindows(s) /\ (s.ready => layout # Absent)
<1>1. CASE ~MapReady
  <2>1. s = Windows(<<>>, <<>>, <<>>, layout, <<layout, layout>>)
    BY <1>1 DEF BuiltSchedule
  <2>2. ~s.ready
    <3>1. PICK hot, by : hot = <<>> /\ by = <<layout, layout>>
      OBVIOUS
    <3>2. s = Windows(hot, hot, hot, layout, by)
      BY <2>1, <3>1, Zenon
    <3>3. s.ready = (hot # <<>>)
      BY <3>2 DEF Windows
    <3> QED BY <3>1, <3>3
  <2> QED BY <2>2 DEF InWindows
<1>2. CASE MapReady
  <2>1. layout \in Layouts /\ layout # Absent
    BY <1>2, StreamAssumption DEF MapReady
  <2>2. PICK u, L, S : u = Units[layout] /\ L = Len(u) /\ S = Ids(layout)
    OBVIOUS
  <2>3. /\ u \in Seq(S) /\ u # <<>> /\ Once(u) /\ L \in Nat \ {0}
        /\ HotTarget[layout] \in Nat /\ WarmTarget[layout] \in Nat
    BY <2>1, <2>2, LayoutFacts
  <2>4. PICK hot, warm, over :
           /\ hot = Fill(SubSeq(u, 1, 1), HotTarget[layout], layout)
           /\ warm = Fill(Tail(u), WarmTarget[layout], layout)
           /\ over = Except(u, hot \o warm)
    OBVIOUS
  <2>5. s = Windows(hot, warm, over, layout, <<layout, layout>>)
    BY <1>2, <2>2, <2>4, Zenon DEF BuiltSchedule
  <2>6. /\ s.hot = hot /\ s.warm = warm /\ s.over = over /\ s.for = layout
        /\ s.by[1] = layout /\ s.by[2] = layout /\ s.ready = (hot # <<>>)
    BY <2>5 DEF Windows
  <2>7. PICK k \in 0 .. 1 : /\ hot = SubSeq(u, 1, k)
                            /\ Size(SubSeq(u, 1, k), layout) \in 0 .. HotTarget[layout]
    <3>1. PICK z \in 0 .. L : z = 0
      BY <2>3
    <3>2. 1 \in z .. L /\ z + 1 = 1 /\ z \in 0 .. L
      BY <2>3, <3>1
    <3>3. SubSeq(u, z + 1, 1) \in Seq(Ids(layout))
      <4>1. 1 \in 1 .. Len(u) + 1 /\ 1 \in 1 - 1 .. Len(u)
        BY <2>2, <2>3
      <4>2. SubSeq(u, 1, 1) \in Seq(S)
        BY <2>3, <4>1, PartOfList
      <4> QED BY <2>2, <3>2, <4>2
    <3>4. PICK k \in z .. 1 :
             /\ Fill(SubSeq(u, z + 1, 1), HotTarget[layout], layout) = SubSeq(u, z + 1, k)
             /\ Size(SubSeq(u, z + 1, k), layout) \in 0 .. HotTarget[layout]
      BY <2>1, <2>2, <2>3, <3>2, <3>3, FillsLast
    <3> QED BY <2>4, <3>1, <3>2, <3>4
  <2>8. PICK a \in 1 .. L : /\ warm = SubSeq(u, 2, a)
                            /\ Size(SubSeq(u, 2, a), layout) \in 0 .. WarmTarget[layout]
    <3>1. PICK z \in 0 .. L : z = 1
      BY <2>3
    <3>2. L \in z .. L /\ z + 1 = 2
      BY <2>3, <3>1
    <3>3. Tail(u) = SubSeq(u, z + 1, L)
      BY <2>2, <2>3, <3>2, TailIsSubSeq
    <3>4. SubSeq(u, z + 1, L) \in Seq(Ids(layout))
      BY <2>2, <2>3, <3>3, HeadTailProperties
    <3>5. PICK a \in z .. L :
             /\ Fill(SubSeq(u, z + 1, L), WarmTarget[layout], layout) = SubSeq(u, z + 1, a)
             /\ Size(SubSeq(u, z + 1, a), layout) \in 0 .. WarmTarget[layout]
      BY <2>1, <2>2, <2>3, <3>2, <3>4, FillsLast
    <3> QED BY <2>4, <3>1, <3>2, <3>3, <3>5
  <2>9. CASE k = 0
    <3>1. hot = <<>>
      BY <2>7, <2>9, SubSeqEmpty
    <3> QED BY <2>6, <3>1 DEF InWindows
  <2>10. CASE k = 1
    <3>1. hot \o warm = SubSeq(u, 1, a)
      <4>1. 1 \in 1 .. Len(u) + 1 /\ 1 \in 1 - 1 .. Len(u) /\ a \in 1 .. Len(u)
        BY <2>2, <2>3
      <4>2. SubSeq(u, 1, 1) \o SubSeq(u, 1 + 1, a) = SubSeq(u, 1, a)
        BY <2>3, <4>1, ConcatAdjacentSubSeq
      <4> QED BY <2>7, <2>8, <2>10, <4>2
    <3>2. over = SubSeq(u, a + 1, L)
      <4>1. PICK z \in 0 .. Len(u) : z = 0
        BY <2>2, <2>3
      <4>2. z \in z .. Len(u) /\ a \in z .. Len(u) /\ z + 1 = 1
        BY <2>2, <2>3, <4>1
      <4>3. Except(SubSeq(u, z + 1, Len(u)), SubSeq(u, z + 1, a)) = SubSeq(u, a + 1, Len(u))
        BY <2>3, <4>2, CutOff
      <4>4. SubSeq(u, 1, Len(u)) = u
        BY <2>3, SubSeqFull
      <4> QED BY <2>2, <2>4, <3>1, <4>2, <4>3, <4>4
    <3>3. Split(s, u, 0, 1, a)
      <4>1. 0 + 1 = 1 /\ 1 + 1 = 2
        OBVIOUS
      <4> QED BY <2>2, <2>6, <2>7, <2>8, <2>10, <3>2, <4>1 DEF Split
    <3>4. 0 \in 0 .. L /\ 1 \in 0 .. L /\ a \in 1 .. L
      BY <2>3
    <3>5. /\ Size(s.hot, s.by[1]) <= HotTarget[s.for]
          /\ Size(s.warm, s.by[2]) \in 0 .. WarmTarget[s.for]
      <4>1. PICK x, y : /\ x = Size(SubSeq(u, 1, k), layout)
                        /\ y = Size(SubSeq(u, 2, a), layout)
        OBVIOUS
      <4>2. x <= HotTarget[layout] /\ y \in 0 .. WarmTarget[layout]
        BY <2>7, <2>8, <4>1
      <4>3. Size(s.hot, s.by[1]) = x /\ Size(s.warm, s.by[2]) = y /\ s.for = layout
        BY <2>6, <2>7, <2>8, <4>1, Zenon
      <4> QED BY <4>2, <4>3, Zenon
    <3> QED BY <2>1, <2>2, <2>6, <1>2, <3>3, <3>4, <3>5 DEF InWindows
  <2> QED BY <2>9, <2>10
<1> QED BY <1>1, <1>2

\* A window is a part of the units that are left, when the others are dropped.
LEMMA LastOfUnits ==
  ASSUME NEW S, NEW u \in Seq(S), NEW T, NEW a \in 0 .. Len(u), NEW c \in a .. Len(u),
         \A i \in a + 1 .. Len(u) : u[i] \in T
  PROVE  SubSeq(u, c + 1, Len(u)) \in Seq(T)
<1>1. Len(u) \in Nat /\ a \in Int /\ c \in Int
  BY LenProperties
<1>2. \A i \in c + 1 .. Len(u) : u[i] \in T
  BY <1>1
<1>3. PICK m, n \in Int : m = c + 1 /\ n = Len(u)
  BY <1>1
<1> QED BY <1>2, <1>3, SubSeqProperties

\* A schedule that goes on where the present hot window ends.
Follows(s) ==
    /\ s.for = schedule.for
    /\ s.hot \o s.warm \o s.over = schedule.warm \o schedule.over
    /\ schedule.warm # <<>> => s.hot = schedule.warm

\* A rotation takes the next units, and all of what is left.
LEMMA RotatedSound ==
  ASSUME Scheduled, InWindows(schedule), layout \in Layouts,
         ToSet(schedule.warm \o schedule.over) \subseteq Ids(layout),
         NEW s, s = Rotated(schedule)
  PROVE  InWindows(s) /\ Follows(s)
<1>1. PICK l, u, L, S : l = schedule.for /\ u = Units[l] /\ L = Len(u) /\ S = Ids(l)
  OBVIOUS
<1>2. schedule.ready /\ l \in Layouts
  BY <1>1 DEF Scheduled, InWindows
<1>3. /\ u \in Seq(S) /\ Once(u) /\ L \in Nat
      /\ HotTarget[l] \in Nat /\ WarmTarget[l] \in 0 .. HotTarget[l]
  BY <1>1, <1>2, LayoutFacts
<1>4. PICK n \in 0 .. L : \E b \in n .. L : \E a \in b .. L : Split(schedule, u, n, b, a)
  BY <1>1, <1>2 DEF InWindows
<1>5. PICK b \in n .. L : \E a \in b .. L : Split(schedule, u, n, b, a)
  BY <1>4
<1>6. PICK a \in b .. L : Split(schedule, u, n, b, a)
  BY <1>5
<1>7. b \in 0 .. L /\ a \in 0 .. L /\ a \in Int /\ b \in Int
  BY <1>3, <1>4, <1>5, <1>6
<1>8. /\ schedule.warm = SubSeq(u, b + 1, a) /\ schedule.over = SubSeq(u, a + 1, L)
      /\ Size(schedule.warm, schedule.by[2]) \in 0 .. WarmTarget[l]
  BY <1>1, <1>2, <1>6 DEF Split, InWindows
<1>9. \A i \in a + 1 .. L : u[i] \in Ids(layout)
  <2>1. PICK w, o : w = schedule.warm /\ o = schedule.over
    OBVIOUS
  <2>2. PICK p, q : p = b + 1 /\ q = a + 1
    OBVIOUS
  <2>3. w \in Seq(S)
    <3>1. p \in 1 .. Len(u) + 1 /\ a \in p - 1 .. Len(u)
      BY <1>1, <1>3, <1>6, <1>7, <2>2
    <3> QED BY <1>3, <1>8, <2>1, <2>2, <3>1, PartOfList
  <2>4. /\ o \in Seq(S) /\ Len(o) = L - q + 1
        /\ \A i \in 1 .. L - q + 1 : o[i] = u[q + i - 1]
    <3>1. q \in 1 .. Len(u) + 1 /\ L \in q - 1 .. Len(u)
      BY <1>1, <1>3, <1>6, <1>7, <2>2
    <3> QED BY <1>3, <1>8, <2>1, <2>2, <3>1, PartOfList
  <2>5. /\ w \o o \in Seq(S) /\ Len(w \o o) = Len(w) + Len(o)
        /\ \A i \in 1 .. Len(w) + Len(o) : (w \o o)[i] = IF i <= Len(w) THEN w[i] ELSE o[i - Len(w)]
    BY <2>3, <2>4, ConcatProperties
  <2> TAKE i \in a + 1 .. L
  <2>6. i - a \in 1 .. L - q + 1 /\ q + (i - a) - 1 = i
    BY <1>3, <1>7, <2>2
  <2>7. o[i - a] = u[i]
    BY <2>4, <2>6
  <2>8. Len(w) \in Nat /\ Len(o) \in Nat
    BY <2>3, <2>4, LenProperties
  <2>9. /\ Len(w) + (i - a) \in 1 .. Len(w) + Len(o)
        /\ ~(Len(w) + (i - a) <= Len(w)) /\ (Len(w) + (i - a)) - Len(w) = i - a
    BY <1>7, <2>4, <2>6, <2>8
  <2>10. (w \o o)[Len(w) + (i - a)] = u[i]
    BY <2>5, <2>7, <2>9
  <2>11. PICK z, j : z = w \o o /\ j = Len(w) + (i - a)
    OBVIOUS
  <2>12. z \in Seq(S) /\ j \in 1 .. Len(z) /\ z[j] = u[i]
    BY <2>5, <2>9, <2>10, <2>11
  <2>13. z[j] \in ToSet(z)
    BY <2>12 DEF ToSet
  <2>14. ToSet(z) \subseteq Ids(layout)
    BY <2>1, <2>11
  <2> QED BY <2>12, <2>13, <2>14
<1>10. \A c \in a .. L : SubSeq(u, c + 1, L) \in Seq(Ids(layout))
  BY <1>1, <1>3, <1>7, <1>9, LastOfUnits
<1>11. PICK hot, rest, warm, over :
          /\ hot = IF schedule.warm # <<>> THEN schedule.warm
                   ELSE Fill(schedule.over, HotTarget[schedule.for], layout)
          /\ rest = Except(schedule.over, hot)
          /\ warm = Fill(rest, WarmTarget[schedule.for], layout)
          /\ over = Except(rest, warm)
  OBVIOUS
<1>12. PICK by : by = <<IF schedule.warm # <<>> THEN schedule.by[2] ELSE layout, layout>>
  OBVIOUS
<1>13. s = Windows(hot, warm, over, l, by)
  BY <1>1, <1>11, <1>12, Zenon DEF Rotated
<1>14. /\ s.hot = hot /\ s.warm = warm /\ s.over = over /\ s.for = l /\ s.by = by
  BY <1>13 DEF Windows
\* The new hot window goes on where the old one ended.
<1>15. \E d \in b .. L : \E c \in d .. L :
          /\ d = b \/ (d = a /\ schedule.warm = <<>>)
          /\ hot = SubSeq(u, d + 1, c) /\ rest = SubSeq(u, c + 1, L)
          /\ c \in a .. L /\ Size(hot, by[1]) <= HotTarget[l]
  <2>1. CASE schedule.warm # <<>>
    <3>1. hot = SubSeq(u, b + 1, a) /\ hot = schedule.warm
      BY <1>8, <1>11, <2>1
    <3>2. rest = SubSeq(u, a + 1, L)
      <4>1. a \in a .. Len(u) /\ b \in 0 .. Len(u) /\ a \in b .. Len(u)
        BY <1>1, <1>6, <1>7
      <4>2. Except(SubSeq(u, a + 1, Len(u)), SubSeq(u, b + 1, a)) = SubSeq(u, a + 1, Len(u))
        BY <1>3, <4>1, CutOff
      <4> QED BY <1>1, <1>8, <1>11, <3>1, <4>2
    <3>3. by[1] = schedule.by[2]
      BY <1>12, <2>1
    <3>4. Size(hot, by[1]) <= HotTarget[l]
      <4>1. PICK x : x = Size(schedule.warm, schedule.by[2])
        OBVIOUS
      <4>2. x <= HotTarget[l]
        BY <1>3, <1>8, <4>1
      <4>3. Size(hot, by[1]) = x
        BY <3>1, <3>3, <4>1, Zenon
      <4> QED BY <4>2, <4>3, Zenon
    <3>5. b \in b .. L /\ a \in b .. L /\ a \in a .. L
      BY <1>6, <1>7
    <3> QED BY <3>1, <3>2, <3>4, <3>5
  <2>2. CASE schedule.warm = <<>>
    <3>1. PICK c \in a .. L :
             /\ Fill(SubSeq(u, a + 1, L), HotTarget[l], layout) = SubSeq(u, a + 1, c)
             /\ Size(SubSeq(u, a + 1, c), layout) \in 0 .. HotTarget[l]
      <4>1. a \in 0 .. Len(u) /\ L \in a .. Len(u) /\ SubSeq(u, a + 1, L) \in Seq(Ids(layout))
        BY <1>1, <1>6, <1>7, <1>10
      <4> QED BY <1>1, <1>3, <4>1, FillsLast
    <3>2. hot = SubSeq(u, a + 1, c)
      BY <1>1, <1>8, <1>11, <2>2, <3>1
    <3>3. rest = SubSeq(u, c + 1, L)
      <4>1. c \in a .. Len(u) /\ a \in 0 .. Len(u) /\ a \in a .. Len(u)
        BY <1>1, <1>7, <3>1
      <4>2. Except(SubSeq(u, a + 1, Len(u)), SubSeq(u, a + 1, c)) = SubSeq(u, c + 1, Len(u))
        BY <1>3, <4>1, CutOff
      <4> QED BY <1>1, <1>8, <1>11, <3>2, <4>2
    <3>4. by[1] = layout
      BY <1>12, <2>2
    <3>5. Size(hot, by[1]) <= HotTarget[l]
      <4>1. PICK x : x = Size(SubSeq(u, a + 1, c), layout)
        OBVIOUS
      <4>2. x <= HotTarget[l]
        BY <3>1, <4>1
      <4>3. Size(hot, by[1]) = x
        BY <3>2, <3>4, <4>1, Zenon
      <4> QED BY <4>2, <4>3, Zenon
    <3>6. a \in b .. L /\ c \in a .. L
      BY <1>6, <3>1
    <3> QED BY <2>2, <3>2, <3>3, <3>5, <3>6
  <2> QED BY <2>1, <2>2
<1>16. PICK d \in b .. L : \E c \in d .. L :
          /\ d = b \/ (d = a /\ schedule.warm = <<>>)
          /\ hot = SubSeq(u, d + 1, c) /\ rest = SubSeq(u, c + 1, L)
          /\ c \in a .. L /\ Size(hot, by[1]) <= HotTarget[l]
  BY <1>15
<1>17. PICK c \in d .. L :
          /\ d = b \/ (d = a /\ schedule.warm = <<>>)
          /\ hot = SubSeq(u, d + 1, c) /\ rest = SubSeq(u, c + 1, L)
          /\ c \in a .. L /\ Size(hot, by[1]) <= HotTarget[l]
  BY <1>16
<1>18. d \in 0 .. L /\ c \in 0 .. L /\ c \in Int
  BY <1>7, <1>16, <1>17
<1>19. PICK k \in c .. L :
          /\ Fill(SubSeq(u, c + 1, L), WarmTarget[l], layout) = SubSeq(u, c + 1, k)
          /\ Size(SubSeq(u, c + 1, k), layout) \in 0 .. WarmTarget[l]
  <2>1. /\ c \in 0 .. Len(u) /\ L \in c .. Len(u) /\ SubSeq(u, c + 1, L) \in Seq(Ids(layout))
        /\ WarmTarget[l] \in Nat
    BY <1>1, <1>3, <1>10, <1>17, <1>18
  <2> QED BY <1>1, <1>3, <2>1, FillsLast
<1>20. warm = SubSeq(u, c + 1, k)
  BY <1>1, <1>11, <1>17, <1>19
<1>21. over = SubSeq(u, k + 1, L)
  <2>1. k \in c .. Len(u) /\ c \in 0 .. Len(u) /\ c \in c .. Len(u)
    BY <1>1, <1>18, <1>19
  <2>2. Except(SubSeq(u, c + 1, Len(u)), SubSeq(u, c + 1, k)) = SubSeq(u, k + 1, Len(u))
    BY <1>3, <2>1, CutOff
  <2> QED BY <1>1, <1>11, <1>17, <1>20, <2>2
<1>22. Split(s, u, d, c, k)
  BY <1>1, <1>14, <1>17, <1>20, <1>21 DEF Split
<1>23. Size(s.warm, s.by[2]) \in 0 .. WarmTarget[l]
  <2>1. by[2] = layout
    BY <1>12
  <2> QED BY <1>14, <1>19, <1>20, <2>1
<1>24. Size(s.hot, s.by[1]) <= HotTarget[l]
  BY <1>14, <1>17, Zenon
<1>25. \E i \in 0 .. L : \E j \in i .. L : \E m \in j .. L : Split(s, u, i, j, m)
  BY <1>17, <1>18, <1>19, <1>22
<1>26. InWindows(s)
  BY <1>1, <1>2, <1>14, <1>23, <1>24, <1>25 DEF InWindows
\* Both end with the last unit and begin with the same one.
<1>27. PICK m \in 1 .. L + 1 : m = d + 1
  <2>1. d + 1 \in 1 .. L + 1
    BY <1>3, <1>18
  <2> QED BY <2>1
<1>28. schedule.warm \o schedule.over = SubSeq(u, m, L)
  <2>1. CASE d = b
    <3>1. m \in 1 .. Len(u) + 1 /\ a \in m - 1 .. Len(u) /\ L \in a .. Len(u)
      BY <1>1, <1>3, <1>6, <1>7, <1>27, <2>1
    <3>2. SubSeq(u, m, a) \o SubSeq(u, a + 1, L) = SubSeq(u, m, L)
      BY <1>3, <3>1, ConcatAdjacentSubSeq
    <3> QED BY <1>8, <1>27, <2>1, <3>2
  <2>2. CASE d = a /\ schedule.warm = <<>>
    <3>1. m \in 1 .. Len(u) + 1 /\ L \in m - 1 .. Len(u)
      BY <1>1, <1>3, <1>7, <1>27, <2>2
    <3>2. PICK o : o = SubSeq(u, m, L)
      OBVIOUS
    <3>3. o \in Seq(S)
      BY <1>3, <3>1, <3>2, PartOfList
    <3>4. <<>> \o o = o
      BY <3>3, ConcatEmptySeq
    <3>5. schedule.over = o
      BY <1>8, <1>27, <2>2, <3>2
    <3> QED BY <2>2, <3>2, <3>4, <3>5, Zenon
  <2> QED BY <1>17, <2>1, <2>2
<1>29. hot \o warm = SubSeq(u, m, k)
  <2>1. m \in 1 .. Len(u) + 1 /\ c \in m - 1 .. Len(u) /\ k \in c .. Len(u)
    BY <1>1, <1>3, <1>17, <1>18, <1>19, <1>27
  <2>2. SubSeq(u, m, c) \o SubSeq(u, c + 1, k) = SubSeq(u, m, k)
    BY <1>3, <2>1, ConcatAdjacentSubSeq
  <2> QED BY <1>17, <1>20, <1>27, <2>2
<1>30. (hot \o warm) \o over = SubSeq(u, m, L)
  <2>1. m \in 1 .. Len(u) + 1 /\ k \in m - 1 .. Len(u) /\ L \in k .. Len(u)
    BY <1>1, <1>3, <1>17, <1>18, <1>19, <1>27
  <2>2. SubSeq(u, m, k) \o SubSeq(u, k + 1, L) = SubSeq(u, m, L)
    BY <1>3, <2>1, ConcatAdjacentSubSeq
  <2> QED BY <1>21, <1>29, <2>2
<1>31. schedule.warm # <<>> => s.hot = schedule.warm
  BY <1>11, <1>14
<1>32. s.hot \o s.warm \o s.over = schedule.warm \o schedule.over
  BY <1>14, <1>28, <1>30, Zenon
<1> QED BY <1>1, <1>14, <1>26, <1>31, <1>32 DEF Follows

-----------------------------------------------------------------------------
\* A call between two of its writes: it lists no segments.
Quiet(c) == CallKnown(c) /\ c.segs = {} /\ layout # Torn

\* No call at all is sound.
LEMMA NoCallSound == CallKnown(NoCall) /\ CallSound(NoCall) /\ NoCall.at = "idle" /\ NoCall.segs = {}
BY DEF CallKnown, CallSound, NoCall, CallPlaces

\* A call may go on where neither its schedule nor the manifest matters.
LEMMA GoesOnSound ==
  ASSUME NEW c, Quiet(c), NEW place \in {"control", "verify", "index"},
         NEW d, d = [c EXCEPT !.at = place]
  PROVE  CallSound(d) /\ d.at = place /\ d.cmd = c.cmd
BY DEF Quiet, CallKnown, CallSound

\* A rotation has a schedule that it may write.
LEMMA RotatingSound ==
  ASSUME STypeOK, ScheduleSound, NEW c, Quiet(c), NEW d, d = Rotating(c)
  PROVE  CallSound(d) /\ d.at \in {"idle", "schedule"}
<1>1. CASE d = NoCall
  BY <1>1, NoCallSound
<1>2. CASE d # NoCall
  <2>1. /\ Scheduled /\ layout \in Layouts
        /\ ToSet(schedule.warm \o schedule.over) \subseteq Ids(layout)
        /\ d = [c EXCEPT !.at = "schedule", !.sched = Rotated(schedule), !.turn = TRUE]
    BY <1>2, Zenon DEF Rotating, MapReady
  <2>2. PICK s : s = Rotated(schedule)
    OBVIOUS
  <2>3. InWindows(s)
    <3>1. InWindows(schedule)
      BY <2>1 DEF ScheduleSound, Scheduled
    <3> QED BY <2>1, <2>2, <3>1, RotatedSound
  <2>4. layout # Absent
    BY <2>1, StreamAssumption
  <2>5. d.at = "schedule" /\ d.sched = s /\ d.segs = {}
    BY <2>1, <2>2 DEF Quiet, CallKnown
  <2> QED BY <2>3, <2>4, <2>5 DEF Quiet, CallSound
<1> QED BY <1>1, <1>2 DEF DiskSound

\* A materialization has a manifest.
LEMMA MaterializingSound ==
  ASSUME STypeOK, ScheduleSound, NEW c, Quiet(c), NEW d, d = Materializing(c)
  PROVE  CallSound(d) /\ d.at \in {"clear", "index"}
<1>1. PICK s : s = IF Scheduled THEN schedule ELSE BuiltSchedule
  OBVIOUS
<1>4. d = IF s.ready /\ MapReady THEN [c EXCEPT !.at = "clear", !.sched = s]
          ELSE [c EXCEPT !.at = "index", !.sched = s, !.brief = TRUE, !.blocked = TRUE]
  BY <1>1 DEF Materializing
<1>5. CASE s.ready /\ MapReady
  <2>1. d.at = "clear" /\ d.segs = {}
    BY <1>4, <1>5 DEF Quiet, CallKnown
  <2> QED BY <1>5, <2>1 DEF CallSound, Quiet, MapReady
<1>6. CASE ~(s.ready /\ MapReady)
  <2>1. d.at = "index" /\ d.segs = {}
    BY <1>4, <1>6 DEF Quiet, CallKnown
  <2> QED BY <2>1 DEF CallSound, Quiet
<1> QED BY <1>5, <1>6 DEF DiskSound

\* What did not go wrong did not go wrong before.
LEMMA NothingWrong ==
  ASSUME STypeOK, Upset \/ UNCHANGED upsets
  PROVE  upsets' = 0 => upsets = 0 /\ ~Upset
BY StreamAssumption DEF STypeOK, Upset

\* A step that writes neither the schedule nor the cache nor its index.
LEMMA OnDiskSame ==
  ASSUME StreamInv, UNCHANGED <<layout, schedule, index, cache>>, CallSound(call'),
         upsets' = 0 => upsets = 0, call.at # "unit", call'.at # "unit",
         call'.at = "control" => call'.cmd # "safe"
  PROVE  DiskSound'
<1>1. ScheduleSound'
  BY DEF StreamInv, DiskSound, ScheduleSound, Exists, InWindows
<1>2. CallSound(call)'
  BY DEF CallSound, InWindows, SegmentOf
<1>3. IndexSound'
  BY DEF StreamInv, DiskSound, IndexSound, Exists, SegmentOf
<1>4. Unspoilt'
  BY DEF StreamInv, DiskSound, Unspoilt, Exists, InCache
<1>5. Verified'
  BY DEF Verified
<1> QED BY <1>1, <1>2, <1>3, <1>4, <1>5 DEF DiskSound

\* A new manifest leaves what is on disk as it is.
LEMMA BootstrapSound ==
  ASSUME StreamInv, NEW l \in Layouts, Bootstrap(l)
  PROVE  DiskSound'
<1>1. call.at = "idle" /\ call' = call /\ call.segs = {}
  BY NoCallSound DEF Bootstrap
<1>2. upsets' = 0 => upsets = 0
  BY NothingWrong DEF Bootstrap, StreamInv, DiskSound, StreamTypes
<1>3. layout' # Absent
  BY StreamAssumption DEF Bootstrap
<1>4. ScheduleSound'
  BY <1>3 DEF Bootstrap, StreamInv, DiskSound, ScheduleSound, Exists, InWindows
<1>5. CallSound(call)'
  BY <1>1 DEF CallSound
<1>6. IndexSound'
  BY DEF Bootstrap, StreamInv, DiskSound, IndexSound, Exists, SegmentOf
<1>7. Unspoilt'
  BY <1>1, <1>2 DEF Bootstrap, StreamInv, DiskSound, Unspoilt, Exists, InCache
<1>8. Verified'
  BY <1>1 DEF Verified
<1> QED BY <1>4, <1>5, <1>6, <1>7, <1>8 DEF DiskSound

\* The bootstrap that dies, and what is lost between two calls.
LEMMA LossSound ==
  ASSUME StreamInv, BootstrapDies \/ LoseFile \/ LosePart
  PROVE  DiskSound'
<1>1. call.at = "idle" /\ call' = call /\ call.segs = {}
  BY NoCallSound DEF BootstrapDies, LoseFile, LosePart
<1>2. upsets' # 0
  BY NothingWrong DEF BootstrapDies, LoseFile, LosePart, StreamInv, DiskSound, StreamTypes
<1>3. layout' \in {layout, Torn} /\ schedule' = schedule /\ index' = index
  BY DEF BootstrapDies, LoseFile, LosePart
<1>4. ScheduleSound'
  BY <1>3, StreamAssumption DEF StreamInv, DiskSound, ScheduleSound, Exists, InWindows
<1>5. CallSound(call)'
  BY <1>1 DEF CallSound
<1>6. IndexSound'
  BY <1>3 DEF StreamInv, DiskSound, IndexSound, Exists, SegmentOf
<1>7. Unspoilt' /\ Verified'
  BY <1>1, <1>2 DEF Unspoilt, Verified
<1> QED BY <1>4, <1>5, <1>6, <1>7 DEF DiskSound

\* A shard that is found again is none of the files.
LEMMA FindSound ==
  ASSUME StreamInv, FindShard
  PROVE  DiskSound'
<1>1. call.at = "idle" /\ call' = NoCall /\ UNCHANGED <<layout, schedule, index, cache, upsets>>
  BY NoCallSound DEF FindShard
<1> QED BY <1>1, NoCallSound, OnDiskSame

\* A schedule is built from the manifest.
LEMMA BuildSound ==
  ASSUME StreamInv, BuildSchedule
  PROVE  DiskSound'
<1>1. PICK s : s = BuiltSchedule
  OBVIOUS
<1>2. InWindows(s) /\ (s.ready => layout # Absent) /\ layout # Torn
  <2>1. layout \in Layouts \cup {Absent} /\ layout # Torn
    BY DEF BuildSchedule, StreamInv, DiskSound, StreamTypes, STypeOK
  <2> QED BY <1>1, <2>1, BuiltSound
<1>3. call' = [NoCall EXCEPT !.cmd = "schedule", !.at = "schedule", !.sched = s]
  BY <1>1 DEF BuildSchedule
<1>4. call'.at = "schedule" /\ call'.sched = s /\ call'.segs = {}
  BY <1>3, NoCallSound DEF CallKnown
<1>5. CallSound(call')
  BY <1>2, <1>4 DEF CallSound
<1>6. call.at # "unit" /\ UNCHANGED <<layout, schedule, index, cache>>
  BY NoCallSound DEF BuildSchedule
<1>7. upsets' = 0 => upsets = 0
  BY NothingWrong DEF BuildSchedule, StreamInv, DiskSound, StreamTypes
<1> QED BY <1>4, <1>5, <1>6, <1>7, OnDiskSame

\* A call begins where its command says.
LEMMA StartCallSound ==
  ASSUME StreamInv, NEW cmd \in {"rotate", "materialize", "verify", "advance", "safe"},
         StartCall(cmd)
  PROVE  DiskSound'
<1>1. PICK c : c = [NoCall EXCEPT !.cmd = cmd]
  OBVIOUS
<1>2. Quiet(c) /\ c.cmd = cmd
  BY <1>1, NoCallSound DEF StartCall, Quiet, CallKnown
<1>3. /\ STypeOK /\ ScheduleSound
      /\ call' = CASE cmd = "rotate" -> IF schedule = Torn THEN NoCall ELSE Rotating(c)
                   [] cmd = "materialize" ->
                         IF schedule = Torn THEN NoCall ELSE Materializing(c)
                   [] cmd = "advance" -> [c EXCEPT !.at = "control"]
                   [] OTHER -> [c EXCEPT !.at = "verify"]
  BY <1>1 DEF StartCall, StreamInv, DiskSound, StreamTypes
<1>4. /\ CallSound(call') /\ call'.at # "unit"
      /\ call'.at = "control" => call'.cmd # "safe"
  <2>1. CASE cmd = "rotate"
    <3>1. call' = NoCall \/ call' = Rotating(c)
      BY <1>3, <2>1
    <3> QED BY <1>2, <1>3, <3>1, NoCallSound, RotatingSound
  <2>2. CASE cmd = "materialize"
    <3>1. call' = NoCall \/ call' = Materializing(c)
      BY <1>3, <2>2
    <3> QED BY <1>2, <1>3, <3>1, NoCallSound, MaterializingSound
  <2>3. CASE cmd = "advance"
    <3>1. call' = [c EXCEPT !.at = "control"]
      BY <1>3, <2>3
    <3> QED BY <1>2, <2>3, <3>1, GoesOnSound
  <2>4. CASE cmd \in {"verify", "safe"}
    <3>1. call' = [c EXCEPT !.at = "verify"]
      BY <1>3, <2>4
    <3> QED BY <1>2, <3>1, GoesOnSound
  <2> QED BY <2>1, <2>2, <2>3, <2>4
<1>5. call.at # "unit" /\ UNCHANGED <<layout, schedule, index, cache, upsets>>
  BY NoCallSound DEF StartCall
<1> QED BY <1>4, <1>5, OnDiskSame

\* A verification that tells that all is there has found it there.
LEMMA VerifySound ==
  ASSUME StreamInv, Verify
  PROVE  DiskSound'
<1>1. Quiet(call) /\ call.at = "verify"
  BY DEF Verify, StreamInv, DiskSound, StreamTypes, Quiet, CallSound
<1>2. UNCHANGED <<layout, schedule, index, cache, upsets>>
  BY DEF Verify
<1>3. PICK c : c = [call EXCEPT !.at = "control"]
  OBVIOUS
<1>4. call' = NoCall \/ call' = c
  BY <1>3 DEF Verify
<1>5. CallSound(call') /\ call'.at # "unit"
  BY <1>1, <1>3, <1>4, NoCallSound, GoesOnSound
<1>6. ScheduleSound' /\ IndexSound'
  BY <1>2 DEF StreamInv, DiskSound, ScheduleSound, IndexSound, Exists, InWindows, SegmentOf
<1>7. CallSound(call)'
  BY <1>2, <1>5 DEF CallSound, InWindows, SegmentOf
<1>8. Unspoilt'
  BY <1>1, <1>2, <1>5 DEF StreamInv, DiskSound, Unspoilt, Exists, InCache
<1>9. Verified'
  <2> SUFFICES ASSUME call'.at = "control", Exists(index), Scheduled, residency' # Torn,
                      residency'.ready, NEW s \in index
               PROVE  InCache(s)
    BY <1>2 DEF Verified, Exists, Scheduled, InCache
  <2>1. call' # NoCall
    BY NoCallSound
  <2>2. residency # Torn
    BY <2>1 DEF Verify, Exists
  <2>3. residency' = [hot |-> schedule.hot,
                      ahead |-> schedule.warm # <<>> \/ schedule.over # <<>>,
                      ready |-> Misses = {} /\ ManifestReady, missed |-> Misses # {}]
    BY <2>2 DEF Verify
  <2>4. Misses = {}
    <3>1. PICK x, y, z : /\ x = schedule.hot
                         /\ y = (schedule.warm # <<>> \/ schedule.over # <<>>)
                         /\ z = (Misses = {} /\ ManifestReady)
      OBVIOUS
    <3>2. residency' = [hot |-> x, ahead |-> y, ready |-> z, missed |-> Misses # {}]
      BY <2>3, <3>1, Zenon
    <3> QED BY <3>1, <3>2
  <2> QED BY <2>4 DEF Misses, InCache
<1> QED BY <1>6, <1>7, <1>8, <1>9 DEF DiskSound

\* A rotation or a materialization follows the decision.
LEMMA ControlSound ==
  ASSUME StreamInv, Control
  PROVE  DiskSound'
<1>1. Quiet(call) /\ call.at = "control" /\ STypeOK /\ ScheduleSound
  BY DEF Control, StreamInv, DiskSound, StreamTypes, Quiet, CallSound
<1>2. call' = NoCall \/ call' = Rotating(call) \/ call' = Materializing(call)
  BY DEF Control
<1>3. CallSound(call') /\ call'.at \notin {"unit", "control"}
  BY <1>1, <1>2, NoCallSound, RotatingSound, MaterializingSound
<1>4. UNCHANGED <<layout, schedule, index, cache, upsets>>
  BY DEF Control
<1> QED BY <1>1, <1>3, <1>4, OnDiskSame

\* The schedule of the call is the one on disk.
LEMMA WriteScheduleSound ==
  ASSUME StreamInv, WriteSchedule
  PROVE  DiskSound'
<1>1. /\ call.at = "schedule" /\ InWindows(call.sched) /\ call.segs = {} /\ CallKnown(call)
      /\ layout \in Layouts \cup {Absent} /\ layout # Torn
      /\ call.sched.ready => layout # Absent
  BY DEF WriteSchedule, StreamInv, DiskSound, StreamTypes, STypeOK, CallSound
<1>2. UNCHANGED <<layout, index, cache, upsets>> /\ schedule' = call.sched
  BY DEF WriteSchedule
<1>3. ScheduleSound'
  BY <1>1, <1>2 DEF ScheduleSound
<1>4. CallSound(call') /\ call'.at \notin {"unit", "control"}
  <2>1. CASE call' = NoCall
    BY <2>1, NoCallSound
  <2>2. CASE call.sched.ready /\ call' = [call EXCEPT !.at = "clear"]
    <3>1. call'.at = "clear" /\ call'.segs = {}
      BY <1>1, <2>2 DEF CallKnown
    <3> QED BY <1>1, <2>2, <3>1 DEF CallSound
  <2>3. CASE call' = [call EXCEPT !.at = "index", !.brief = TRUE, !.blocked = TRUE]
    <3>1. call'.at = "index" /\ call'.segs = {}
      BY <1>1, <2>3 DEF CallKnown
    <3> QED BY <1>1, <3>1 DEF CallSound
  <2> QED BY <2>1, <2>2, <2>3 DEF WriteSchedule
<1>5. CallSound(call)'
  BY <1>2, <1>4 DEF CallSound, InWindows, SegmentOf
<1>6. IndexSound'
  BY <1>2 DEF StreamInv, DiskSound, IndexSound, Exists, SegmentOf
<1>7. Unspoilt' /\ Verified'
  BY <1>1, <1>2, <1>4 DEF StreamInv, DiskSound, Unspoilt, Verified, Exists, InCache
<1> QED BY <1>3, <1>5, <1>6, <1>7 DEF DiskSound

\* An empty cache belongs to no segments.
LEMMA ClearSound ==
  ASSUME StreamInv, ClearWindows
  PROVE  DiskSound'
<1>1. call.at = "clear" /\ call.segs = {} /\ CallKnown(call) /\ layout \in Layouts /\ layout # Torn
  BY DEF ClearWindows, StreamInv, DiskSound, StreamTypes, CallSound
<1>2. UNCHANGED <<layout, schedule, index>>
  BY DEF ClearWindows
<1>3. call'.segs = {} /\ call'.at \in {"unit", "index"} /\ (call'.at = "index" => Upset)
  <2>1. PICK todo : todo =
           [i \in 1 .. Len(call.sched.hot) |-> <<"hot", call.sched.hot[i]>>]
              \o [i \in 1 .. Len(call.sched.warm) |-> <<"warm", call.sched.warm[i]>>]
    OBVIOUS
  <2>2. \/ call' = [call EXCEPT !.at = "unit", !.todo = todo]
        \/ Upset /\ call' = [call EXCEPT !.at = "index", !.brief = TRUE, !.blocked = TRUE]
    BY <2>1 DEF ClearWindows
  <2> QED BY <1>1, <2>2 DEF CallKnown
<1>4. ScheduleSound' /\ IndexSound'
  BY <1>2 DEF StreamInv, DiskSound, ScheduleSound, IndexSound, Exists, InWindows, SegmentOf
<1>5. CallSound(call)'
  BY <1>1, <1>2, <1>3 DEF CallSound
<1>6. Unspoilt'
  <2>1. Upset => upsets' # 0
    BY NothingWrong DEF StreamInv, DiskSound, StreamTypes
  <2> QED BY <1>3, <2>1 DEF Unspoilt
<1>7. Verified'
  BY <1>3 DEF Verified
<1> QED BY <1>4, <1>5, <1>6, <1>7 DEF DiskSound

\* A segment is listed when its file has been written.
LEMMA WriteUnitSound ==
  ASSUME StreamInv, WriteUnit
  PROVE  DiskSound'
<1>1. /\ call.at = "unit" /\ CallKnown(call) /\ layout \in Layouts /\ layout # Torn
      /\ \A s \in call.segs : SegmentOf(s, layout)
      /\ upsets = 0 => \A s \in call.segs : InCache(s)
  BY DEF WriteUnit, StreamInv, DiskSound, StreamTypes, CallSound, Unspoilt
<1>2. UNCHANGED <<layout, schedule, index, residency>>
  BY DEF WriteUnit
<1>3. PICK file, todo, bytes : /\ file = Head(call.todo) /\ todo = Tail(call.todo)
                               /\ bytes = UnitBytes[layout][file[2]]
  OBVIOUS
<1>4. PICK next : next = [call EXCEPT !.todo = todo]
  OBVIOUS
<1>5. next.at = "unit" /\ next.segs = call.segs /\ DOMAIN next = DOMAIN call
  BY <1>1, <1>4 DEF CallKnown
<1>6. PICK new : new = [file |-> file, bytes |-> bytes]
  OBVIOUS
<1>7. \/ call' = [next EXCEPT !.blocked = TRUE] /\ (UNCHANGED <<cache, upsets>> \/ Upset)
      \/ /\ file[2] \in Ids(layout) /\ cache' = Written(file, bytes) /\ UNCHANGED upsets
         /\ call' = [next EXCEPT !.segs = next.segs \cup {new}]
  BY <1>3, <1>4, <1>6 DEF WriteUnit
<1>8. call'.at = "unit"
  BY <1>1, <1>5, <1>7 DEF CallKnown
<1>9. /\ \A s \in call'.segs : SegmentOf(s, layout)
      /\ upsets' = 0 => \A s \in call'.segs : s.file \in DOMAIN cache' /\ cache'[s.file] = s.bytes
  <2>1. CASE /\ call' = [next EXCEPT !.blocked = TRUE]
             /\ UNCHANGED <<cache, upsets>> \/ Upset
    <3>1. call'.segs = call.segs
      BY <1>5, <2>1
    <3>2. Upset => upsets' # 0
      BY NothingWrong DEF StreamInv, DiskSound, StreamTypes
    <3> QED BY <1>1, <2>1, <3>1, <3>2 DEF InCache
  <2>2. CASE /\ file[2] \in Ids(layout) /\ cache' = Written(file, bytes) /\ UNCHANGED upsets
             /\ call' = [next EXCEPT !.segs = next.segs \cup {new}]
    <3>1. call'.segs = call.segs \cup {new}
      BY <1>1, <1>5, <2>2 DEF CallKnown
    <3>2. new.file = file /\ new.bytes = bytes
      BY <1>6
    <3>3. SegmentOf(new, layout)
      BY <1>3, <2>2, <3>2 DEF SegmentOf
    <3>4. \A f : f \in DOMAIN cache' <=> f = file \/ f \in DOMAIN cache
      BY <2>2 DEF Written
    <3>5. \A f \in DOMAIN cache' : cache'[f] = IF f = file THEN bytes ELSE cache[f]
      BY <2>2 DEF Written
    <3>6. ASSUME upsets' = 0, NEW s \in call'.segs
          PROVE  s.file \in DOMAIN cache' /\ cache'[s.file] = s.bytes
      <4>1. SegmentOf(s, layout) /\ (s = new \/ InCache(s))
        BY <1>1, <2>2, <3>1, <3>3, <3>6
      <4>2. CASE s.file = file
        <5>1. s.bytes = bytes
          BY <1>3, <4>1, <4>2 DEF SegmentOf
        <5> QED BY <3>4, <3>5, <4>2, <5>1
      <4>3. CASE s.file # file
        <5>1. InCache(s)
          BY <3>2, <4>1, <4>3
        <5> QED BY <3>4, <3>5, <4>3, <5>1 DEF InCache
      <4> QED BY <4>2, <4>3
    <3> QED BY <1>1, <3>1, <3>3, <3>6
  <2> QED BY <1>7, <2>1, <2>2
<1>10. ScheduleSound' /\ IndexSound'
  BY <1>2 DEF StreamInv, DiskSound, ScheduleSound, IndexSound, Exists, InWindows, SegmentOf
<1>11. CallSound(call)'
  BY <1>1, <1>2, <1>8, <1>9 DEF CallSound, SegmentOf
<1>12. Unspoilt' /\ Verified'
  BY <1>8, <1>9 DEF Unspoilt, Verified, InCache
<1> QED BY <1>10, <1>11, <1>12 DEF DiskSound

\* The index lists what was written.
LEMMA WriteIndexSound ==
  ASSUME StreamInv, WriteIndex
  PROVE  DiskSound'
<1>1. CallKnown(call) /\ layout # Torn /\ call.at \in {"index", "unit"}
  BY DEF WriteIndex, StreamInv, DiskSound, StreamTypes, CallSound
<1>2. UNCHANGED <<layout, schedule, residency, cache, upsets>> /\ index' = call.segs
  BY DEF WriteIndex
<1>3. /\ \A s \in call.segs : \E l \in Layouts : SegmentOf(s, l)
      /\ upsets = 0 => \A s \in call.segs : InCache(s)
  BY <1>1 DEF StreamInv, DiskSound, CallSound, Unspoilt
<1>4. CallSound(call') /\ call'.at \notin {"unit", "control"}
  <2>1. CASE call' = NoCall
    BY <2>1, NoCallSound
  <2>2. CASE call' = [call EXCEPT !.at = "residency"]
    <3>1. call'.at = "residency"
      BY <1>1, <2>2 DEF CallKnown
    <3> QED BY <1>1, <3>1 DEF CallSound
  <2> QED BY <2>1, <2>2 DEF WriteIndex
<1>5. ScheduleSound' /\ IndexSound'
  BY <1>2, <1>3 DEF StreamInv, DiskSound, ScheduleSound, IndexSound, Exists, InWindows, SegmentOf
<1>6. CallSound(call)'
  BY <1>2, <1>4 DEF CallSound, InWindows, SegmentOf
<1>7. Unspoilt' /\ Verified'
  BY <1>2, <1>3, <1>4 DEF Unspoilt, Verified, InCache
<1> QED BY <1>5, <1>6, <1>7 DEF DiskSound

\* The call ends.
LEMMA WriteResidencySound ==
  ASSUME StreamInv, WriteResidency
  PROVE  DiskSound'
<1>1. /\ call' = NoCall /\ call.at = "residency"
      /\ UNCHANGED <<layout, schedule, index, cache, upsets>>
  BY DEF WriteResidency
<1> QED BY <1>1, NoCallSound, OnDiskSame

\* A torn file claims nothing.
LEMMA DeathSound ==
  ASSUME StreamInv, CallDies
  PROVE  DiskSound'
<1>1. call' = NoCall /\ call'.at = "idle" /\ call'.segs = {} /\ layout' = layout
  BY NoCallSound DEF CallDies
<1>2. upsets' # 0
  BY NothingWrong DEF CallDies, StreamInv, DiskSound, StreamTypes
<1>3. schedule' \in {schedule, Torn} /\ index' \in {index, Torn}
  BY DEF CallDies
<1>4. ScheduleSound' /\ IndexSound'
  BY <1>1, <1>3 DEF StreamInv, DiskSound, ScheduleSound, IndexSound, Exists, InWindows, SegmentOf
<1>5. CallSound(call)'
  BY <1>1 DEF CallSound
<1>6. Unspoilt' /\ Verified'
  BY <1>1, <1>2 DEF Unspoilt, Verified
<1> QED BY <1>4, <1>5, <1>6 DEF DiskSound

\* Nothing is on disk.
LEMMA StreamInitially == SInit => StreamInv
<1> SUFFICES ASSUME SInit PROVE StreamInv
  OBVIOUS
<1>1. call = NoCall /\ schedule = Absent /\ index = Absent
  BY DEF SInit
<1>2. ScheduleSound /\ IndexSound
  BY <1>1 DEF ScheduleSound, IndexSound, Exists
<1>3. CallSound(call) /\ call.at = "idle"
  BY <1>1, NoCallSound
<1>4. Unspoilt /\ Verified
  BY <1>1, <1>3 DEF Unspoilt, Verified, Exists
<1> QED BY <1>2, <1>3, <1>4, StreamTypesInitially DEF StreamInv, DiskSound

\* No rotation is about to write.
LEMMA TurnInitially == SInit => TurnSound
BY NoCallSound DEF SInit, TurnSound

\* No step spoils what the stream has on disk.
LEMMA StreamStep == StreamInv /\ [SNext]_sVars => StreamInv'
<1> SUFFICES ASSUME StreamInv, [SNext]_sVars PROVE StreamInv'
  OBVIOUS
<1>1. StreamTypes'
  BY StreamTypesStep DEF StreamInv, DiskSound
<1>2. CASE UNCHANGED sVars
  <2>1. UNCHANGED <<layout, schedule, residency, index, cache, call, upsets>>
    BY <1>2 DEF sVars
  <2>2. ScheduleSound' /\ IndexSound'
    BY <2>1 DEF StreamInv, DiskSound, ScheduleSound, IndexSound, Exists, InWindows, SegmentOf
  <2>3. CallSound(call)'
    BY <2>1 DEF StreamInv, DiskSound, CallSound, InWindows, SegmentOf
  <2>4. Unspoilt' /\ Verified'
    BY <2>1 DEF StreamInv, DiskSound, Unspoilt, Verified, Exists, Scheduled, InCache
  <2> QED BY <1>1, <2>2, <2>3, <2>4 DEF StreamInv, DiskSound
<1>3. CASE SNext
  <2>1. DiskSound'
    BY <1>3, BootstrapSound, LossSound, FindSound, BuildSound, StartCallSound, VerifySound, ControlSound,
       WriteScheduleSound, ClearSound, WriteUnitSound, WriteIndexSound, WriteResidencySound,
       DeathSound
    DEF SNext, CallGoesOn
  <2> QED BY <1>1, <2>1 DEF StreamInv, DiskSound
<1> QED BY <1>2, <1>3 DEF DiskSound

\* A rotation begins with the schedule and the manifest that it finds.
LEMMA RotatingTurns ==
  ASSUME NEW c, CallKnown(c), NEW d, d = Rotating(c), d.at = "schedule"
  PROVE  /\ Scheduled /\ layout \in Layouts
         /\ ToSet(schedule.warm \o schedule.over) \subseteq Ids(layout)
         /\ d.sched = Rotated(schedule)
<1>1. d # NoCall
  BY NoCallSound
<1>2. /\ Scheduled /\ layout \in Layouts
      /\ ToSet(schedule.warm \o schedule.over) \subseteq Ids(layout)
      /\ d = [c EXCEPT !.at = "schedule", !.sched = Rotated(schedule), !.turn = TRUE]
  BY <1>1, Zenon DEF Rotating, MapReady
<1>3. PICK s : s = Rotated(schedule)
  OBVIOUS
<1>4. d.sched = s
  BY <1>2, <1>3 DEF CallKnown
<1> QED BY <1>2, <1>3, <1>4

\* No other call writes where a rotation stands, and only a rotation gets there.
LEMMA TurnStep == StreamInv /\ TurnSound /\ [SNext]_sVars => TurnSound'
<1> SUFFICES ASSUME StreamInv, TurnSound, [SNext]_sVars, call'.at = "schedule", call'.turn
             PROVE  /\ Scheduled' /\ (layout \in Layouts)'
                    /\ ToSet(schedule'.warm \o schedule'.over) \subseteq Ids(layout')
                    /\ call'.sched = Rotated(schedule)'
  BY DEF TurnSound
<1>1. StreamTypes /\ CallKnown(call) /\ CallKnown(NoCall) /\ NoCall.at = "idle"
  BY NoCallSound DEF StreamInv, StreamTypes
<1>2. CASE UNCHANGED sVars
  BY <1>2 DEF sVars, TurnSound, Scheduled, Exists, Rotated
<1>3. ASSUME NEW cmd \in {"rotate", "materialize", "verify", "advance", "safe"}, StartCall(cmd)
      PROVE  call' = Rotating([NoCall EXCEPT !.cmd = cmd]) /\ UNCHANGED <<layout, schedule>>
  <2>1. PICK c : c = [NoCall EXCEPT !.cmd = cmd]
    OBVIOUS
  <2>2. CallKnown(c) /\ Quiet(c)
    BY <1>1, <1>3, <2>1, NoCallSound DEF CallKnown, Quiet, StartCall
  <2>3. /\ call' = CASE cmd = "rotate" -> IF schedule = Torn THEN NoCall ELSE Rotating(c)
                      [] cmd = "materialize" ->
                            IF schedule = Torn THEN NoCall ELSE Materializing(c)
                      [] cmd = "advance" -> [c EXCEPT !.at = "control"]
                      [] OTHER -> [c EXCEPT !.at = "verify"]
        /\ UNCHANGED <<layout, schedule>>
    BY <1>3, <2>1 DEF StartCall
  <2>4. call' # NoCall
    BY <1>1
  <2>5. cmd # "materialize"
    <3> SUFFICES ASSUME cmd = "materialize" PROVE FALSE
      OBVIOUS
    <3>1. call' = Materializing(c)
      BY <2>3, <2>4
    <3> QED BY <2>2, <3>1, MaterializingSound DEF StreamInv, DiskSound, StreamTypes
  <2>6. cmd = "rotate"
    BY <2>2, <2>3, <2>5 DEF CallKnown
  <2> QED BY <2>1, <2>3, <2>4, <2>6
<1>4. ASSUME Control
      PROVE  call' = Rotating(call) /\ UNCHANGED <<layout, schedule>>
  <2>1. Quiet(call)
    BY <1>1, <1>4 DEF Control, StreamInv, DiskSound, Quiet, CallSound
  <2>2. call' # NoCall
    BY <1>1
  <2>3. call' # Materializing(call)
    BY <2>1, MaterializingSound DEF StreamInv, DiskSound, StreamTypes
  <2> QED BY <1>4, <2>2, <2>3 DEF Control
<1>5. ASSUME NEW c, CallKnown(c), call' = Rotating(c), UNCHANGED <<layout, schedule>>
      PROVE  /\ Scheduled' /\ (layout \in Layouts)'
             /\ ToSet(schedule'.warm \o schedule'.over) \subseteq Ids(layout')
             /\ call'.sched = Rotated(schedule)'
  BY <1>5, RotatingTurns DEF Scheduled, Exists, Rotated
<1>6. CASE SNext
  <2>1. ASSUME call' = call, call = NoCall PROVE FALSE
    BY <1>1, <2>1
  <2>2. call' # NoCall
    BY <1>1
  <2>3. /\ \A l \in Layouts : ~Bootstrap(l)
        /\ ~CallDies /\ ~BootstrapDies /\ ~LoseFile /\ ~LosePart /\ ~FindShard
    BY <2>1, <2>2 DEF Bootstrap, CallDies, BootstrapDies, LoseFile, LosePart, FindShard
  <2>4. ~BuildSchedule
    <3> SUFFICES ASSUME BuildSchedule PROVE FALSE
      OBVIOUS
    <3>1. PICK s : s = BuiltSchedule
      OBVIOUS
    <3>2. call' = [NoCall EXCEPT !.cmd = "schedule", !.at = "schedule", !.sched = s]
      BY <3>1 DEF BuildSchedule
    <3>3. ~call'.turn
      BY <3>2 DEF NoCall
    <3> QED BY <3>3
  <2>5. ~Verify /\ ~WriteSchedule /\ ~ClearWindows /\ ~WriteUnit /\ ~WriteIndex /\ ~WriteResidency
    BY <1>1, <2>2
    DEF Verify, WriteSchedule, ClearWindows, WriteUnit, WriteIndex, WriteResidency, CallKnown
  <2>6. CASE \E cmd \in {"rotate", "materialize", "verify", "advance", "safe"} : StartCall(cmd)
    <3>1. PICK cmd \in {"rotate", "materialize", "verify", "advance", "safe"} : StartCall(cmd)
      BY <2>6
    <3>2. PICK c : c = [NoCall EXCEPT !.cmd = cmd]
      OBVIOUS
    <3>3. CallKnown(c)
      BY <1>1, <3>2 DEF CallKnown
    <3> QED BY <1>3, <1>5, <3>1, <3>2, <3>3
  <2>7. CASE Control
    BY <1>1, <1>4, <1>5, <2>7
  <2> QED BY <1>6, <2>3, <2>4, <2>5, <2>6, <2>7 DEF SNext, CallGoesOn
<1> QED BY <1>2, <1>6

\* A rotation that writes its schedule takes the hot window and nothing else.
LEMMA RotationStep ==
  StreamInv /\ TurnSound /\ [SNext]_sVars => [RotationFollowsOn]_sVars
<1> SUFFICES ASSUME StreamInv, TurnSound, SNext, schedule' # schedule, schedule' # Torn,
                    call.turn
             PROVE  Scheduled /\ Follows(schedule')
  BY DEF RotationFollowsOn, Follows
<1>1. ~NoCall.turn
  BY DEF NoCall
<1>2. call # NoCall
  BY <1>1
<1>3. WriteSchedule
  BY <1>2
  DEF SNext, CallGoesOn, Bootstrap, BuildSchedule, StartCall, Verify, Control, ClearWindows,
      WriteUnit, WriteIndex, WriteResidency, CallDies, BootstrapDies, LoseFile, LosePart,
      FindShard
<1>4. call.at = "schedule" /\ schedule' = call.sched
  BY <1>3 DEF WriteSchedule
<1>5. /\ Scheduled /\ layout \in Layouts
      /\ ToSet(schedule.warm \o schedule.over) \subseteq Ids(layout)
      /\ schedule' = Rotated(schedule)
  BY <1>4 DEF TurnSound
<1>6. PICK s : s = Rotated(schedule)
  OBVIOUS
<1>7. InWindows(schedule)
  BY <1>5 DEF StreamInv, DiskSound, ScheduleSound, Scheduled
<1>8. Follows(s)
  BY <1>5, <1>6, <1>7, RotatedSound
<1> QED BY <1>5, <1>6, <1>8

\* The windows of a schedule follow one another.
LEMMA WindowsInOrder == ScheduleSound => StreamInOrder
<1> SUFFICES ASSUME ScheduleSound, Scheduled PROVE StreamInOrder
  BY DEF StreamInOrder
<1>1. PICK l, u, L, S : l = schedule.for /\ u = Units[l] /\ L = Len(u) /\ S = Ids(l)
  OBVIOUS
<1>2. /\ l \in Layouts
      /\ \E n \in 0 .. L : \E b \in n .. L : \E a \in b .. L : Split(schedule, u, n, b, a)
      /\ Size(schedule.hot, schedule.by[1]) <= HotTarget[l]
      /\ Size(schedule.warm, schedule.by[2]) \in 0 .. WarmTarget[l]
  BY <1>1 DEF ScheduleSound, Scheduled, InWindows
<1>3. u \in Seq(S) /\ L \in Nat /\ WarmTarget[l] \in Nat
  BY <1>1, <1>2, LayoutFacts
<1>4. PICK n \in 0 .. L : \E b \in n .. L : \E a \in b .. L : Split(schedule, u, n, b, a)
  BY <1>2
<1>5. PICK b \in n .. L : \E a \in b .. L : Split(schedule, u, n, b, a)
  BY <1>4
<1>6. PICK a \in b .. L : Split(schedule, u, n, b, a)
  BY <1>5
<1>7. PICK m \in 1 .. L + 1 : m = n + 1
  BY <1>3, <1>4
<1>8. SubSeq(u, m, b) \o SubSeq(u, b + 1, a) = SubSeq(u, m, a)
  <2>1. m \in 1 .. Len(u) + 1 /\ b \in m - 1 .. Len(u) /\ a \in b .. Len(u)
    BY <1>1, <1>3, <1>4, <1>5, <1>6, <1>7
  <2> QED BY <1>3, <2>1, ConcatAdjacentSubSeq
<1>9. SubSeq(u, m, a) \o SubSeq(u, a + 1, L) = SubSeq(u, m, L)
  <2>1. m \in 1 .. Len(u) + 1 /\ a \in m - 1 .. Len(u) /\ L \in a .. Len(u)
    BY <1>1, <1>3, <1>4, <1>5, <1>6, <1>7
  <2> QED BY <1>3, <2>1, ConcatAdjacentSubSeq
<1>10. /\ schedule.hot = SubSeq(u, m, b) /\ schedule.warm = SubSeq(u, b + 1, a)
       /\ schedule.over = SubSeq(u, a + 1, L)
  BY <1>1, <1>6, <1>7 DEF Split
<1>11. schedule.hot \o schedule.warm \o schedule.over = SubSeq(u, m, L)
  BY <1>8, <1>9, <1>10
<1>12. Size(schedule.warm, schedule.by[2]) <= WarmTarget[l]
  <2>1. PICK x : x = Size(schedule.warm, schedule.by[2])
    OBVIOUS
  <2>2. x <= WarmTarget[l]
    BY <1>2, <1>3, <2>1
  <2> QED BY <2>1, <2>2, Zenon
<1> QED BY <1>1, <1>2, <1>4, <1>7, <1>11, <1>12 DEF StreamInOrder

\* Who advances from a window that was verified, or where nothing went wrong, has it.
LEMMA HealthyWindow == StreamInv => AdvancesHealthy
<1> SUFFICES ASSUME StreamInv, call.at = "control", Scheduled, Exists(index),
                    residency # Torn, Decision = "rotate", HotIsListed,
                    call.cmd = "safe" \/ upsets = 0
             PROVE  HotIsWhole
  BY DEF AdvancesHealthy
<1>1. residency.ready
  BY DEF Decision
<1>2. \A s \in index : InCache(s)
  BY <1>1 DEF StreamInv, DiskSound, Verified, Unspoilt
<1>3. schedule.hot \in Seq(ToSet(schedule.hot))
  <2>1. PICK l, u, L, S : l = schedule.for /\ u = Units[l] /\ L = Len(u) /\ S = Ids(l)
    OBVIOUS
  <2>2. /\ l \in Layouts
        /\ \E n \in 0 .. L : \E b \in n .. L : schedule.hot = SubSeq(u, n + 1, b)
    BY <2>1 DEF StreamInv, DiskSound, ScheduleSound, Scheduled, InWindows, Split
  <2>3. u \in Seq(S) /\ L \in Nat
    BY <2>1, <2>2, LayoutFacts
  <2>4. PICK n \in 0 .. L : \E b \in n .. L : schedule.hot = SubSeq(u, n + 1, b)
    BY <2>2
  <2>5. PICK b \in n .. L : schedule.hot = SubSeq(u, n + 1, b)
    BY <2>4
  <2>6. PICK m, q : m = n + 1 /\ q = SubSeq(u, m, b)
    OBVIOUS
  <2>7. m \in 1 .. Len(u) + 1 /\ b \in m - 1 .. Len(u)
    BY <2>1, <2>3, <2>4, <2>5, <2>6
  <2>8. q \in Seq(S)
    BY <2>3, <2>6, <2>7, PartOfList
  <2>9. Len(q) \in Nat /\ q \in [1 .. Len(q) -> ToSet(q)]
    BY <2>8, LenProperties DEF ToSet
  <2>10. q \in Seq(ToSet(q))
    BY <2>9
  <2> QED BY <2>5, <2>6, <2>10
<1> SUFFICES ASSUME NEW i \in 1 .. Len(schedule.hot)
             PROVE  \E l \in Layouts :
                       /\ <<"hot", schedule.hot[i]>> \in DOMAIN cache
                       /\ schedule.hot[i] \in Ids(l)
                       /\ cache[<<"hot", schedule.hot[i]>>] = UnitBytes[l][schedule.hot[i]]
  BY DEF HotIsWhole
<1>4. PICK id, file : id = schedule.hot[i] /\ file = <<"hot", id>>
  OBVIOUS
<1>5. id \in ToSet(schedule.hot)
  BY <1>3, <1>4, ElementOfSeq
<1>6. PICK s \in index : s.file = file
  BY <1>4, <1>5 DEF HotIsListed
<1>7. PICK l \in Layouts : SegmentOf(s, l)
  BY DEF StreamInv, DiskSound, IndexSound
<1>8. file[2] = id
  BY <1>4
<1>9. id \in Ids(l) /\ s.bytes = UnitBytes[l][id]
  BY <1>6, <1>7, <1>8 DEF SegmentOf
<1>10. file \in DOMAIN cache /\ cache[file] = s.bytes
  BY <1>2, <1>6 DEF InCache
<1> QED BY <1>4, <1>9, <1>10

-----------------------------------------------------------------------------
(***************************************************************************)
(* LocalServices: each part keeps its own invariant, by its own steps.     *)
(***************************************************************************)
ServicesInv ==
    /\ IInvComplete /\ ServerInv /\ CacheInv /\ OrdersKept /\ DownloadInv
    /\ StreamInv /\ TurnSound

\* All services in the beginning.
LEMMA ServicesInitially == Init => ServicesInv
BY Initially, InitiallyThorough, ServerInitially, CacheInitially, OrdersInitially,
   DownloadInitially, StreamInitially, TurnInitially
DEF Init, ServicesInv, IInvComplete

\* A step of one part leaves the state of the others alone.
LEMMA OwnSteps ==
  [Next]_serviceVars => /\ [JobNext]_jobVars /\ [GNext]_gVars /\ [CNext]_cVars
                        /\ [DNext]_dVars /\ [SNext]_sVars
BY DEF Next, serviceVars

\* No step of any service spoils an invariant.
LEMMA ServicesStep == ServicesInv /\ [Next]_serviceVars => ServicesInv'
<1> SUFFICES ASSUME ServicesInv, [Next]_serviceVars PROVE ServicesInv'
  OBVIOUS
<1>1. /\ [JobNext]_jobVars /\ [GNext]_gVars /\ [CNext]_cVars /\ [DNext]_dVars
      /\ [SNext]_sVars
  BY OwnSteps
<1>2. IInvComplete' /\ ServerInv' /\ CacheInv'
  BY <1>1, CompleteInductive, ServerStep, CacheStep DEF ServicesInv
<1>3. OrdersKept'
  BY <1>1, OrdersStep DEF ServicesInv, CacheInv
<1>4. DownloadInv' /\ StreamInv' /\ TurnSound'
  BY <1>1, DownloadStep, StreamStep, TurnStep DEF ServicesInv
<1> QED
  BY <1>2, <1>3, <1>4 DEF ServicesInv

\* Every service keeps its invariant next to the others.
THEOREM ServicesInvariance == Spec => []ServicesInv
BY ServicesInitially, ServicesStep, PTL DEF Spec

\* Every variable of every service keeps its type.
THEOREM ServicesTyped == Spec => []TypeOK
<1>1. ServicesInv => TypeOK
  BY CacheTypes, DownloadTypes
  DEF ServicesInv, CacheInv, IInvComplete, IInv, ServerInv, StreamInv, StreamTypes,
      TypeOK
<1> QED
  BY <1>1, ServicesInvariance, PTL

\* Whatever a resumed conversion skips (q4_conversion_job.py) is there in full.
THEOREM ConversionSkipsWhole == Spec => []SkippedShardsAreWhole
<1>1. ServicesInv => SkippedShardsAreWhole
  BY SkippedIsWhole DEF ServicesInv, IInvComplete, IInv, SkippedShardsAreWhole
<1> QED
  BY <1>1, ServicesInvariance, PTL

\* A job that says it is complete has its final manifest and all files, in the
\* cases that CompleteIsWhole names.
THEOREM ConversionCompleteWhole == Spec => []CompleteIsWhole
<1>1. ServicesInv => CompleteIsWhole
  BY DEF ServicesInv, IInvComplete, Orderly, Thorough, Finished, AllThere,
     CompleteIsWhole
<1> QED
  BY <1>1, ServicesInvariance, PTL

\* Two models are never in memory at once (gguf_backend.py), unless a server was
\* left while it was starting, with no record of it and no launcher that waits for
\* it, or a launch overlooked one because a probe or a reading failed.
THEOREM OneModel == Spec => []OneModelInMemory
<1>1. ServicesInv => OneModelInMemory
  BY DEF ServicesInv, ServerInv, OneServer, OneLives, OneModelInMemory
<1> QED
  BY <1>1, ServicesInvariance, PTL

\* The state file (gguf_backend.py) names the server that listens, unless its
\* launcher has not recorded it yet or never did, or a stop removed the record of
\* a server that lived.
THEOREM StateNames == Spec => []StateNamesServer
<1>1. ServicesInv => StateNamesServer
  BY DEF ServicesInv, ServerInv, OneServer, Named, StateNamesServer, Listening, Live
<1> QED
  BY <1>1, ServicesInvariance, PTL

\* Once no change of the settings is under way (_update_runtime_settings), an
\* answer or a prefix made under other settings than those of the file comes from
\* a run that went astray: the environment changed while it worked, or it began
\* when that had drifted from the file, or it went on from such a run's prefix or
\* one of other settings.
THEOREM OnlyAstray == Spec => []OnlyAstrayIsStale
<1>1. ServicesInv => OnlyAstrayIsStale
  BY DEF ServicesInv, CacheInv, OnlyAstrayIsStale, AnswersInForce, PrefixesInForce,
     InForce, ResponsesAhead, PrefixesAhead
<1> QED
  BY <1>1, ServicesInvariance, PTL

\* Both orders of use list exactly what their table holds, each entry once, and
\* no more than its limit (_store_chat_response, _store_session_prefix).
THEOREM OrdersMatch == Spec => []OrderMatchesTable
<1>1. ServicesInv => OrderMatchesTable
  BY DEF ServicesInv, OrdersKept
<1> QED
  BY <1>1, ServicesInvariance, PTL

\* When the status says that the download is complete (import_cli.py), every file
\* is there, as long as its repository said, and from one revision if there was
\* only one.
THEOREM DownloadsAreWhole == Spec => []WholeDownloads
<1>1. ServicesInv => WholeDownloads
  BY DEF ServicesInv, DownloadInv
<1> QED
  BY <1>1, ServicesInvariance, PTL

\* A schedule that is ready splits the last units of its manifest into windows that
\* fit (window_schedule.py), and an advance never consumes a hot window
\* that its index lists and that is not on disk in full, once it was verified or
\* where nothing went wrong (streaming_advance.py).
THEOREM StreamIsSound == Spec => []StreamSound
<1>1. ServicesInv => StreamSound
  BY WindowsInOrder, HealthyWindow DEF ServicesInv, StreamInv, DiskSound, StreamSound
<1> QED
  BY <1>1, ServicesInvariance, PTL

\* No rotation (streaming_rotation.py) passes over a unit, loses one or brings one
\* back: what was warm or left over is hot, warm or left over after it, in the same
\* order, and what was warm is the hot window.
THEOREM RotationsFollow == Spec => FollowsOn
<1>1. ServicesInv /\ [Next]_serviceVars => [RotationFollowsOn]_sVars
  BY OwnSteps, RotationStep DEF ServicesInv
<1> QED
  BY <1>1, ServicesInvariance, PTL DEF Spec, FollowsOn
=============================================================================
