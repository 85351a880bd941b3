-------------------------------- MODULE Mlhd --------------------------------
(***************************************************************************)
(* The mlhd control plane (daemon.py): the foreground commands start, stop *)
(* and run-once, the polling workers that start spawns, and the run-onces  *)
(* the workers spawn.  They share the files pid.json, lock.json,           *)
(* state.json and last-run-once.json and nothing else.  The files are      *)
(* written in place: a reader may find one empty.  No lock orders the      *)
(* commands, any process may die at any point, and pids are used again.    *)
(* Heartbeat, events and timestamps decide nothing and are left out.       *)
(***************************************************************************)
EXTENDS Naturals, FiniteSets

CONSTANTS
  Pids,        \* the process ids
  NoPid,       \* a pid that is missing or 0
  Absent,      \* no such file
  Torn,        \* a file that was opened for writing and is still empty
  Whole,       \* a lock.json that was written: nobody reads the pid in it
  Quiet,       \* a state.json or last-run-once.json of a command that is over
  MaxCommands, \* bound on the commands that run at the same time
  MaxCrashes   \* bound on the processes that are killed

ASSUME MlhdAssumption ==
  /\ Pids \intersect {NoPid, Absent, Torn, Whole, Quiet} = {}
  /\ Absent # Torn /\ Whole \notin {Absent, Torn}
  /\ MaxCommands \in Nat /\ MaxCrashes \in Nat

VARIABLES
  pidFile,  \* pid.json: the pid of a worker
  lockFile, \* lock.json
  state,    \* state.json: the pid of the run-once it reports running, if any
  lastRun,  \* last-run-once.json: the pid it reports in progress, if any
  stage,    \* what the process of each pid is about to do
  known,    \* the pid each process has read, or that of the child it spawned
  locked,   \* whether a start found a whole lock.json
  cut,      \* history: which of "state" and "lastRun" a killed process left
  crashes   \* the number of processes killed so far

files == <<pidFile, lockFile, state, lastRun>>
procs == <<stage, known, locked>>
history == <<cut, crashes>>
vars == <<files, procs, history>>

StartStages ==
  {"readPid", "readLock", "decide", "removePid", "removeLock", "spawn"}
SpawnedStages ==
  {"openPid", "fillPid", "openLock", "fillLock", "openStarted", "fillStarted"}
StopStages == {"dropPid", "dropLock", "openStopped", "fillStopped"}
RunStages ==
  {"readState", "guard", "openBegun", "fillBegun", "openActive", "fillActive",
   "refresh", "openDone", "fillDone", "openIdle", "fillIdle"}
WorkerStages == {"wait", "waitPid", "loop", "loopPid", "tick", "ticking"}
Stages ==
  StartStages \union SpawnedStages \union StopStages \union RunStages
    \union WorkerStages \union {"zombie", "free"}

Init ==
  /\ pidFile = Absent /\ lockFile = Absent
  /\ state = Absent /\ lastRun = Absent
  /\ stage = [p \in Pids |-> "free"]
  /\ known = [p \in Pids |-> NoPid]
  /\ locked = [p \in Pids |-> FALSE]
  /\ cut = {} /\ crashes = 0

-----------------------------------------------------------------------------
(* Processes.                                                              *)

\* os.kill(pid, 0) succeeds on a zombie too.
Alive(p) == p \in Pids /\ stage[p] # "free"

Parent(p) == stage[p] \in SpawnedStages \union {"ticking"}
HasParent(p) == \E q \in Pids : Parent(q) /\ known[q] = p

Commands ==
  {p \in Pids : /\ stage[p] \in StartStages \union SpawnedStages
                                  \union StopStages \union RunStages
                /\ ~HasParent(p)}

Goto(p, s) == stage' = [stage EXCEPT ![p] = s]

Forget(p) ==
  /\ known' = [known EXCEPT ![p] = NoPid]
  /\ locked' = [locked EXCEPT ![p] = FALSE]

\* Fault: nobody keeps the pid of a process that has ended.
ExitUnreaped(p) == Goto(p, "free") /\ Forget(p)

\* A process that ends is a zombie until its parent waits for it or ends.
Exit(p) ==
  /\ stage' = [q \in Pids |->
       IF q = p THEN IF HasParent(p) THEN "zombie" ELSE "free"
       ELSE IF stage[q] = "zombie" /\ Parent(p) /\ known[p] = q
            THEN "free"
       ELSE stage[q]]
  /\ Forget(p)

Launch(p) ==
  /\ stage[p] = "free" /\ Cardinality(Commands) < MaxCommands
  /\ \E s \in {"readPid", "dropPid", "readState"} : Goto(p, s)
  /\ UNCHANGED <<files, known, locked, history>>

LeftBy(p) ==
  (IF state = p THEN {"state"} ELSE {}) \union (IF lastRun = p THEN {"lastRun"} ELSE {})

\* Killed, or ended by an exception: nothing is cleaned up.
Crash(p) ==
  /\ stage[p] \notin {"free", "zombie"} /\ crashes < MaxCrashes
  /\ Exit(p)
  /\ cut' = cut \union LeftBy(p)
  /\ crashes' = crashes + 1
  /\ UNCHANGED files

-----------------------------------------------------------------------------
(* start: inspect, refuse or recover, spawn, and only then write.          *)

\* Fault: a pid.json that is empty or missing is read as a pid.
ReadPidUnchecked(p) ==
  /\ stage[p] = "readPid" /\ Goto(p, "readLock")
  /\ known' = [known EXCEPT ![p] = pidFile]
  /\ UNCHANGED <<files, locked, history>>

ReadPid(p) ==
  /\ stage[p] = "readPid" /\ Goto(p, "readLock")
  /\ known' = [known EXCEPT ![p] = IF pidFile \in Pids THEN pidFile ELSE NoPid]
  /\ UNCHANGED <<files, locked, history>>

ReadLock(p) ==
  /\ stage[p] = "readLock" /\ Goto(p, "decide")
  /\ locked' = [locked EXCEPT ![p] = lockFile = Whole]
  /\ UNCHANGED <<files, known, history>>

\* run-once-active and run-once-interrupted come before running.
Running(p) == state \notin Pids /\ Alive(known[p]) /\ locked[p]

Decide(p) ==
  /\ stage[p] = "decide"
  /\ \/ Running(p) /\ Exit(p)
     \/ /\ ~Running(p)
        /\ Goto(p, IF known[p] # NoPid /\ ~Alive(known[p])
                   THEN "removePid" ELSE "spawn")
        /\ Forget(p)
  /\ UNCHANGED <<files, history>>

\* The same two files are removed by a start that recovers and by a stop.
RemovePid(p) ==
  /\ \/ stage[p] = "removePid" /\ Goto(p, "removeLock")
     \/ stage[p] = "dropPid" /\ Goto(p, "dropLock")
  /\ pidFile' = Absent
  /\ UNCHANGED <<lockFile, state, lastRun, known, locked, history>>

RemoveLock(p) ==
  /\ \/ stage[p] = "removeLock" /\ Goto(p, "spawn")
     \/ stage[p] = "dropLock" /\ Goto(p, "openStopped")
  /\ lockFile' = Absent
  /\ UNCHANGED <<pidFile, state, lastRun, known, locked, history>>

\* Popen may fail, which ends the command.
Spawn(p) ==
  /\ stage[p] = "spawn"
  /\ \/ \E w \in Pids :
          /\ stage[w] = "free"
          /\ stage' = [stage EXCEPT ![p] = "openPid", ![w] = "wait"]
          /\ known' = [known EXCEPT ![p] = w]
          /\ UNCHANGED locked
     \/ Exit(p)
  /\ UNCHANGED <<files, history>>

WritePid(p) ==
  /\ \/ stage[p] = "openPid" /\ pidFile' = Torn /\ Goto(p, "fillPid")
     \/ stage[p] = "fillPid" /\ pidFile' = known[p] /\ Goto(p, "openLock")
  /\ UNCHANGED <<lockFile, state, lastRun, known, locked, history>>

WriteLock(p) ==
  /\ \/ stage[p] = "openLock" /\ lockFile' = Torn /\ Goto(p, "fillLock")
     \/ stage[p] = "fillLock" /\ lockFile' = Whole /\ Goto(p, "openStarted")
  /\ UNCHANGED <<pidFile, state, lastRun, known, locked, history>>

-----------------------------------------------------------------------------
(* state.json: written by every command, by start and stop as their last.  *)

OpenState(p) ==
  /\ \/ stage[p] = "openStarted" /\ Goto(p, "fillStarted")
     \/ stage[p] = "openStopped" /\ Goto(p, "fillStopped")
     \/ stage[p] = "openActive" /\ Goto(p, "fillActive")
     \/ stage[p] = "openIdle" /\ Goto(p, "fillIdle")
  /\ state' = Torn /\ cut' = cut \ {"state"}
  /\ UNCHANGED <<pidFile, lockFile, lastRun, known, locked, crashes>>

FillState(p) ==
  /\ \/ /\ stage[p] \in {"fillStarted", "fillStopped", "fillIdle"}
        /\ state' = Quiet /\ Exit(p)
     \/ /\ stage[p] = "fillActive" /\ state' = p
        /\ Goto(p, "refresh") /\ UNCHANGED <<known, locked>>
  /\ cut' = cut \ {"state"}
  /\ UNCHANGED <<pidFile, lockFile, lastRun, crashes>>

-----------------------------------------------------------------------------
(* run-once: guard, mark as in progress, refresh, mark as completed.       *)

ReadState(p) ==
  /\ stage[p] = "readState" /\ Goto(p, "guard")
  /\ known' = [known EXCEPT ![p] = IF state \in Pids THEN state ELSE NoPid]
  /\ UNCHANGED <<files, locked, history>>

\* The duplicate guard: refused while the marker's process is alive.
Duplicate(p) == lastRun \in Pids /\ Alive(known[p])

Guard(p) ==
  /\ stage[p] = "guard"
  /\ \/ Duplicate(p) /\ Exit(p)
     \/ ~Duplicate(p) /\ Goto(p, "openBegun") /\ Forget(p)
  /\ UNCHANGED <<files, history>>

OpenLastRun(p) ==
  /\ \/ stage[p] = "openBegun" /\ Goto(p, "fillBegun")
     \/ stage[p] = "openDone" /\ Goto(p, "fillDone")
  /\ lastRun' = Torn /\ cut' = cut \ {"lastRun"}
  /\ UNCHANGED <<pidFile, lockFile, state, known, locked, crashes>>

FillLastRun(p) ==
  /\ \/ stage[p] = "fillBegun" /\ lastRun' = p /\ Goto(p, "openActive")
     \/ stage[p] = "fillDone" /\ lastRun' = Quiet /\ Goto(p, "openIdle")
  /\ cut' = cut \ {"lastRun"}
  /\ UNCHANGED <<pidFile, lockFile, state, known, locked, crashes>>

\* Fault: a refresh that fails ends the command before its last two markers.
RefreshOrRaise(p) ==
  /\ stage[p] = "refresh"
  /\ \/ Goto(p, "openDone") /\ UNCHANGED <<known, locked>>
     \/ Exit(p)
  /\ UNCHANGED <<files, history>>

\* The projection and the context capsule.  An error in them is a finding; an
\* exception would be a Crash.
Refresh(p) ==
  /\ stage[p] = "refresh" /\ Goto(p, "openDone")
  /\ UNCHANGED <<files, known, locked, history>>

-----------------------------------------------------------------------------
(* The worker: wait for the markers, then tick as long as they are there.  *)

LookForMarkers(w) ==
  /\ \/ stage[w] = "wait" /\ lockFile # Absent /\ Goto(w, "waitPid")
     \/ /\ stage[w] = "waitPid"
        /\ Goto(w, IF pidFile # Absent THEN "loop" ELSE "wait")
  /\ UNCHANGED <<files, known, locked, history>>

\* The last of 50 looks in 5 seconds.
GiveUp(w) ==
  /\ \/ stage[w] = "wait" /\ lockFile = Absent
     \/ stage[w] = "waitPid" /\ pidFile = Absent
  /\ Exit(w)
  /\ UNCHANGED <<files, history>>

\* Fault: a worker in its loop looks for the lock only.
LookForLockOnly(w) ==
  /\ \/ /\ stage[w] = "loop" /\ lockFile # Absent
        /\ Goto(w, "tick") /\ UNCHANGED <<known, locked>>
     \/ stage[w] = "loop" /\ lockFile = Absent /\ Exit(w)
  /\ UNCHANGED <<files, history>>

LookAgain(w) ==
  /\ \/ /\ stage[w] = "loop" /\ lockFile # Absent
        /\ Goto(w, "loopPid") /\ UNCHANGED <<known, locked>>
     \/ /\ stage[w] = "loopPid" /\ pidFile # Absent
        /\ Goto(w, "tick") /\ UNCHANGED <<known, locked>>
     \/ stage[w] = "loop" /\ lockFile = Absent /\ Exit(w)
     \/ stage[w] = "loopPid" /\ pidFile = Absent /\ Exit(w)
  /\ UNCHANGED <<files, history>>

\* subprocess.run: a fork that fails is an exception that ends the worker.
Tick(w) ==
  /\ stage[w] = "tick"
  /\ \/ \E c \in Pids :
          /\ stage[c] = "free"
          /\ stage' = [stage EXCEPT ![w] = "ticking", ![c] = "readState"]
          /\ known' = [known EXCEPT ![w] = c]
          /\ UNCHANGED locked
     \/ Exit(w)
  /\ UNCHANGED <<files, history>>

Reap(w) ==
  /\ stage[w] = "ticking" /\ stage[known[w]] = "zombie"
  /\ stage' = [stage EXCEPT ![w] = "loop", ![known[w]] = "free"]
  /\ Forget(w)
  /\ UNCHANGED <<files, history>>

\* A run-once that takes longer than 600 seconds is killed and waited for.
Timeout(w) ==
  /\ stage[w] = "ticking" /\ stage[known[w]] # "zombie"
  /\ stage' = [stage EXCEPT ![w] = "loop", ![known[w]] = "free"]
  /\ known' = [known EXCEPT ![w] = NoPid, ![known[w]] = NoPid]
  /\ locked' = [locked EXCEPT ![w] = FALSE, ![known[w]] = FALSE]
  /\ cut' = cut \union LeftBy(known[w])
  /\ UNCHANGED <<files, crashes>>

-----------------------------------------------------------------------------

Start(p) ==
  \/ ReadPid(p) \/ ReadLock(p) \/ Decide(p) \/ Spawn(p) \/ WritePid(p) \/ WriteLock(p)
Remove(p) == RemovePid(p) \/ RemoveLock(p)
WriteState(p) == OpenState(p) \/ FillState(p)
RunOnce(p) == ReadState(p) \/ Guard(p) \/ OpenLastRun(p) \/ FillLastRun(p)
Work(p) == LookForMarkers(p) \/ LookAgain(p) \/ Tick(p) \/ Reap(p) \/ Timeout(p)

\* What a process does without fail once it is scheduled.
Step(p) == Start(p) \/ Remove(p) \/ WriteState(p) \/ RunOnce(p) \/ Work(p)

Next ==
  \E p \in Pids : Launch(p) \/ Step(p) \/ Refresh(p) \/ GiveUp(p) \/ Crash(p)

\* Every process runs on, but a refresh may hang; a worker does not look for
\* its markers more than 50 times.
Fairness ==
  \A p \in Pids : WF_vars(Step(p)) /\ SF_vars(GiveUp(p))

Spec == Init /\ [][Next]_vars /\ Fairness

-----------------------------------------------------------------------------

TypeOK ==
  /\ pidFile \in Pids \union {Absent, Torn}
  /\ lockFile \in {Absent, Torn, Whole}
  /\ state \in Pids \union {Absent, Torn, Quiet}
  /\ lastRun \in Pids \union {Absent, Torn, Quiet}
  /\ stage \in [Pids -> Stages]
  /\ known \in [Pids -> Pids \union {NoPid}]
  /\ locked \in [Pids -> BOOLEAN]
  /\ cut \subseteq {"state", "lastRun"} /\ crashes \in 0 .. MaxCrashes

\* A run-once that last-run-once.json reports in progress, or state.json
\* reports running, is indeed at work, or was killed: what an operator waits
\* for after a timeout of the shell always ends or is an interruption, however
\* starts, stops and other run-onces have written in between (daemon.py
\* 1013-1041, and the recipe of 65-68).
ActiveMarkersAreTrue ==
  /\ lastRun \in Pids /\ "lastRun" \notin cut =>
       stage[lastRun] \in {"openActive", "fillActive", "refresh", "openDone"}
  /\ state \in Pids /\ "state" \notin cut =>
       stage[state] \in {"refresh", "openDone", "fillDone", "openIdle"}

\* A parent waits for a process that exists and that nobody else waits for, and
\* a worker for a run-once: however pids are used again, the 600 second timeout
\* kills nothing but the run-once of that tick (daemon.py 97-102).
Family ==
  /\ \A p \in Pids : Parent(p) => known[p] \in Pids /\ stage[known[p]] # "free"
  /\ \A p, q \in Pids : Parent(p) /\ Parent(q) /\ known[p] = known[q] => p = q
  /\ \A w \in Pids : stage[w] = "ticking" =>
       stage[known[w]] \in RunStages \union {"zombie"}

\* Inductive: see Mlhd_proofs.
IInv == TypeOK /\ Family /\ ActiveMarkersAreTrue

\* Once the two markers are never there together no worker goes on for ever,
\* including those of which the pid file never knew or no longer knows, those
\* whose start died before it wrote the markers, and those whose run-once hangs
\* (daemon.py 82-87, 94-103).
WorkerEnds(p) ==
  <>[](lockFile = Absent \/ pidFile = Absent) => []<>(stage[p] \notin WorkerStages)

\* The guard of run-once: no refresh is started while another one is running
\* (daemon.py 65-68 and 1008, tests/test_cli.py 12948).
NoDuplicateRefresh == Cardinality({p \in Pids : stage[p] = "refresh"}) <= 1
=============================================================================
