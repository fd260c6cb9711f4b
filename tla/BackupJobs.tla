------------------------------ MODULE BackupJobs ------------------------------
(***************************************************************************)
(* web-platform/backend/services/backup_operations.py: backups and         *)
(* restores as jobs.  A request handler asks whether the lock is free,     *)
(* writes a job file and the current-job pointer, and starts a thread; the *)
(* thread waits for the lock (flock), works through the repositories and   *)
(* leaves a verdict.  A status request reaps a job whose thread is gone.   *)
(*                                                                         *)
(* Handlers run one at a time, on the event loop of the one process that   *)
(* serves, but threads interleave with them at every file they touch.      *)
(* What a thread has started is not the process's: a restore is a child    *)
(* that outlives it (KillMode=process), a backup is a unit of systemd,     *)
(* which timers start as well, without the lock.  The canary self-test, a  *)
(* unit of its own, takes the lock too.                                    *)
(*                                                                         *)
(* Job ids are distinct here (the code takes the second and the kind); of  *)
(* a job file only the state is kept, its log and progress are not.        *)
(***************************************************************************)
EXTENDS Naturals, FiniteSets

CONSTANTS
    Jobs,        \* job ids; their number bounds the accepted requests
    Repos,       \* repositories, one per service
    MaxEvents,   \* bound: timers that fire or are started, canary self-tests
    MaxFaults,   \* bound: restarts, exceptions, timeouts
    None, Canary

ASSUME ConstantsAssumption ==
    /\ None \notin Jobs \cup Repos /\ Canary \notin Jobs /\ None # Canary
    /\ MaxEvents \in Nat /\ MaxFaults \in Nat

VARIABLES
    \* Files: the flock's holder, the job files, the current-job pointer.
    lock, state, current,
    \* A worker thread: program counter, what it was asked, what is left of
    \* it, the repository in hand, whether one failed, timers to resume.
    pc, kind, todo, doing, failed, suspended,
    \* The request handler: what it has seen before it acts.
    handler,
    \* systemd: running restore-cli processes, active backup units by the
    \* target they back up to, active local timers.
    restores, units, timers,
    \* History: timers left stopped by a thread that was killed, or whose
    \* calls of systemctl failed; timers that a thread holds for stopped and
    \* that are active all the same.
    stranded, loose,
    \* Bounds.
    events, faults

files  == <<lock, state, current>>
worker == <<pc, kind, todo, doing, failed, suspended>>
system == <<restores, units, timers, stranded, loose>>
vars   == <<files, worker, handler, system, events, faults>>

-----------------------------------------------------------------------------
Kinds == {"restore", "backup", "sync"}
Prefixes == {"local", "backblaze"}

\* Mutant: the unit prefix is taken to be the kind of the job.
Prefix_IsKind(k) == k

\* The units a job starts: restic-backups-<prefix>-*.
Prefix(k) == IF k = "sync" THEN "backblaze" ELSE "local"

Idle == [op |-> "idle", job |-> None]
Live(j) == pc[j] \notin {"none", "over", "dead"}
Locked(j) == Live(j) /\ pc[j] # "waiting"
Verdicts == {"done", "failed"}

TypeOK ==
    /\ lock \in Jobs \cup {None, Canary}
    /\ state \in [Jobs -> {"absent", "queued", "running"} \cup Verdicts]
    /\ current \in Jobs \cup {None}
    /\ pc \in [Jobs -> {"none", "waiting", "start", "suspend", "next", "run",
                        "clear", "unlink", "resume", "unlock", "over", "dead"}]
    /\ kind \in [Jobs -> Kinds \cup {None}]
    /\ todo \in [Jobs -> SUBSET Repos]
    /\ doing \in [Jobs -> Repos \cup {None}]
    /\ failed \in [Jobs -> BOOLEAN]
    /\ suspended \in [Jobs -> SUBSET Repos]
    /\ handler \in [op : {"idle", "accept", "reap", "dead"}, job : Jobs \cup {None}]
    /\ restores \in SUBSET (Repos \X Jobs)
    /\ units \in SUBSET (Prefixes \X Repos)
    /\ timers \in SUBSET Repos
    /\ stranded \in SUBSET Repos /\ loose \in SUBSET Repos
    /\ events \in 0..MaxEvents /\ faults \in 0..MaxFaults

Fault == faults < MaxFaults /\ faults' = faults + 1
Event == events < MaxEvents /\ events' = events + 1

Init ==
    /\ lock = None /\ current = None
    /\ state = [j \in Jobs |-> "absent"]
    /\ pc = [j \in Jobs |-> "none"]
    /\ kind = [j \in Jobs |-> None]
    /\ todo = [j \in Jobs |-> {}] /\ suspended = [j \in Jobs |-> {}]
    /\ doing = [j \in Jobs |-> None] /\ failed = [j \in Jobs |-> FALSE]
    /\ handler = Idle
    /\ restores = {} /\ units = {} /\ timers = Repos /\ stranded = {} /\ loose = {}
    /\ events = 0 /\ faults = 0

-----------------------------------------------------------------------------
(***************************************************************************)
(* The request handler.                                                    *)
(***************************************************************************)
\* _lock_holder: the probe tells that the lock is held, but who holds it is
\* read from the pointer.
HolderJob ==
    IF current # None /\ state[current] \in {"queued", "running"}
    THEN current ELSE None
\* Mutant: the pointer alone tells who is alive.
Alive_PointerOnly(j) == HolderJob = j

Alive(j) == lock # None /\ HolderJob = j

\* A restore or a backup is asked for; a held lock answers 409.
Ask ==
    /\ handler = Idle
    /\ lock = None
    /\ \E j \in Jobs : state[j] = "absent"
    /\ handler' = [op |-> "accept", job |-> None]
    /\ UNCHANGED <<files, worker, system, events, faults>>

\* The job file, the pointer, the thread.  Meanwhile the lock may be taken.
Accept ==
    /\ handler.op = "accept"
    /\ \E j \in Jobs, k \in Kinds, rs \in (SUBSET Repos) \ {{}} :
        /\ state[j] = "absent"
        /\ state' = [state EXCEPT ![j] = "queued"]
        /\ current' = j
        /\ pc' = [pc EXCEPT ![j] = "waiting"]
        /\ kind' = [kind EXCEPT ![j] = k]
        /\ todo' = [todo EXCEPT ![j] = rs]
    /\ handler' = Idle
    /\ UNCHANGED <<lock, doing, failed, suspended, system, events, faults>>

\* get_current_job, get_job: only a job that reads RUNNING may be dead.
Poll(j) ==
    /\ handler = Idle
    /\ state[j] = "running"
    /\ handler' = [op |-> "reap", job |-> j]
    /\ UNCHANGED <<files, worker, system, events, faults>>

Probe ==
    /\ handler.op = "reap"
    /\ handler' = IF Alive(handler.job) THEN Idle ELSE [handler EXCEPT !.op = "dead"]
    /\ UNCHANGED <<files, worker, system, events, faults>>

\* Mutant: the reaper also frees the lock that the dead job should have held.
Reap_Unlocks ==
    /\ handler.op = "dead"
    /\ state' = [state EXCEPT ![handler.job] = "failed"]
    /\ current' = IF current = handler.job THEN None ELSE current
    /\ lock' = None
    /\ handler' = Idle
    /\ UNCHANGED <<worker, system, events, faults>>

\* _finish_job, with the job record as it was read by Poll.
Reap ==
    /\ handler.op = "dead"
    /\ state' = [state EXCEPT ![handler.job] = "failed"]
    /\ current' = IF current = handler.job THEN None ELSE current
    /\ handler' = Idle
    /\ UNCHANGED <<lock, worker, system, events, faults>>

-----------------------------------------------------------------------------
(***************************************************************************)
(* The worker threads.  All writes of a job file are of the thread's own   *)
(* copy: each of them also undoes what a reaper wrote.                     *)
(***************************************************************************)
Goto(j, there) == pc' = [pc EXCEPT ![j] = there]

\* Mutant: the thread trusts the handler's probe and does not lock again.
WorkerLock_Trusts(j) ==
    /\ pc[j] = "waiting"
    /\ lock' = j
    /\ Goto(j, "start")
    /\ UNCHANGED <<state, current, kind, todo, doing, failed, suspended>>
    /\ UNCHANGED <<handler, system, events, faults>>

WorkerLock(j) ==
    /\ pc[j] = "waiting"
    /\ lock = None /\ lock' = j
    /\ Goto(j, "start")
    /\ UNCHANGED <<state, current, kind, todo, doing, failed, suspended>>
    /\ UNCHANGED <<handler, system, events, faults>>

WorkerStart(j) ==
    /\ pc[j] = "start"
    /\ state' = [state EXCEPT ![j] = "running"]
    /\ Goto(j, IF kind[j] = "restore" THEN "suspend" ELSE "next")
    /\ UNCHANGED <<lock, current, kind, todo, doing, failed, suspended>>
    /\ UNCHANGED <<handler, system, events, faults>>

\* The local timers of the repositories are stopped, best effort: a list that
\* fails or a stop that times out leaves a timer unknown to the thread, which
\* will not resume it, though it may be stopped; a stop that fails counts as
\* done, and the timer goes on.
WorkerSuspend(j) ==
    /\ pc[j] = "suspend"
    /\ \E stopped, known \in SUBSET todo[j] :
        /\ IF stopped = todo[j] /\ known = todo[j] THEN UNCHANGED faults ELSE Fault
        /\ suspended' = [suspended EXCEPT ![j] = known]
        /\ timers' = timers \ stopped
        /\ stranded' = stranded \cup (stopped \ known)
        /\ loose' = loose \cup (known \cap timers')
    /\ Goto(j, "next")
    /\ UNCHANGED <<files, kind, todo, doing, failed, handler, restores, units, events>>

\* restore-cli, or systemctl start, which joins a unit that already runs.
WorkerBegin(j) ==
    /\ pc[j] = "next"
    /\ \E r \in todo[j] :
        /\ doing' = [doing EXCEPT ![j] = r]
        /\ todo' = [todo EXCEPT ![j] = @ \ {r}]
        /\ IF kind[j] = "restore"
           THEN restores' = restores \cup {<<r, j>>} /\ UNCHANGED units
           ELSE units' = units \cup {<<Prefix(kind[j]), r>>} /\ UNCHANGED restores
    /\ state' = [state EXCEPT ![j] = "running"]
    /\ Goto(j, "run")
    /\ UNCHANGED <<lock, current, kind, failed, suspended, handler>>
    /\ UNCHANGED <<timers, stranded, loose, events, faults>>

Ended(j) ==
    IF kind[j] = "restore"
    THEN <<doing[j], j>> \notin restores
    ELSE <<Prefix(kind[j]), doing[j]>> \notin units

\* Mutant: the return code is read before the operation has ended.
WorkerEnd_Hasty(j) ==
    /\ pc[j] = "run"
    /\ \E bad \in BOOLEAN : failed' = [failed EXCEPT ![j] = @ \/ bad]
    /\ doing' = [doing EXCEPT ![j] = None]
    /\ state' = [state EXCEPT ![j] = "running"]
    /\ Goto(j, "next")
    /\ UNCHANGED <<lock, current, kind, todo, suspended, handler, system, events, faults>>

\* Its return code decides; a failure does not stop the others.
WorkerEnd(j) ==
    /\ pc[j] = "run" /\ Ended(j)
    /\ \E bad \in BOOLEAN : failed' = [failed EXCEPT ![j] = @ \/ bad]
    /\ doing' = [doing EXCEPT ![j] = None]
    /\ state' = [state EXCEPT ![j] = "running"]
    /\ Goto(j, "next")
    /\ UNCHANGED <<lock, current, kind, todo, suspended, handler, system, events, faults>>

\* A backup that takes an hour counts as failed, and runs on.
WorkerTimeout(j) ==
    /\ pc[j] = "run" /\ ~Ended(j) /\ kind[j] # "restore"
    /\ Fault
    /\ failed' = [failed EXCEPT ![j] = TRUE]
    /\ doing' = [doing EXCEPT ![j] = None]
    /\ state' = [state EXCEPT ![j] = "running"]
    /\ Goto(j, "next")
    /\ UNCHANGED <<lock, current, kind, todo, suspended, handler, system, events>>

WorkerFinish(j) ==
    /\ pc[j] = "next" /\ todo[j] = {}
    /\ state' = [state EXCEPT ![j] = IF failed[j] THEN "failed" ELSE "done"]
    /\ Goto(j, "clear")
    /\ UNCHANGED <<lock, current, kind, todo, doing, failed, suspended>>
    /\ UNCHANGED <<handler, system, events, faults>>

\* Mutant: after an exception the timers are not resumed.
WorkerRaises_Unlocks(j) ==
    /\ pc[j] = "next"
    /\ Fault
    /\ state' = [state EXCEPT ![j] = "failed"]
    /\ suspended' = [suspended EXCEPT ![j] = {}]
    /\ Goto(j, "unlock")
    /\ UNCHANGED <<lock, current, kind, todo, doing, failed>>
    /\ UNCHANGED <<handler, system, events>>

\* An exception (the log cannot be opened, restore-cli cannot be started).
WorkerRaises(j) ==
    /\ pc[j] = "next"
    /\ Fault
    /\ state' = [state EXCEPT ![j] = "failed"]
    /\ Goto(j, "clear")
    /\ UNCHANGED <<lock, current, kind, todo, doing, failed, suspended>>
    /\ UNCHANGED <<handler, system, events>>

\* Mutant: the lock goes with the pointer, before the timers are resumed.
WorkerClear_Unlocks(j) ==
    /\ pc[j] = "clear"
    /\ lock' = None
    /\ Goto(j, IF current = j THEN "unlink" ELSE "resume")
    /\ UNCHANGED <<state, current, kind, todo, doing, failed, suspended>>
    /\ UNCHANGED <<handler, system, events, faults>>

\* Does the pointer still name the job?
WorkerClear(j) ==
    /\ pc[j] = "clear"
    /\ Goto(j, IF current = j THEN "unlink" ELSE "resume")
    /\ UNCHANGED <<files, kind, todo, doing, failed, suspended>>
    /\ UNCHANGED <<handler, system, events, faults>>

\* Then it is removed, whatever a handler may have written there since.
WorkerUnlink(j) ==
    /\ pc[j] = "unlink"
    /\ current' = None
    /\ Goto(j, "resume")
    /\ UNCHANGED <<lock, state, kind, todo, doing, failed, suspended>>
    /\ UNCHANGED <<handler, system, events, faults>>

\* A timer that cannot be started again stays stopped.
WorkerResume(j) ==
    /\ pc[j] = "resume"
    /\ \E back \in SUBSET suspended[j] :
        /\ IF back = suspended[j] THEN UNCHANGED faults ELSE Fault
        /\ timers' = timers \cup back
        /\ stranded' = (stranded \cup suspended[j]) \ timers'
    /\ loose' = loose \ suspended[j]
    /\ suspended' = [suspended EXCEPT ![j] = {}]
    /\ Goto(j, "unlock")
    /\ UNCHANGED <<files, kind, todo, doing, failed, handler, restores, units, events>>

WorkerUnlock(j) ==
    /\ pc[j] = "unlock"
    /\ lock' = None
    /\ Goto(j, "over")
    /\ UNCHANGED <<state, current, kind, todo, doing, failed, suspended>>
    /\ UNCHANGED <<handler, system, events, faults>>

Worker(j) ==
    \/ WorkerLock(j) \/ WorkerStart(j) \/ WorkerSuspend(j) \/ WorkerBegin(j)
    \/ WorkerEnd(j) \/ WorkerFinish(j) \/ WorkerClear(j) \/ WorkerUnlink(j)
    \/ WorkerResume(j) \/ WorkerUnlock(j)

-----------------------------------------------------------------------------
(***************************************************************************)
(* systemd, the canary, the process and the box.                           *)
(***************************************************************************)
RestoreEnds ==
    /\ \E p \in restores : restores' = restores \ {p}
    /\ UNCHANGED <<files, worker, handler, units, timers, stranded, loose, events, faults>>

UnitEnds ==
    /\ \E u \in units : units' = units \ {u}
    /\ UNCHANGED <<files, worker, handler, restores, timers, stranded, loose, events, faults>>

\* The timers of the backblaze units are never suspended.
TimerFires(p, r) ==
    /\ p = "local" => r \in timers
    /\ <<p, r>> \notin units
    /\ Event
    /\ units' = units \cup {<<p, r>>}
    /\ UNCHANGED <<files, worker, handler, restores, timers, stranded, loose, faults>>

\* The activation of a rebuild starts timers.target, and with it every timer
\* that is stopped.
TimersStarted ==
    /\ timers # Repos
    /\ Event
    /\ timers' = Repos /\ stranded' = {}
    /\ loose' = loose \cup UNION {suspended[j] : j \in Jobs}
    /\ UNCHANGED <<files, worker, handler, restores, units, faults>>

CanaryLock ==
    /\ lock = None /\ lock' = Canary
    /\ Event
    /\ UNCHANGED <<state, current, worker, handler, system, faults>>

CanaryUnlock ==
    /\ lock = Canary /\ lock' = None
    /\ UNCHANGED <<state, current, worker, handler, system, events, faults>>

\* The threads, their locks and the request in hand go with the process.
Killed ==
    /\ Fault
    /\ pc' = [j \in Jobs |-> IF Live(j) THEN "dead" ELSE pc[j]]
    /\ suspended' = [j \in Jobs |-> {}] /\ loose' = {}
    /\ handler' = Idle
    /\ UNCHANGED <<state, current, kind, todo, doing, failed, events>>

\* The backend restarts (KillMode=process, or a flip to the other colour).
ProcessRestarts ==
    /\ Killed
    /\ lock' = IF lock = Canary THEN Canary ELSE None
    /\ stranded' = Repos \ timers
    /\ UNCHANGED <<restores, units, timers>>

PowerCycle ==
    /\ Killed
    /\ lock' = None
    /\ restores' = {} /\ units' = {}
    /\ timers' = Repos /\ stranded' = {}

-----------------------------------------------------------------------------
Handler == Accept \/ Probe \/ Reap
Next ==
    \/ Ask \/ Handler
    \/ \E j \in Jobs :
        Poll(j) \/ Worker(j) \/ WorkerTimeout(j) \/ WorkerRaises(j)
    \/ RestoreEnds \/ UnitEnds
    \/ \E p \in Prefixes, r \in Repos : TimerFires(p, r)
    \/ TimersStarted \/ CanaryLock \/ CanaryUnlock
    \/ ProcessRestarts \/ PowerCycle

Spec == Init /\ [][Next]_vars

\* Handlers return, threads run, what was started ends, and the admin page
\* keeps asking for the state of the job it shows.
FairSpec ==
    /\ Spec
    /\ WF_vars(Handler)
    /\ \A j \in Jobs : WF_vars(Worker(j)) /\ SF_vars(Poll(j))
    /\ WF_vars(RestoreEnds) /\ WF_vars(UnitEnds) /\ WF_vars(CanaryUnlock)

-----------------------------------------------------------------------------
(***************************************************************************)
(* Properties.                                                             *)
(***************************************************************************)
\* Two restores of one repository never run at once, although two requests
\* may both be accepted: unless a restart has orphaned one of them.
RestoresSerial ==
    \A r \in Repos, j, k \in Jobs :
        <<r, j>> \in restores /\ <<r, k>> \in restores /\ Live(j) /\ Live(k) => j = k

\* A timer that a restore has suspended does not fire until its thread is
\* done, whatever other jobs, the reaper or an earlier crash do to it: unless
\* it is loose, because the stop failed, which the thread does not notice, or
\* because a rebuild started the timers meanwhile.
TimerSparesRestore ==
    [][\A r \in Repos \ loose, j \in Jobs :
        TimerFires("local", r) => ~(Live(j) /\ r \in suspended[j])]_vars

\* A timer is stopped only while a restore that will start it again is under
\* way, or after one that was killed or whose systemctl calls failed.
TimersRestored ==
    \A r \in Repos \ timers : r \in stranded \/ \E j \in Jobs : r \in suspended[j]

\* A verdict "done" says that every repository was gone through.
DoneIsComplete ==
    \A j \in Jobs : state[j] = "done" =>
        /\ todo[j] = {} /\ ~failed[j]
        /\ \A r \in Repos : <<r, j>> \notin restores

\* A running job that the pointer names gets its verdict, a restart or not,
\* unless a job accepted in its place takes the pointer.
JobSettles ==
    \A j \in Jobs : (current = j /\ state[j] = "running") ~>
                    (state[j] \in Verdicts \/ current # j)

\* "a restore cannot start while a backup/sync runs and vice versa": the
\* timers' units do not take the lock.
RestoreExcludesBackup ==
    \A r \in Repos, j \in Jobs, p \in Prefixes :
        ~(<<r, j>> \in restores /\ <<p, r>> \in units)

\* "Mark a job failed if it claims to be running but its PID is gone": the
\* reaper acts on a record that it read before, and on a pointer that may
\* name another job.
ReapsOnlyDead ==
    [][Reap => ~Live(handler.job) /\ state[handler.job] = "running"]_vars

\* The jobs keep the promises of SerialJobs.  A thread counts as working from
\* the lock to the verdict, and a repository in hand is not finished with.
PhaseOf(at) ==
    CASE at = "none" -> "none"
      [] at = "waiting" -> "queued"
      [] at \in {"start", "suspend", "next", "run"} -> "working"
      [] at \in {"clear", "unlink", "resume", "unlock"} -> "closing"
      [] at = "over" -> "over"
      [] at = "dead" -> "lost"

Promised == INSTANCE SerialJobs WITH
    holder <- lock,
    phase <- [j \in Jobs |-> PhaseOf(pc[j])],
    left <- [j \in Jobs |-> todo[j] \cup ({doing[j]} \ {None})],
    report <- state,
    Outsider <- Canary

\* Whatever threads, handlers, timers, restarts and failures do to each other,
\* one job works at a time, success is only reported by the job at work and
\* with nothing left, and nothing takes a report back but a reaper.
KeepsPromises == Promised!Spec
=============================================================================
