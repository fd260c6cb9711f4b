------------------------------ MODULE SerialJobs ------------------------------
(***************************************************************************)
(* What the jobs of web-platform/backend/services/backup_operations.py     *)
(* promise to those who watch them, whatever threads, units and timers do  *)
(* behind it: one job works at a time, only the job that works reports     *)
(* progress and success, success is reported when nothing is left to do,   *)
(* and a job whose thread was killed never succeeds.                       *)
(*                                                                         *)
(* BackupJobs implements this specification; JobWatch uses it as the       *)
(* server that a browser tab polls.                                        *)
(***************************************************************************)
EXTENDS Naturals

CONSTANTS
    Jobs,       \* job ids
    Repos,      \* repositories
    None,
    Outsider    \* holds the lock without being a job: the canary self-test.
                \* Neither None nor Outsider is a job.

VARIABLES
    holder,     \* of the lock of the subsystem
    phase,      \* of the thread of a job
    left,       \* repositories that the job has not finished with
    report,     \* state in the job file
    current     \* the current-job pointer

vars == <<holder, phase, left, report, current>>

Phases == {"none", "queued", "working", "closing", "over", "lost"}
Reports == {"absent", "queued", "running", "done", "failed"}

TypeOK ==
    /\ holder \in Jobs \cup {None, Outsider}
    /\ phase \in [Jobs -> Phases]
    /\ left \in [Jobs -> SUBSET Repos]
    /\ report \in [Jobs -> Reports]
    /\ current \in Jobs \cup {None}

Init ==
    /\ holder = None /\ current = None
    /\ phase = [j \in Jobs |-> "none"]
    /\ left = [j \in Jobs |-> {}]
    /\ report = [j \in Jobs |-> "absent"]

-----------------------------------------------------------------------------
Enter(j, p) == phase' = [phase EXCEPT ![j] = p]
Say(j, r) == report' = [report EXCEPT ![j] = r]

\* A request is accepted.  The lock was free when it was asked for.
Submit(j) ==
    /\ phase[j] = "none" /\ report[j] = "absent"
    /\ Enter(j, "queued") /\ Say(j, "queued")
    /\ \E rs \in SUBSET Repos : left' = [left EXCEPT ![j] = rs]
    /\ current' = j
    /\ UNCHANGED holder

Acquire(j) ==
    /\ phase[j] = "queued" /\ holder = None
    /\ holder' = j
    /\ Enter(j, "working")
    /\ UNCHANGED <<left, report, current>>

\* The thread goes on, and may be done with a repository.
Proceed(j) ==
    /\ phase[j] = "working"
    /\ Say(j, "running")
    /\ \E done \in SUBSET left[j] : left' = [left EXCEPT ![j] = @ \ done]
    /\ UNCHANGED <<holder, phase, current>>

Conclude(j) ==
    /\ phase[j] = "working"
    /\ Enter(j, "closing")
    /\ \/ Say(j, "failed")
       \/ left[j] = {} /\ Say(j, "done")
    /\ UNCHANGED <<holder, left, current>>

Unpoint(j) == current' = IF current = j THEN None ELSE current

\* A job that has ended removes the pointer, though by then it may name
\* another job.
Clear(j) ==
    /\ phase[j] = "closing"
    /\ current' = None
    /\ UNCHANGED <<holder, phase, left, report>>

Release(j) ==
    /\ phase[j] = "closing" /\ current # j
    /\ holder' = None
    /\ Enter(j, "over")
    /\ UNCHANGED <<left, report, current>>

\* A status request takes a job for dead that had reported "running".
Reap(j) ==
    /\ report[j] \notin {"absent", "queued"}
    /\ Say(j, "failed") /\ Unpoint(j)
    /\ UNCHANGED <<holder, phase, left>>

OutsiderTakes ==
    /\ holder = None /\ holder' = Outsider
    /\ UNCHANGED <<phase, left, report, current>>

OutsiderReleases ==
    /\ holder = Outsider /\ holder' = None
    /\ UNCHANGED <<phase, left, report, current>>

\* The process, or the box, restarts.
Restart ==
    /\ phase' = [j \in Jobs |->
          IF phase[j] \in {"queued", "working", "closing"} THEN "lost" ELSE phase[j]]
    /\ holder' \in {None} \cup ({holder} \cap {Outsider})
    /\ UNCHANGED <<left, report, current>>

-----------------------------------------------------------------------------
Thread(j) == Acquire(j) \/ Proceed(j) \/ Conclude(j) \/ Clear(j) \/ Release(j)

Next ==
    \/ \E j \in Jobs : Submit(j) \/ Thread(j) \/ Reap(j)
    \/ OutsiderTakes \/ OutsiderReleases \/ Restart

Spec == Init /\ [][Next]_vars
=============================================================================
