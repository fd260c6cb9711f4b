--------------------------- MODULE BackupJobsProofs ---------------------------
(***************************************************************************)
(* Proofs about BackupJobs, for every value of its constants: its safety   *)
(* invariants, that a suspended timer spares the restore, and that the     *)
(* jobs implement SerialJobs.                                              *)
(*                                                                         *)
(* Everything hangs on the lock being taken by the thread itself: a thread *)
(* past that point is alone (LockInv).  The rest says what a thread has in *)
(* hand at each of its steps, which no handler may disturb.                *)
(***************************************************************************)
EXTENDS BackupJobs, TLAPS

\* A thread past its lock holds it.
LockInv == \A j \in Jobs : Locked(j) => lock = j

\* Every accepted job has a thread, or had one, and the handler speaks of a
\* job whose thread has started.
JobInv ==
    /\ \A j \in Jobs : pc[j] = "none" <=> state[j] = "absent"
    /\ handler.op \in {"reap", "dead"} =>
         handler.job \in Jobs /\ state[handler.job] \notin {"absent", "queued"}

\* What a job has in hand: a repository only while it runs, a restore-cli
\* only for that repository, unless its thread was killed.
HandInv ==
    /\ \A j \in Jobs : pc[j] \notin {"run", "dead"} => doing[j] = None
    /\ \A r \in Repos, j \in Jobs : <<r, j>> \in restores =>
         /\ pc[j] # "none"
         /\ Live(j) => pc[j] = "run" /\ doing[j] = r /\ kind[j] = "restore"

\* The pointer was cleared, or led elsewhere, before the timers are resumed.
ClearInv == \A j \in Jobs : pc[j] \in {"resume", "unlock"} => current # j

\* Timers are held back only between their suspension and their resumption,
\* and none of them is active but the loose ones.
TimerInv ==
    \A j \in Jobs :
        /\ suspended[j] # {} => pc[j] \in {"next", "run", "clear", "unlink", "resume"}
        /\ suspended[j] \cap timers \subseteq loose

IInv ==
    /\ TypeOK /\ LockInv /\ JobInv /\ HandInv /\ ClearInv /\ TimerInv
    /\ DoneIsComplete /\ TimersRestored

-----------------------------------------------------------------------------

\* No step gives a variable a value outside its type.
LEMMA TypeStep == TypeOK /\ [Next]_vars => TypeOK'
<1> SUFFICES ASSUME TypeOK, [Next]_vars PROVE TypeOK'
  OBVIOUS
<1> USE ConstantsAssumption
    DEF ConstantsAssumption, TypeOK, files, worker, system, Event, Fault, Idle, Verdicts, Kinds
<1>1. CASE Ask
  BY <1>1 DEF Ask
<1>2. CASE Accept
  BY <1>2 DEF Accept
<1>3. ASSUME NEW j \in Jobs, Poll(j) PROVE TypeOK'
  BY <1>3 DEF Poll
<1>4. CASE Probe
  BY <1>4 DEF Probe
<1>5. CASE Reap
  BY <1>5 DEF Reap
<1>6. ASSUME NEW j \in Jobs, WorkerLock(j) PROVE TypeOK'
  BY <1>6 DEF WorkerLock, Goto
<1>7. ASSUME NEW j \in Jobs, WorkerStart(j) PROVE TypeOK'
  BY <1>7 DEF WorkerStart, Goto
<1>8. ASSUME NEW j \in Jobs, WorkerSuspend(j) PROVE TypeOK'
  BY <1>8 DEF WorkerSuspend, Goto
<1>9. ASSUME NEW j \in Jobs, WorkerBegin(j) PROVE TypeOK'
  BY <1>9 DEF WorkerBegin, Goto, Prefix, Prefixes
<1>10. ASSUME NEW j \in Jobs, WorkerEnd(j) PROVE TypeOK'
  BY <1>10 DEF WorkerEnd, Goto
<1>11. ASSUME NEW j \in Jobs, WorkerFinish(j) PROVE TypeOK'
  BY <1>11 DEF WorkerFinish, Goto
<1>12. ASSUME NEW j \in Jobs, WorkerClear(j) PROVE TypeOK'
  BY <1>12 DEF WorkerClear, Goto
<1>13. ASSUME NEW j \in Jobs, WorkerUnlink(j) PROVE TypeOK'
  BY <1>13 DEF WorkerUnlink, Goto
<1>14. ASSUME NEW j \in Jobs, WorkerResume(j) PROVE TypeOK'
  BY <1>14 DEF WorkerResume, Goto
<1>15. ASSUME NEW j \in Jobs, WorkerUnlock(j) PROVE TypeOK'
  BY <1>15 DEF WorkerUnlock, Goto
<1>16. ASSUME NEW j \in Jobs, WorkerTimeout(j) PROVE TypeOK'
  BY <1>16 DEF WorkerTimeout, Goto
<1>17. ASSUME NEW j \in Jobs, WorkerRaises(j) PROVE TypeOK'
  BY <1>17 DEF WorkerRaises, Goto
<1>18. CASE RestoreEnds \/ UnitEnds
  BY <1>18 DEF RestoreEnds, UnitEnds
<1>19. ASSUME NEW p \in Prefixes, NEW r \in Repos, TimerFires(p, r) PROVE TypeOK'
  BY <1>19 DEF TimerFires, Prefixes
<1>20. CASE TimersStarted
  BY <1>20 DEF TimersStarted
<1>21. CASE CanaryLock \/ CanaryUnlock
  BY <1>21 DEF CanaryLock, CanaryUnlock
<1>22. CASE ProcessRestarts \/ PowerCycle
  BY <1>22 DEF ProcessRestarts, PowerCycle, Killed
<1>23. CASE UNCHANGED vars
  BY <1>23 DEF vars
<1> QED
  BY <1>1, <1>2, <1>3, <1>4, <1>5, <1>6, <1>7, <1>8, <1>9, <1>10, <1>11, <1>12,
     <1>13, <1>14, <1>15, <1>16, <1>17, <1>18, <1>19, <1>20, <1>21, <1>22, <1>23
  DEF Next, Handler, Worker

\* A thread waits for the lock to be free, and nobody takes it from a live one.
LEMMA LockStep == TypeOK /\ LockInv /\ [Next]_vars => LockInv'
<1> SUFFICES ASSUME TypeOK, LockInv, [Next]_vars PROVE LockInv'
  OBVIOUS
<1> USE ConstantsAssumption DEF ConstantsAssumption, TypeOK, files, worker, system
<1> USE DEF LockInv, Locked, Live
<1>1. CASE Ask
  BY <1>1 DEF Ask
<1>2. CASE Accept
  BY <1>2 DEF Accept
<1>3. ASSUME NEW j \in Jobs, Poll(j) PROVE LockInv'
  BY <1>3 DEF Poll
<1>4. CASE Probe
  BY <1>4 DEF Probe
<1>5. CASE Reap
  BY <1>5 DEF Reap
<1>6. ASSUME NEW j \in Jobs, WorkerLock(j) PROVE LockInv'
  BY <1>6 DEF WorkerLock, Goto
<1>7. ASSUME NEW j \in Jobs, WorkerStart(j) PROVE LockInv'
  BY <1>7 DEF WorkerStart, Goto
<1>8. ASSUME NEW j \in Jobs, WorkerSuspend(j) PROVE LockInv'
  BY <1>8 DEF WorkerSuspend, Goto
<1>9. ASSUME NEW j \in Jobs, WorkerBegin(j) PROVE LockInv'
  BY <1>9 DEF WorkerBegin, Goto
<1>10. ASSUME NEW j \in Jobs, WorkerEnd(j) PROVE LockInv'
  BY <1>10 DEF WorkerEnd, Goto
<1>11. ASSUME NEW j \in Jobs, WorkerFinish(j) PROVE LockInv'
  BY <1>11 DEF WorkerFinish, Goto
<1>12. ASSUME NEW j \in Jobs, WorkerClear(j) PROVE LockInv'
  BY <1>12 DEF WorkerClear, Goto
<1>13. ASSUME NEW j \in Jobs, WorkerUnlink(j) PROVE LockInv'
  BY <1>13 DEF WorkerUnlink, Goto
<1>14. ASSUME NEW j \in Jobs, WorkerResume(j) PROVE LockInv'
  BY <1>14 DEF WorkerResume, Goto
<1>15. ASSUME NEW j \in Jobs, WorkerUnlock(j) PROVE LockInv'
  BY <1>15 DEF WorkerUnlock, Goto
<1>16. ASSUME NEW j \in Jobs, WorkerTimeout(j) PROVE LockInv'
  BY <1>16 DEF WorkerTimeout, Goto
<1>17. ASSUME NEW j \in Jobs, WorkerRaises(j) PROVE LockInv'
  BY <1>17 DEF WorkerRaises, Goto
<1>18. CASE RestoreEnds \/ UnitEnds
  BY <1>18 DEF RestoreEnds, UnitEnds
<1>19. ASSUME NEW p \in Prefixes, NEW r \in Repos, TimerFires(p, r) PROVE LockInv'
  BY <1>19 DEF TimerFires
<1>20. CASE TimersStarted
  BY <1>20 DEF TimersStarted
<1>21. CASE CanaryLock \/ CanaryUnlock
  BY <1>21 DEF CanaryLock, CanaryUnlock
<1>22. CASE ProcessRestarts \/ PowerCycle
  BY <1>22 DEF ProcessRestarts, PowerCycle, Killed
<1>23. CASE UNCHANGED vars
  BY <1>23 DEF vars
<1> QED
  BY <1>1, <1>2, <1>3, <1>4, <1>5, <1>6, <1>7, <1>8, <1>9, <1>10, <1>11, <1>12,
     <1>13, <1>14, <1>15, <1>16, <1>17, <1>18, <1>19, <1>20, <1>21, <1>22, <1>23
  DEF Next, Handler, Worker

\* A job file is written by its thread or for it, never before its thread.
LEMMA JobStep == TypeOK /\ JobInv /\ [Next]_vars => JobInv'
<1> SUFFICES ASSUME TypeOK, JobInv, [Next]_vars PROVE JobInv'
  OBVIOUS
<1> USE ConstantsAssumption DEF ConstantsAssumption, TypeOK, files, worker, system
<1> USE DEF JobInv, Idle, Live, Verdicts
<1>1. CASE Ask
  BY <1>1 DEF Ask
<1>2. CASE Accept
  BY <1>2 DEF Accept
<1>3. ASSUME NEW j \in Jobs, Poll(j) PROVE JobInv'
  BY <1>3 DEF Poll
<1>4. CASE Probe
  BY <1>4 DEF Probe
<1>5. CASE Reap
  BY <1>5 DEF Reap
<1>6. ASSUME NEW j \in Jobs, WorkerLock(j) PROVE JobInv'
  BY <1>6 DEF WorkerLock, Goto
<1>7. ASSUME NEW j \in Jobs, WorkerStart(j) PROVE JobInv'
  BY <1>7 DEF WorkerStart, Goto
<1>8. ASSUME NEW j \in Jobs, WorkerSuspend(j) PROVE JobInv'
  BY <1>8 DEF WorkerSuspend, Goto
<1>9. ASSUME NEW j \in Jobs, WorkerBegin(j) PROVE JobInv'
  BY <1>9 DEF WorkerBegin, Goto
<1>10. ASSUME NEW j \in Jobs, WorkerEnd(j) PROVE JobInv'
  BY <1>10 DEF WorkerEnd, Goto
<1>11. ASSUME NEW j \in Jobs, WorkerFinish(j) PROVE JobInv'
  BY <1>11 DEF WorkerFinish, Goto
<1>12. ASSUME NEW j \in Jobs, WorkerClear(j) PROVE JobInv'
  BY <1>12 DEF WorkerClear, Goto
<1>13. ASSUME NEW j \in Jobs, WorkerUnlink(j) PROVE JobInv'
  BY <1>13 DEF WorkerUnlink, Goto
<1>14. ASSUME NEW j \in Jobs, WorkerResume(j) PROVE JobInv'
  BY <1>14 DEF WorkerResume, Goto
<1>15. ASSUME NEW j \in Jobs, WorkerUnlock(j) PROVE JobInv'
  BY <1>15 DEF WorkerUnlock, Goto
<1>16. ASSUME NEW j \in Jobs, WorkerTimeout(j) PROVE JobInv'
  BY <1>16 DEF WorkerTimeout, Goto
<1>17. ASSUME NEW j \in Jobs, WorkerRaises(j) PROVE JobInv'
  BY <1>17 DEF WorkerRaises, Goto
<1>18. CASE RestoreEnds \/ UnitEnds
  BY <1>18 DEF RestoreEnds, UnitEnds
<1>19. ASSUME NEW p \in Prefixes, NEW r \in Repos, TimerFires(p, r) PROVE JobInv'
  BY <1>19 DEF TimerFires
<1>20. CASE TimersStarted
  BY <1>20 DEF TimersStarted
<1>21. CASE CanaryLock \/ CanaryUnlock
  BY <1>21 DEF CanaryLock, CanaryUnlock
<1>22. CASE ProcessRestarts \/ PowerCycle
  BY <1>22 DEF ProcessRestarts, PowerCycle, Killed
<1>23. CASE UNCHANGED vars
  BY <1>23 DEF vars
<1> QED
  BY <1>1, <1>2, <1>3, <1>4, <1>5, <1>6, <1>7, <1>8, <1>9, <1>10, <1>11, <1>12,
     <1>13, <1>14, <1>15, <1>16, <1>17, <1>18, <1>19, <1>20, <1>21, <1>22, <1>23
  DEF Next, Handler, Worker

\* A thread ends what it has in hand before it takes anything else up.
LEMMA HandStep == TypeOK /\ JobInv /\ HandInv /\ [Next]_vars => HandInv'
<1> SUFFICES ASSUME TypeOK, JobInv, HandInv, [Next]_vars PROVE HandInv'
  OBVIOUS
<1> USE ConstantsAssumption DEF ConstantsAssumption, TypeOK, files, worker, system
<1> USE DEF HandInv, JobInv, Live
<1>1. CASE Ask
  BY <1>1 DEF Ask
<1>2. CASE Accept
  BY <1>2 DEF Accept
<1>3. ASSUME NEW j \in Jobs, Poll(j) PROVE HandInv'
  BY <1>3 DEF Poll
<1>4. CASE Probe
  BY <1>4 DEF Probe
<1>5. CASE Reap
  BY <1>5 DEF Reap
<1>6. ASSUME NEW j \in Jobs, WorkerLock(j) PROVE HandInv'
  BY <1>6 DEF WorkerLock, Goto
<1>7. ASSUME NEW j \in Jobs, WorkerStart(j) PROVE HandInv'
  BY <1>7 DEF WorkerStart, Goto
<1>8. ASSUME NEW j \in Jobs, WorkerSuspend(j) PROVE HandInv'
  BY <1>8 DEF WorkerSuspend, Goto
<1>9. ASSUME NEW j \in Jobs, WorkerBegin(j) PROVE HandInv'
  BY <1>9 DEF WorkerBegin, Goto
<1>10. ASSUME NEW j \in Jobs, WorkerEnd(j) PROVE HandInv'
  BY <1>10 DEF WorkerEnd, Ended, Goto
<1>11. ASSUME NEW j \in Jobs, WorkerFinish(j) PROVE HandInv'
  BY <1>11 DEF WorkerFinish, Goto
<1>12. ASSUME NEW j \in Jobs, WorkerClear(j) PROVE HandInv'
  BY <1>12 DEF WorkerClear, Goto
<1>13. ASSUME NEW j \in Jobs, WorkerUnlink(j) PROVE HandInv'
  BY <1>13 DEF WorkerUnlink, Goto
<1>14. ASSUME NEW j \in Jobs, WorkerResume(j) PROVE HandInv'
  BY <1>14 DEF WorkerResume, Goto
<1>15. ASSUME NEW j \in Jobs, WorkerUnlock(j) PROVE HandInv'
  BY <1>15 DEF WorkerUnlock, Goto
<1>16. ASSUME NEW j \in Jobs, WorkerTimeout(j) PROVE HandInv'
  BY <1>16 DEF WorkerTimeout, Ended, Goto
<1>17. ASSUME NEW j \in Jobs, WorkerRaises(j) PROVE HandInv'
  BY <1>17 DEF WorkerRaises, Goto
<1>18. CASE RestoreEnds \/ UnitEnds
  BY <1>18 DEF RestoreEnds, UnitEnds
<1>19. ASSUME NEW p \in Prefixes, NEW r \in Repos, TimerFires(p, r) PROVE HandInv'
  BY <1>19 DEF TimerFires
<1>20. CASE TimersStarted
  BY <1>20 DEF TimersStarted
<1>21. CASE CanaryLock \/ CanaryUnlock
  BY <1>21 DEF CanaryLock, CanaryUnlock
<1>22. CASE ProcessRestarts \/ PowerCycle
  BY <1>22 DEF ProcessRestarts, PowerCycle, Killed
<1>23. CASE UNCHANGED vars
  BY <1>23 DEF vars
<1> QED
  BY <1>1, <1>2, <1>3, <1>4, <1>5, <1>6, <1>7, <1>8, <1>9, <1>10, <1>11, <1>12,
     <1>13, <1>14, <1>15, <1>16, <1>17, <1>18, <1>19, <1>20, <1>21, <1>22, <1>23
  DEF Next, Handler, Worker

\* Accepting another job does not point back to one that is being closed.
LEMMA ClearStep == TypeOK /\ JobInv /\ ClearInv /\ [Next]_vars => ClearInv'
<1> SUFFICES ASSUME TypeOK, JobInv, ClearInv, [Next]_vars PROVE ClearInv'
  OBVIOUS
<1> USE ConstantsAssumption DEF ConstantsAssumption, TypeOK, files, worker, system
<1> USE DEF ClearInv, JobInv, Live
<1>1. CASE Ask
  BY <1>1 DEF Ask
<1>2. CASE Accept
  BY <1>2 DEF Accept
<1>3. ASSUME NEW j \in Jobs, Poll(j) PROVE ClearInv'
  BY <1>3 DEF Poll
<1>4. CASE Probe
  BY <1>4 DEF Probe
<1>5. CASE Reap
  BY <1>5 DEF Reap
<1>6. ASSUME NEW j \in Jobs, WorkerLock(j) PROVE ClearInv'
  BY <1>6 DEF WorkerLock, Goto
<1>7. ASSUME NEW j \in Jobs, WorkerStart(j) PROVE ClearInv'
  BY <1>7 DEF WorkerStart, Goto
<1>8. ASSUME NEW j \in Jobs, WorkerSuspend(j) PROVE ClearInv'
  BY <1>8 DEF WorkerSuspend, Goto
<1>9. ASSUME NEW j \in Jobs, WorkerBegin(j) PROVE ClearInv'
  BY <1>9 DEF WorkerBegin, Goto
<1>10. ASSUME NEW j \in Jobs, WorkerEnd(j) PROVE ClearInv'
  BY <1>10 DEF WorkerEnd, Goto
<1>11. ASSUME NEW j \in Jobs, WorkerFinish(j) PROVE ClearInv'
  BY <1>11 DEF WorkerFinish, Goto
<1>12. ASSUME NEW j \in Jobs, WorkerClear(j) PROVE ClearInv'
  BY <1>12 DEF WorkerClear, Goto
<1>13. ASSUME NEW j \in Jobs, WorkerUnlink(j) PROVE ClearInv'
  BY <1>13 DEF WorkerUnlink, Goto
<1>14. ASSUME NEW j \in Jobs, WorkerResume(j) PROVE ClearInv'
  BY <1>14 DEF WorkerResume, Goto
<1>15. ASSUME NEW j \in Jobs, WorkerUnlock(j) PROVE ClearInv'
  BY <1>15 DEF WorkerUnlock, Goto
<1>16. ASSUME NEW j \in Jobs, WorkerTimeout(j) PROVE ClearInv'
  BY <1>16 DEF WorkerTimeout, Goto
<1>17. ASSUME NEW j \in Jobs, WorkerRaises(j) PROVE ClearInv'
  BY <1>17 DEF WorkerRaises, Goto
<1>18. CASE RestoreEnds \/ UnitEnds
  BY <1>18 DEF RestoreEnds, UnitEnds
<1>19. ASSUME NEW p \in Prefixes, NEW r \in Repos, TimerFires(p, r) PROVE ClearInv'
  BY <1>19 DEF TimerFires
<1>20. CASE TimersStarted
  BY <1>20 DEF TimersStarted
<1>21. CASE CanaryLock \/ CanaryUnlock
  BY <1>21 DEF CanaryLock, CanaryUnlock
<1>22. CASE ProcessRestarts \/ PowerCycle
  BY <1>22 DEF ProcessRestarts, PowerCycle, Killed
<1>23. CASE UNCHANGED vars
  BY <1>23 DEF vars
<1> QED
  BY <1>1, <1>2, <1>3, <1>4, <1>5, <1>6, <1>7, <1>8, <1>9, <1>10, <1>11, <1>12,
     <1>13, <1>14, <1>15, <1>16, <1>17, <1>18, <1>19, <1>20, <1>21, <1>22, <1>23
  DEF Next, Handler, Worker

\* Only the holder of the lock has timers to resume.
LEMMA TimerStep == TypeOK /\ LockInv /\ JobInv /\ TimerInv /\ [Next]_vars => TimerInv'
<1> SUFFICES ASSUME TypeOK, LockInv, JobInv, TimerInv, [Next]_vars PROVE TimerInv'
  OBVIOUS
<1> USE ConstantsAssumption DEF ConstantsAssumption, TypeOK, files, worker, system
<1> USE DEF TimerInv, LockInv, Locked, Live
<1>1. CASE Ask
  BY <1>1 DEF Ask
<1>2. CASE Accept
  BY <1>2 DEF Accept, JobInv
<1>3. ASSUME NEW j \in Jobs, Poll(j) PROVE TimerInv'
  BY <1>3 DEF Poll
<1>4. CASE Probe
  BY <1>4 DEF Probe
<1>5. CASE Reap
  BY <1>5 DEF Reap
<1>6. ASSUME NEW j \in Jobs, WorkerLock(j) PROVE TimerInv'
  BY <1>6 DEF WorkerLock, Goto
<1>7. ASSUME NEW j \in Jobs, WorkerStart(j) PROVE TimerInv'
  BY <1>7 DEF WorkerStart, Goto
<1>8. ASSUME NEW j \in Jobs, WorkerSuspend(j) PROVE TimerInv'
  BY <1>8 DEF WorkerSuspend, Goto
<1>9. ASSUME NEW j \in Jobs, WorkerBegin(j) PROVE TimerInv'
  BY <1>9 DEF WorkerBegin, Goto
<1>10. ASSUME NEW j \in Jobs, WorkerEnd(j) PROVE TimerInv'
  BY <1>10 DEF WorkerEnd, Goto
<1>11. ASSUME NEW j \in Jobs, WorkerFinish(j) PROVE TimerInv'
  BY <1>11 DEF WorkerFinish, Goto
<1>12. ASSUME NEW j \in Jobs, WorkerClear(j) PROVE TimerInv'
  BY <1>12 DEF WorkerClear, Goto
<1>13. ASSUME NEW j \in Jobs, WorkerUnlink(j) PROVE TimerInv'
  BY <1>13 DEF WorkerUnlink, Goto
<1>14. ASSUME NEW j \in Jobs, WorkerResume(j) PROVE TimerInv'
  BY <1>14 DEF WorkerResume, Goto
<1>15. ASSUME NEW j \in Jobs, WorkerUnlock(j) PROVE TimerInv'
  BY <1>15 DEF WorkerUnlock, Goto
<1>16. ASSUME NEW j \in Jobs, WorkerTimeout(j) PROVE TimerInv'
  BY <1>16 DEF WorkerTimeout, Goto
<1>17. ASSUME NEW j \in Jobs, WorkerRaises(j) PROVE TimerInv'
  BY <1>17 DEF WorkerRaises, Goto
<1>18. CASE RestoreEnds \/ UnitEnds
  BY <1>18 DEF RestoreEnds, UnitEnds
<1>19. ASSUME NEW p \in Prefixes, NEW r \in Repos, TimerFires(p, r) PROVE TimerInv'
  BY <1>19 DEF TimerFires
<1>20. CASE TimersStarted
  BY <1>20 DEF TimersStarted
<1>21. CASE CanaryLock \/ CanaryUnlock
  BY <1>21 DEF CanaryLock, CanaryUnlock
<1>22. CASE ProcessRestarts \/ PowerCycle
  BY <1>22 DEF ProcessRestarts, PowerCycle, Killed
<1>23. CASE UNCHANGED vars
  BY <1>23 DEF vars
<1> QED
  BY <1>1, <1>2, <1>3, <1>4, <1>5, <1>6, <1>7, <1>8, <1>9, <1>10, <1>11, <1>12,
     <1>13, <1>14, <1>15, <1>16, <1>17, <1>18, <1>19, <1>20, <1>21, <1>22, <1>23
  DEF Next, Handler, Worker

\* A job that succeeded has nothing left, and nothing is taken up again.
LEMMA DoneStep == TypeOK /\ JobInv /\ HandInv /\ DoneIsComplete /\ [Next]_vars => DoneIsComplete'
<1> SUFFICES ASSUME TypeOK, JobInv, HandInv, DoneIsComplete, [Next]_vars PROVE DoneIsComplete'
  OBVIOUS
<1> USE ConstantsAssumption DEF ConstantsAssumption, TypeOK, files, worker, system
<1> USE DEF DoneIsComplete, JobInv, HandInv, Live
<1>1. CASE Ask
  BY <1>1 DEF Ask
<1>2. CASE Accept
  BY <1>2 DEF Accept
<1>3. ASSUME NEW j \in Jobs, Poll(j) PROVE DoneIsComplete'
  BY <1>3 DEF Poll
<1>4. CASE Probe
  BY <1>4 DEF Probe
<1>5. CASE Reap
  BY <1>5 DEF Reap
<1>6. ASSUME NEW j \in Jobs, WorkerLock(j) PROVE DoneIsComplete'
  BY <1>6 DEF WorkerLock, Goto
<1>7. ASSUME NEW j \in Jobs, WorkerStart(j) PROVE DoneIsComplete'
  BY <1>7 DEF WorkerStart, Goto
<1>8. ASSUME NEW j \in Jobs, WorkerSuspend(j) PROVE DoneIsComplete'
  BY <1>8 DEF WorkerSuspend, Goto
<1>9. ASSUME NEW j \in Jobs, WorkerBegin(j) PROVE DoneIsComplete'
  BY <1>9 DEF WorkerBegin, Goto
<1>10. ASSUME NEW j \in Jobs, WorkerEnd(j) PROVE DoneIsComplete'
  BY <1>10 DEF WorkerEnd, Goto
<1>11. ASSUME NEW j \in Jobs, WorkerFinish(j) PROVE DoneIsComplete'
  BY <1>11 DEF WorkerFinish, Goto
<1>12. ASSUME NEW j \in Jobs, WorkerClear(j) PROVE DoneIsComplete'
  BY <1>12 DEF WorkerClear, Goto
<1>13. ASSUME NEW j \in Jobs, WorkerUnlink(j) PROVE DoneIsComplete'
  BY <1>13 DEF WorkerUnlink, Goto
<1>14. ASSUME NEW j \in Jobs, WorkerResume(j) PROVE DoneIsComplete'
  BY <1>14 DEF WorkerResume, Goto
<1>15. ASSUME NEW j \in Jobs, WorkerUnlock(j) PROVE DoneIsComplete'
  BY <1>15 DEF WorkerUnlock, Goto
<1>16. ASSUME NEW j \in Jobs, WorkerTimeout(j) PROVE DoneIsComplete'
  BY <1>16 DEF WorkerTimeout, Goto
<1>17. ASSUME NEW j \in Jobs, WorkerRaises(j) PROVE DoneIsComplete'
  BY <1>17 DEF WorkerRaises, Goto
<1>18. CASE RestoreEnds \/ UnitEnds
  BY <1>18 DEF RestoreEnds, UnitEnds
<1>19. ASSUME NEW p \in Prefixes, NEW r \in Repos, TimerFires(p, r) PROVE DoneIsComplete'
  BY <1>19 DEF TimerFires
<1>20. CASE TimersStarted
  BY <1>20 DEF TimersStarted
<1>21. CASE CanaryLock \/ CanaryUnlock
  BY <1>21 DEF CanaryLock, CanaryUnlock
<1>22. CASE ProcessRestarts \/ PowerCycle
  BY <1>22 DEF ProcessRestarts, PowerCycle, Killed
<1>23. CASE UNCHANGED vars
  BY <1>23 DEF vars
<1> QED
  BY <1>1, <1>2, <1>3, <1>4, <1>5, <1>6, <1>7, <1>8, <1>9, <1>10, <1>11, <1>12,
     <1>13, <1>14, <1>15, <1>16, <1>17, <1>18, <1>19, <1>20, <1>21, <1>22, <1>23
  DEF Next, Handler, Worker

\* A stopped timer is held by a thread or counted as stranded.
LEMMA RestoredStep == TypeOK /\ TimerInv /\ TimersRestored /\ [Next]_vars => TimersRestored'
<1> SUFFICES ASSUME TypeOK, TimerInv, TimersRestored, [Next]_vars PROVE TimersRestored'
  OBVIOUS
<1> USE ConstantsAssumption DEF ConstantsAssumption, TypeOK, files, worker, system
<1> USE DEF TimersRestored, TimerInv, Live
<1>1. CASE Ask
  BY <1>1 DEF Ask
<1>2. CASE Accept
  BY <1>2 DEF Accept
<1>3. ASSUME NEW j \in Jobs, Poll(j) PROVE TimersRestored'
  BY <1>3 DEF Poll
<1>4. CASE Probe
  BY <1>4 DEF Probe
<1>5. CASE Reap
  BY <1>5 DEF Reap
<1>6. ASSUME NEW j \in Jobs, WorkerLock(j) PROVE TimersRestored'
  BY <1>6 DEF WorkerLock, Goto
<1>7. ASSUME NEW j \in Jobs, WorkerStart(j) PROVE TimersRestored'
  BY <1>7 DEF WorkerStart, Goto
<1>8. ASSUME NEW j \in Jobs, WorkerSuspend(j) PROVE TimersRestored'
  BY <1>8 DEF WorkerSuspend, Goto
<1>9. ASSUME NEW j \in Jobs, WorkerBegin(j) PROVE TimersRestored'
  BY <1>9 DEF WorkerBegin, Goto
<1>10. ASSUME NEW j \in Jobs, WorkerEnd(j) PROVE TimersRestored'
  BY <1>10 DEF WorkerEnd, Goto
<1>11. ASSUME NEW j \in Jobs, WorkerFinish(j) PROVE TimersRestored'
  BY <1>11 DEF WorkerFinish, Goto
<1>12. ASSUME NEW j \in Jobs, WorkerClear(j) PROVE TimersRestored'
  BY <1>12 DEF WorkerClear, Goto
<1>13. ASSUME NEW j \in Jobs, WorkerUnlink(j) PROVE TimersRestored'
  BY <1>13 DEF WorkerUnlink, Goto
<1>14. ASSUME NEW j \in Jobs, WorkerResume(j) PROVE TimersRestored'
  BY <1>14 DEF WorkerResume, Goto
<1>15. ASSUME NEW j \in Jobs, WorkerUnlock(j) PROVE TimersRestored'
  BY <1>15 DEF WorkerUnlock, Goto
<1>16. ASSUME NEW j \in Jobs, WorkerTimeout(j) PROVE TimersRestored'
  BY <1>16 DEF WorkerTimeout, Goto
<1>17. ASSUME NEW j \in Jobs, WorkerRaises(j) PROVE TimersRestored'
  BY <1>17 DEF WorkerRaises, Goto
<1>18. CASE RestoreEnds \/ UnitEnds
  BY <1>18 DEF RestoreEnds, UnitEnds
<1>19. ASSUME NEW p \in Prefixes, NEW r \in Repos, TimerFires(p, r) PROVE TimersRestored'
  BY <1>19 DEF TimerFires
<1>20. CASE TimersStarted
  BY <1>20 DEF TimersStarted
<1>21. CASE CanaryLock \/ CanaryUnlock
  BY <1>21 DEF CanaryLock, CanaryUnlock
<1>22. CASE ProcessRestarts \/ PowerCycle
  BY <1>22 DEF ProcessRestarts, PowerCycle, Killed
<1>23. CASE UNCHANGED vars
  BY <1>23 DEF vars
<1> QED
  BY <1>1, <1>2, <1>3, <1>4, <1>5, <1>6, <1>7, <1>8, <1>9, <1>10, <1>11, <1>12,
     <1>13, <1>14, <1>15, <1>16, <1>17, <1>18, <1>19, <1>20, <1>21, <1>22, <1>23
  DEF Next, Handler, Worker

-----------------------------------------------------------------------------
\* What is promised of every state, with what keeps it true at every step.
THEOREM Invariance == Spec => []IInv
<1>1. Init => IInv
  BY ConstantsAssumption
  DEF ConstantsAssumption, Init, IInv, TypeOK, Idle, LockInv, Locked, Live,
      JobInv, HandInv, ClearInv, TimerInv, DoneIsComplete, TimersRestored,
      Verdicts
<1>2. IInv /\ [Next]_vars => IInv'
  BY TypeStep, LockStep, JobStep, HandStep, ClearStep, TimerStep, DoneStep,
     RestoredStep
  DEF IInv
<1> QED BY <1>1, <1>2, PTL DEF Spec

\* Every variable keeps its type, whatever interleaves.
THEOREM TypeCorrect == Spec => []TypeOK
<1>1. IInv => TypeOK
  BY DEF IInv
<1> QED BY <1>1, Invariance, PTL

\* Two restores of one repository never run at once for live threads: each of
\* them is past its lock, and the lock has one holder.
THEOREM RestoresNeverOverlap == Spec => []RestoresSerial
<1>1. ASSUME IInv PROVE RestoresSerial
  <2> SUFFICES ASSUME NEW r \in Repos, NEW j \in Jobs, NEW k \in Jobs,
                      <<r, j>> \in restores, <<r, k>> \in restores,
                      Live(j), Live(k)
               PROVE  j = k
    BY DEF RestoresSerial
  <2>1. pc[j] = "run" /\ pc[k] = "run"
    BY <1>1 DEF IInv, HandInv
  <2>2. lock = j /\ lock = k
    BY <1>1, <2>1 DEF IInv, LockInv, Locked
  <2> QED BY <2>2
<1> QED BY <1>1, Invariance, PTL

\* A timer that a restore has stopped is started again, unless the thread is
\* killed or systemctl fails.
THEOREM NoTimerForgotten == Spec => []TimersRestored
<1>1. IInv => TimersRestored
  BY DEF IInv
<1> QED BY <1>1, Invariance, PTL

\* A verdict "done" is of a job that went through all its repositories.
THEOREM SuccessIsComplete == Spec => []DoneIsComplete
<1>1. IInv => DoneIsComplete
  BY DEF IInv
<1> QED BY <1>1, Invariance, PTL

\* A timer does not fire into the restore that has suspended it, unless it was
\* never stopped or was started again behind the thread's back.
THEOREM NoTimerDuringRestore == Spec => TimerSparesRestore
<1>1. ASSUME IInv, NEW r \in Repos \ loose, NEW j \in Jobs, TimerFires("local", r)
      PROVE  ~(Live(j) /\ r \in suspended[j])
  BY <1>1 DEF IInv, TimerInv, TimerFires
<1>2. IInv /\ [Next]_vars =>
        [\A r \in Repos \ loose, j \in Jobs :
           TimerFires("local", r) => ~(Live(j) /\ r \in suspended[j])]_vars
  BY <1>1
<1> QED BY <1>2, Invariance, PTL DEF Spec, TimerSparesRestore

-----------------------------------------------------------------------------
(***************************************************************************)
(* The jobs implement SerialJobs.                                          *)
(***************************************************************************)
\* What the watchers take for the phase of a thread.
LEMMA Phases ==
    /\ PhaseOf("none") = "none" /\ PhaseOf("waiting") = "queued"
    /\ \A at \in {"start", "suspend", "next", "run"} : PhaseOf(at) = "working"
    /\ \A at \in {"clear", "unlink", "resume", "unlock"} : PhaseOf(at) = "closing"
    /\ PhaseOf("over") = "over" /\ PhaseOf("dead") = "lost"
BY DEF PhaseOf

\* The variables of SerialJobs that are not variables here.
PhaseBar == [j \in Jobs |-> PhaseOf(pc[j])]
LeftBar == [j \in Jobs |-> todo[j] \cup ({doing[j]} \ {None})]

\* A step of one thread changes the phase of that thread only.
LEMMA PhaseStep ==
    ASSUME TypeOK, NEW j \in Jobs, NEW there, Goto(j, there)
    PROVE  PhaseBar' = [PhaseBar EXCEPT ![j] = PhaseOf(there)]
BY DEF TypeOK, Goto, PhaseBar

\* Every step of a job's thread is one of SerialJobs, or is not seen.
LEMMA ThreadImplements ==
    ASSUME IInv, NEW j \in Jobs,
           Worker(j) \/ WorkerTimeout(j) \/ WorkerRaises(j)
    PROVE  Promised!Thread(j) \/ UNCHANGED Promised!vars
<1> USE ConstantsAssumption, Phases
    DEF ConstantsAssumption, IInv, TypeOK, Promised!Enter, Promised!Say
<1>1. CASE WorkerLock(j)
  <2>1. PhaseBar' = [PhaseBar EXCEPT ![j] = "working"]
    BY <1>1, PhaseStep DEF WorkerLock
  <2>2. Promised!Acquire(j)
    BY <1>1, <2>1 DEF WorkerLock, Promised!Acquire, PhaseBar
  <2> QED BY <2>2 DEF Promised!Thread
<1>2. CASE WorkerStart(j)
  <2>1. PhaseBar' = PhaseBar
    BY <1>2 DEF WorkerStart, Goto, PhaseBar
  <2>2. \E done \in SUBSET LeftBar[j] : LeftBar' = [LeftBar EXCEPT ![j] = @ \ done]
    <3>1. LeftBar' = [LeftBar EXCEPT ![j] = @ \ {}]
      BY <1>2 DEF WorkerStart, LeftBar
    <3> QED BY <3>1
  <2>3. Promised!Proceed(j)
    BY <1>2, <2>1, <2>2 DEF WorkerStart, Promised!Proceed, PhaseBar, LeftBar
  <2> QED BY <2>3 DEF Promised!Thread
<1>3. CASE WorkerSuspend(j)
  <2>1. PhaseBar' = PhaseBar
    BY <1>3 DEF WorkerSuspend, Goto, PhaseBar
  <2> QED BY <1>3, <2>1 DEF WorkerSuspend, files, Promised!vars, PhaseBar
<1>4. CASE WorkerBegin(j)
  <2>1. PhaseBar' = PhaseBar
    BY <1>4 DEF WorkerBegin, Goto, PhaseBar
  <2>2. \E done \in SUBSET LeftBar[j] : LeftBar' = [LeftBar EXCEPT ![j] = @ \ done]
    <3>1. PICK r \in todo[j] : /\ doing' = [doing EXCEPT ![j] = r]
                               /\ todo' = [todo EXCEPT ![j] = @ \ {r}]
      BY <1>4 DEF WorkerBegin
    <3>2. doing[j] = None /\ r # None
      BY <1>4 DEF WorkerBegin, HandInv
    <3>3. LeftBar[j]' = LeftBar[j]
      BY <3>1, <3>2 DEF LeftBar
    <3>4. LeftBar' = [LeftBar EXCEPT ![j] = @ \ {}]
      BY <3>1, <3>3 DEF LeftBar
    <3> QED BY <3>4
  <2>3. Promised!Proceed(j)
    BY <1>4, <2>1, <2>2 DEF WorkerBegin, Promised!Proceed, PhaseBar, LeftBar
  <2> QED BY <2>3 DEF Promised!Thread
<1>5. CASE WorkerEnd(j) \/ WorkerTimeout(j)
  <2>1. PhaseBar' = PhaseBar
    BY <1>5 DEF WorkerEnd, WorkerTimeout, Goto, PhaseBar
  <2>2. \E done \in SUBSET LeftBar[j] : LeftBar' = [LeftBar EXCEPT ![j] = @ \ done]
    <3>1. LeftBar' = [LeftBar EXCEPT ![j] = @ \ ({doing[j]} \ (todo[j] \cup {None}))]
      BY <1>5 DEF WorkerEnd, WorkerTimeout, LeftBar
    <3>2. {doing[j]} \ (todo[j] \cup {None}) \in SUBSET LeftBar[j]
      BY <1>5 DEF LeftBar
    <3> QED BY <3>1, <3>2
  <2>3. Promised!Proceed(j)
    BY <1>5, <2>1, <2>2
    DEF WorkerEnd, WorkerTimeout, Promised!Proceed, PhaseBar, LeftBar
  <2> QED BY <2>3 DEF Promised!Thread
<1>6. CASE WorkerFinish(j)
  <2>1. PhaseBar' = [PhaseBar EXCEPT ![j] = "closing"]
    BY <1>6, PhaseStep DEF WorkerFinish
  <2>2. Promised!Conclude(j)
    BY <1>6, <2>1 DEF WorkerFinish, Promised!Conclude, HandInv, PhaseBar
  <2> QED BY <2>2 DEF Promised!Thread
<1>7. CASE WorkerRaises(j)
  <2>1. PhaseBar' = [PhaseBar EXCEPT ![j] = "closing"]
    BY <1>7, PhaseStep DEF WorkerRaises
  <2>2. Promised!Conclude(j)
    BY <1>7, <2>1 DEF WorkerRaises, Promised!Conclude, PhaseBar
  <2> QED BY <2>2 DEF Promised!Thread
<1>8. CASE WorkerClear(j)
  <2>1. PhaseBar' = PhaseBar
    BY <1>8 DEF WorkerClear, Goto, PhaseBar
  <2> QED BY <1>8, <2>1 DEF WorkerClear, files, Promised!vars, PhaseBar
<1>9. CASE WorkerResume(j)
  <2>1. PhaseBar' = PhaseBar
    BY <1>9 DEF WorkerResume, Goto, PhaseBar
  <2> QED BY <1>9, <2>1 DEF WorkerResume, files, Promised!vars, PhaseBar
<1>10. CASE WorkerUnlink(j)
  <2>1. PhaseBar' = PhaseBar
    BY <1>10 DEF WorkerUnlink, Goto, PhaseBar
  <2>2. Promised!Clear(j)
    BY <1>10, <2>1 DEF WorkerUnlink, Promised!Clear, PhaseBar
  <2> QED BY <2>2 DEF Promised!Thread
<1>11. CASE WorkerUnlock(j)
  <2>1. PhaseBar' = [PhaseBar EXCEPT ![j] = "over"]
    BY <1>11, PhaseStep DEF WorkerUnlock
  <2>2. Promised!Release(j)
    BY <1>11, <2>1 DEF WorkerUnlock, Promised!Release, ClearInv, PhaseBar
  <2> QED BY <2>2 DEF Promised!Thread
<1> QED
  BY <1>1, <1>2, <1>3, <1>4, <1>5, <1>6, <1>7, <1>8, <1>9, <1>10, <1>11 DEF Worker

\* Every step of the whole is a step of SerialJobs, or is not seen.
LEMMA StepImplements == IInv /\ [Next]_vars => [Promised!Next]_(Promised!vars)
<1> SUFFICES ASSUME IInv, [Next]_vars PROVE Promised!Next \/ UNCHANGED Promised!vars
  OBVIOUS
<1> USE ConstantsAssumption, Phases
    DEF ConstantsAssumption, IInv, TypeOK, files, worker, system
<1>1. ASSUME NEW j \in Jobs, Worker(j) \/ WorkerTimeout(j) \/ WorkerRaises(j)
      PROVE  Promised!Next \/ UNCHANGED Promised!vars
  BY <1>1, ThreadImplements DEF Promised!Next
<1>2. CASE Accept
  <2>1. PICK j \in Jobs, k \in Kinds, rs \in (SUBSET Repos) \ {{}} :
           /\ state[j] = "absent"
           /\ state' = [state EXCEPT ![j] = "queued"]
           /\ current' = j
           /\ pc' = [pc EXCEPT ![j] = "waiting"]
           /\ kind' = [kind EXCEPT ![j] = k]
           /\ todo' = [todo EXCEPT ![j] = rs]
    BY <1>2 DEF Accept
  <2>2. PhaseBar' = [PhaseBar EXCEPT ![j] = "queued"]
    <3>1. Goto(j, "waiting")
      BY <2>1 DEF Goto
    <3> QED BY <3>1, PhaseStep
  <2>3. LeftBar' = [LeftBar EXCEPT ![j] = rs]
    <3>1. doing[j] = None
      BY <2>1 DEF HandInv, JobInv
    <3>2. doing' = doing
      BY <1>2 DEF Accept
    <3> QED BY <2>1, <3>1, <3>2 DEF LeftBar
  <2>4. Promised!Submit(j)
    BY <1>2, <2>1, <2>2, <2>3
    DEF Accept, Promised!Submit, Promised!Enter, Promised!Say, PhaseBar, LeftBar,
        JobInv
  <2> QED BY <2>4 DEF Promised!Next
<1>3. CASE Reap
  <2>1. Promised!Reap(handler.job)
    BY <1>3 DEF Reap, Promised!Reap, Promised!Say, Promised!Unpoint, JobInv
  <2> QED BY <1>3, <2>1 DEF Reap, Promised!Next, JobInv
<1>4. CASE CanaryLock
  BY <1>4 DEF CanaryLock, Promised!OutsiderTakes, Promised!Next
<1>5. CASE CanaryUnlock
  BY <1>5 DEF CanaryUnlock, Promised!OutsiderReleases, Promised!Next
<1>6. CASE ProcessRestarts \/ PowerCycle
  <2>1. Promised!Restart
    BY <1>6 DEF ProcessRestarts, PowerCycle, Killed, Live, Promised!Restart
  <2> QED BY <2>1 DEF Promised!Next
<1>7. CASE Ask \/ Probe \/ RestoreEnds \/ UnitEnds \/ TimersStarted
  BY <1>7 DEF Ask, Probe, RestoreEnds, UnitEnds, TimersStarted, Promised!vars
<1>8. ASSUME NEW j \in Jobs, Poll(j) PROVE UNCHANGED Promised!vars
  BY <1>8 DEF Poll, Promised!vars
<1>9. ASSUME NEW p \in Prefixes, NEW r \in Repos, TimerFires(p, r)
      PROVE  UNCHANGED Promised!vars
  BY <1>9 DEF TimerFires, Promised!vars
<1>10. CASE UNCHANGED vars
  BY <1>10 DEF vars, Promised!vars
<1> QED
  BY <1>1, <1>2, <1>3, <1>4, <1>5, <1>6, <1>7, <1>8, <1>9, <1>10
  DEF Next, Handler

\* Whatever threads, handlers, timers, restarts and failures do to each other,
\* those who watch the jobs see a behaviour of SerialJobs.
THEOREM Refinement == Spec => KeepsPromises
<1>1. Init => Promised!Init
  BY ConstantsAssumption, Phases
  DEF ConstantsAssumption, Init, Promised!Init
<1> QED BY <1>1, StepImplements, Invariance, PTL
        DEF Spec, KeepsPromises, Promised!Spec
=============================================================================
