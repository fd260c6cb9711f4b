------------------------- MODULE RebuildServiceProofs -------------------------
(***************************************************************************)
(* Proofs about RebuildService, for every value of its constants.          *)
(*                                                                         *)
(* InSyncIsDeployed is not inductive: that the snapshot agrees with the    *)
(* box when nothing is pending depends on what happened while something    *)
(* was.  The strengthening IInv follows a rebuild through its life: which  *)
(* log is followed, what the build read, what the marks have copied so     *)
(* far, and what holds once the log is let go.                             *)
(***************************************************************************)
EXTENDS RebuildService, TLAPS

Marks == {"markConfig", "markInputs", "markRev"}
Finalising == Marks \cup {"verdict", "clear"}
Saving == {"save", "saveFinished"}

\* Logs are written by started rebuilds only, and only such are followed.
LogsInv ==
    /\ memFile \in Runs => memFile <= started
    /\ pointer \in Runs => pointer <= started
    /\ Corrupt \in {memFile, pointer} => started # 0
    /\ \A r \in Runs : r > started => logs[r] = EmptyLog

\* Memory follows a log while one is saved or finalised: what the pointer on
\* disk says, torn or not, matters only once that memory is lost.
PointerInv ==
    /\ pc = "reset" => memFile = 0
    /\ pc \in Finalising => memFile # 0
    /\ pc \in Saving => memFile \in Runs

\* What the last build read is still on disk if nothing was edited, and an
\* activation marker in the newest log means the box runs that build.
BuildInv ==
    /\ built # None /\ ~Edited =>
         /\ config = built.config /\ lock = built.code
         /\ HasLocalInput => tree = lock
    /\ started # 0 /\ logs[started].act => built # None /\ deployed = built
    /\ unit = "exited" => logs[started].act
    /\ unit # "none" => started # 0

\* The marks taken so far are copies of what the followed build read.
MarkInv ==
    /\ latest = None => appliedConfig = None
    /\ pc \in Marks \cup {"clear"} => latest \in Verdicts
    /\ pc \in Marks => LogOf(memFile).act \/ logs[started].act
    /\ pc \in {"markInputs", "markRev"} /\ ~Edited /\ ~Unmarked /\ memFile \in {started, Corrupt}
         => appliedConfig = config
    /\ pc = "markRev" /\ ~Edited /\ ~Unmarked /\ memFile \in {started, Corrupt}
         => appliedInputs = BuildInputsManifest

\* Nothing is followed any more, or is about to be let go.
Settled ==
    \/ pc = "clear"
    \/ Tracked = 0 /\ pc \in {"idle", "reset", "switch", "launch"}

Agreement ==
    /\ appliedConfig = deployed.config
    /\ appliedInputs \in Manifests
    /\ deployed.code =
         IF HasLocalInput THEN appliedInputs.tree ELSE appliedInputs.lock

SettledInv ==
    Settled /\ ~Suspect /\ ~LastRebuildFailed =>
        /\ latest # None => Agreement
        /\ unit = "active" => logs[started].act

IInv ==
    /\ TypeOK /\ LogsInv /\ PointerInv
    /\ BuildInv /\ MarkInv /\ SettledInv

-----------------------------------------------------------------------------
(***************************************************************************)
(* Types, together with which log is followed: a verdict names a run only  *)
(* because finalising starts with a log in hand.                           *)
(***************************************************************************)
\* A nameless log is no run, and it is not nothing.
LEMMA NamelessIsNoRun == Corrupt \notin Runs /\ Corrupt # 0
BY SentinelAssumption DEF Runs

\* Whatever is followed reads as some log.
LEMMA LogTyped == ASSUME TypeOK, memFile # 0 PROVE LogOf(memFile) \in Logs
BY DEF TypeOK, Pointers, LogOf, Logs, EmptyLog

\* The verdict that finalising writes is a verdict of what was followed.
LEMMA VerdictTyped == ASSUME TypeOK, PointerInv, WriteLatest PROVE latest' \in Verdicts
<1> USE DEF TypeOK, Runs, Logs
<1>1. PICK code \in {0, 1, None} :
        latest' = [run |-> memFile, exit |-> ExitOf(code, LogOf(memFile)),
                   partial |-> DetectPartialSuccess(
                     ExitOf(code, LogOf(memFile)), LogOf(memFile))]
  BY DEF WriteLatest
<1>2. ExitOf(code, LogOf(memFile)) \in {0, 1}
  BY <1>1 DEF ExitOf
<1>3. DetectPartialSuccess(ExitOf(code, LogOf(memFile)), LogOf(memFile)) \in BOOLEAN
  <2> LogOf(memFile) \in Logs
    BY LogTyped DEF WriteLatest, PointerInv, Finalising
  <2> QED BY DEF DetectPartialSuccess, Logs
<1>4. memFile \in Runs \cup {Corrupt}
  BY DEF WriteLatest, PointerInv, Finalising, Pointers
<1> QED BY <1>1, <1>2, <1>3, <1>4 DEF Verdicts

\* No step gives a variable a value outside its type.
LEMMA TypeStep == TypeOK /\ PointerInv /\ [Next]_vars => TypeOK'
<1> SUFFICES ASSUME TypeOK, PointerInv, [Next]_vars PROVE TypeOK'
  OBVIOUS
<1> USE BoundsAssumption
    DEF BoundsAssumption, TypeOK, Runs, Logs, Builds, Manifests
<1>0. 0 \in Pointers /\ Corrupt \in Pointers
  BY DEF Pointers
<1> USE DEF files, disk, memory, systemd, history, Fault, NoFault, Failed
<1>1. ASSUME NEW c \in {"poll", "apply"}, Status(c) PROVE TypeOK'
  <2>1. Tracked \in Pointers
    BY DEF Tracked
  <2> QED BY <1>1, <2>1 DEF Status, StatusRunning, StatusNothingTracked,
                            StatusFinished, UnitActive, MayHaveGrown
<1>2. CASE Finalise
  <2>1. CASE WriteLatest
    <3>1. latest' \in Verdicts
      BY <2>1, VerdictTyped
    <3> QED BY <2>1, <3>1 DEF WriteLatest, UnitExitCode
  <2>2. CASE WriteLatestFails
    BY <2>2 DEF WriteLatestFails, AfterStatus
  <2>3. CASE MarkConfigApplied \/ MarkBuildInputsApplied \/ MarkRevApplied
    <3>1. CASE MarkConfigApplied
      BY <3>1 DEF MarkConfigApplied
    <3>2. CASE MarkBuildInputsApplied
      <4>1. BuildInputsManifest \in Manifests
        BY DEF BuildInputsManifest
      <4>2. appliedInputs' \in Manifests \cup {None, Corrupt}
        BY <3>2, <4>1 DEF MarkBuildInputsApplied
      <4>3. doubts' \in {doubts, doubts \cup {"unmarked"}}
        BY <3>2 DEF MarkBuildInputsApplied
      <4>4. faults' \in 0..MaxFaults
        BY <3>2 DEF MarkBuildInputsApplied
      <4>5. doubts' \subseteq {"edited", "suspect", "unmarked"}
        BY <4>3
      <4> HIDE DEF Manifests
      <4> QED BY <3>2, <4>2, <4>4, <4>5 DEF MarkBuildInputsApplied
    <3>3. CASE MarkRevApplied
      BY <3>3 DEF MarkRevApplied
    <3> QED BY <2>3, <3>1, <3>2, <3>3
  <2>4. CASE ClearRebuildState
    BY <1>0, <2>4 DEF ClearRebuildState
  <2>5. CASE ResetFailed
    BY <2>5 DEF ResetFailed, AfterStatus
  <2> QED BY <1>2, <2>1, <2>2, <2>3, <2>4, <2>5 DEF Finalise
<1>3. CASE RebuildSwitch
  <2>1. CASE SwitchRefused \/ SwitchPrepare
    BY <2>1 DEF SwitchRefused, SwitchPrepare, UnitActive
  <2>2. CASE Launch
    <3>1. started + 1 \in Runs /\ started + 1 \in Pointers
      BY <2>2 DEF Launch, Pointers
    <3>2. memFile' \in Pointers
      BY <1>0, <2>2, <3>1 DEF Launch
    <3>3. doubts' \in {doubts, doubts \cup {"suspect"}}
      BY <2>2 DEF Launch
    <3> QED BY <2>2, <3>1, <3>2, <3>3 DEF Launch
  <2>3. CASE LaunchFails
    <3>1. doubts' \in {doubts, doubts \cup {"suspect"}}
      BY <2>3 DEF LaunchFails, DoubtIfForgotten
    <3>2. memFile' \in Pointers
      BY <1>0, <2>3 DEF LaunchFails
    <3> QED BY <2>3, <3>1, <3>2 DEF LaunchFails
  <2>4. CASE SaveRebuildState
    <3>1. pointer' \in Pointers
      BY <1>0, <2>4 DEF SaveRebuildState, TornPointers
    <3> QED BY <2>4, <3>1 DEF SaveRebuildState
  <2> QED BY <1>3, <2>1, <2>2, <2>3, <2>4 DEF RebuildSwitch
<1>4. CASE Unit
  <2>1. CASE UnitEvaluate \/ UnitKilled \/ UnitCollected
    BY <2>1 DEF UnitEvaluate, UnitKilled, UnitCollected
  <2>2. CASE UnitActivate
    <3>1. logs' \in [Runs -> Logs]
      BY <2>2 DEF UnitActivate
    <3> QED BY <2>2, <3>1 DEF UnitActivate
  <2>3. CASE UnitSucceeds
    <3>1. PICK noisy \in BOOLEAN : logs' = [logs EXCEPT ![started].fail = noisy]
      BY <2>3 DEF UnitSucceeds
    <3>2. logs' \in [Runs -> Logs]
      BY <3>1
    <3> QED BY <2>3, <3>2 DEF UnitSucceeds
  <2>4. CASE UnitFails
    <3>1. logs' \in [Runs -> Logs]
      <4>1. PICK svc \in BOOLEAN :
              logs' = [logs EXCEPT ![started].fail = TRUE,
                                   ![started].svc = svc /\ logs[started].act]
        BY <2>4 DEF UnitFails
      <4>2. (svc /\ logs[started].act) \in BOOLEAN
        OBVIOUS
      <4> QED BY <4>1, <4>2
    <3> QED BY <2>4, <3>1 DEF UnitFails
  <2> QED BY <1>4, <2>1, <2>2, <2>3, <2>4 DEF Unit
<1>5. CASE Environment
  <2>1. CASE SaveConfig \/ HandEdit \/ ApplyUpdate
    BY <2>1 DEF SaveConfig, HandEdit, ApplyUpdate, Edit
  <2>2. CASE Restart \/ Reboot
    <3>1. doubts' \in {doubts, doubts \cup {"suspect"}}
      BY <2>2 DEF Restart, Reboot, ProcessDies, DoubtIfForgotten
    <3>2. memFile' \in Pointers /\ pointer' \in Pointers
      BY <1>0, <2>2 DEF Restart, Reboot, ProcessDies, TornPointers
    <3> QED BY <2>2, <3>1, <3>2 DEF Restart, Reboot, ProcessDies, Truncates
  <2> QED BY <1>5, <2>1, <2>2 DEF Environment
<1>6. CASE UNCHANGED vars
  BY <1>6 DEF vars
<1> QED BY <1>1, <1>2, <1>3, <1>4, <1>5, <1>6 DEF Next, Poll, Apply

\* A log is in memory's hand wherever one is saved or finalised.
LEMMA PointerStep == TypeOK /\ PointerInv /\ [Next]_vars => PointerInv'
<1> SUFFICES ASSUME TypeOK, PointerInv, [Next]_vars PROVE PointerInv'
  OBVIOUS
<1> USE BoundsAssumption
    DEF BoundsAssumption, TypeOK, PointerInv, Finalising, Marks, Saving, Pointers
<1> USE DEF files, disk, memory, systemd, history
<1>1. ASSUME NEW c \in {"poll", "apply"}, Status(c) PROVE PointerInv'
  <2>1. CASE StatusRunning(c)
    BY <2>1 DEF StatusRunning, Tracked, MayHaveGrown
  <2>2. CASE StatusNothingTracked(c)
    BY <2>2 DEF StatusNothingTracked, Tracked
  <2>3. CASE StatusFinished(c)
    BY <2>3 DEF StatusFinished, Tracked, MayHaveGrown
  <2> QED BY <1>1, <2>1, <2>2, <2>3 DEF Status
<1>2. CASE Finalise
  BY <1>2 DEF Finalise, WriteLatest, WriteLatestFails, MarkConfigApplied,
              MarkBuildInputsApplied, MarkRevApplied, ClearRebuildState,
              ResetFailed, AfterStatus
<1>3. CASE RebuildSwitch
  <2>1. CASE SwitchRefused \/ SwitchPrepare \/ LaunchFails
    BY <2>1 DEF SwitchRefused, SwitchPrepare, LaunchFails
  <2>2. CASE Launch
    BY <2>2 DEF Launch, Runs
  <2>3. CASE SaveRebuildState
    BY <2>3, NamelessIsNoRun DEF SaveRebuildState, Runs
  <2> QED BY <1>3, <2>1, <2>2, <2>3 DEF RebuildSwitch
<1>4. CASE Unit
  BY <1>4 DEF Unit, UnitEvaluate, UnitActivate, UnitSucceeds, UnitFails,
              UnitKilled, UnitCollected
<1>5. CASE Environment
  BY <1>5 DEF Environment, SaveConfig, HandEdit, ApplyUpdate, Edit,
              Restart, Reboot, ProcessDies
<1>6. CASE UNCHANGED vars
  BY <1>6 DEF vars
<1> QED BY <1>1, <1>2, <1>3, <1>4, <1>5, <1>6 DEF Next, Poll, Apply

\* Nothing is followed at the start, and every variable has its type.
LEMMA InitTyped == Init => TypeOK /\ PointerInv
BY BoundsAssumption DEF Init, TypeOK, PointerInv, Finalising, Marks, Saving, Runs,
   Pointers, Logs, EmptyLog, Builds, BoundsAssumption

\* Every variable keeps its type: started, which names the logs, stays
\* within its bound, and the files hold values, nothing or a truncation.
THEOREM TypeCorrect == Spec => []TypeOK
<1>1. TypeOK /\ PointerInv /\ [Next]_vars => (TypeOK /\ PointerInv)'
  BY TypeStep, PointerStep
<1> QED BY InitTyped, <1>1, PTL DEF Spec

-----------------------------------------------------------------------------
(***************************************************************************)
(* The life of a rebuild.  Each lemma takes one conjunct of IInv through   *)
(* every action that touches what it speaks of.                            *)
(***************************************************************************)
\* Only started rebuilds are followed or have a log.
LEMMA LogsStep == IInv /\ [Next]_vars => LogsInv'
<1> SUFFICES ASSUME IInv, [Next]_vars PROVE LogsInv'
  OBVIOUS
<1> USE BoundsAssumption, NamelessIsNoRun
    DEF BoundsAssumption, IInv, TypeOK, LogsInv, Runs, files, disk, memory, systemd, history
<1>1. ASSUME NEW c \in {"poll", "apply"}, Status(c) PROVE LogsInv'
  BY <1>1 DEF Status, StatusRunning, StatusNothingTracked, StatusFinished, Tracked
<1>2. CASE Finalise
  BY <1>2 DEF Finalise, WriteLatest, WriteLatestFails, MarkConfigApplied,
              MarkBuildInputsApplied, MarkRevApplied, ClearRebuildState, ResetFailed
<1>3. CASE RebuildSwitch
  <2>1. CASE SwitchRefused \/ SwitchPrepare \/ SaveRebuildState
    <3>1. pointer' \in {pointer, memFile, 0, Corrupt}
      BY <2>1 DEF SwitchRefused, SwitchPrepare, SaveRebuildState, TornPointers
    <3>2. UNCHANGED <<memFile, started, logs>>
      BY <2>1 DEF SwitchRefused, SwitchPrepare, SaveRebuildState
    <3>3. pointer' = pointer \/ memFile \in Runs
      BY <2>1 DEF SwitchRefused, SwitchPrepare, SaveRebuildState, PointerInv, Saving
    <3> QED BY <3>1, <3>2, <3>3
  <2>2. CASE Launch
    BY <2>2 DEF Launch
  <2>3. CASE LaunchFails
    <3>1. memFile' \in {memFile, 0} /\ UNCHANGED <<pointer, started, logs>>
      BY <2>3 DEF LaunchFails
    <3>2. 0 <= started
      OBVIOUS
    <3> QED BY <3>1, <3>2
  <2> QED BY <1>3, <2>1, <2>2, <2>3 DEF RebuildSwitch
<1>4. CASE Unit
  <2>1. \A r \in Runs : r > started => logs'[r] = logs[r]
    BY <1>4 DEF Unit, UnitEvaluate, UnitActivate, UnitSucceeds, UnitFails,
                UnitKilled, UnitCollected
  <2>2. UNCHANGED <<memFile, pointer, started>>
    BY <1>4 DEF Unit, UnitEvaluate, UnitActivate, UnitSucceeds, UnitFails,
                UnitKilled, UnitCollected
  <2> QED BY <2>1, <2>2
<1>5. CASE Environment
  <2>1. CASE SaveConfig \/ HandEdit \/ ApplyUpdate
    BY <2>1 DEF SaveConfig, HandEdit, ApplyUpdate, Edit
  <2>2. CASE Restart \/ Reboot
    <3>1. \/ pointer' = pointer
          \/ pointer' \in {memFile, 0, Corrupt} /\ memFile \in Runs
      BY <2>2 DEF Restart, Reboot, ProcessDies, TornPointers, PointerInv, Saving
    <3>2. memFile' = 0 /\ UNCHANGED <<started, logs>>
      BY <2>2 DEF Restart, Reboot, ProcessDies
    <3> QED BY <3>1, <3>2
  <2> QED BY <1>5, <2>1, <2>2 DEF Environment
<1>6. CASE UNCHANGED vars
  BY <1>6 DEF vars
<1> QED BY <1>1, <1>2, <1>3, <1>4, <1>5, <1>6 DEF Next, Poll, Apply

\* A step of the unit leaves every activation marker where it is, and adds
\* one only to the newest log, together with the switch of the box.
LEMMA MarkersKept ==
    ASSUME TypeOK, Unit
    PROVE  \/ \A r \in Runs : logs'[r].act = logs[r].act
           \/ UnitActivate
<1> USE DEF TypeOK, Logs
<1>1. CASE UnitEvaluate \/ UnitKilled \/ UnitCollected
  BY <1>1 DEF UnitEvaluate, UnitKilled, UnitCollected
<1>2. CASE UnitSucceeds
  BY <1>2 DEF UnitSucceeds
<1>3. CASE UnitFails
  BY <1>3 DEF UnitFails
<1> QED BY <1>1, <1>2, <1>3 DEF Unit

\* A rebuild that is forgotten adds no other doubt than that.
LEMMA OtherDoubtsKept ==
    ASSUME NEW onDisk, DoubtIfForgotten(onDisk)
    PROVE  Edited' = Edited /\ Unmarked' = Unmarked
BY DEF DoubtIfForgotten, Edited, Unmarked

\* The last build read what is on disk, unless something was edited, and an
\* activation marker in the newest log means that build was switched to.
LEMMA BuildStep == IInv /\ [Next]_vars => BuildInv'
<1> SUFFICES ASSUME IInv, [Next]_vars PROVE BuildInv'
  OBVIOUS
<1> USE DEF IInv, TypeOK, BuildInv, files, disk, memory, systemd, history
<1>1. ASSUME NEW c \in {"poll", "apply"}, Status(c) PROVE BuildInv'
  BY <1>1 DEF Status, StatusRunning, StatusNothingTracked, StatusFinished, Edited
<1>2. CASE Finalise
  <2>1. CASE WriteLatest \/ WriteLatestFails \/ MarkConfigApplied
    BY <2>1 DEF WriteLatest, WriteLatestFails, MarkConfigApplied, Edited
  <2>2. CASE MarkBuildInputsApplied \/ MarkRevApplied
    BY <2>2 DEF MarkBuildInputsApplied, MarkRevApplied, Edited
  <2>3. CASE ClearRebuildState \/ ResetFailed
    BY <2>3 DEF ClearRebuildState, ResetFailed, Edited
  <2> QED BY <1>2, <2>1, <2>2, <2>3 DEF Finalise
<1>3. CASE RebuildSwitch
  <2>1. CASE SwitchRefused \/ LaunchFails \/ SaveRebuildState
    <3>1. Edited' = Edited
      BY <2>1, OtherDoubtsKept DEF SwitchRefused, LaunchFails, SaveRebuildState, Edited
    <3> QED BY <2>1, <3>1 DEF SwitchRefused, LaunchFails, SaveRebuildState
  <2>2. CASE SwitchPrepare
    BY <2>2 DEF SwitchPrepare, Edited
  <2>3. CASE Launch
    <3>1. started' \in Runs /\ started' > started
      BY <2>3, BoundsAssumption DEF Launch, Runs, BoundsAssumption
    <3>2. logs'[started'] = EmptyLog
      BY <2>3, <3>1 DEF Launch, LogsInv
    <3>3. ~logs'[started'].act
      BY <3>2 DEF EmptyLog
    <3>4. started' # 0
      BY <3>1, BoundsAssumption DEF Runs, BoundsAssumption
    <3> QED BY <2>3, <3>3, <3>4 DEF Launch, Edited
  <2> QED BY <1>3, <2>1, <2>2, <2>3 DEF RebuildSwitch
<1>4. CASE Unit
  <2>1. CASE UnitEvaluate
    BY <2>1 DEF UnitEvaluate, Builds, Edited
  <2>2. CASE UnitActivate
    BY <2>2 DEF UnitActivate, Logs, Edited
  <2>3. CASE UnitSucceeds
    <3>1. logs'[started].act = logs[started].act
      BY <2>3, MarkersKept, <1>4 DEF UnitSucceeds, UnitActivate
    <3> QED BY <2>3, <3>1 DEF UnitSucceeds, Edited
  <2>4. CASE UnitFails
    BY <2>4, MarkersKept, <1>4 DEF UnitFails, UnitActivate, Edited
  <2>5. CASE UnitKilled \/ UnitCollected
    BY <2>5 DEF UnitKilled, UnitCollected, Edited
  <2> QED BY <1>4, <2>1, <2>2, <2>3, <2>4, <2>5 DEF Unit
<1>5. CASE Environment
  <2>1. CASE SaveConfig \/ HandEdit \/ ApplyUpdate
    BY <2>1 DEF SaveConfig, HandEdit, ApplyUpdate, Edit, Edited
  <2>2. CASE Restart \/ Reboot
    <3>1. Edited' = Edited
      BY <2>2, OtherDoubtsKept DEF Restart, Reboot, ProcessDies
    <3> QED BY <2>2, <3>1 DEF Restart, Reboot, ProcessDies
  <2> QED BY <1>5, <2>1, <2>2 DEF Environment
<1>6. CASE UNCHANGED vars
  BY <1>6 DEF vars, Edited
<1> QED BY <1>1, <1>2, <1>3, <1>4, <1>5, <1>6 DEF Next, Poll, Apply

\* What finalising goes on to mark has activated: the followed rebuild by
\* its log, or the newest one by the exit code of the unit.
LEMMA MarkedIsActivated ==
    ASSUME TypeOK, BuildInv, WriteLatest, latest'.exit = 0 \/ latest'.partial
    PROVE  LogOf(memFile).act \/ logs[started].act
<1>1. PICK code \in {0, 1, None} :
        LET exit == ExitOf(code, LogOf(memFile)) IN
        /\ UnitExitCode(code)
        /\ latest' = [run |-> memFile, exit |-> exit,
                      partial |-> DetectPartialSuccess(exit, LogOf(memFile))]
  BY DEF WriteLatest
<1>2. CASE DetectPartialSuccess(ExitOf(code, LogOf(memFile)), LogOf(memFile))
  BY <1>2 DEF DetectPartialSuccess
<1>3. CASE ExitOf(code, LogOf(memFile)) = 0
  <2>1. CASE code = None
    BY <1>3, <2>1 DEF ExitOf
  <2>2. CASE code # None
    <3>1. code = 0
      BY <1>3, <2>2 DEF ExitOf
    <3>2. unit = "exited"
      BY <1>1, <2>2, <3>1 DEF UnitExitCode, TypeOK
    <3> QED BY <3>2 DEF BuildInv
  <2> QED BY <2>1, <2>2
<1> QED BY <1>1, <1>2, <1>3

\* A mark copies what the followed build read, as long as nothing is edited.
LEMMA MarkStep == IInv /\ [Next]_vars => MarkInv'
<1> SUFFICES ASSUME IInv, [Next]_vars PROVE MarkInv'
  OBVIOUS
<1> USE SentinelAssumption
    DEF IInv, MarkInv, Marks, LogOf, Edited, Unmarked, Failed,
        files, disk, memory, systemd, history
<1>1. ASSUME NEW c \in {"poll", "apply"}, Status(c) PROVE MarkInv'
  BY <1>1 DEF Status, StatusRunning, StatusNothingTracked, StatusFinished
<1>2. CASE Finalise
  <2>1. CASE WriteLatest
    <3>1. latest' \in Verdicts
      BY <2>1, VerdictTyped
    <3>2. pc' = "markConfig" => LogOf(memFile)'.act \/ logs'[started'].act
      BY <2>1, MarkedIsActivated DEF WriteLatest, LogOf
    <3>3. pc' \in {"markConfig", "clear"}
      BY <2>1 DEF WriteLatest
    <3> QED BY <3>1, <3>2, <3>3
  <2>2. CASE WriteLatestFails \/ ClearRebuildState \/ ResetFailed
    BY <2>2 DEF WriteLatestFails, ClearRebuildState, ResetFailed, AfterStatus
  <2>3. CASE MarkConfigApplied \/ MarkBuildInputsApplied
    BY <2>3 DEF MarkConfigApplied, MarkBuildInputsApplied, BuildInputsManifest
  <2>4. CASE MarkRevApplied
    BY <2>4 DEF MarkRevApplied
  <2> QED BY <1>2, <2>1, <2>2, <2>3, <2>4 DEF Finalise
<1>3. CASE RebuildSwitch
  BY <1>3 DEF RebuildSwitch, SwitchRefused, SwitchPrepare, Launch, LaunchFails,
              SaveRebuildState
<1>4. CASE Unit
  <2>1. CASE UnitEvaluate
    <3>1. ~logs[started].act
      BY <2>1 DEF UnitEvaluate, BuildInv
    <3>2. pc \in Marks => memFile \notin {started, Corrupt}
      BY <3>1 DEF EmptyLog
    <3> QED BY <2>1, <3>1, <3>2 DEF UnitEvaluate
  <2>2. CASE UnitActivate
    BY <2>2 DEF UnitActivate, BuildInputsManifest, TypeOK, Logs
  <2>3. CASE UnitSucceeds \/ UnitFails
    <3>1. logs'[started].act = logs[started].act
      BY <2>3, <1>4, MarkersKept DEF UnitSucceeds, UnitFails, UnitActivate,
                                     TypeOK, BuildInv
    <3>2. pc \in Marks => LogOf(memFile)'.act = LogOf(memFile).act
      <4> HAVE pc \in Marks
      <4>1. memFile \in Runs \/ memFile = Corrupt
        BY DEF TypeOK, Pointers, PointerInv, Finalising
      <4>2. \A r \in Runs : logs'[r].act = logs[r].act
        BY <2>3, <1>4, MarkersKept DEF UnitSucceeds, UnitFails, UnitActivate
      <4>3. memFile' = memFile
        BY <2>3 DEF UnitSucceeds, UnitFails
      <4> QED BY <4>1, <4>2, <4>3
    <3> QED BY <3>2, <2>3, <3>1 DEF UnitSucceeds, UnitFails, BuildInputsManifest
  <2>4. CASE UnitKilled \/ UnitCollected
    BY <2>4 DEF UnitKilled, UnitCollected, BuildInputsManifest
  <2> QED BY <1>4, <2>1, <2>2, <2>3, <2>4 DEF Unit
<1>5. CASE Environment
  <2>1. CASE SaveConfig \/ HandEdit \/ ApplyUpdate
    BY <2>1 DEF SaveConfig, HandEdit, ApplyUpdate, Edit
  <2>2. CASE Restart \/ Reboot
    BY <2>2 DEF Restart, Reboot, ProcessDies, Truncates
  <2> QED BY <1>5, <2>1, <2>2 DEF Environment
<1>6. CASE UNCHANGED vars
  BY <1>6 DEF vars, BuildInputsManifest
<1> QED BY <1>1, <1>2, <1>3, <1>4, <1>5, <1>6 DEF Next, Poll, Apply

\* Once the log is let go the snapshot agrees with the box, unless the last
\* verdict is a failure or the snapshot is in doubt.
LEMMA SettledStep == IInv /\ [Next]_vars => SettledInv'
<1> SUFFICES ASSUME IInv, [Next]_vars PROVE SettledInv'
  OBVIOUS
<1> USE DEF IInv, PointerInv, SettledInv, Settled, Agreement, Tracked, Suspect,
            LastRebuildFailed, Finalising, Marks,
            files, disk, memory, systemd, history
<1>1. ASSUME NEW c \in {"poll", "apply"}, Status(c) PROVE SettledInv'
  <2>1. CASE StatusRunning(c)
    BY <2>1 DEF StatusRunning
  <2>2. CASE StatusNothingTracked(c)
    BY <2>2 DEF StatusNothingTracked
  <2>3. CASE StatusFinished(c)
    BY <2>3 DEF StatusFinished
  <2> QED BY <1>1, <2>1, <2>2, <2>3 DEF Status
<1>2. CASE Finalise
  <2>1. CASE WriteLatest
    <3>1. latest' \in Verdicts
      BY <2>1, VerdictTyped
    <3>2. pc' = "clear" => latest'.exit # 0
      BY <2>1 DEF WriteLatest
    <3>3. pc' \in {"markConfig", "clear"} /\ memFile' # 0
      BY <2>1 DEF WriteLatest
    <3> QED BY <3>1, <3>2, <3>3
  <2>2. CASE WriteLatestFails
    BY <2>2 DEF WriteLatestFails, AfterStatus
  <2>3. CASE MarkConfigApplied \/ MarkBuildInputsApplied
    BY <2>3 DEF MarkConfigApplied, MarkBuildInputsApplied
  <2>4. CASE MarkRevApplied
    <3> SUFFICES ASSUME ~Suspect'
        PROVE  Agreement' /\ logs'[started'].act
      OBVIOUS
    <3>1. ~Edited /\ ~Unmarked /\ memFile \in {started, Corrupt} /\ memFile # 0
      BY <2>4 DEF MarkRevApplied
    <3>2. logs[started].act /\ appliedConfig = config
          /\ appliedInputs = BuildInputsManifest
      BY <2>4, <3>1 DEF MarkRevApplied, MarkInv, LogOf, EmptyLog
    <3>3. built # None /\ deployed = built
      BY <3>1, <3>2 DEF BuildInv, LogsInv
    <3>4. /\ config = built.config /\ lock = built.code
          /\ HasLocalInput => tree = lock
      BY <3>1, <3>3 DEF BuildInv
    <3>5. BuildInputsManifest \in Manifests
      BY DEF BuildInputsManifest, Manifests, TypeOK
    <3>6. UNCHANGED <<appliedConfig, appliedInputs, deployed, logs, started>>
      BY <2>4 DEF MarkRevApplied
    <3> QED BY <3>2, <3>3, <3>4, <3>5, <3>6 DEF BuildInputsManifest
  <2>5. CASE ClearRebuildState
    BY <2>5 DEF ClearRebuildState
  <2>6. CASE ResetFailed
    BY <2>6 DEF ResetFailed, AfterStatus
  <2> QED BY <1>2, <2>1, <2>2, <2>3, <2>4, <2>5, <2>6 DEF Finalise
<1>3. CASE RebuildSwitch
  <2>1. CASE SwitchRefused
    BY <2>1 DEF SwitchRefused
  <2>2. CASE SwitchPrepare
    BY <2>2 DEF SwitchPrepare
  <2>3. CASE Launch
    BY <2>3, BoundsAssumption DEF Launch, TypeOK, Runs, BoundsAssumption
  <2>4. CASE LaunchFails
    BY <2>4 DEF LaunchFails, DoubtIfForgotten
  <2>5. CASE SaveRebuildState
    BY <2>5, NamelessIsNoRun DEF SaveRebuildState, Saving, Runs
  <2> QED BY <1>3, <2>1, <2>2, <2>3, <2>4, <2>5 DEF RebuildSwitch
<1>4. CASE Unit
  <2>1. UNCHANGED <<files, memory, started>> /\ (unit' = "active" => unit = "active")
    BY <1>4 DEF Unit, UnitEvaluate, UnitActivate, UnitSucceeds, UnitFails,
                UnitKilled, UnitCollected
  <2>2. Suspect' = Suspect
    BY <1>4 DEF Unit, UnitEvaluate, UnitActivate, UnitSucceeds, UnitFails,
                UnitKilled, UnitCollected
  <2>3. CASE UnitActivate
    BY <2>1, <2>2, <2>3 DEF UnitActivate
  <2>4. CASE ~UnitActivate
    <3>1. deployed' = deployed
      BY <1>4, <2>4 DEF Unit, UnitEvaluate, UnitSucceeds, UnitFails, UnitKilled,
                        UnitCollected
    <3>2. started \in Runs => logs'[started].act = logs[started].act
      BY <1>4, <2>4, MarkersKept
    <3>3. unit = "active" => started \in Runs
      BY DEF BuildInv, TypeOK
    <3> QED BY <2>1, <2>2, <3>1, <3>2, <3>3
  <2> QED BY <2>3, <2>4
<1>5. CASE Environment
  <2>1. CASE SaveConfig \/ HandEdit \/ ApplyUpdate
    BY <2>1 DEF SaveConfig, HandEdit, ApplyUpdate, Edit
  <2>2. CASE Restart \/ Reboot
    <3>1. CASE Suspect'
      BY <3>1
    <3>2. CASE ~Suspect'
      <4>1. ~Suspect /\ (memFile # 0 /\ pc # "clear" => pointer' # 0)
        BY <2>2, <3>2 DEF Restart, Reboot, ProcessDies, DoubtIfForgotten
      <4>2. memFile' = 0 /\ pc' = "idle" /\ unit' \in {unit, "none"}
        BY <2>2 DEF Restart, Reboot, ProcessDies
      <4>3. pc \notin {"clear"} /\ memFile = 0 => pointer' = pointer
        BY <2>2 DEF Restart, Reboot, ProcessDies, Saving, Runs
      <4>4. Settled' => Settled
        <5> SUFFICES ASSUME pointer' = 0, pc # "clear" PROVE Settled
          BY <4>2
        <5>1. memFile = 0 /\ pointer = 0
          BY <4>1, <4>3
        <5>2. pc \in {"idle", "reset", "switch", "launch"}
          BY <5>1, NamelessIsNoRun DEF TypeOK, Saving, Runs
        <5> QED BY <5>1, <5>2
      <4>5. pc = "verdict" => ~Settled'
        BY <4>1, <4>2
      <4>6. pc # "verdict" => latest' = latest
        BY <2>2 DEF Restart, Reboot, ProcessDies, Truncates
      <4>7. Settled' =>
              UNCHANGED <<latest, appliedConfig, appliedInputs, deployed, logs, started>>
        BY <2>2, <4>4, <4>6 DEF Restart, Reboot, ProcessDies, Truncates
      <4> QED BY <4>1, <4>2, <4>4, <4>7
    <3> QED BY <3>1, <3>2
  <2> QED BY <1>5, <2>1, <2>2 DEF Environment
<1>6. CASE UNCHANGED vars
  BY <1>6 DEF vars
<1> QED BY <1>1, <1>2, <1>3, <1>4, <1>5, <1>6 DEF Next, Poll, Apply

-----------------------------------------------------------------------------
(***************************************************************************)
(* The invariant and what follows from it.                                 *)
(***************************************************************************)
\* Nothing is marked or built at the start, so nothing can disagree.
LEMMA InitInv == Init => IInv
<1> SUFFICES ASSUME Init PROVE IInv
  OBVIOUS
<1>1. TypeOK /\ PointerInv
  BY InitTyped
<1>2. LogsInv
  BY BoundsAssumption, NamelessIsNoRun DEF Init, LogsInv, Runs, BoundsAssumption
<1>3. BuildInv /\ MarkInv
  BY SentinelAssumption DEF Init, BuildInv, MarkInv, Marks
<1>4. SettledInv
  BY DEF Init, SettledInv
<1> QED BY <1>1, <1>2, <1>3, <1>4 DEF IInv

\* The invariant holds in every reachable state.
THEOREM Invariance == Spec => []IInv
<1>1. IInv /\ [Next]_vars => IInv'
  <2> SUFFICES ASSUME IInv, [Next]_vars PROVE IInv'
    OBVIOUS
  <2>1. TypeOK' /\ PointerInv'
    BY TypeStep, PointerStep DEF IInv
  <2>2. LogsInv' /\ BuildInv' /\ MarkInv'
    BY LogsStep, BuildStep, MarkStep
  <2>3. SettledInv'
    BY SettledStep
  <2> QED BY <2>1, <2>2, <2>3 DEF IInv
<1> QED BY InitInv, <1>1, PTL DEF Spec

\* When the dirty endpoint says "in sync", nothing is pending and nothing
\* is in doubt, the box runs what the files on disk say.
THEOREM InSyncTruthful == Spec => []InSyncIsDeployed
<1>1. IInv => InSyncIsDeployed
  <2> SUFFICES ASSUME IInv, Quiet, ~Suspect, InSync PROVE DeployedIsDisk
    BY DEF InSyncIsDeployed
  <2>1. latest # None
    BY SentinelAssumption DEF IInv, TypeOK, MarkInv, InSync
  <2>2. Agreement
    BY <2>1 DEF IInv, SettledInv, Settled, Quiet, InSync
  <2>3. deployed.config = config
    BY <2>2 DEF Agreement, InSync
  <2>4. deployed.code = CurrentCode
    BY <2>2 DEF Agreement, InSync, BuildInputsDirty, CurrentCode
  <2> QED BY <2>3, <2>4 DEF DeployedIsDisk, IInv, TypeOK, Builds
<1> QED BY Invariance, <1>1, PTL

\* The snapshot advances only for a rebuild whose activation reached the box.
THEOREM AppliedAfterActivation == Spec => AppliedOnlyAfterActivation
<1> DEFINE Step == appliedConfig' \notin {appliedConfig, Corrupt}
                     => LogOf(memFile).act \/ logs[started].act
<1>1. IInv /\ [Next]_vars => [Step]_vars
  <2> SUFFICES ASSUME IInv, Next PROVE Step
    OBVIOUS
  <2> USE DEF disk, files, memory, systemd, history
  <2>1. ASSUME NEW c \in {"poll", "apply"}, Status(c) PROVE Step
    BY <2>1 DEF Status, StatusRunning, StatusNothingTracked, StatusFinished
  <2>2. CASE Finalise
    BY <2>2 DEF Finalise, WriteLatest, WriteLatestFails, MarkConfigApplied,
                MarkBuildInputsApplied, MarkRevApplied, ClearRebuildState,
                ResetFailed, IInv, MarkInv, Marks, Failed
  <2>3. CASE RebuildSwitch \/ Unit
    BY <2>3 DEF RebuildSwitch, SwitchRefused, SwitchPrepare, Launch, LaunchFails,
                SaveRebuildState, Unit, UnitEvaluate, UnitActivate, UnitSucceeds,
                UnitFails, UnitKilled, UnitCollected
  <2>4. CASE Environment
    BY <2>4 DEF Environment, SaveConfig, HandEdit, ApplyUpdate, Edit,
                Restart, Reboot, ProcessDies, Truncates
  <2> QED BY <2>1, <2>2, <2>3, <2>4 DEF Next, Poll, Apply
<1> QED BY Invariance, <1>1, PTL DEF Spec, AppliedOnlyAfterActivation

\* A recorded success names a rebuild that activated, or that a newer one
\* which did has superseded.
THEOREM SuccessActivated == Spec => []SuccessIsActivation
<1> USE BoundsAssumption
    DEF BoundsAssumption, disk, files, memory, systemd, history
<1>1. Init => SuccessIsActivation
  BY SentinelAssumption DEF Init, SuccessIsActivation
<1>2. IInv /\ SuccessIsActivation /\ [Next]_vars => SuccessIsActivation'
  <2> SUFFICES ASSUME IInv, SuccessIsActivation, [Next]_vars
               PROVE  SuccessIsActivation'
    OBVIOUS
  <2>1. CASE WriteLatest
    <3> SUFFICES ASSUME latest'.exit = 0 \/ latest'.partial
                 PROVE  \E r \in Runs : /\ latest'.run = Corrupt \/ latest'.run <= r
                                       /\ logs'[r].act
      BY DEF SuccessIsActivation
    <3>1. LogOf(memFile).act \/ logs[started].act
      BY <2>1, MarkedIsActivated DEF IInv
    <3>2. \/ memFile = Corrupt /\ started \in Runs
          \/ memFile \in Runs /\ started \in Runs /\ memFile <= started
      BY <2>1 DEF WriteLatest, IInv, TypeOK, Runs, Pointers, LogsInv, PointerInv,
                  Finalising
    <3>3. latest'.run = memFile /\ logs' = logs
      BY <2>1 DEF WriteLatest
    <3>4. memFile = Corrupt => ~LogOf(memFile).act
      BY DEF LogOf, EmptyLog
    <3>5. memFile \in Runs => memFile <= memFile /\ LogOf(memFile) = logs[memFile]
      BY NamelessIsNoRun DEF LogOf, Runs
    <3>6. CASE memFile = Corrupt
      BY <3>1, <3>2, <3>3, <3>4, <3>6
    <3>7. CASE memFile \in Runs /\ started \in Runs /\ memFile <= started
      BY <3>1, <3>3, <3>5, <3>7
    <3> QED BY <3>2, <3>6, <3>7
  <2>2. CASE Unit
    <3>1. \A r \in Runs : logs[r].act => logs'[r].act
      BY <2>2, MarkersKept DEF IInv, UnitActivate, TypeOK, Logs
    <3>2. latest' = latest
      BY <2>2 DEF Unit, UnitEvaluate, UnitActivate, UnitSucceeds, UnitFails,
                  UnitKilled, UnitCollected
    <3> QED BY <3>1, <3>2 DEF SuccessIsActivation
  <2>3. CASE UNCHANGED logs /\ latest' \in {latest, Corrupt}
    BY <2>3, SentinelAssumption DEF SuccessIsActivation
  <2>4. WriteLatest \/ Unit \/ (UNCHANGED logs /\ latest' \in {latest, Corrupt})
    <3>1. ASSUME NEW c \in {"poll", "apply"}, Status(c)
          PROVE  UNCHANGED logs /\ latest' \in {latest, Corrupt}
      BY <3>1 DEF Status, StatusRunning, StatusNothingTracked, StatusFinished
    <3>2. CASE Finalise
      BY <3>2 DEF Finalise, WriteLatestFails, MarkConfigApplied, ResetFailed,
                  MarkBuildInputsApplied, MarkRevApplied, ClearRebuildState
    <3>3. CASE RebuildSwitch
      BY <3>3 DEF RebuildSwitch, SwitchRefused, SwitchPrepare, Launch,
                  LaunchFails, SaveRebuildState
    <3>4. CASE Environment
      BY <3>4 DEF Environment, SaveConfig, HandEdit, ApplyUpdate, Edit,
                  Restart, Reboot, ProcessDies, Truncates
    <3>5. CASE UNCHANGED vars
      BY <3>5 DEF vars
    <3> QED BY <3>1, <3>2, <3>3, <3>4, <3>5 DEF Next, Poll, Apply
  <2> QED BY <2>1, <2>2, <2>3, <2>4
<1> QED BY Invariance, <1>1, <1>2, PTL DEF Spec
=============================================================================
