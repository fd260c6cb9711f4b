---------------------------- MODULE RebuildService ----------------------------
(***************************************************************************)
(* The rebuild service of admin-api: services/nix_operations.py and the    *)
(* endpoints /api/config/{apply,save,dirty,rebuild-status} of              *)
(* simple_main.py.                                                         *)
(*                                                                         *)
(* A rebuild runs as the transient unit homefree-rebuild.service, which    *)
(* outlives the admin-api process that started it.  admin-api records in   *)
(* files under /var/lib/homefree-admin which log it follows, the verdict   *)
(* of the last finished rebuild and a snapshot of what was applied; the    *)
(* dirty endpoint compares that snapshot with /etc/nixos.                  *)
(*                                                                         *)
(* The last_* class attributes only feed the text of a report when there  *)
(* is no verdict file; they are left out.                                  *)
(*                                                                         *)
(* Every handler runs synchronously on the one event loop of the process,  *)
(* so two handlers never interleave.  They are still split into one action *)
(* per write: between two writes the process may die, the unit may move,   *)
(* and a shell may edit the files.  A crash inside a write leaves the file *)
(* as it was or truncated (Corrupt): none of these writes is atomic, and    *)
(* one that fails is logged and skipped.                                   *)
(*                                                                         *)
(* The pointer to the followed log is two files, the name of the log and   *)
(* an offset into it, written one after the other.  An offset that is      *)
(* missing or truncated makes the loader drop the record: the pointer is   *)
(* 0.  A truncated name loads as the name "" (Corrupt), which is followed   *)
(* like a log without a line.                                              *)
(*                                                                         *)
(* Data are versions: a member of Configs is the content of                *)
(* homefree-config.json, a member of Inputs the content of the flake       *)
(* sources.  With a local checkout as an input (HasLocalInput) the working *)
(* tree and the pin in flake.lock move apart; otherwise only the pin       *)
(* exists.  A rebuild is named by the order it was started in, and so is   *)
(* its log file.                                                           *)
(***************************************************************************)
EXTENDS Naturals

CONSTANTS
    Configs,        \* contents of homefree-config.json
    Inputs,         \* contents of the flake sources
    HasLocalInput,  \* TRUE: some flake input is a live local checkout
    MaxRebuilds,    \* bound: rebuilds started
    MaxEdits,       \* bound: edits of the files a build reads
    MaxFaults,      \* bound: crashes, reboots, failed probes and writes
    None,           \* a file or value that does not exist
    Corrupt         \* a file whose writer died or failed half way

ASSUME BoundsAssumption ==
    /\ MaxRebuilds \in Nat /\ MaxEdits \in Nat /\ MaxFaults \in Nat
    /\ HasLocalInput \in BOOLEAN

VARIABLES
    \* What a build reads, under /etc/nixos (and the local checkout).
    config, tree, lock,
    \* Files of admin-api under /var/lib/homefree-admin.
    appliedConfig, appliedInputs, appliedRev, latest, pointer,
    \* The admin-api process: class attributes and program counter.
    memFile, pc, caller,
    \* systemd, the rebuild itself and its logs.
    unit, started, built, logs,
    \* History: what the box runs, and the doubts about the snapshot:
    \* "edited" since the last evaluation, "unmarked" for a mark that failed,
    \* "suspect" until the next marks that succeed.
    deployed, doubts,
    \* Bounds.
    edits, faults

disk    == <<config, tree, lock>>
files   == <<appliedConfig, appliedInputs, appliedRev, latest, pointer>>
memory  == <<memFile, pc, caller>>
systemd == <<unit, started, built, logs>>
history == <<deployed, doubts>>
vars    == <<disk, files, memory, systemd, history, edits, faults>>

-----------------------------------------------------------------------------
(***************************************************************************)
(* Values.                                                                 *)
(***************************************************************************)
Runs == 1..MaxRebuilds

\* What a log reveals to the scanners: an activation marker, a failure
\* marker ("error:", "returned non-zero exit status"), a failed service.
Logs == [act : BOOLEAN, fail : BOOLEAN, svc : BOOLEAN]
EmptyLog == [act |-> FALSE, fail |-> FALSE, svc |-> FALSE]

Builds == [config : Configs, code : Inputs]
Manifests == [lock : Inputs, tree : Inputs]
\* What can be followed: a log by its run, nothing (0), or a nameless log.
Pointers == Runs \cup {0, Corrupt}

Verdicts == [run : Runs \cup {Corrupt}, exit : {0, 1}, partial : BOOLEAN]

ASSUME SentinelAssumption ==
    /\ None # Corrupt
    /\ \A absent \in {None, Corrupt} : absent \notin Configs \cup Verdicts \cup Nat

TypeOK ==
    /\ config \in Configs /\ tree \in Inputs /\ lock \in Inputs
    /\ appliedConfig \in Configs \cup {None, Corrupt}
    /\ appliedInputs \in Manifests \cup {None, Corrupt}
    /\ appliedRev \in Inputs \cup {None, Corrupt}
    /\ latest \in Verdicts \cup {None, Corrupt}
    /\ pointer \in Pointers
    /\ memFile \in Pointers
    /\ pc \in {"idle", "saveFinished", "verdict", "markConfig", "markInputs", "markRev",
               "clear", "reset", "switch", "launch", "save"}
    /\ caller \in {"poll", "apply"}
    /\ unit \in {"none", "active", "failed", "exited"}
    /\ started \in Runs \cup {0}
    /\ built \in Builds \cup {None}
    /\ logs \in [Runs -> Logs]
    /\ deployed \in Builds
    /\ doubts \subseteq {"edited", "suspect", "unmarked"}
    /\ edits \in 0..MaxEdits /\ faults \in 0..MaxFaults

\* A box whose system was built by the installer: nothing applied yet.
Init ==
    /\ config \in Configs /\ lock \in Inputs /\ tree = lock
    /\ appliedConfig = None /\ appliedInputs = None /\ appliedRev = None
    /\ latest = None /\ pointer = 0
    /\ memFile = 0 /\ pc = "idle" /\ caller = "poll"
    /\ unit = "none" /\ started = 0 /\ built = None
    /\ logs = [r \in Runs |-> EmptyLog]
    /\ deployed = [config |-> config, code |-> lock]
    /\ doubts = {}
    /\ edits = 0 /\ faults = 0

Edited == "edited" \in doubts
Suspect == "suspect" \in doubts
Unmarked == "unmarked" \in doubts

NoFault == faults' = faults
Fault == faults < MaxFaults /\ faults' = faults + 1

-----------------------------------------------------------------------------
(***************************************************************************)
(* Helpers of nix_operations.py.                                           *)
(***************************************************************************)
\* The log being followed: the class attribute, or the pointer on disk.
Tracked == IF memFile = 0 THEN pointer ELSE memFile

\* What the scanners read of the followed log: there is no file named "".
LogOf(file) == IF file = Corrupt THEN EmptyLog ELSE logs[file]

\* systemctl is-active; the call times out under load and then means "no".
UnitActive(answer) ==
    \/ answer = (unit = "active") /\ NoFault
    \/ unit = "active" /\ answer = FALSE /\ Fault

\* systemctl show: a clean transient unit is unloaded soon after it exits,
\* a failed one lingers until reset-failed; a call that fails answers None.
UnitExitCode(code) ==
    \/ code = (CASE unit = "failed" -> 1
                 [] unit = "exited" -> 0
                 [] OTHER -> None) /\ NoFault
    \/ unit \in {"failed", "exited"} /\ code = None /\ Fault

\* Mutant: a log without any marker counts as a success.
ExitOf_InconclusiveIsSuccess(code, log) ==
    IF code = None
    THEN IF log.fail THEN 1 ELSE 0
    ELSE IF code = 0 /\ log.fail THEN 1 ELSE code

\* The exit code of the unit, reconstructed from the log when it is gone.
ExitOf(code, log) ==
    IF code = None
    THEN IF log.fail \/ ~log.act THEN 1 ELSE 0
    ELSE IF code = 0 /\ log.fail THEN 1 ELSE code

DetectPartialSuccess(exit, log) == exit # 0 /\ log.act /\ log.svc

\* Mutant: only flake.lock is hashed.
BuildInputsManifest_LockOnly == lock

BuildInputsManifest == [lock |-> lock, tree |-> tree]

\* Mutant: only the pinned flake.lock is compared, never the live tree.
BuildInputsDirty_LockOnly ==
    /\ appliedInputs \in Manifests
    /\ appliedInputs.lock # lock

BuildInputsDirty ==
    /\ appliedInputs \in Manifests
    /\ \/ HasLocalInput /\ appliedInputs.tree # tree
       \/ appliedInputs.lock # lock

LastRebuildFailed == latest \in Verdicts /\ latest.exit # 0

\* A local base has no revision: get_current() only speaks of a remote one.
SystemUpdatePending == ~HasLocalInput /\ appliedRev \in Inputs /\ appliedRev # lock

\* Mutant: the verdict of the last rebuild is not consulted.
InSync_IgnoresFailure ==
    /\ appliedConfig = config
    /\ ~BuildInputsDirty
    /\ ~SystemUpdatePending

\* The dirty endpoint answers {"dirty": false, "reason": "in sync"}.
InSync ==
    /\ appliedConfig = config
    /\ ~BuildInputsDirty
    /\ ~LastRebuildFailed
    /\ ~SystemUpdatePending

AfterStatus == IF caller = "apply" THEN "switch" ELSE "idle"

-----------------------------------------------------------------------------
(***************************************************************************)
(* get_rebuild_status, on behalf of the poll of the UI or of apply.        *)
(***************************************************************************)
\* The pointer is saved again when the log has grown since the last poll.
MayHaveGrown == Tracked \in Runs

\* The unit runs: report it, or refuse the apply.
StatusRunning(c) ==
    /\ pc = "idle"
    /\ UnitActive(TRUE)
    /\ memFile' = Tracked
    /\ caller' = c
    /\ pc' = "idle" \/ (MayHaveGrown /\ pc' = "save")
    /\ UNCHANGED <<files, disk, systemd, history, edits>>

\* Nothing runs and no log is followed: report the last verdict.
StatusNothingTracked(c) ==
    /\ pc = "idle"
    /\ Tracked = 0
    /\ UnitActive(FALSE)
    /\ caller' = c
    /\ pc' = IF c = "apply" THEN "switch" ELSE "idle"
    /\ UNCHANGED <<memFile, files, disk, systemd, history, edits>>

\* Mutant: a unit without an exit code counts as still running.
StatusFinished_WaitsForCode(c) ==
    /\ pc = "idle"
    /\ Tracked # 0
    /\ unit # "active" /\ NoFault
    /\ memFile' = Tracked
    /\ caller' = c
    /\ pc' = IF unit = "none" THEN "idle" ELSE "verdict"
    /\ UNCHANGED <<files, disk, systemd, history, edits>>

\* The followed rebuild is over: finalise it.
StatusFinished(c) ==
    /\ pc = "idle"
    /\ Tracked # 0
    /\ UnitActive(FALSE)
    /\ memFile' = Tracked
    /\ caller' = c
    /\ pc' = "verdict" \/ (MayHaveGrown /\ pc' = "saveFinished")
    /\ UNCHANGED <<files, disk, systemd, history, edits>>

\* Mutant: the snapshots are taken whatever the verdict.
WriteLatest_MarksFailures ==
    /\ pc = "verdict"
    /\ \E code \in {0, 1, None} :
        LET exit == ExitOf(code, LogOf(memFile)) IN
        /\ UnitExitCode(code)
        /\ latest' = [run |-> memFile, exit |-> exit,
                      partial |-> DetectPartialSuccess(exit, LogOf(memFile))]
        /\ pc' = "markConfig"
    /\ UNCHANGED <<appliedConfig, appliedInputs, appliedRev, pointer, memFile, caller>>
    /\ UNCHANGED <<disk, systemd, history, edits>>

\* Decide the verdict and write latest-status.json; the snapshots follow
\* when activation reached the box.
WriteLatest ==
    /\ pc = "verdict"
    /\ \E code \in {0, 1, None} :
        LET exit == ExitOf(code, LogOf(memFile))
            partial == DetectPartialSuccess(exit, LogOf(memFile))
        IN
        /\ UnitExitCode(code)
        /\ latest' = [run |-> memFile, exit |-> exit, partial |-> partial]
        /\ pc' = IF exit = 0 \/ partial THEN "markConfig" ELSE "clear"
    /\ UNCHANGED <<appliedConfig, appliedInputs, appliedRev, pointer, memFile, caller>>
    /\ UNCHANGED <<disk, systemd, history, edits>>

\* The write fails: the exception is caught, the rest of finalising is
\* skipped and the log stays followed.
WriteLatestFails ==
    /\ pc = "verdict"
    /\ Fault
    /\ latest' = Corrupt
    /\ pc' = AfterStatus
    /\ UNCHANGED <<appliedConfig, appliedInputs, appliedRev, pointer, memFile, caller>>
    /\ UNCHANGED <<disk, systemd, history, edits>>

\* A write that fails leaves the old content, or an empty file.
Failed(file) == file' \in {file, Corrupt} /\ Fault

\* _mark_config_applied copies what is on disk NOW.
MarkConfigApplied ==
    /\ pc = "markConfig"
    /\ \/ appliedConfig' = config /\ NoFault /\ doubts' = doubts \ {"unmarked"}
       \/ Failed(appliedConfig) /\ doubts' = doubts \cup {"unmarked"}
    /\ pc' = "markInputs"
    /\ UNCHANGED <<appliedInputs, appliedRev, latest, pointer, memFile, caller>>
    /\ UNCHANGED <<disk, systemd, deployed, edits>>

MarkBuildInputsApplied ==
    /\ pc = "markInputs"
    /\ \/ appliedInputs' = BuildInputsManifest /\ NoFault /\ UNCHANGED doubts
       \/ Failed(appliedInputs) /\ doubts' = doubts \cup {"unmarked"}
    /\ pc' = "markRev"
    /\ UNCHANGED <<appliedConfig, appliedRev, latest, pointer, memFile, caller>>
    /\ UNCHANGED <<disk, systemd, deployed, edits>>

\* With the last mark it is known whether the snapshot can be doubted.
MarkRevApplied ==
    /\ pc = "markRev"
    /\ \/ appliedRev' = (IF HasLocalInput THEN appliedRev ELSE lock) /\ NoFault
       \/ ~HasLocalInput /\ Failed(appliedRev)
    /\ pc' = "clear"
    /\ doubts' = IF Edited \/ Unmarked \/ memFile \notin {started, Corrupt}
                 THEN doubts \cup {"suspect"} ELSE doubts \ {"suspect"}
    /\ UNCHANGED <<appliedConfig, appliedInputs, latest, pointer, memFile, caller>>
    /\ UNCHANGED <<disk, systemd, deployed, edits>>

\* The files may stay, the attribute does not.
ClearRebuildState ==
    /\ pc = "clear"
    /\ memFile' = 0
    /\ \/ pointer' = 0 /\ NoFault
       \/ pointer' = pointer /\ Fault
    /\ pc' = "reset"
    /\ UNCHANGED <<appliedConfig, appliedInputs, appliedRev, latest, caller>>
    /\ UNCHANGED <<disk, systemd, history, edits>>

\* reset-failed unloads a failed unit; it does nothing to an active one.
ResetFailed ==
    /\ pc = "reset"
    /\ \/ unit' = (IF unit = "failed" THEN "none" ELSE unit) /\ NoFault
       \/ unit = "failed" /\ unit' = unit /\ Fault
    /\ pc' = AfterStatus
    /\ UNCHANGED <<memFile, caller, started, built, logs>>
    /\ UNCHANGED <<disk, files, history, edits>>

-----------------------------------------------------------------------------
(***************************************************************************)
(* rebuild_switch, the rest of the apply handler.  Before it, apply reads, *)
(* validates and rewrites the file disk over disk, which changes no user   *)
(* value; an invalid file ends the request, as a refusal does.             *)
(***************************************************************************)
\* A unit is still around: refuse.
SwitchRefused ==
    /\ pc = "switch"
    /\ UnitActive(TRUE)
    /\ pc' = "idle"
    /\ UNCHANGED <<memFile, caller, disk, files, systemd, history, edits>>

\* Unload a failed unit and pin the local inputs, best effort.  (In between
\* the schema sync and the flake scaffold may rewrite files; the unit that is
\* launched next reads them, so to it they are part of the config.)
SwitchPrepare ==
    /\ pc = "switch"
    /\ \/ UnitActive(FALSE) /\ lock' = IF HasLocalInput THEN tree ELSE lock
       \/ HasLocalInput /\ unit # "active" /\ Fault /\ UNCHANGED lock
    /\ unit' = IF unit = "failed" THEN "none" ELSE unit
    /\ pc' = "launch"
    /\ UNCHANGED <<memFile, caller, config, tree, files, started, built, logs>>
    /\ UNCHANGED <<history, edits>>

\* systemd-run: the unit exists from here on, and only memory knows its log.
\* When the call times out nothing does: the handler gives up on a rebuild
\* that runs.
Launch ==
    /\ pc = "launch"
    /\ started < MaxRebuilds
    /\ unit = "none"
    /\ unit' = "active" /\ started' = started + 1 /\ built' = None
    /\ \/ memFile' = started + 1 /\ pc' = "save" /\ NoFault /\ UNCHANGED doubts
       \/ memFile' = 0 /\ pc' = "idle" /\ Fault /\ doubts' = doubts \cup {"suspect"}
    /\ UNCHANGED <<caller, logs, disk, files, deployed, edits>>

\* Memory of the followed log is lost while no file names it: the rebuild is
\* forgotten, unless its finalising was over.
DoubtIfForgotten(onDisk) ==
    doubts' = IF memFile # 0 /\ pc # "clear" /\ onDisk = 0
              THEN doubts \cup {"suspect"} ELSE doubts

\* systemd-run is refused, or an exception ends the handler, which then
\* forgets the log that was followed.
LaunchFails ==
    /\ pc = "launch"
    /\ \/ unit # "none" /\ NoFault /\ UNCHANGED <<memFile, doubts>>
       \/ started = MaxRebuilds /\ NoFault /\ UNCHANGED <<memFile, doubts>>
       \/ Fault /\ memFile' = 0 /\ DoubtIfForgotten(pointer)
    /\ pc' = "idle"
    /\ UNCHANGED <<caller, disk, files, systemd, deployed, edits>>

\* What a save that is cut short leaves: neither file written, the name
\* truncated, the new name with the old offset, or an unusable offset.
TornPointers == {pointer, Corrupt, memFile, 0}

\* _save_rebuild_state, at the end of a start or inside a status request.
SaveRebuildState ==
    /\ pc \in {"save", "saveFinished"}
    /\ \/ pointer' = memFile /\ NoFault
       \/ pointer' \in TornPointers /\ Fault
    /\ pc' = IF pc = "saveFinished" THEN "verdict" ELSE "idle"
    /\ UNCHANGED <<appliedConfig, appliedInputs, appliedRev, latest, memFile, caller>>
    /\ UNCHANGED <<disk, systemd, history, edits>>

-----------------------------------------------------------------------------
(***************************************************************************)
(* The unit: nixos-rebuild evaluates what is on disk, activates, exits.    *)
(***************************************************************************)
UnitEvaluate ==
    /\ unit = "active" /\ built = None
    /\ built' = [config |-> config, code |-> lock]
    /\ doubts' = IF HasLocalInput /\ tree # lock
                 THEN doubts \cup {"edited"} ELSE doubts \ {"edited"}
    /\ UNCHANGED <<unit, started, logs, deployed>>
    /\ UNCHANGED <<disk, files, memory, edits, faults>>

UnitActivate ==
    /\ unit = "active" /\ built # None /\ ~logs[started].act
    /\ logs' = [logs EXCEPT ![started].act = TRUE]
    /\ deployed' = built
    /\ UNCHANGED <<unit, started, built, doubts>>
    /\ UNCHANGED <<disk, files, memory, edits, faults>>

\* Exit 0, possibly with an "error:" somewhere at the end of the log.
UnitSucceeds ==
    /\ unit = "active" /\ logs[started].act
    /\ unit' = "exited"
    /\ \E noisy \in BOOLEAN : logs' = [logs EXCEPT ![started].fail = noisy]
    /\ UNCHANGED <<started, built, disk, files, memory, history, edits, faults>>

\* A non-zero exit: a broken build, or services that failed to start.
UnitFails ==
    /\ unit = "active"
    /\ unit' = "failed"
    /\ \E svc \in BOOLEAN :
        logs' = [logs EXCEPT ![started].fail = TRUE,
                             ![started].svc = svc /\ logs[started].act]
    /\ UNCHANGED <<started, built, disk, files, memory, history, edits, faults>>

\* A signal kills it, or systemctl stops it (and unloads it): no marker.
UnitKilled ==
    /\ unit = "active"
    /\ Fault
    /\ unit' \in {"failed", "none"}
    /\ UNCHANGED <<started, built, logs, disk, files, memory, history, edits>>

UnitCollected ==
    /\ unit = "exited"
    /\ unit' = "none"
    /\ UNCHANGED <<started, built, logs, disk, files, memory, history, edits, faults>>

-----------------------------------------------------------------------------
(***************************************************************************)
(* The environment: edits, and the death of the process or of the box.     *)
(***************************************************************************)
Edit ==
    /\ edits < MaxEdits /\ edits' = edits + 1
    /\ doubts' = doubts \cup {"edited"}
    /\ UNCHANGED <<files, memory, systemd, deployed, faults>>

\* POST /api/config/save: accepted at any time, during a rebuild too.
SaveConfig ==
    /\ pc = "idle"
    /\ Edit
    /\ config' \in Configs \ {config}
    /\ UNCHANGED <<tree, lock>>

\* A shell writes the config or the flake, whatever admin-api is doing.
HandEdit ==
    /\ Edit
    /\ \/ config' \in Configs \ {config} /\ UNCHANGED <<tree, lock>>
       \/ ~HasLocalInput /\ lock' \in Inputs \ {lock} /\ UNCHANGED <<config, tree>>
       \/ HasLocalInput /\ tree' \in Inputs \ {tree} /\ UNCHANGED <<config, lock>>

\* SystemUpdates.apply_update bumps the pin of homefree-base.
ApplyUpdate ==
    /\ pc = "idle" /\ ~HasLocalInput
    /\ Edit
    /\ lock' \in Inputs \ {lock}
    /\ UNCHANGED <<config, tree>>

\* What the write in progress at pc leaves behind.
Truncates(at, file) == file' = file \/ (pc = at /\ file' = Corrupt)

ProcessDies ==
    /\ Fault
    /\ memFile' = 0 /\ pc' = "idle" /\ caller' = caller
    /\ Truncates("verdict", latest)
    /\ Truncates("markConfig", appliedConfig)
    /\ Truncates("markInputs", appliedInputs)
    /\ Truncates("markRev", appliedRev)
    /\ pointer' \in IF pc \in {"save", "saveFinished"} THEN TornPointers ELSE {pointer}
    /\ DoubtIfForgotten(pointer')
    /\ UNCHANGED <<disk, started, built, logs, deployed, edits>>

\* admin-api restarts: blue/green flip, OOM, systemctl restart.
Restart == ProcessDies /\ unit' = unit

Reboot == ProcessDies /\ unit' = "none"

-----------------------------------------------------------------------------
Status(c) == StatusRunning(c) \/ StatusNothingTracked(c) \/ StatusFinished(c)

Poll == Status("poll")
Apply == started < MaxRebuilds /\ Status("apply")

Finalise ==
    \/ WriteLatest \/ WriteLatestFails
    \/ MarkConfigApplied \/ MarkBuildInputsApplied \/ MarkRevApplied
    \/ ClearRebuildState \/ ResetFailed
RebuildSwitch ==
    \/ SwitchRefused \/ SwitchPrepare \/ Launch \/ LaunchFails \/ SaveRebuildState
Unit ==
    \/ UnitEvaluate \/ UnitActivate \/ UnitSucceeds \/ UnitFails
    \/ UnitKilled \/ UnitCollected
Environment == SaveConfig \/ HandEdit \/ ApplyUpdate \/ Restart \/ Reboot

Next == Poll \/ Apply \/ Finalise \/ RebuildSwitch \/ Unit \/ Environment

Spec == Init /\ [][Next]_vars

\* The UI polls while a rebuild is pending, a handler that started runs on,
\* and nixos-rebuild ends.  Nobody has to click Apply, and nothing has to
\* fail.
FairSpec ==
    /\ Spec
    /\ WF_vars(Poll)
    /\ WF_vars(Finalise)
    /\ WF_vars(RebuildSwitch)
    /\ WF_vars(Unit)

-----------------------------------------------------------------------------
(***************************************************************************)
(* Properties.                                                             *)
(***************************************************************************)
\* No rebuild is pending: none runs and no finished one waits for a poll.
Quiet == pc = "idle" /\ unit # "active" /\ Tracked = 0

\* Whether the box runs what the files on disk say.
CurrentCode == IF HasLocalInput THEN tree ELSE lock
DeployedIsDisk == deployed = [config |-> config, code |-> CurrentCode]

\* When the dirty endpoint says "in sync", the box runs what is on disk,
\* through failed, partial, killed and unpolled rebuilds, crashes inside
\* every write, and reboots.  Four things are excepted, named by Suspect: an
\* edit between the evaluation of a rebuild and its snapshot; a start that
\* timed out, whose log nobody follows; a rebuild that was forgotten, because
\* memory was lost while the pointer on disk was torn or unwritten; and a
\* snapshot that could not be written.
InSyncIsDeployed == Quiet /\ ~Suspect /\ InSync => DeployedIsDisk

\* The same without the exceptions: what the dirty endpoint promises.
InSyncIsDeployedAlways == Quiet /\ InSync => DeployedIsDisk

\* The applied snapshot advances only for a rebuild whose activation reached
\* the box: no broken build, lost exit code or inconclusive log counts.
AppliedOnlyAfterActivation ==
    [][appliedConfig' \notin {appliedConfig, Corrupt}
       => LogOf(memFile).act \/ logs[started].act]_vars

\* A verdict of success or partial success is only recorded when the rebuild
\* it names, or one started after it, activated on the box.  Only a newer
\* one may have: systemd speaks of the unit, which a start that superseded
\* the followed log has reused.  A verdict about a log whose name was torn
\* names no rebuild: some rebuild has activated then.
SuccessIsActivation ==
    latest \in Verdicts /\ (latest.exit = 0 \/ latest.partial)
        => \E r \in Runs : /\ latest.run = Corrupt \/ latest.run <= r
                          /\ logs[r].act

\* A rebuild that is followed, in memory or on disk, is eventually settled:
\* the UI never hangs on it, whatever dies and whatever is torn meanwhile.
RebuildSettles == Tracked # 0 ~> Quiet

\* After a rebuild that activated but left services failed, with nothing
\* edited since, the dirty endpoint no longer reports a difference.
PartialSuccessIsApplied ==
    Quiet /\ latest \in Verdicts /\ latest.partial /\ ~Edited => InSync
=============================================================================
