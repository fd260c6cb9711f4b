------------------------------ MODULE ConfigSync ------------------------------
(***************************************************************************)
(* components/admin/admin-app.js: one tab of the admin UI and the config   *)
(* file that it edits.  The tab holds the file as it last read it          *)
(* (serverConfig) and the edits on top (pendingConfig); the two merged are *)
(* what the pages show and what a debounced auto-save posts, whole.  Every *)
(* few seconds, when the tab has nothing unsaved, it reads the file again. *)
(* Apply flushes, has the server rebuild from the file, and reads the file *)
(* back when that succeeded.                                               *)
(*                                                                         *)
(* JavaScript runs one callback at a time, so an action is a stretch of    *)
(* code between two awaits.  Others write the file as well, another tab or *)
(* a background job of the server, and write back the copy of it that they *)
(* read some time before.  Some pages of the tab save for themselves and   *)
(* drive its save status.  A value is the number of the edit that put it   *)
(* there, so of two values the larger is the newer.                        *)
(***************************************************************************)
EXTENDS Naturals, FiniteSets

CONSTANTS
    Sections,     \* top-level sections of the config
    InPlace,      \* their page edits the objects of serverConfig in place
    Whole,        \* their page emits the whole config with each edit
    Merged,       \* getMergedConfig lays their pending edits over serverConfig
    Written,      \* ConfigWriter has a branch for them
    MaxChanges,   \* bound: edits in this tab and writes of the file by others
    MaxApplies,   \* bound: clicks on Apply
    MaxFaults,    \* bound: requests lost or refused, reloads of the page
    None

ASSUME SectionsAssumption ==
    /\ InPlace \subseteq Sections /\ Whole \subseteq Sections
    /\ Merged \subseteq Sections /\ Written \subseteq Sections
ASSUME BoundsAssumption ==
    /\ MaxChanges \in Nat /\ MaxApplies \in Nat /\ MaxFaults \in Nat
    /\ None \notin Nat /\ None \notin [Sections -> Nat]

VARIABLES
    \* The server: homefree-config.json, the copy of it that another writer
    \* holds, saves it will only handle after the tab gave up on them, the
    \* rebuild.
    disk, theirs, late, build,
    \* The tab: the file as last read, the edits, are there dirty modules,
    \* the debounce timer, the request in flight (_saveInFlight) and what it
    \* carries, _savePending, saveStatus.
    serverConfig, pendingConfig, dirtyModules, saveTimer, saveInFlight,
    saveBody, savePending, saveStatus,
    \* The tab: a page that saves for itself is at it.
    moduleSaves,
    \* The tab: the answer of a refresh under way; handleApplyChanges; the
    \* reload after a successful rebuild and its answer; this.error, which is
    \* shown instead of the pages.
    fetched, apply, reload, reloaded, error,
    \* History: the latest edit of each section that nothing overtook, those
    \* at the last click on Apply (None if a save was in flight then); the
    \* last save failed and the screen no longer says so.
    mine, asked, hidden,
    \* Bounds.
    changes, applies, faults

server  == <<disk, theirs, late, build>>
config  == <<serverConfig, pendingConfig, dirtyModules>>
saving  == <<saveTimer, saveInFlight, saveBody, savePending, saveStatus,
             moduleSaves, hidden>>
loading == <<fetched, reload, reloaded, error>>
history == <<mine, asked>>
bounds  == <<changes, applies, faults>>
vars    == <<server, config, saving, loading, apply, history, bounds>>

-----------------------------------------------------------------------------
Values == 0 .. MaxChanges
Configs == [Sections -> Values]
Builds == {"idle", "started", "running", "succeeded", "failed"}
Timers == {"null", "armed", "spent"}
Requests == {"no", "sent", "merged", "stored", "refused"}
Statuses == {"idle", "saving", "error"}
Applies == {"idle", "waiting", "flushing", "requested", "accepted", "polling"}
Reloads == {"none", "due", "asked", "loaded"}
Newest == changes + 1      \* the number of the next change

\* getMergedConfig.
View == [s \in Sections |->
    IF s \in Merged /\ pendingConfig[s] # None THEN pendingConfig[s]
                                               ELSE serverConfig[s]]

NoEdits == [s \in Sections |-> None]
Building == build \in {"started", "running"}

TypeOK ==
    /\ {disk, theirs, serverConfig, mine} \subseteq Configs
    /\ late \in SUBSET Configs
    /\ build \in Builds
    /\ pendingConfig \in [Sections -> Values \cup {None}]
    /\ dirtyModules \in BOOLEAN /\ savePending \in BOOLEAN
    /\ saveTimer \in Timers
    /\ saveInFlight \in Requests
    /\ saveBody \in Configs \cup {None}
    /\ saveStatus \in Statuses
    /\ moduleSaves \in BOOLEAN /\ error \in BOOLEAN /\ hidden \in BOOLEAN
    /\ fetched \in Configs \cup {None}
    /\ apply \in Applies
    /\ reload \in Reloads
    /\ reloaded \in Configs \cup {None}
    /\ asked \in Configs \cup {None}
    /\ changes \in 0 .. MaxChanges
    /\ applies \in 0 .. MaxApplies /\ faults \in 0 .. MaxFaults
    /\ (saveInFlight = "no") <=> (saveBody = None)

\* A page that has just been loaded, on a box where all is applied.
Init ==
    /\ LET zero == [s \in Sections |-> 0] IN
       /\ disk = zero /\ theirs = zero /\ serverConfig = zero /\ mine = zero
    /\ late = {} /\ build = "idle"
    /\ pendingConfig = NoEdits /\ dirtyModules = FALSE
    /\ saveTimer = "null" /\ saveInFlight = "no" /\ saveBody = None
    /\ savePending = FALSE /\ saveStatus = "idle" /\ moduleSaves = FALSE
    /\ fetched = None /\ apply = "idle" /\ reload = "none" /\ reloaded = None
    /\ error = FALSE
    /\ asked = None /\ hidden = FALSE
    /\ changes = 0 /\ applies = 0 /\ faults = 0

Fault == faults < MaxFaults /\ faults' = faults + 1

-----------------------------------------------------------------------------
(* Editing: handleConfigChange, the handlers of services and the modules.  *)

\* What an edit leaves in pendingConfig: the section, or the whole config.
Emitted(s, value) ==
    [x \in Sections |->
        IF x = s THEN value
        ELSE IF s \in Whole THEN View[x] ELSE pendingConfig[x]]

Edit(s) ==
    /\ changes < MaxChanges /\ ~error
    /\ serverConfig' = IF s \in InPlace THEN [serverConfig EXCEPT ![s] = Newest]
                                        ELSE serverConfig
    /\ pendingConfig' = Emitted(s, Newest)
    /\ dirtyModules' = TRUE
    /\ saveTimer' = "armed"                          \* scheduleAutoSave
    /\ mine' = [mine EXCEPT ![s] = Newest]
    /\ changes' = Newest
    /\ UNCHANGED <<server, saveInFlight, saveBody, savePending, saveStatus,
                   moduleSaves, hidden, loading, apply, asked, applies, faults>>

-----------------------------------------------------------------------------
(* autoSave *)

\* autoSave up to its await.  One that is in flight already only takes a note.
AutoSave ==
    IF saveInFlight # "no"
    THEN /\ savePending' = TRUE
         /\ UNCHANGED <<saveInFlight, saveBody, saveStatus, hidden>>
    ELSE /\ saveInFlight' = "sent" /\ saveBody' = View
         /\ saveStatus' = "saving" /\ hidden' = FALSE
         /\ UNCHANGED savePending

\* The timer is not set to null when it fires.
TimerFires ==
    /\ saveTimer = "armed"
    /\ saveTimer' = "spent"
    /\ AutoSave
    /\ UNCHANGED <<server, config, moduleSaves, loading, apply, history, bounds>>

\* ConfigWriter.write_config lays what was posted over the file as it reads it,
Overlay(body) == [s \in Sections |-> IF s \in Written THEN body[s] ELSE disk[s]]

MergeSave ==
    /\ saveInFlight = "sent"
    /\ saveInFlight' = "merged" /\ saveBody' = Overlay(saveBody)
    /\ UNCHANGED <<server, config, saveTimer, savePending, saveStatus,
                   moduleSaves, hidden, loading, apply, history, bounds>>

\* and replaces the file by that, whatever a job's thread wrote in between.
StoreSave ==
    /\ saveInFlight = "merged"
    /\ disk' = saveBody
    /\ saveInFlight' = "stored"
    /\ UNCHANGED <<theirs, late, build, config, saveTimer, saveBody, savePending,
                   saveStatus, moduleSaves, hidden, loading, apply, history, bounds>>

\* Mutant: a refused save is over at once, without the rest of autoSave.
RefuseSave_Over ==
    /\ saveInFlight \in {"sent", "merged"} /\ Fault
    /\ saveInFlight' = "no"
    /\ UNCHANGED <<server, config, saveTimer, saveBody, savePending, saveStatus,
                   moduleSaves, hidden, loading, apply, history, changes, applies>>

\* The payload is invalid, or the file cannot be written.
RefuseSave ==
    /\ saveInFlight \in {"sent", "merged"} /\ Fault
    /\ saveInFlight' = "refused"
    /\ UNCHANGED <<server, config, saveTimer, saveBody, savePending, saveStatus,
                   moduleSaves, hidden, loading, apply, history, changes, applies>>

\* Mutant: edits made during the save are not saved after it.
SaveReturns_NoTrailing(ok) ==
    /\ saveStatus' = IF ok THEN "idle" ELSE "error"
    /\ saveInFlight' = "no" /\ saveBody' = None
    /\ savePending' = FALSE
    /\ saveTimer' = IF saveTimer = "armed" THEN "armed" ELSE "null"
    /\ apply' = IF apply # "flushing" THEN apply ELSE IF ok THEN "requested" ELSE "idle"
    /\ asked' = IF apply = "flushing" /\ ~ok THEN None ELSE asked
    /\ UNCHANGED <<disk, theirs, build, config, moduleSaves, hidden, loading, mine,
                   changes, applies>>

\* Mutant: a save that failed leaves no trace on the screen.
SaveReturns_Silent(ok) ==
    /\ saveStatus' = "idle"
    /\ saveInFlight' = "no" /\ saveBody' = None
    /\ savePending' = FALSE
    /\ saveTimer' = IF savePending THEN "armed" ELSE saveTimer
    /\ apply' = IF apply # "flushing" THEN apply ELSE IF ok THEN "requested" ELSE "idle"
    /\ asked' = IF apply = "flushing" /\ ~ok THEN None ELSE asked
    /\ UNCHANGED <<disk, theirs, build, config, moduleSaves, hidden, loading, mine,
                   changes, applies>>

\* The rest of autoSave, and of an apply that waits for it.
SaveReturns(ok) ==
    /\ saveStatus' = IF ok THEN "idle" ELSE "error"
    /\ saveInFlight' = "no" /\ saveBody' = None
    /\ savePending' = FALSE
    /\ saveTimer' = IF savePending THEN "armed" ELSE saveTimer
    /\ IF apply = "flushing" /\ ~ok THEN apply' = "idle" /\ asked' = None
       ELSE /\ apply' = IF apply = "flushing" THEN "requested" ELSE apply
            /\ UNCHANGED asked
    /\ UNCHANGED <<disk, theirs, build, config, moduleSaves, hidden, loading, mine,
                   changes, applies>>

SaveAnswered ==
    /\ saveInFlight \in {"stored", "refused"}
    /\ SaveReturns(saveInFlight = "stored")
    /\ UNCHANGED <<late, faults>>

\* The request times out; the server may handle it yet.
SaveTimesOut ==
    /\ saveInFlight \in {"sent", "merged", "stored"} /\ Fault
    /\ late' = IF saveInFlight # "stored" THEN late \cup {saveBody} ELSE late
    /\ SaveReturns(FALSE)

-----------------------------------------------------------------------------
(* The pages with a save of their own: plugins, users, app versions.       *)

\* handleSaveStatus shows their progress, whatever it showed before.
ShowStatus(status) ==
    /\ saveStatus' = status
    /\ hidden' = (hidden \/ saveStatus = "error")
    /\ UNCHANGED <<server, config, saveTimer, saveInFlight, saveBody, savePending,
                   loading, apply, history, bounds>>

ModuleSaves ==
    /\ ~moduleSaves /\ moduleSaves' = TRUE /\ ~error
    /\ ShowStatus("saving")

ModuleSaved ==
    /\ moduleSaves /\ moduleSaves' = FALSE
    /\ ShowStatus("idle")

-----------------------------------------------------------------------------
(* What overtakes an edit.                                                 *)

\* The tab takes up a config: edits of which it has an older value are gone.
Left(made, now) == [s \in Sections |-> IF now[s] < made[s] THEN 0 ELSE made[s]]
Overtake(now) ==
    /\ mine' = Left(mine, now)
    /\ asked' = IF asked = None THEN None ELSE Left(asked, now)

\* A stale copy replaces the file: edits that were in it are put back.
PutBack(made, now) == [s \in Sections |->
    IF made[s] <= disk[s] /\ now[s] < made[s] THEN 0 ELSE made[s]]
Replace(now) ==
    /\ disk' = now
    /\ mine' = PutBack(mine, now)
    /\ asked' = IF asked = None THEN None ELSE PutBack(asked, now)

LateSave ==
    \E body \in late :
        /\ late' = late \ {body}
        /\ \/ Replace(Overlay(body))
           \/ UNCHANGED <<disk, history>>            \* it never arrived
        /\ UNCHANGED <<theirs, build, config, saving, loading, apply, bounds>>

-----------------------------------------------------------------------------
(* refreshConfigFromDisk.  An answer is the file as it was when it was read. *)

\* The guard on unsaved edits.
Clean == /\ ~dirtyModules /\ saveInFlight = "no" /\ saveTimer = "null"
         /\ saveStatus # "saving"

Refresh ==
    /\ Clean /\ fetched = None
    /\ disk # serverConfig                     \* otherwise it changes nothing
    /\ fetched' = disk
    /\ UNCHANGED <<server, config, saving, reload, reloaded, error, apply, history,
                   bounds>>

ViewOf(new) == [s \in Sections |->
    IF s \in Merged /\ pendingConfig[s] # None THEN pendingConfig[s] ELSE new[s]]

\* Mutant: what was read is not shown while pendingConfig has edits.
RefreshAnswered_Keeps ==
    /\ fetched # None
    /\ serverConfig' = IF pendingConfig = NoEdits THEN fetched ELSE serverConfig
    /\ Overtake(ViewOf(serverConfig'))
    /\ fetched' = None
    /\ UNCHANGED <<server, pendingConfig, dirtyModules, saving, reload, reloaded,
                   error, apply, bounds>>

RefreshAnswered ==
    /\ fetched # None
    /\ serverConfig' = fetched
    /\ Overtake(ViewOf(fetched))
    /\ fetched' = None
    /\ UNCHANGED <<server, pendingConfig, dirtyModules, saving, reload, reloaded,
                   error, apply, bounds>>

RefreshFails ==
    /\ fetched # None /\ Fault
    /\ fetched' = None
    /\ UNCHANGED <<server, config, saving, reload, reloaded, error, apply, history,
                   changes, applies>>

-----------------------------------------------------------------------------
(* handleApplyChanges *)

\* Mutant: nothing is flushed before the rebuild.
Flush_Skips ==
    /\ apply' = "requested"
    /\ UNCHANGED <<saveInFlight, saveBody, savePending, saveStatus, hidden>>

\* After the wait: save what is dirty, or go on.
Flush ==
    IF dirtyModules \/ saveStatus = "error"
    THEN /\ AutoSave
         /\ apply' = IF saveInFlight = "no" THEN "flushing" ELSE "requested"
    ELSE /\ apply' = "requested"
         /\ UNCHANGED <<saveInFlight, saveBody, savePending, saveStatus, hidden>>

\* The timer is cleared even when nothing is marked dirty any more: then the
\* edit it was for is not flushed, nor is one whose failed save is hidden.
ClickApply ==
    /\ apply = "idle"
    /\ applies < MaxApplies /\ applies' = applies + 1
    /\ saveTimer' = "null"
    /\ mine' = IF ~dirtyModules /\ (saveTimer = "armed" \/ hidden)
               THEN Left(mine, IF saveInFlight = "no" THEN disk ELSE saveBody)
               ELSE mine
    /\ IF saveInFlight # "no" \/ saveStatus = "saving"
       THEN /\ apply' = "waiting" /\ asked' = None
            /\ UNCHANGED <<saveInFlight, saveBody, savePending, saveStatus, hidden>>
       ELSE /\ Flush /\ asked' = mine'
    /\ UNCHANGED <<server, config, moduleSaves, loading, changes, faults>>

\* A tenth of a second later, whether the save has settled or not.
ApplyWaited ==
    /\ apply = "waiting"
    /\ Flush
    /\ UNCHANGED <<server, config, saveTimer, moduleSaves, loading, history, bounds>>

\* validateConfig and applyConfigChanges.  The merged config is invalid, a
\* rebuild runs already, or one is started.  The server also writes the file
\* back as it just read it: what a job wrote in between is as if never written.
ApplyServed ==
    /\ apply = "requested"
    /\ \/ apply' = "idle" /\ asked' = None /\ UNCHANGED build
       \/ ~Building /\ apply' = "accepted" /\ build' = "started" /\ UNCHANGED asked
    /\ UNCHANGED <<disk, theirs, late, config, saving, loading, mine, bounds>>

ApplyAnswered ==
    /\ apply = "accepted"
    /\ apply' = "polling" /\ dirtyModules' = FALSE
    /\ UNCHANGED <<server, serverConfig, pendingConfig, saving, loading, history, bounds>>

\* The answer takes too long, of a rebuild that has started.
ApplyTimesOut ==
    /\ apply = "accepted" /\ Fault
    /\ apply' = "idle" /\ asked' = None
    /\ UNCHANGED <<server, config, saving, loading, mine, changes, applies>>

\* checkRebuildStatus finds a rebuild that this tab does not show.
Reattach ==
    /\ apply = "idle" /\ Building
    /\ apply' = "polling"
    /\ UNCHANGED <<server, config, saving, loading, history, bounds>>

\* The rebuild evaluates the file, and ends.
BuildEvaluates ==
    /\ build = "started"
    /\ build' = "running" /\ asked' = None
    /\ UNCHANGED <<disk, theirs, late, config, saving, loading, apply, mine, bounds>>

BuildEnds ==
    /\ build = "running"
    /\ build' \in {"succeeded", "failed"}
    /\ UNCHANGED <<disk, theirs, late, config, saving, loading, apply, history, bounds>>

\* pollRebuildStatus sees the end.  A rebuild takes longer than a reload.
PollEnds ==
    /\ apply = "polling" /\ build \in {"succeeded", "failed"} /\ reload = "none"
    /\ apply' = "idle" /\ build' = "idle"
    /\ reload' = IF build = "succeeded" THEN "due" ELSE "none"
    /\ UNCHANGED <<disk, theirs, late, config, saving, fetched, reloaded, error,
                   history, bounds>>

-----------------------------------------------------------------------------
(* The reload after a success: loadConfig, loadSSHKeyStatus, pendingConfig. *)

ReloadAsks ==
    /\ reload = "due"
    /\ reload' = "asked" /\ reloaded' = disk
    /\ UNCHANGED <<server, config, saving, fetched, error, apply, history, bounds>>

ReloadAnswered ==
    /\ reload = "asked"
    /\ reload' = "loaded" /\ reloaded' = None
    /\ serverConfig' = reloaded
    /\ Overtake(ViewOf(reloaded))
    /\ UNCHANGED <<server, pendingConfig, dirtyModules, saving, fetched, error,
                   apply, bounds>>

\* loadConfig shows its failure for good, and returns like a success.
ReloadFails ==
    /\ reload = "asked" /\ Fault
    /\ reload' = "loaded" /\ reloaded' = None /\ error' = TRUE
    /\ UNCHANGED <<server, config, saving, fetched, apply, history,
                   changes, applies>>

ReloadEnds ==
    /\ reload = "loaded"
    /\ reload' = "none"
    /\ pendingConfig' = NoEdits
    /\ Overtake(serverConfig)
    /\ UNCHANGED <<server, serverConfig, dirtyModules, saving, fetched, reloaded,
                   error, apply, bounds>>

-----------------------------------------------------------------------------
(* The surroundings *)

\* Another tab, a job of the server or somebody's editor reads the file,
OthersRead ==
    /\ theirs # disk /\ theirs' = disk
    /\ UNCHANGED <<disk, late, build, config, saving, loading, apply, history, bounds>>

\* and writes its copy back with a section changed: a job in its thread the
\* whole of it, a tab the sections that the writer knows.
OthersWrite(s) ==
    /\ changes < MaxChanges /\ changes' = Newest
    /\ theirs' = [theirs EXCEPT ![s] = Newest]
    /\ \E now \in {theirs', Overlay(theirs')} : Replace(now)
    /\ UNCHANGED <<late, build, config, saving, loading, apply, applies, faults>>

\* The user reloads the page: what was not saved is gone, what was sent is not.
PageReloads ==
    /\ IF error THEN UNCHANGED faults ELSE Fault
    /\ late' = IF saveInFlight \in {"sent", "merged"} THEN late \cup {saveBody} ELSE late
    /\ serverConfig' = disk /\ pendingConfig' = NoEdits /\ dirtyModules' = FALSE
    /\ saveTimer' = "null" /\ saveInFlight' = "no" /\ saveBody' = None
    /\ savePending' = FALSE /\ saveStatus' = "idle" /\ moduleSaves' = FALSE
    /\ fetched' = None /\ reload' = "none" /\ reloaded' = None /\ error' = FALSE
    /\ hidden' = FALSE
    /\ apply' = "idle" /\ asked' = None
    /\ mine' = [s \in Sections |-> 0]
    /\ UNCHANGED <<disk, theirs, build, changes, applies>>

-----------------------------------------------------------------------------
Save == MergeSave \/ StoreSave \/ RefuseSave \/ SaveAnswered \/ SaveTimesOut
Reload == ReloadAsks \/ ReloadAnswered \/ ReloadFails \/ ReloadEnds
Applying == ApplyWaited \/ ApplyServed \/ ApplyAnswered \/ ApplyTimesOut
Build == BuildEvaluates \/ BuildEnds

Next ==
    \/ \E s \in Sections : Edit(s) \/ OthersWrite(s)
    \/ OthersRead \/ TimerFires \/ Save \/ LateSave \/ ModuleSaves \/ ModuleSaved
    \/ Refresh \/ RefreshAnswered \/ RefreshFails
    \/ ClickApply \/ Applying \/ Reattach \/ Build \/ PollEnds
    \/ Reload \/ PageReloads

Spec == Init /\ [][Next]_vars

\* Timers fire and requests are handled and answered, or fail.  Nobody has to
\* edit, click or write, and a build may take forever.
Fairness ==
    /\ WF_vars(TimerFires)
    /\ WF_vars(MergeSave) /\ WF_vars(StoreSave) /\ WF_vars(SaveAnswered)
    /\ WF_vars(ModuleSaved)
    /\ WF_vars(Refresh) /\ WF_vars(RefreshAnswered)
    /\ WF_vars(ApplyWaited)
    /\ WF_vars(ReloadAsks) /\ WF_vars(ReloadAnswered) /\ WF_vars(ReloadEnds)

FairSpec == Spec /\ Fairness

-----------------------------------------------------------------------------
\* Sections that the merge carries to the server and the writer stores.
Kept == Written \cap (InPlace \cup Merged)

\* Nothing is about to be saved, and no save has failed.
AtRest ==
    /\ saveInFlight = "no" /\ saveTimer # "armed" /\ apply # "waiting"
    /\ saveStatus # "error" /\ ~hidden

(* EditsReachDisk.  When the tab is at rest, no section on disk is older   *)
(* than the user's latest edit of it: debouncing, coalescing, retries and  *)
(* apply lose nothing.  Except for edits that were overtaken: by an answer *)
(* read before them, by the clearing of pendingConfig after a rebuild, by  *)
(* an apply that cancels their timer or passes over their hidden failure;  *)
(* or that were stored and then put back, by another writer that had read  *)
(* the file before, or by a save of this tab that was handled too late.    *)
EditsReachDisk ==
    AtRest => \A s \in Kept : disk[s] >= mine[s]

(* BuildsWhatWasAsked.  The rebuild that an apply started evaluates a file *)
(* with every edit made before the click, unless a save was in flight at   *)
(* the click, or the edit was overtaken or put back as above.              *)
BuildsWhatWasAsked ==
    [][ build = "started" /\ build' = "running"
          /\ apply \in {"accepted", "polling"} /\ asked # None
        => \A s \in Kept : disk[s] >= asked[s] ]_vars

(* EditSettles.  Every edit is stored, or its failure is shown, or the     *)
(* status of another save has since taken that off the screen; or it is    *)
(* overtaken as above.  An edit that is put back counts as stored before;  *)
(* one that is not on disk yet gets there whatever others write.           *)
EditSettles ==
    \A s \in Kept :
        mine[s] > disk[s] ~> \/ mine[s] <= disk[s]
                             \/ saveStatus = "error" \/ hidden

(* ViewFollowsDisk.  A tab that has nothing unsaved, by the code's guard,  *)
(* comes to hold what is on disk, whoever wrote it.                        *)
ViewFollowsDisk ==
    <>[]Clean => <>[](serverConfig = disk)

(* SaveSparesOthers.  A section that the tab has not edited is posted as   *)
(* it is on disk, so storing a save leaves it alone: "the frontend always  *)
(* sends the full array (sourced from the fresh on-disk config when        *)
(* unedited), so a whole-array replace is correct and cannot resurrect     *)
(* deleted rows".                                                          *)
SaveSparesOthers ==
    [][ StoreSave => \A s \in Sections : mine[s] = 0 => disk'[s] >= disk[s] ]_vars
=============================================================================
