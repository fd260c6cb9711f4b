------------------------------ MODULE FinishSetup ------------------------------
(***************************************************************************)
(* The last part of an installation: the finish-setup wizard of the admin  *)
(* UI (admin/finish-setup-wizard.js), its endpoints (services/             *)
(* restore_setup.py, simple_main.py), and what they start: rebuilds and a  *)
(* restore job.  The box is either set up afresh (keys, rebuild, done) or  *)
(* from a backup (open, re-key and merge, rebuild, restore of the data,    *)
(* done).  The sentinel .setup-complete closes the wizard for good.        *)
(*                                                                         *)
(* A page is one instance of the wizard: it is left, reloaded or opened    *)
(* twice; what it awaits when it is left comes back to it all the same.    *)
(* All pages share a marker in localStorage.  An action is the code        *)
(* between two awaits, or a request being handled and answered.            *)
(***************************************************************************)
EXTENDS Naturals

CONSTANTS
    Pages,        \* instances of the wizard, each used once
    MaxBuilds,    \* bound: rebuilds
    MaxEvents     \* bound: restarts of the API, lost requests and answers,
                  \* refusals, pages left, lost connections

ASSUME SetupAssumption == MaxBuilds \in Nat /\ MaxEvents \in Nat

VARIABLES
    \* The box: config on disk, config that runs, the last rebuild, sessions
    \* with an open backup, the restore job, the sentinel.
    disk, box, build, sessions, job, complete,
    \* The browser: the marker of a restore under way, the pages.
    marker, pages,
    \* History: a page took up a rebuild that is not the one that finishes
    \* setup (fresh) or that restores the config (restore).
    astray, misled,
    \* Bounds.
    builds, events

server == <<disk, box, build, sessions, job, complete, builds>>
browser == <<marker, pages>>
history == <<astray, misled>>
vars == <<server, browser, history, events>>

-----------------------------------------------------------------------------
\* No authorised key; one, and what else the wizard saves; the backup's.
Configs == {"bare", "keyed", "restored"}

NoBuild == [running |-> FALSE, by |-> "nobody", of |-> "bare", verdict |-> "none"]

Ats == {"new", "here", "left", "dead"}
Modes == {"", "fresh", "restore"}
Steps == {"enter", "domain", "apply"}
Applies == {"idle", "running", "done", "failed"}
Datas == {"", "running", "done", "failed"}
Flows == {"none", "apply", "restore", "start", "mark", "finish"}
Polls == {"none", "timer", "asked"}

NewPage == [at |-> "new", mode |-> "", step |-> "enter", apply |-> "idle", data |-> "",
            flow |-> "none", poll |-> "none", dataPoll |-> "none", recovering |-> FALSE]

\* One instance of the wizard: how far it is, and what it waits for.
Page ==
    [at : Ats, mode : Modes, step : Steps, apply : Applies, data : Datas,
     flow : Flows, poll : Polls, dataPoll : Polls, recovering : BOOLEAN]

TypeOK ==
    /\ disk \in Configs /\ box \in Configs
    /\ build \in [running : BOOLEAN, by : {"nobody", "setup", "restore", "other"},
                  of : Configs, verdict : {"none", "ok", "failed"}]
    /\ build.running => build.verdict = "none"
    /\ sessions \subseteq Pages
    /\ job \in {"none", "working", "done", "failed", "lost"}
    /\ complete \in BOOLEAN
    /\ marker \in {"none", "rebuild", "data"}
    /\ pages \in [Pages -> Page]
    /\ \A p \in Pages : pages[p].data # "" => pages[p].apply = "done"
    /\ astray \in BOOLEAN /\ misled \in BOOLEAN
    /\ builds \in 0 .. MaxBuilds /\ events \in 0 .. MaxEvents

\* The installer has rebooted into the new system.
Init ==
    /\ disk = "bare" /\ box = "bare" /\ build = NoBuild
    /\ sessions = {} /\ job = "none" /\ complete = FALSE
    /\ marker = "none" /\ pages = [p \in Pages |-> NewPage]
    /\ astray = FALSE /\ misled = FALSE
    /\ builds = 0 /\ events = 0

Event == events < MaxEvents /\ events' = events + 1

Here(p) == pages[p].at = "here"
\* The requests of connectedCallback are answered before a user clicks more
\* than the first button.
Ready(p) == Here(p) /\ ~pages[p].recovering
\* A page of which the code still runs.
Alive(p) == pages[p].at \in {"here", "left"}
Becomes(p, page) == pages' = [pages EXCEPT ![p] = page]

-----------------------------------------------------------------------------
(* The wizard is shown. *)

\* connectedCallback, resumeRestore: a marker is followed, whatever the state
\* of the box.
Resumed ==
    IF marker = "data"
    THEN [NewPage EXCEPT !.at = "here", !.mode = "restore", !.step = "apply",
              !.apply = "done", !.data = "running", !.dataPoll = "asked"]
    ELSE [NewPage EXCEPT !.at = "here", !.mode = "restore", !.step = "apply",
              !.apply = "running", !.poll = "asked"]

\* connectedCallback without a marker.  Shown again by the page that was left,
\* the wizard goes on with the step that it is told of, in a fresh setup.
Opened(mode, step) ==
    [NewPage EXCEPT !.at = "here", !.mode = mode, !.step = step, !.recovering = TRUE]
Openings ==
    (IF ~complete /\ disk = "bare" THEN {Opened("", "enter")} ELSE {}) \cup
    (IF ~complete /\ disk # "bare"
     THEN {Opened("fresh", step) : step \in {"enter", "apply"}} ELSE {}) \cup
    {Opened("fresh", IF pages[q].mode = "fresh" THEN pages[q].step ELSE "enter") :
        q \in {r \in Pages : pages[r].at = "left"}}

\* Nobody is shown the wizard of a box that is set up, but a page that was
\* loaded before does not know.
Open(p) ==
    /\ pages[p].at = "new"
    /\ IF marker # "none"
       THEN /\ ~complete \/ \E q \in Pages : pages[q].at = "left"
            /\ Becomes(p, Resumed)
            /\ misled' = (misled \/ (marker = "rebuild" /\ build.by # "restore"))
       ELSE \E page \in Openings : Becomes(p, page) /\ UNCHANGED misled
    /\ UNCHANGED <<server, marker, astray, events>>

\* pollRebuild, pollDataRestore: ask at once.
Polling(page) == [page EXCEPT !.poll = "asked"]
PollingData(page) == [page EXCEPT !.dataPoll = "asked"]

\* recoverRebuildIfAny follows whatever rebuild runs.
Recover(p) ==
    LET page == [pages[p] EXCEPT !.recovering = FALSE]
        mode == IF page.mode = "" THEN "fresh" ELSE page.mode
    IN  /\ Alive(p) /\ pages[p].recovering
        /\ IF build.running
           THEN /\ Becomes(p, Polling([page EXCEPT !.mode = mode, !.step = "apply",
                                                   !.apply = "running"]))
                /\ astray' = (astray \/ (mode = "fresh" /\ build.by # "setup"))
                /\ misled' = (misled \/ (mode = "restore" /\ build.by # "restore"))
           ELSE Becomes(p, page) /\ UNCHANGED history
        /\ UNCHANGED <<server, marker, events>>

\* disconnectedCallback: timers are stopped, not what is awaited.
Leave(p) ==
    /\ Here(p) /\ Event
    /\ Becomes(p, [pages[p] EXCEPT !.at = "left",
           !.poll = IF @ = "timer" THEN "none" ELSE @,
           !.dataPoll = IF @ = "timer" THEN "none" ELSE @])
    /\ UNCHANGED <<server, marker, history>>

\* The tab is closed or reloaded: only requests that are under way are left.
Close(p) ==
    /\ Alive(p) /\ Becomes(p, [NewPage EXCEPT !.at = "dead", !.flow = pages[p].flow])
    /\ UNCHANGED <<server, marker, history, events>>

-----------------------------------------------------------------------------
(* What the user does. *)

Choose(p) ==
    /\ Here(p) /\ pages[p].mode = ""
    /\ \/ Becomes(p, [pages[p] EXCEPT !.mode = "restore", !.step = "enter"])
       \/ \E step \in (IF disk = "bare" THEN {"enter"} ELSE {"enter", "apply"}) :
            Becomes(p, [pages[p] EXCEPT !.mode = "fresh", !.step = step])
    /\ UNCHANGED <<server, marker, history, events>>

\* saveSshKey; saveDnsStep and saveZones, which may be skipped.
SaveSteps(p) ==
    /\ Ready(p) /\ pages[p].mode = "fresh" /\ pages[p].step = "enter"
    /\ disk' = IF disk = "bare" THEN "keyed" ELSE disk
    /\ Becomes(p, [pages[p] EXCEPT !.step = "apply"])
    /\ UNCHANGED <<box, build, sessions, job, complete, builds, marker, history, events>>

Idle(p) == Ready(p) /\ pages[p].step = "apply" /\ pages[p].apply = "idle"

\* applyAndRebuild.
ClickFinish(p) ==
    /\ Idle(p) /\ pages[p].mode = "fresh" /\ pages[p].flow = "none"
    /\ Becomes(p, [pages[p] EXCEPT !.apply = "running", !.flow = "apply"])
    /\ UNCHANGED <<server, marker, history, events>>

\* openRestoreBackup; the domain is then chosen.
OpenBackup(p) ==
    /\ Ready(p) /\ pages[p].mode = "restore" /\ pages[p].step = "enter"
    /\ ~complete
    /\ sessions' = sessions \cup {p}
    /\ Becomes(p, [pages[p] EXCEPT !.step = "domain"])
    /\ UNCHANGED <<disk, box, build, job, complete, builds, marker, history, events>>

\* "Continue", and the Back buttons; cancel drops the session.
Navigate(p) ==
    /\ Ready(p) /\ pages[p].mode = "restore"
    /\ \/ /\ pages[p].step = "domain"
          /\ Becomes(p, [pages[p] EXCEPT !.step = "apply"])
          /\ UNCHANGED sessions
       \/ /\ pages[p].step = "domain"
          /\ Becomes(p, [pages[p] EXCEPT !.step = "enter"])
          /\ sessions' = IF complete THEN sessions ELSE sessions \ {p}
       \/ /\ Idle(p)
          /\ Becomes(p, [pages[p] EXCEPT !.step = "domain"])
          /\ UNCHANGED sessions
       \/ /\ pages[p].step = "enter"
          /\ Becomes(p, [pages[p] EXCEPT !.mode = ""])
          /\ UNCHANGED sessions
    /\ UNCHANGED <<disk, box, build, job, complete, builds, marker, history, events>>

\* applyRestoreFlow, up to its request.
ClickRestore(p) ==
    /\ Idle(p) /\ pages[p].mode = "restore" /\ pages[p].flow = "none"
    /\ marker' = "rebuild"
    /\ Becomes(p, [pages[p] EXCEPT !.apply = "running", !.flow = "restore"])
    /\ UNCHANGED <<server, history, events>>

TryAgain(p) ==
    /\ Here(p) /\ pages[p].apply = "failed"
    /\ Becomes(p, [pages[p] EXCEPT !.apply = "idle"])
    /\ UNCHANGED <<server, marker, history, events>>

\* startDataRestore, up to its request.
StartsData(page) == [page EXCEPT !.apply = "done", !.data = "running", !.flow = "start"]

RetryData(p) ==
    /\ Here(p) /\ pages[p].data = "failed" /\ pages[p].flow = "none"
    /\ marker' = "data" /\ Becomes(p, StartsData(pages[p]))
    /\ UNCHANGED <<server, history, events>>

\* finishRestore: done, or "Finish anyway".
ClickDone(p) ==
    /\ Here(p) /\ pages[p].data \in {"done", "failed"} /\ pages[p].flow = "none"
    /\ Becomes(p, [pages[p] EXCEPT !.flow = "finish"])
    /\ UNCHANGED <<server, marker, history, events>>

-----------------------------------------------------------------------------
(* Requests: handled, and answered to a page if there still is one. *)

\* A rebuild beyond the bound does not start.
MayBuild == ~build.running /\ builds < MaxBuilds
\* Mutant: the status of the rebuild before is left.
StartBuild_Keeps(by, of) ==
    /\ MayBuild /\ builds' = builds + 1
    /\ build' = [build EXCEPT !.running = TRUE, !.by = by, !.of = of]
StartBuild(by, of) ==
    /\ MayBuild /\ builds' = builds + 1
    /\ build' = [running |-> TRUE, by |-> by, of |-> of, verdict |-> "none"]

\* The page after the await: nothing is left of one that is dead.
Answer(p, page) == Becomes(p, [(IF Alive(p) THEN page ELSE pages[p]) EXCEPT !.flow = "none"])

\* /api/config/apply.  A refusal (a rebuild runs, the config does not pass, the
\* rebuild does not start) is an answer as well, and the wizard does not look
\* at it: it polls.
ServeApply(p) ==
    LET failed == [pages[p] EXCEPT !.apply = "failed"] IN
    /\ pages[p].flow = "apply"
    /\ \/ \* started
          /\ StartBuild("setup", disk)
          /\ \/ Answer(p, Polling(pages[p])) /\ UNCHANGED events
             \/ Event /\ Answer(p, failed)               \* the answer is lost
          /\ UNCHANGED astray
       \/ \* refused
          /\ IF MayBuild THEN Event ELSE UNCHANGED events
          /\ Answer(p, Polling(pages[p]))
          /\ astray' = (astray \/ (Alive(p) /\ build.by # "setup"))
          /\ UNCHANGED <<build, builds>>
       \/ \* lost
          /\ Event /\ Answer(p, failed)
          /\ UNCHANGED <<build, builds, astray>>
    /\ UNCHANGED <<disk, box, sessions, job, complete, marker, misled>>

\* _require_restore_allowed, and the checks of apply_restore.
RestoreAllowed(p) == ~complete /\ p \in sessions /\ ~build.running

\* restore/apply: re-key, merge, rebuild.  What fails before the rebuild keeps
\* the session, a rebuild that does not start does not.
ServeRestore(p) ==
    LET failed == [pages[p] EXCEPT !.apply = "failed"]
        forgets == marker' = IF Alive(p) THEN "none" ELSE marker
    IN
    /\ pages[p].flow = "restore"
    /\ \/ \* started
          /\ RestoreAllowed(p)
          /\ disk' = "restored" /\ sessions' = sessions \ {p}
          /\ StartBuild("restore", "restored")
          /\ \/ Answer(p, Polling(pages[p])) /\ UNCHANGED <<marker, events>>
             \/ Event /\ Answer(p, failed) /\ forgets    \* the answer is lost
       \/ \* it fails between two steps
          /\ RestoreAllowed(p) /\ Event
          /\ \/ disk' \in {disk, "restored"} /\ UNCHANGED sessions
             \/ disk' = "restored" /\ sessions' = sessions \ {p}
          /\ Answer(p, failed) /\ forgets
          /\ UNCHANGED <<build, builds>>
       \/ \* refused, or lost
          /\ IF RestoreAllowed(p) /\ MayBuild THEN Event ELSE UNCHANGED events
          /\ Answer(p, failed) /\ forgets
          /\ UNCHANGED <<disk, sessions, build, builds>>
    /\ UNCHANGED <<box, job, complete, history>>

\* restore-all: 409 when a job works, and the page then polls that one.
ServeStart(p) ==
    LET failed == [pages[p] EXCEPT !.data = "failed"] IN
    /\ pages[p].flow = "start"
    /\ \/ /\ job' = IF job \in {"none", "lost"} THEN "working" ELSE job
          /\ \/ Answer(p, PollingData(pages[p])) /\ UNCHANGED events
             \/ Event /\ Answer(p, failed)               \* the answer is lost
       \/ /\ Event /\ Answer(p, failed)                  \* refused, or lost
          /\ UNCHANGED job
    /\ UNCHANGED <<disk, box, build, sessions, complete, builds, marker, history>>

\* markFinishSetupComplete; the page does not mind when it fails.
ServeMark(p) ==
    /\ pages[p].flow = "mark"
    /\ \/ complete' = TRUE /\ UNCHANGED events
       \/ Event /\ UNCHANGED complete
    /\ Answer(p, IF pages[p].mode = "fresh" THEN [pages[p] EXCEPT !.apply = "done"] ELSE pages[p])
    /\ UNCHANGED <<disk, box, build, sessions, job, builds, marker, history>>

\* The same of finishRestore, which then reloads the page.
ServeFinish(p) ==
    /\ pages[p].flow = "finish"
    /\ \/ complete' = TRUE /\ UNCHANGED events
       \/ Event /\ UNCHANGED complete
    /\ marker' = IF Alive(p) THEN "none" ELSE marker
    /\ Becomes(p, [NewPage EXCEPT !.at = "dead"])
    /\ UNCHANGED <<disk, box, build, sessions, job, builds, history>>

-----------------------------------------------------------------------------
(* Polling. *)

PollTimer(p) ==
    /\ \/ pages[p].poll = "timer" /\ Becomes(p, Polling(pages[p]))
       \/ pages[p].dataPoll = "timer" /\ Becomes(p, PollingData(pages[p]))
    /\ UNCHANGED <<server, marker, history, events>>

\* Mutant: the state of the log decides, not the exit code.
Succeeded_Finished == ~build.running
Succeeded == build.verdict = "ok"

\* Mutant: a request that fails ends the polling.
ConnectionLost_Stops(p) ==
    /\ Alive(p) /\ pages[p].poll = "asked" /\ Event
    /\ Becomes(p, [pages[p] EXCEPT !.poll = "none"])
    /\ UNCHANGED <<server, marker, history>>

\* The connection is lost for longer than a restart takes.  (A request that
\* fails before that is repeated.)
ConnectionLost(p) ==
    /\ Alive(p) /\ pages[p].poll = "asked" /\ Event
    /\ Becomes(p, [pages[p] EXCEPT !.poll = "none", !.apply = "failed"])
    /\ UNCHANGED <<server, marker, history>>

\* pollRebuild: the status is that of the last rebuild, whoever started it.
Poll(p) ==
    LET page == [pages[p] EXCEPT !.poll = "none"] IN
    /\ Alive(p) /\ pages[p].poll = "asked"
    /\ \/ /\ build.running
          /\ Becomes(p, [page EXCEPT !.poll = "timer"])
          /\ UNCHANGED marker
       \/ /\ ~build.running /\ Succeeded
          /\ IF page.mode = "restore"
             THEN marker' = "data" /\ Becomes(p, StartsData(page))
             ELSE Becomes(p, [page EXCEPT !.flow = "mark"]) /\ UNCHANGED marker
       \/ /\ ~build.running /\ ~Succeeded
          /\ Becomes(p, [page EXCEPT !.apply = "failed"])
          /\ UNCHANGED marker
    /\ UNCHANGED <<server, history, events>>

\* pollDataRestore, get_current_job.  The pointer is followed to a job at work
\* only: one that has ended is reported if it ends between the reads of the
\* pointer and of the record, one whose thread died when it is reaped.  Without
\* a job in the answer the page asks again.
PollData(p) ==
    LET page == [pages[p] EXCEPT !.dataPoll = "none"] IN
    /\ Alive(p) /\ pages[p].dataPoll = "asked"
    /\ \/ /\ job # "lost"
          /\ Becomes(p, [page EXCEPT !.dataPoll = "timer"])
          /\ UNCHANGED <<job, marker>>
       \/ /\ job = "done"
          /\ Becomes(p, [page EXCEPT !.data = "done", !.flow = "mark"])
          /\ marker' = "none"
          /\ UNCHANGED job
       \/ /\ job \in {"failed", "lost"}
          /\ Becomes(p, [page EXCEPT !.data = "failed"])
          /\ job' = IF job = "lost" THEN "none" ELSE job
          /\ UNCHANGED marker
    /\ UNCHANGED <<disk, box, build, sessions, complete, builds, history, events>>

-----------------------------------------------------------------------------
(* The rest of the box. *)

\* Somebody applies from the dashboard, or at the console.
OtherBuild ==
    /\ StartBuild("other", disk)
    /\ UNCHANGED <<disk, box, sessions, job, complete, browser, history, events>>

BuildEnds ==
    /\ build.running
    /\ \/ /\ build' = [build EXCEPT !.running = FALSE, !.verdict = "ok"]
          /\ box' = build.of
       \/ /\ build' = [build EXCEPT !.running = FALSE, !.verdict = "failed"]
          /\ box' \in {box, build.of}
    /\ UNCHANGED <<disk, sessions, job, complete, builds, browser, history, events>>

\* The verdict of the job is written; soon, no request is left that has read the
\* pointer before.
JobEnds ==
    /\ \/ job = "working" /\ job' \in {"done", "failed"}
       \/ job \in {"done", "failed"} /\ job' = "none"
    /\ UNCHANGED <<disk, box, build, sessions, complete, builds, browser, history, events>>

\* Sessions are in memory, and so is the thread of the job.
ApiRestarts ==
    /\ Event
    /\ sessions' = {}
    /\ job' = IF job \in {"working", "lost"} THEN "lost" ELSE "none"
    /\ UNCHANGED <<disk, box, build, complete, builds, browser, history>>

-----------------------------------------------------------------------------
User(p) ==
    \/ Choose(p) \/ SaveSteps(p) \/ ClickFinish(p) \/ OpenBackup(p) \/ Navigate(p)
    \/ ClickRestore(p) \/ TryAgain(p) \/ RetryData(p) \/ ClickDone(p)
Serve(p) ==
    \/ ServeApply(p) \/ ServeRestore(p) \/ ServeStart(p) \/ ServeMark(p) \/ ServeFinish(p)
Follow(p) == PollTimer(p) \/ Poll(p) \/ PollData(p) \/ Recover(p)

Next ==
    \/ \E p \in Pages : \/ Open(p) \/ Leave(p) \/ Close(p) \/ ConnectionLost(p)
                        \/ User(p) \/ Serve(p) \/ Follow(p)
    \/ OtherBuild \/ BuildEnds \/ JobEnds \/ ApiRestarts

Spec == Init /\ [][Next]_vars

\* Requests are answered, the timers of a page run, a rebuild and a job end.
\* Nobody has to click, to come back or to stay.
FairSpec ==
    /\ Spec
    /\ \A p \in Pages : WF_vars(Serve(p)) /\ WF_vars(Follow(p))
    /\ WF_vars(BuildEnds) /\ WF_vars(JobEnds)

-----------------------------------------------------------------------------
(* Properties. *)

\* A box counts as set up only once a config with a key in it runs (mode.py:
\* the sentinel is written "after the finishing rebuild succeeds"), although
\* any rebuild can be under way, fail or come in between, answers are lost and
\* several pages follow the same rebuild; unless a page took up somebody
\* else's rebuild for its own.
CompleteIsDeployed == complete => box # "bare" \/ astray \/ misled

\* The data of a backup is restored, by a job or in the eyes of a page, onto a
\* box that runs the config of the backup (restore_setup.py: "After apply()'s
\* rebuild succeeds"); also after reloads, which find the marker only.
DataAfterBuild ==
    \/ misled
    \/ /\ job # "none" => box = "restored"
       /\ marker = "data" => box = "restored"
       /\ \A p \in Pages : pages[p].data # "" => box = "restored"

\* A page that follows a rebuild gets to its verdict: through lost answers,
\* restarts of the API, other people's rebuilds and reloads.
FollowedSettles ==
    \A p \in Pages : []<>~(Here(p) /\ pages[p].apply = "running")

\* What mode.py says of the sentinel, with no exception: the config that the
\* wizard has saved was built.  A refused apply is polled like an accepted one,
\* and an opened page follows any rebuild there is.
CompleteAfterOwnBuild == complete => box # "bare"

\* backup_operations.py: a finished job is still reported "once so the UI can
\* show the terminal state".  The pointer is not followed to a finished job: a
\* page that asks later polls for good, and setup is never marked complete.
RestoreCompletes ==
    \A p \in Pages : []<>~(Here(p) /\ pages[p].data = "running")
=============================================================================
