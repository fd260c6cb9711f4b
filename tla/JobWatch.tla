------------------------------- MODULE JobWatch -------------------------------
(***************************************************************************)
(* components/shared/backup-job-controller.js: a page of the admin UI that *)
(* follows the backup jobs of the server, composed with what the server    *)
(* promises of them (SerialJobs).  The page shows a job with a spinner     *)
(* until it reads that the job has ended, and then announces the outcome.  *)
(*                                                                         *)
(* A timer asks for the current job every two seconds, whether or not the  *)
(* answer to the last request has come: requests overlap and are answered  *)
(* in any order.  An action is a stretch of code between two awaits, in    *)
(* the page or in the handler of a request (get_current_job), which the    *)
(* threads of the jobs interleave with at each file it reads.              *)
(***************************************************************************)
EXTENDS Naturals, FiniteSets

CONSTANTS
    Jobs, Repos, None, Outsider,
    MaxFlights,   \* bound: calls of refreshCurrentJob under way at a time
    MaxEvents     \* bound: restarts, canary self-tests, requests that fail
                  \* or that overlap, the page being opened again

ASSUME WatchAssumption ==
    /\ MaxEvents \in Nat /\ MaxFlights \in Nat \ {0}
    /\ None \notin Jobs /\ Outsider \notin Jobs /\ {"no", "busy"} \cap Jobs = {}

VARIABLES
    \* The server: see SerialJobs.
    holder, phase, left, report, current,
    \* The page: currentJob, whether _jobPollTimer is set, the calls of
    \* refreshCurrentJob, the call of startJob.
    shown, timer, flights, start,
    \* History: the outcome announced last; has polling stopped, since
    \* it last began, while another refresh was yet to be answered?
    announced, crossed,
    \* Bound.
    events

server == <<holder, phase, left, report, current>>
page   == <<shown, timer, flights, start, announced, crossed>>
vars   == <<server, page, events>>

Server == INSTANCE SerialJobs

-----------------------------------------------------------------------------
Flights == 1 .. MaxFlights

\* What a page makes of a job: isJobActive, failed or not.
Shown == [job : Jobs, state : {"active", "done", "failed"}] \cup {None}
\* Mutant: the record is shown as it is.
Seen_Raw(j, r) == [job |-> j, state |-> r]

Seen(j, r) == [job |-> j, state |-> IF r \in {"queued", "running"} THEN "active" ELSE r]
Active(job) == job # None /\ job.state = "active"

NoFlight == [at |-> "none", from |-> None, answer |-> None, prev |-> None]

Ats == {"none", "asked", "read", "answered", "log", "attach"}
Callers == {"poll", "busy", "load", None}
Readings == [job : Jobs, state : {"queued", "running"}]   \* of a job's record
Calls == [at : Ats, from : Callers, answer : Shown \cup Readings,
          prev : Jobs \cup {None}]       \* active when the answer came
Outcomes == [job : Jobs, as : {"success", "failed"}]

TypeOK ==
    /\ Server!TypeOK
    /\ shown \in Shown /\ timer \in BOOLEAN
    /\ flights \in [Flights -> Calls]
    /\ start \in {"no", "busy"} \cup Jobs
    /\ announced \in Outcomes \cup {None}
    /\ crossed \in BOOLEAN
    /\ events \in 0 .. MaxEvents

\* connectedCallback asks for the current job.
Loading == [f \in Flights |->
    IF f = 1 THEN [NoFlight EXCEPT !.at = "asked", !.from = "load"] ELSE NoFlight]

\* A page that has been opened, on a server without jobs, and has been told so.
Init ==
    /\ Server!Init
    /\ shown = None /\ timer = FALSE /\ start = "no"
    /\ announced = None /\ crossed = FALSE
    /\ flights = [f \in Flights |-> NoFlight]
    /\ events = 0

Event == events < MaxEvents /\ events' = events + 1

-----------------------------------------------------------------------------
(* The page. *)

Free == {f \in Flights : flights[f].at = "none"}
\* A request that is sent while another is under way counts as an event.
Ask(from) ==
    /\ IF Free = Flights THEN UNCHANGED events ELSE Event
    /\ \E f \in Free : /\ \A g \in Free : f <= g
                      /\ flights' = [flights EXCEPT
                              ![f] = [NoFlight EXCEPT !.at = "asked", !.from = from]]

\* The interval of startJobPolling.
Tick ==
    /\ timer
    /\ Ask("poll")
    /\ UNCHANGED <<server, shown, timer, start, announced, crossed>>

StartPolling == timer' = TRUE /\ crossed' = FALSE
\* Called at the end of a refresh; other refreshes go on.
StopPolling(f) ==
    /\ timer' = FALSE
    /\ crossed' = (crossed \/ \E g \in Flights \ {f} :
                      flights[g].at \in {"asked", "read", "answered"})

\* Mutant: what is not known to be done has failed.
Announce_Pessimist(j, state) ==
    announced' = [job |-> j, as |-> IF state = "done" THEN "success" ELSE "failed"]

\* onJobFinished, with a job that is shown or was active before.
Announce(j, state) ==
    announced' = [job |-> j, as |-> IF state = "failed" THEN "failed" ELSE "success"]

\* The end of refreshCurrentJob, and what its caller does then.
Ends(f, prev, now) ==
    LET from == flights[f].from
        finished == prev # None /\ ~Active(now)
    IN  /\ CASE finished /\ now # None -> Announce(now.job, now.state)
             [] finished /\ now = None -> Announce(prev, "active")
             [] OTHER -> UNCHANGED announced
        /\ CASE finished \/ (from = "poll" /\ ~Active(now)) -> StopPolling(f)
             [] from = "busy" /\ Active(now) -> StartPolling
             [] OTHER -> UNCHANGED <<timer, crossed>>
        /\ flights' = [flights EXCEPT ![f] =
              IF from = "load" THEN [NoFlight EXCEPT !.at = "attach"] ELSE NoFlight]

\* The answer is shown; without a job there is no log to fetch.
Answered(f) ==
    LET prev == IF Active(shown) THEN shown.job ELSE None IN
    /\ flights[f].at = "answered"
    /\ shown' = flights[f].answer
    /\ IF shown' = None THEN Ends(f, prev, None)
       ELSE /\ flights' = [flights EXCEPT ![f] =
                  [@ EXCEPT !.at = "log", !.prev = prev, !.answer = None]]
            /\ UNCHANGED <<timer, crossed, announced>>
    /\ UNCHANGED <<server, start, events>>

\* fetchJobLog returns: what is shown by then decides.
LogFetched(f) ==
    /\ flights[f].at = "log"
    /\ Ends(f, flights[f].prev, shown)
    /\ UNCHANGED <<server, shown, start, events>>

\* The request fails, and the page keeps what it shows.
AskFails(f) ==
    /\ flights[f].at = "asked" /\ Event
    /\ Ends(f, None, shown)
    /\ UNCHANGED <<server, shown, start>>

\* Mutant: a page that opens does not poll.
Attach_Never(f) ==
    /\ flights[f].at = "attach"
    /\ flights' = [flights EXCEPT ![f] = NoFlight]
    /\ UNCHANGED <<server, shown, timer, crossed, start, announced, events>>

\* connectedCallback, when its other requests have been answered as well.
Attach(f) ==
    /\ flights[f].at = "attach"
    /\ IF Active(shown) THEN StartPolling ELSE UNCHANGED <<timer, crossed>>
    /\ flights' = [flights EXCEPT ![f] = NoFlight]
    /\ UNCHANGED <<server, shown, start, announced, events>>

\* startJob gets its answer: the new job is shown and polled; when the server
\* is busy the page looks at what it is busy with.
StartAnswered ==
    /\ start # "no" /\ start' = "no"
    /\ \/ /\ start \in Jobs
          /\ shown' = Seen(start, "queued") /\ StartPolling
          /\ UNCHANGED <<flights, events>>
       \/ /\ start = "busy"
          /\ Ask("busy")
          /\ UNCHANGED <<shown, timer, crossed>>
    /\ UNCHANGED <<server, announced>>

\* The page is left and opened again, or reloaded.
Reopen ==
    /\ Event
    /\ shown' = None /\ timer' = FALSE /\ start' = "no"
    /\ announced' = None /\ crossed' = FALSE
    /\ flights' = Loading
    /\ UNCHANGED server

-----------------------------------------------------------------------------
(* The handlers of requests, on one event loop. *)

LoopFree == \A f \in Flights : flights[f].at # "read"
Working(j) == report[j] \in {"queued", "running"}

\* get_current_job follows the pointer to a job that has not ended, and reads
\* its record.
ReadCurrent(f) ==
    /\ flights[f].at = "asked" /\ LoopFree
    /\ flights' =
        LET job == IF current # None /\ Working(current)
                   THEN [job |-> current, state |-> report[current]] ELSE None
        IN  [flights EXCEPT ![f].answer = job,
                ![f].at = IF job = None THEN "answered" ELSE "read"]
    /\ UNCHANGED <<server, shown, timer, start, announced, crossed, events>>

\* _reap_if_dead: one that was running is dead when the lock is free, or when
\* the pointer no longer leads from the lock to it.
Alive(j) == holder # None /\ current = j /\ Working(j)

\* Mutant: a status request reaps nothing.
Reply_NoReap(f) ==
    LET j == flights[f].answer.job
    IN  /\ flights[f].at = "read"
        /\ flights' = [flights EXCEPT ![f].at = "answered",
                          ![f].answer = Seen(j, report[j])]
        /\ UNCHANGED <<server, shown, timer, start, announced, crossed, events>>

\* It is reaped if it is dead, and its record is read once more.
Reply(f) ==
    LET j == flights[f].answer.job
        dead == flights[f].answer.state = "running" /\ ~Alive(j)
    IN  /\ flights[f].at = "read"
        /\ IF dead THEN Server!Reap(j) ELSE UNCHANGED server
        /\ flights' = [flights EXCEPT ![f].at = "answered",
                          ![f].answer = Seen(j, report'[j])]
        /\ UNCHANGED <<shown, timer, start, announced, crossed, events>>

\* _start_restore_job and the like: 409 if the lock is held.  The page learns
\* nothing of a request that fails.
Unused == {j \in Jobs : report[j] = "absent"}
Submit ==
    /\ holder = None /\ Unused # {}
    /\ Server!Submit(CHOOSE j \in Unused : TRUE)

ServeStart ==
    /\ start = "no" /\ LoopFree
    /\ \/ holder # None /\ start' = "busy" /\ UNCHANGED server
       \/ Submit /\ start' = current'
    /\ UNCHANGED <<shown, timer, flights, announced, crossed, events>>

-----------------------------------------------------------------------------
(* Threads of jobs, requests of other pages, restarts. *)

Threads ==
    /\ \E j \in Jobs : Server!Thread(j)
    /\ UNCHANGED <<page, events>>

\* The answer goes to another page.
OthersPoll ==
    /\ LoopFree
    /\ \E j \in Jobs : current = j /\ report[j] = "running" /\ ~Alive(j) /\ Server!Reap(j)
    /\ UNCHANGED <<page, events>>

OthersStart ==
    /\ LoopFree /\ Submit
    /\ UNCHANGED <<page, events>>

CanaryTakes    == Server!OutsiderTakes /\ Event /\ UNCHANGED page
CanaryReleases == Server!OutsiderReleases /\ UNCHANGED <<page, events>>

\* A request that was being handled fails.
Restarts ==
    /\ Server!Restart /\ Event
    /\ IF LoopFree THEN UNCHANGED <<timer, flights, announced, crossed>>
       ELSE \E f \in Flights : flights[f].at = "read" /\ Ends(f, None, shown)
    /\ UNCHANGED <<shown, start>>

-----------------------------------------------------------------------------
Flight(f) == Answered(f) \/ LogFetched(f) \/ Attach(f) \/ ReadCurrent(f) \/ Reply(f)

Next ==
    \/ Tick \/ ServeStart \/ StartAnswered \/ Reopen
    \/ \E f \in Flights : Flight(f) \/ AskFails(f)
    \/ Threads \/ OthersPoll \/ OthersStart
    \/ CanaryTakes \/ CanaryReleases \/ Restarts

Spec == Init /\ [][Next]_vars

\* The timer ticks, requests are handled and answered, the canary comes to an
\* end.  Jobs may take forever.
FairSpec ==
    /\ Spec
    /\ WF_vars(Tick) /\ WF_vars(StartAnswered)
    /\ \A f \in Flights : WF_vars(Flight(f))
    /\ WF_vars(CanaryReleases)

-----------------------------------------------------------------------------
(* ActiveIsPolled.  A page with a spinner goes on asking, or is about to,  *)
(* in whatever order its requests are answered: unless polling was stopped *)
(* while another request was under way, whose answer nobody follows up.    *)
ActiveIsPolled ==
    Active(shown) => \/ timer \/ crossed
                     \/ \E f \in Flights : flights[f].from \in {"load", "busy"}
                                           \/ flights[f].at = "attach"

(* FailureTruthful.  A job that the page calls failed is on record as      *)
(* failed and stays so, though its thread may have been at work when the   *)
(* page asked.                                                             *)
FailureTruthful ==
    announced # None /\ announced.as = "failed" => report[announced.job] = "failed"

(* SpinnerClears.  The spinner of a job goes away when the job is over or  *)
(* was killed, whether the page sees the end or the job is reaped, with    *)
(* the exception of ActiveIsPolled and of a job killed before it started.  *)
Lingers ==
    /\ Active(shown)
    /\ phase[shown.job] \in {"over", "lost"} /\ report[shown.job] # "queued"
SpinnerClears == Lingers ~> ~Lingers \/ crossed

(* SuccessTruthful.  A job that the page calls successful has succeeded:   *)
(* "Finished since the ref was written - still report it once so the UI    *)
(* can show the terminal state".                                           *)
SuccessTruthful ==
    announced # None /\ announced.as = "success" => report[announced.job] = "done"
=============================================================================
