----------------------------- MODULE JobWatchProofs ----------------------------
(***************************************************************************)
(* Proofs about JobWatch, for any number of jobs, requests and events: its *)
(* types, that a spinner is followed up, and that a job which the page     *)
(* calls failed has failed for good.                                       *)
(*                                                                         *)
(* What a page announces it has read long before, from a handler that took *)
(* the job for dead on what it had read before that.  IInv follows a       *)
(* record on its way: what the server promises while a handler holds it,   *)
(* and what is certain of the job once an answer says that it failed.      *)
(***************************************************************************)
EXTENDS JobWatch, TLAPS

-----------------------------------------------------------------------------
(***************************************************************************)
(* The inductive invariant.                                                *)
(***************************************************************************)
Pending == {"asked", "read", "answered"}
Beyond == {"closing", "over", "lost"}

\* The lock is held by the job at work; an outcome is on record only for a job
\* whose thread will report no more.
Served ==
    /\ holder \in Jobs => phase[holder] \in {"working", "closing"}
    /\ \A j \in Jobs :
          /\ phase[j] \in {"working", "closing"} => holder = j
          /\ report[j] = "absent" => phase[j] = "none"
          /\ report[j] = "running" => phase[j] \notin {"none", "queued"}
          /\ report[j] \in {"done", "failed"} => phase[j] \in Beyond

\* A handler that has read of a running job: while the job works it stays the
\* current one, so that it is not taken for dead.
Handled ==
    \A f \in Flights : flights[f].at = "read" =>
        /\ flights[f].answer \in Readings
        /\ LET j == flights[f].answer.job IN
           /\ report[j] # "absent"
           /\ flights[f].answer.state = "running" =>
                 /\ phase[j] \notin {"none", "queued"}
                 /\ phase[j] = "working" => current = j

\* The job has failed and its thread will not say otherwise.
Failed(j) == report[j] = "failed" /\ phase[j] \in Beyond
Truthful(job) == job # None /\ job.state = "failed" => Failed(job.job)

\* What the page has been answered, shows and has announced is final.
Final ==
    /\ Truthful(shown)
    /\ \A f \in Flights : flights[f].at = "answered" =>
          flights[f].answer \in Shown /\ Truthful(flights[f].answer)
    /\ announced # None /\ announced.as = "failed" => Failed(announced.job)

\* A refresh of the timer whose answer is still to come: the timer ticks on, or
\* the refresh has been crossed.
Followed ==
    \A f \in Flights :
        flights[f].at \in Pending /\ flights[f].from \notin {"load", "busy"}
            => timer \/ crossed

IInv == TypeOK /\ Served /\ Handled /\ Final /\ Followed /\ ActiveIsPolled

-----------------------------------------------------------------------------
(***************************************************************************)
(* The server, as those who watch it move it.                              *)
(***************************************************************************)
\* A job is reaped only when its thread is past its work.
Moves ==
    \/ UNCHANGED server
    \/ \E j \in Jobs : \/ holder = None /\ Server!Submit(j)
                       \/ Server!Thread(j)
                       \/ phase[j] \in Beyond /\ Server!Reap(j)
    \/ Server!OutsiderTakes \/ Server!OutsiderReleases
    \/ Server!Restart

\* A job of which a handler has read that it runs, and which is not alive, does
\* not work.
LEMMA DeadIsBeyond ==
    ASSUME Server!TypeOK, Served, NEW j \in Jobs, ~Alive(j),
           phase[j] \notin {"none", "queued"}, phase[j] = "working" => current = j
    PROVE  phase[j] \in Beyond
<1>1. phase[j] = "working" => FALSE
  <2> SUFFICES ASSUME phase[j] = "working" PROVE FALSE
    OBVIOUS
  <2>1. holder = j /\ holder # None
    BY WatchAssumption DEF Served
  <2>2. report[j] \in {"queued", "running"}
    BY DEF Served, Beyond, Server!TypeOK, Server!Reports
  <2> QED
    BY <2>1, <2>2 DEF Alive, Working
<1> QED
  BY <1>1 DEF Server!TypeOK, Server!Phases, Beyond

\* Every step moves the server so.
LEMMA ServerMoves == TypeOK /\ Served /\ Handled /\ [Next]_vars => Moves
<1> SUFFICES ASSUME TypeOK, Served, Handled, Next PROVE Moves
  BY DEF Moves, vars, server
<1>0. Server!TypeOK
  BY DEF TypeOK
<1>1. ASSUME Submit PROVE Moves
  <2>1. \A j \in Unused : j \in Jobs
    BY DEF Unused
  <2>2. (CHOOSE j \in Unused : TRUE) \in Jobs
    BY <1>1, <2>1 DEF Submit
  <2> QED
    BY <1>1, <2>2 DEF Submit, Moves
<1>2. CASE ServeStart \/ OthersStart
  BY <1>1, <1>2 DEF ServeStart, OthersStart, Moves
<1>3. CASE Tick \/ StartAnswered \/ Reopen
  BY <1>3 DEF Tick, StartAnswered, Reopen, Moves
<1>4. ASSUME NEW f \in Flights,
             Answered(f) \/ LogFetched(f) \/ Attach(f) \/ ReadCurrent(f) \/ AskFails(f)
      PROVE  Moves
  BY <1>4 DEF Answered, LogFetched, Attach, ReadCurrent, AskFails, Moves
<1>5. ASSUME NEW f \in Flights, Reply(f) PROVE Moves
  <2> DEFINE j == flights[f].answer.job
  <2>1. flights[f].answer \in Readings /\ j \in Jobs
    BY <1>5 DEF Reply, Handled, Readings
  <2>2. CASE flights[f].answer.state = "running" /\ ~Alive(j)
    <3>1. phase[j] \notin {"none", "queued"} /\ (phase[j] = "working" => current = j)
      BY <1>5, <2>2 DEF Reply, Handled
    <3>2. phase[j] \in Beyond
      BY <1>0, <2>1, <2>2, <3>1, DeadIsBeyond
    <3>3. Server!Reap(j)
      BY <1>5, <2>2 DEF Reply
    <3> QED
      BY <2>1, <3>2, <3>3 DEF Moves
  <2>3. CASE ~(flights[f].answer.state = "running" /\ ~Alive(j))
    BY <1>5, <2>3 DEF Reply, Moves
  <2> QED
    BY <2>2, <2>3
<1>6. CASE OthersPoll
  <2> PICK j \in Jobs : current = j /\ report[j] = "running" /\ ~Alive(j) /\ Server!Reap(j)
    BY <1>6 DEF OthersPoll
  <2>1. phase[j] \in Beyond
    BY <1>0, DeadIsBeyond DEF Served
  <2> QED
    BY <2>1 DEF Moves
<1>7. CASE Threads \/ CanaryTakes \/ CanaryReleases \/ Restarts
  BY <1>7 DEF Threads, CanaryTakes, CanaryReleases, Restarts, Moves
<1> QED
  BY <1>2, <1>3, <1>4, <1>5, <1>6, <1>7 DEF Next, Flight

\* What the moves of the server keep, of a job that has failed and of one that
\* somebody has read of.
Kept(j) ==
    /\ Failed(j) => Failed(j)'
    /\ report[j] # "absent" => report'[j] # "absent"
    /\ phase[j] \notin {"none", "queued"} =>
          /\ phase'[j] \notin {"none", "queued"}
          /\ phase'[j] = "working" => phase[j] = "working"
          /\ phase'[j] = "working" /\ current = j => current' = j

Promised == Server!TypeOK /\ Served

\* The moves of the server keep its promises, and that.
LEMMA MovesKeep == Promised /\ Moves => Promised' /\ \A j \in Jobs : Kept(j)
<1> SUFFICES ASSUME Promised, Moves
             PROVE  Server!TypeOK' /\ Served' /\ \A j \in Jobs : Kept(j)
  BY DEF Promised
<1> USE DEF Promised, Server!TypeOK, Server!Phases, Server!Reports, Served, Kept, Failed, Beyond,
            Server!Enter, Server!Say, Server!Unpoint
<1>0. None \notin Jobs /\ Outsider \notin Jobs
  BY WatchAssumption
<1>1. CASE UNCHANGED server
  BY <1>1 DEF server
<1>2. ASSUME NEW j \in Jobs, holder = None, Server!Submit(j)
      PROVE  Server!TypeOK' /\ Served' /\ \A i \in Jobs : Kept(i)
  BY <1>0, <1>2 DEF Server!Submit
<1>3. ASSUME NEW j \in Jobs, Server!Acquire(j)
      PROVE  Server!TypeOK' /\ Served' /\ \A i \in Jobs : Kept(i)
  BY <1>0, <1>3 DEF Server!Acquire
<1>4. ASSUME NEW j \in Jobs, Server!Proceed(j)
      PROVE  Server!TypeOK' /\ Served' /\ \A i \in Jobs : Kept(i)
  BY <1>0, <1>4 DEF Server!Proceed
<1>5. ASSUME NEW j \in Jobs, Server!Conclude(j)
      PROVE  Server!TypeOK' /\ Served' /\ \A i \in Jobs : Kept(i)
  BY <1>0, <1>5 DEF Server!Conclude
<1>6. ASSUME NEW j \in Jobs, Server!Clear(j)
      PROVE  Server!TypeOK' /\ Served' /\ \A i \in Jobs : Kept(i)
  BY <1>0, <1>6 DEF Server!Clear
<1>7. ASSUME NEW j \in Jobs, Server!Release(j)
      PROVE  Server!TypeOK' /\ Served' /\ \A i \in Jobs : Kept(i)
  BY <1>0, <1>7 DEF Server!Release
<1>8. ASSUME NEW j \in Jobs, phase[j] \in Beyond, Server!Reap(j)
      PROVE  Server!TypeOK' /\ Served' /\ \A i \in Jobs : Kept(i)
  BY <1>0, <1>8 DEF Server!Reap
<1>9. CASE Server!OutsiderTakes \/ Server!OutsiderReleases
  BY <1>0, <1>9 DEF Server!OutsiderTakes, Server!OutsiderReleases
<1>10. CASE Server!Restart
  BY <1>0, <1>10 DEF Server!Restart
<1> QED
  BY <1>1, <1>2, <1>3, <1>4, <1>5, <1>6, <1>7, <1>8, <1>9, <1>10 DEF Moves, Server!Thread

-----------------------------------------------------------------------------
(***************************************************************************)
(* The page.                                                               *)
(***************************************************************************)
\* Constants are apart from what they mark.
LEMMA Apart == None \notin Jobs /\ "no" \notin Jobs /\ "busy" \notin Jobs /\ MaxEvents \in Nat
  BY WatchAssumption

\* The kinds of values of the page: what may be shown, and a call that begins,
\* ends, is answered or fetches the log.
LEMMA PageValues ==
    /\ None \in Shown
    /\ \A j \in Jobs, r \in Server!Reports :
          r # "absent" => Seen(j, r) \in Shown
    /\ NoFlight \in Calls /\ [NoFlight EXCEPT !.at = "attach"] \in Calls
    /\ \A from \in Callers : [NoFlight EXCEPT !.at = "asked", !.from = from] \in Calls
    /\ \A c \in Calls, answer \in Shown \cup Readings, at \in Ats :
          [c EXCEPT !.answer = answer, !.at = at] \in Calls
    /\ \A c \in Calls, prev \in Jobs \cup {None} :
          [c EXCEPT !.at = "log", !.prev = prev, !.answer = None] \in Calls
<1>1. \A j \in Jobs, r \in Server!Reports : r # "absent" => Seen(j, r) \in Shown
  <2> SUFFICES ASSUME NEW j \in Jobs, NEW r \in Server!Reports, r # "absent"
               PROVE  Seen(j, r) \in Shown
    OBVIOUS
  <2> DEFINE state == IF r \in {"queued", "running"} THEN "active" ELSE r
  <2>1. state \in {"active", "done", "failed"}
    BY DEF Server!Reports
  <2>2. Seen(j, r) = [job |-> j, state |-> state]
    BY DEF Seen
  <2> QED
    BY <2>1, <2>2 DEF Shown
<1>2. None \in Shown /\ None \in Callers
  BY DEF Shown, Callers
<1>3. NoFlight \in Calls /\ [NoFlight EXCEPT !.at = "attach"] \in Calls
  BY <1>2 DEF NoFlight, Calls, Ats
<1>4. \A from \in Callers : [NoFlight EXCEPT !.at = "asked", !.from = from] \in Calls
  BY <1>2 DEF NoFlight, Calls, Ats
<1>5. \A c \in Calls, answer \in Shown \cup Readings, at \in Ats :
          [c EXCEPT !.answer = answer, !.at = at] \in Calls
  BY DEF Calls
<1>6. \A c \in Calls, prev \in Jobs \cup {None} :
          [c EXCEPT !.at = "log", !.prev = prev, !.answer = None] \in Calls
  BY <1>2 DEF Calls, Ats
<1> QED
  BY <1>1, <1>2, <1>3, <1>4, <1>5, <1>6

\* Who was active before is a job, and what was active is shown as a job.
LEMMA ShownParts ==
    ASSUME TypeOK, shown # None
    PROVE  shown.job \in Jobs /\ shown.state \in {"active", "done", "failed"}
  BY DEF TypeOK, Shown

\* A refresh that ends leaves the page well typed.
LEMMA EndsTyped ==
    ASSUME TypeOK, NEW f \in Flights, NEW prev \in Jobs \cup {None}, NEW now \in Shown,
           Ends(f, prev, now)
    PROVE  /\ flights' \in [Flights -> Calls]
           /\ announced' \in Outcomes \cup {None}
           /\ timer' \in BOOLEAN /\ crossed' \in BOOLEAN
<1>1. flights' \in [Flights -> Calls]
  BY PageValues DEF Ends, TypeOK
<1>2. announced' \in Outcomes \cup {None}
  <2>1. now # None => now.job \in Jobs
    BY DEF Shown
  <2>2. announced \in Outcomes \cup {None}
    BY DEF TypeOK
  <2> QED
    BY <2>1, <2>2 DEF Ends, Announce, Outcomes
<1>3. timer' \in BOOLEAN /\ crossed' \in BOOLEAN
  BY DEF Ends, StartPolling, StopPolling, TypeOK
<1> QED
  BY <1>1, <1>2, <1>3

\* A request that is sent leaves the calls well typed.
LEMMA AskTyped ==
    ASSUME TypeOK, NEW from \in Callers, Ask(from)
    PROVE  flights' \in [Flights -> Calls] /\ events' \in 0 .. MaxEvents
<1>1. flights' \in [Flights -> Calls]
  BY PageValues DEF Ask, TypeOK
<1>2. events' \in 0 .. MaxEvents
  BY Apart DEF Ask, Event, TypeOK
<1> QED
  BY <1>1, <1>2

\* The bound on events is kept.
LEMMA EventsStep == IInv /\ [Next]_vars => events' \in 0 .. MaxEvents
<1> SUFFICES ASSUME TypeOK, Next PROVE events' \in 0 .. MaxEvents
  BY DEF IInv, TypeOK, vars
<1>1. UNCHANGED events \/ Event => events' \in 0 .. MaxEvents
  BY Apart DEF TypeOK, Event
<1>2. UNCHANGED events \/ Event
  BY DEF Next, Flight, Tick, Ask, ServeStart, StartAnswered, Reopen, Answered, LogFetched,
     AskFails, Attach, ReadCurrent, Reply, Threads, OthersPoll, OthersStart, CanaryTakes,
     CanaryReleases, Restarts, page
<1> QED
  BY <1>1, <1>2

\* The calls keep their types.
LEMMA FlightsStep == IInv /\ [Next]_vars => flights' \in [Flights -> Calls]
<1> SUFFICES ASSUME IInv, Next PROVE flights' \in [Flights -> Calls]
  BY DEF IInv, TypeOK, vars, page
<1>0. TypeOK /\ Promised /\ Served /\ Handled /\ flights \in [Flights -> Calls]
  BY DEF IInv, TypeOK, Promised
<1>00. None \in Shown /\ shown \in Shown /\ {"poll", "busy", "load"} \subseteq Callers
  BY <1>0, PageValues DEF TypeOK, Callers
<1>1. CASE UNCHANGED flights
  BY <1>0, <1>1
<1>2. CASE Tick
  BY <1>0, <1>00, <1>2, AskTyped DEF Tick
<1>3. CASE StartAnswered
  BY <1>0, <1>00, <1>3, AskTyped DEF StartAnswered
<1>4. CASE Reopen
  <2>1. [NoFlight EXCEPT !.at = "asked", !.from = "load"] \in Calls /\ NoFlight \in Calls
    BY <1>00, PageValues
  <2> QED
    BY <1>4, <2>1 DEF Reopen, Loading
<1>5. ASSUME NEW f \in Flights, Answered(f) PROVE flights' \in [Flights -> Calls]
  <2> DEFINE prev == IF Active(shown) THEN shown.job ELSE None
  <2>1. prev \in Jobs \cup {None}
    BY <1>0, ShownParts DEF Active
  <2>2. CASE shown' = None
    <3>1. Ends(f, prev, None)
      BY <1>5, <2>2 DEF Answered
    <3> QED
      BY <1>0, <1>00, <2>1, <3>1, EndsTyped
  <2>3. CASE shown' # None
    <3>1. flights' = [flights EXCEPT ![f] =
              [@ EXCEPT !.at = "log", !.prev = prev, !.answer = None]]
      BY <1>5, <2>3 DEF Answered
    <3>2. [flights[f] EXCEPT !.at = "log", !.prev = prev, !.answer = None] \in Calls
      BY <1>0, <2>1, PageValues
    <3> QED
      BY <1>0, <3>1, <3>2
  <2> QED
    BY <2>2, <2>3
<1>6. ASSUME NEW f \in Flights, LogFetched(f) \/ AskFails(f) PROVE flights' \in [Flights -> Calls]
  <2>1. flights[f].prev \in Jobs \cup {None}
    BY <1>0 DEF Calls
  <2> QED
    BY <1>0, <1>00, <1>6, <2>1, EndsTyped DEF LogFetched, AskFails
<1>7. ASSUME NEW f \in Flights, Attach(f) PROVE flights' \in [Flights -> Calls]
  BY <1>0, <1>7, PageValues DEF Attach
<1>8. ASSUME NEW f \in Flights, ReadCurrent(f) PROVE flights' \in [Flights -> Calls]
  <2> DEFINE job == IF current # None /\ Working(current)
                    THEN [job |-> current, state |-> report[current]] ELSE None
             at == IF job = None THEN "answered" ELSE "read"
  <2>1. job \in Shown \cup Readings
    BY <1>0, <1>00 DEF TypeOK, Server!TypeOK, Working, Readings
  <2>2. at \in Ats
    BY DEF Ats
  <2>3. flights' = [flights EXCEPT ![f] = [flights[f] EXCEPT !.answer = job, !.at = at]]
    BY <1>0, <1>8 DEF ReadCurrent
  <2>4. [flights[f] EXCEPT !.answer = job, !.at = at] \in Calls
    BY <1>0, <2>1, <2>2, PageValues
  <2> QED
    BY <1>0, <2>3, <2>4
<1>9. ASSUME NEW f \in Flights, Reply(f) PROVE flights' \in [Flights -> Calls]
  <2> DEFINE j == flights[f].answer.job
  <2>1. j \in Jobs /\ report[j] # "absent"
    BY <1>0, <1>9 DEF Reply, Handled, Readings
  <2>2. Server!TypeOK' /\ Kept(j)
    BY <1>0, <2>1, ServerMoves, MovesKeep DEF Promised
  <2>3. Seen(j, report'[j]) \in Shown
    BY <2>1, <2>2, PageValues DEF Server!TypeOK, Kept
  <2>4. flights' = [flights EXCEPT ![f] =
            [flights[f] EXCEPT !.answer = Seen(j, report'[j]), !.at = "answered"]]
    BY <1>0, <1>9 DEF Reply
  <2>5. [flights[f] EXCEPT !.answer = Seen(j, report'[j]), !.at = "answered"] \in Calls
    BY <1>0, <2>3, PageValues DEF Ats
  <2> QED
    BY <1>0, <2>4, <2>5
<1>10. CASE Restarts
  BY <1>0, <1>00, <1>1, <1>10, EndsTyped DEF Restarts
<1>11. CASE ServeStart \/ Threads \/ OthersPoll \/ OthersStart \/ CanaryTakes \/ CanaryReleases
  BY <1>1, <1>11 DEF ServeStart, Threads, OthersPoll, OthersStart, CanaryTakes, CanaryReleases, page
<1> QED
  BY <1>2, <1>3, <1>4, <1>5, <1>6, <1>7, <1>8, <1>9, <1>10, <1>11 DEF Next, Flight

\* The page keeps its types.
LEMMA TypeStep == IInv /\ [Next]_vars => TypeOK'
<1> SUFFICES ASSUME IInv, Next PROVE TypeOK'
  BY DEF IInv, TypeOK, vars, server, page, Server!TypeOK
<1>0. TypeOK /\ Promised /\ Served /\ Handled /\ Final
  BY DEF IInv, TypeOK, Promised
<1>1. Server!TypeOK'
  BY <1>0, ServerMoves, MovesKeep DEF Promised
<1>2. events' \in 0 .. MaxEvents /\ flights' \in [Flights -> Calls]
  BY EventsStep, FlightsStep
<1>3. None \in Shown /\ shown \in Shown
  BY <1>0, PageValues DEF TypeOK
<1> DEFINE Kinds == /\ shown' \in Shown /\ timer' \in BOOLEAN
                    /\ start' \in {"no", "busy"} \cup Jobs
                    /\ announced' \in Outcomes \cup {None}
                    /\ crossed' \in BOOLEAN
<1>4. ASSUME UNCHANGED <<shown, timer, start, announced, crossed>> PROVE Kinds
  BY <1>0, <1>4 DEF TypeOK
<1>5. ASSUME StartAnswered PROVE Kinds
  <2>1. start \in Jobs => Seen(start, "queued") \in Shown
    BY PageValues DEF Server!Reports
  <2> QED
    BY <1>0, <1>5, <2>1 DEF StartAnswered, StartPolling, TypeOK
<1>6. ASSUME ServeStart PROVE Kinds
  <2>1. Submit => current' \in Jobs
    <3>1. \A j \in Unused : j \in Jobs
      BY DEF Unused
    <3> QED
      BY <3>1 DEF Submit, Server!Submit
  <2> QED
    BY <1>0, <1>6, <2>1 DEF ServeStart, TypeOK
<1>7. ASSUME Reopen PROVE Kinds
  BY <1>3, <1>7 DEF Reopen
<1>8. ASSUME NEW f \in Flights, Answered(f) PROVE Kinds
  <2> DEFINE prev == IF Active(shown) THEN shown.job ELSE None
  <2>1. prev \in Jobs \cup {None}
    BY <1>0, ShownParts DEF Active
  <2>2. shown' \in Shown
    BY <1>0, <1>8 DEF Answered, Final
  <2>3. CASE shown' = None
    <3>1. Ends(f, prev, None)
      BY <1>8, <2>3 DEF Answered
    <3> QED
      BY <1>0, <1>3, <1>8, <2>1, <2>2, <3>1, EndsTyped DEF Answered, TypeOK
  <2>4. CASE shown' # None
    BY <1>0, <1>8, <2>2, <2>4 DEF Answered, TypeOK
  <2> QED
    BY <2>3, <2>4
<1>9. ASSUME NEW f \in Flights, LogFetched(f) \/ AskFails(f) PROVE Kinds
  <2>1. flights[f].prev \in Jobs \cup {None}
    BY <1>0 DEF Calls, TypeOK
  <2> QED
    BY <1>0, <1>3, <1>9, <2>1, EndsTyped DEF LogFetched, AskFails, TypeOK
<1>10. ASSUME NEW f \in Flights, Attach(f) PROVE Kinds
  BY <1>0, <1>10 DEF Attach, StartPolling, TypeOK
<1>11. ASSUME Restarts PROVE Kinds
  BY <1>0, <1>3, <1>11, EndsTyped DEF Restarts, TypeOK
<1>12. ASSUME Tick \/ Threads \/ OthersPoll \/ OthersStart \/ CanaryTakes \/ CanaryReleases
       PROVE  Kinds
  BY <1>4, <1>12 DEF Tick, Threads, OthersPoll, OthersStart, CanaryTakes, CanaryReleases, page
<1>13. ASSUME NEW f \in Flights, ReadCurrent(f) \/ Reply(f) PROVE Kinds
  BY <1>4, <1>13 DEF ReadCurrent, Reply
<1>14. Kinds
  BY <1>5, <1>6, <1>7, <1>8, <1>9, <1>10, <1>11, <1>12, <1>13 DEF Next, Flight
<1> QED
  BY <1>1, <1>2, <1>14 DEF TypeOK

\* Initially, nothing has been asked for.
LEMMA InitInv == Init => IInv
<1> SUFFICES ASSUME Init PROVE IInv
  OBVIOUS
<1>1. TypeOK
  <2>1. Server!TypeOK
    BY DEF Init, Server!Init, Server!TypeOK, Server!Phases, Server!Reports
  <2>2. None \in Shown /\ flights \in [Flights -> Calls]
    BY PageValues DEF Init
  <2>3. events \in 0 .. MaxEvents
    BY Apart DEF Init
  <2> QED
    BY <2>1, <2>2, <2>3 DEF Init, TypeOK
<1>2. Served
  BY Apart DEF Init, Server!Init, Served
<1>3. Handled /\ Followed
  BY DEF Init, Handled, Followed, Pending, NoFlight
<1>4. Final /\ ActiveIsPolled
  BY DEF Init, Final, Truthful, ActiveIsPolled, Active, NoFlight
<1> QED
  BY <1>1, <1>2, <1>3, <1>4 DEF IInv

-----------------------------------------------------------------------------
(***************************************************************************)
(* What the page is told.                                                  *)
(***************************************************************************)
\* What a call may become: it stays, is at the beginning or the end, fetches
\* the log, holds what a handler has read just now, or is answered.
BeginsOrEnds(g) == flights'[g].at \in {"none", "asked", "attach", "log"}
ReadsNow(g) ==
    /\ current \in Jobs /\ Working(current)
    /\ flights'[g].answer = [job |-> current, state |-> report[current]]
    /\ UNCHANGED server
AnswersNow(g) ==
    \/ flights'[g].answer = None
    \/ \E j \in Jobs : report'[j] # "absent" /\ flights'[g].answer = Seen(j, report'[j])
CallMoves(g) ==
    \/ flights'[g] = flights[g] \/ BeginsOrEnds(g)
    \/ flights'[g].at = "read" /\ ReadsNow(g)
    \/ flights'[g].at = "answered" /\ AnswersNow(g)

\* A refresh that ends concerns only its own call.
LEMMA EndsMoves ==
    ASSUME TypeOK, NEW f \in Flights, NEW prev, NEW now, Ends(f, prev, now)
    PROVE  /\ \A g \in Flights : g # f => flights'[g] = flights[g]
           /\ flights'[f].at = IF flights[f].from = "load" THEN "attach" ELSE "none"
  BY DEF Ends, TypeOK, Calls, NoFlight

\* A request that is sent takes a free call.
LEMMA AskMoves ==
    ASSUME TypeOK, NEW from, Ask(from)
    PROVE  \E f \in Flights :
              /\ \A g \in Flights : g # f => flights'[g] = flights[g]
              /\ flights'[f] = [NoFlight EXCEPT !.at = "asked", !.from = from]
  BY DEF Ask, Free, TypeOK

\* Calls move so in every step.
LEMMA CallsMove == IInv /\ [Next]_vars => \A g \in Flights : CallMoves(g)
<1> SUFFICES ASSUME IInv, Next, NEW g \in Flights PROVE CallMoves(g)
  BY DEF CallMoves, vars, page
<1>0. TypeOK /\ Handled /\ Promised /\ Served /\ flights \in [Flights -> Calls]
  BY DEF IInv, TypeOK, Promised
<1>1. ASSUME UNCHANGED flights PROVE CallMoves(g)
  BY <1>1 DEF CallMoves
<1>2. ASSUME Tick \/ StartAnswered PROVE CallMoves(g)
  BY <1>0, <1>1, <1>2, AskMoves DEF Tick, StartAnswered, NoFlight, CallMoves, BeginsOrEnds
<1>3. ASSUME Reopen PROVE CallMoves(g)
  BY <1>3 DEF Reopen, Loading, NoFlight, CallMoves, BeginsOrEnds
<1>4. ASSUME NEW f \in Flights, NEW prev, NEW now, Ends(f, prev, now) PROVE CallMoves(g)
  BY <1>0, <1>4, EndsMoves DEF CallMoves, BeginsOrEnds
<1>5. ASSUME NEW f \in Flights, Answered(f) PROVE CallMoves(g)
  <2>1. CASE shown' = None
    BY <1>4, <1>5, <2>1 DEF Answered
  <2>2. CASE shown' # None
    BY <1>0, <1>5, <2>2 DEF Answered, CallMoves, BeginsOrEnds, Calls
  <2> QED
    BY <2>1, <2>2
<1>6. ASSUME NEW f \in Flights, LogFetched(f) \/ AskFails(f) PROVE CallMoves(g)
  BY <1>4, <1>6 DEF LogFetched, AskFails
<1>7. ASSUME NEW f \in Flights, Attach(f) PROVE CallMoves(g)
  BY <1>0, <1>7 DEF Attach, NoFlight, CallMoves, BeginsOrEnds
<1>8. ASSUME NEW f \in Flights, ReadCurrent(f) PROVE CallMoves(g)
  <2> DEFINE job == IF current # None /\ Working(current)
                    THEN [job |-> current, state |-> report[current]] ELSE None
  <2>1. CASE g # f
    BY <1>0, <1>8, <2>1 DEF ReadCurrent, CallMoves
  <2>2. CASE g = f
    <3>1. flights'[g].answer = job /\ flights'[g].at = IF job = None THEN "answered" ELSE "read"
      BY <1>0, <1>8, <2>2 DEF ReadCurrent, Calls
    <3>2. job # None => current \in Jobs /\ Working(current)
                        /\ job = [job |-> current, state |-> report[current]]
      BY <1>0 DEF TypeOK, Server!TypeOK
    <3>3. UNCHANGED server
      BY <1>8 DEF ReadCurrent
    <3> QED
      BY <3>1, <3>2, <3>3 DEF CallMoves, ReadsNow, AnswersNow
  <2> QED
    BY <2>1, <2>2
<1>9. ASSUME NEW f \in Flights, Reply(f) PROVE CallMoves(g)
  <2> DEFINE j == flights[f].answer.job
  <2>1. j \in Jobs /\ report[j] # "absent"
    BY <1>0, <1>9 DEF Reply, Handled, Readings
  <2>2. report'[j] # "absent"
    BY <1>0, <2>1, ServerMoves, MovesKeep DEF Kept
  <2>3. CASE g # f
    BY <1>0, <1>9, <2>3 DEF Reply, CallMoves
  <2>4. CASE g = f
    <3>1. flights'[g].answer = Seen(j, report'[j]) /\ flights'[g].at = "answered"
      BY <1>0, <1>9, <2>4 DEF Reply, Calls
    <3> QED
      BY <2>1, <2>2, <3>1 DEF CallMoves, AnswersNow
  <2> QED
    BY <2>3, <2>4
<1>10. ASSUME Restarts PROVE CallMoves(g)
  BY <1>1, <1>4, <1>10 DEF Restarts
<1>11. ASSUME ServeStart \/ Threads \/ OthersPoll \/ OthersStart \/ CanaryTakes \/ CanaryReleases
       PROVE  CallMoves(g)
  BY <1>1, <1>11 DEF ServeStart, Threads, OthersPoll, OthersStart, CanaryTakes, CanaryReleases, page
<1> QED
  BY <1>2, <1>3, <1>5, <1>6, <1>7, <1>8, <1>9, <1>10, <1>11 DEF Next, Flight

\* What a handler has read stays true enough while it holds it.
LEMMA HandledStep == IInv /\ [Next]_vars => Handled'
<1> SUFFICES ASSUME IInv, Moves, NEW g \in Flights, CallMoves(g), flights'[g].at = "read"
             PROVE  /\ flights'[g].answer \in Readings
                    /\ report'[flights'[g].answer.job] # "absent"
                    /\ flights'[g].answer.state = "running" =>
                          /\ phase'[flights'[g].answer.job] \notin {"none", "queued"}
                          /\ phase'[flights'[g].answer.job] = "working" =>
                                current' = flights'[g].answer.job
  BY CallsMove, ServerMoves DEF IInv, Handled
<1>0. Promised /\ Served /\ Handled /\ \A j \in Jobs : Kept(j)
  BY MovesKeep DEF IInv, TypeOK, Promised
<1>1. CASE flights'[g] = flights[g]
  <2> DEFINE j == flights[g].answer.job
  <2>1. /\ flights[g].answer \in Readings /\ j \in Jobs /\ report[j] # "absent"
        /\ flights[g].answer.state = "running" =>
              phase[j] \notin {"none", "queued"} /\ (phase[j] = "working" => current = j)
    BY <1>0, <1>1 DEF Handled, Readings
  <2> QED
    BY <1>0, <1>1, <2>1 DEF Kept
<1>2. CASE ReadsNow(g)
  BY <1>0, <1>2 DEF ReadsNow, Working, Readings, Served, server, Promised
<1> QED
  BY <1>1, <1>2 DEF CallMoves, BeginsOrEnds

\* An announcement of failure names a job that has failed.
Announced == announced # None /\ announced.as = "failed" => Failed(announced.job)

\* A refresh that ends announces a failure only of the job it sees as failed.
LEMMA EndsTruthful ==
    ASSUME Announced, NEW f, NEW prev, NEW now, Truthful(now), Ends(f, prev, now),
           \A j \in Jobs : Kept(j), now # None => now.job \in Jobs,
           announced # None => announced.job \in Jobs
    PROVE  Announced'
<1>1. \/ announced' = announced
      \/ announced'.as = "success"
      \/ now # None /\ now.state = "failed" /\ announced' = [job |-> now.job, as |-> "failed"]
  BY DEF Ends, Announce
<1>2. announced # None /\ announced.as = "failed" => Failed(announced.job) /\ Kept(announced.job)
  BY DEF Announced
<1>3. now # None /\ now.state = "failed" => Failed(now.job) /\ (Failed(now.job) => Failed(now.job)')
  BY DEF Truthful, Kept
<1> QED
  BY <1>1, <1>2, <1>3 DEF Announced, Kept, Failed

\* What fails has failed for good, by the time the page learns of it.
LEMMA FinalStep == IInv /\ [Next]_vars => Final'
<1> SUFFICES ASSUME IInv, [Next]_vars PROVE Final'
  OBVIOUS
<1>0. /\ TypeOK /\ Promised /\ Served /\ Handled /\ Final /\ Announced
      /\ \A j \in Jobs : Kept(j)
  BY ServerMoves, MovesKeep DEF IInv, TypeOK, Promised, Final, Announced
<1>1. TypeOK' /\ Promised' /\ Served'
  BY <1>0, TypeStep, ServerMoves, MovesKeep DEF Promised
<1>2. \A j \in Jobs : report[j] = "failed" => Failed(j)
  BY <1>0 DEF Served, Failed
<1>3. \A j \in Jobs : report'[j] = "failed" => Failed(j)'
  BY <1>1 DEF Served, Failed
<1>4. ASSUME NEW job \in Shown, Truthful(job)
      PROVE  job # None /\ job.state = "failed" => Failed(job.job)'
  BY <1>0, <1>4 DEF Truthful, Kept, Shown
<1>5. \A g \in Flights : flights'[g].at = "answered" =>
          flights'[g].answer \in Shown /\ Truthful(flights[g].answer)'
  <2> SUFFICES ASSUME NEW g \in Flights, flights'[g].at = "answered"
               PROVE  flights'[g].answer \in Shown /\ Truthful(flights[g].answer)'
    OBVIOUS
  <2>1. CASE flights'[g] = flights[g]
    <3>1. flights[g].answer \in Shown /\ Truthful(flights[g].answer)
      BY <1>0, <2>1 DEF Final
    <3> QED
      BY <1>4, <2>1, <3>1 DEF Truthful
  <2>2. CASE flights'[g].answer = None
    BY <2>2, PageValues DEF Truthful
  <2>3. ASSUME NEW j \in Jobs, report'[j] # "absent", flights'[g].answer = Seen(j, report'[j])
        PROVE  flights'[g].answer \in Shown /\ Truthful(flights[g].answer)'
    <3>1. flights'[g].answer \in Shown
      BY <1>1, <2>3, PageValues DEF TypeOK, Server!TypeOK
    <3>2. flights'[g].answer.job = j
      BY <2>3 DEF Seen
    <3>3. flights'[g].answer.state = "failed" => report'[j] = "failed"
      BY <2>3 DEF Seen
    <3> QED
      BY <1>3, <3>1, <3>2, <3>3 DEF Truthful
  <2> QED
    BY <2>1, <2>2, <2>3, CallsMove DEF CallMoves, BeginsOrEnds, AnswersNow
<1>6. Truthful(shown)'
  <2>1. CASE shown' = shown
    BY <1>0, <1>4, <2>1 DEF TypeOK, Final, Truthful
  <2>2. CASE shown' = None
    BY <2>2 DEF Truthful
  <2>3. ASSUME NEW f \in Flights, Answered(f) PROVE Truthful(shown)'
    <3>1. flights[f].answer \in Shown /\ Truthful(flights[f].answer) /\ shown' = flights[f].answer
      BY <1>0, <2>3 DEF Answered, Final
    <3> QED
      BY <1>4, <3>1 DEF Truthful
  <2>4. CASE shown' = Seen(start, "queued")
    BY <2>4 DEF Truthful, Seen
  <2>5. \/ shown' = shown \/ shown' = None \/ shown' = Seen(start, "queued")
        \/ \E f \in Flights : Answered(f)
    BY DEF Next, vars, Flight, Tick, ServeStart, StartAnswered, Reopen, LogFetched, AskFails, Attach,
       ReadCurrent, Reply, Threads, OthersPoll, OthersStart, CanaryTakes, CanaryReleases,
       Restarts, page
  <2> QED
    BY <2>1, <2>2, <2>3, <2>4, <2>5
<1>7. Announced'
  <2>1. announced # None => announced.job \in Jobs
    BY <1>0 DEF TypeOK, Outcomes
  <2>2. (shown # None => shown.job \in Jobs) /\ Truthful(shown) /\ Truthful(None)
    BY <1>0, ShownParts DEF Final, Truthful
  <2>3. ASSUME announced' = announced PROVE Announced'
    BY <1>0, <2>1, <2>3 DEF Announced, Kept
  <2>4. ASSUME NEW f \in Flights, NEW prev, Ends(f, prev, shown) PROVE Announced'
    BY <1>0, <2>1, <2>2, <2>4, EndsTruthful
  <2>5. ASSUME NEW f \in Flights, NEW prev, Ends(f, prev, None) PROVE Announced'
    BY <1>0, <2>1, <2>2, <2>5, EndsTruthful
  <2>6. ASSUME NEW f \in Flights, Flight(f) \/ AskFails(f) PROVE Announced'
    BY <2>3, <2>4, <2>5, <2>6
    DEF Flight, Answered, LogFetched, AskFails, Attach, ReadCurrent, Reply
  <2>7. ASSUME Restarts PROVE Announced'
    BY <2>3, <2>4, <2>7 DEF Restarts
  <2>8. ASSUME Reopen PROVE Announced'
    BY <2>8 DEF Reopen, Announced
  <2>9. ASSUME \/ Tick \/ ServeStart \/ StartAnswered \/ Threads \/ OthersPoll \/ OthersStart
               \/ CanaryTakes \/ CanaryReleases \/ UNCHANGED vars
        PROVE  Announced'
    BY <2>3, <2>9 DEF Tick, ServeStart, StartAnswered, Threads, OthersPoll, OthersStart,
       CanaryTakes, CanaryReleases, page, vars
  <2> QED
    BY <2>6, <2>7, <2>8, <2>9 DEF Next
<1> QED
  BY <1>5, <1>6, <1>7 DEF Final, Announced

-----------------------------------------------------------------------------
(***************************************************************************)
(* Who follows up.                                                         *)
(***************************************************************************)
Polled == timer \/ crossed
Due(g) == flights[g].at \in Pending /\ flights[g].from \notin {"load", "busy"}

\* A refresh that ends stops the timer only when nothing active is shown, and
\* marks the others that are under way as crossed.
LEMMA EndsFollowed ==
    ASSUME TypeOK, Followed, NEW f \in Flights, NEW prev, NEW now, Ends(f, prev, now)
    PROVE  /\ Followed'
           /\ Active(now) /\ Polled => Polled'
           /\ Active(now) => \/ Polled' \/ flights'[f].at = "attach"
                             \/ flights[f].from \notin {"load", "busy"}
<1>1. /\ \A g \in Flights : g # f => flights'[g] = flights[g]
      /\ flights'[f].at \notin Pending
  BY EndsMoves DEF Pending
<1>2. \/ StopPolling(f) /\ ~Active(now)
      \/ StartPolling
      \/ UNCHANGED <<timer, crossed>>
         /\ (Active(now) /\ flights[f].from = "load" => flights'[f].at = "attach")
         /\ (Active(now) => flights[f].from # "busy")
  BY EndsMoves DEF Ends
<1>3. Followed'
  <2> SUFFICES ASSUME NEW g \in Flights, Due(g)' PROVE Polled'
    BY DEF Followed, Due, Polled
  <2>1. g # f /\ Due(g) /\ Polled
    BY <1>1 DEF Due, Followed, Polled
  <2>2. CASE StopPolling(f)
    BY <2>1, <2>2 DEF StopPolling, Due, Pending, Polled
  <2>3. CASE StartPolling
    BY <2>3 DEF StartPolling, Polled
  <2>4. CASE UNCHANGED <<timer, crossed>>
    BY <2>1, <2>4 DEF Polled
  <2> QED
    BY <1>2, <2>2, <2>3, <2>4
<1> QED
  BY <1>2, <1>3 DEF StartPolling, Polled

\* A request that is sent by a page with its timer, or for a busy server, is
\* followed up, and takes no other's place.
LEMMA AskFollowed ==
    ASSUME TypeOK, Followed, NEW from, Ask(from), from = "busy" \/ timer,
           UNCHANGED <<timer, crossed>>
    PROVE  Followed'
<1> PICK f \in Flights :
        /\ \A g \in Flights : g # f => flights'[g] = flights[g]
        /\ flights'[f] = [NoFlight EXCEPT !.at = "asked", !.from = from]
  BY AskMoves
<1> QED
  BY DEF Followed, NoFlight

\* Every refresh is followed up.
LEMMA FollowedStep == IInv /\ [Next]_vars => Followed'
<1> SUFFICES ASSUME IInv, Next PROVE Followed'
  BY DEF IInv, Followed, vars, page
<1>0. TypeOK /\ Followed /\ flights \in [Flights -> Calls]
  BY DEF IInv, TypeOK
<1>1. ASSUME UNCHANGED <<flights, timer, crossed>> PROVE Followed'
  BY <1>0, <1>1 DEF Followed
<1>2. ASSUME Tick PROVE Followed'
  BY <1>0, <1>2, AskFollowed DEF Tick
<1>3. ASSUME StartAnswered PROVE Followed'
  <2>1. CASE StartPolling
    BY <2>1 DEF StartPolling, Followed
  <2>2. CASE Ask("busy") /\ UNCHANGED <<timer, crossed>>
    BY <1>0, <2>2, AskFollowed
  <2> QED
    BY <1>3, <2>1, <2>2 DEF StartAnswered
<1>4. ASSUME Reopen PROVE Followed'
  BY <1>4 DEF Reopen, Loading, NoFlight, Followed, Pending
<1>5. ASSUME NEW f \in Flights, NEW prev, NEW now, Ends(f, prev, now) PROVE Followed'
  BY <1>0, <1>5, EndsFollowed
<1>6. ASSUME NEW f \in Flights, LogFetched(f) \/ AskFails(f) PROVE Followed'
  BY <1>5, <1>6 DEF LogFetched, AskFails
<1>7. ASSUME NEW f \in Flights, Answered(f) PROVE Followed'
  <2>1. CASE shown' = None
    BY <1>5, <1>7, <2>1 DEF Answered
  <2>2. CASE shown' # None
    <3>1. /\ UNCHANGED <<timer, crossed>> /\ flights'[f].at = "log"
          /\ \A g \in Flights : g # f => flights'[g] = flights[g]
      BY <1>0, <1>7, <2>2 DEF Answered, Calls
    <3> QED
      BY <1>0, <3>1 DEF Followed, Pending
  <2> QED
    BY <2>1, <2>2
<1>8. ASSUME NEW f \in Flights, Attach(f) PROVE Followed'
  BY <1>0, <1>8 DEF Attach, StartPolling, NoFlight, Followed, Pending
<1>9. ASSUME NEW f \in Flights, ReadCurrent(f) \/ Reply(f) PROVE Followed'
  <2>1. /\ UNCHANGED <<timer, crossed>> /\ flights[f].at \in Pending
        /\ \A g \in Flights : flights'[g].from = flights[g].from
        /\ \A g \in Flights : g # f => flights'[g] = flights[g]
    BY <1>0, <1>9 DEF ReadCurrent, Reply, Pending, Calls
  <2> QED
    BY <1>0, <2>1 DEF Followed
<1>10. ASSUME Restarts PROVE Followed'
  BY <1>1, <1>5, <1>10 DEF Restarts
<1>11. ASSUME ServeStart \/ Threads \/ OthersPoll \/ OthersStart \/ CanaryTakes \/ CanaryReleases
       PROVE  Followed'
  BY <1>1, <1>11 DEF ServeStart, Threads, OthersPoll, OthersStart, CanaryTakes, CanaryReleases, page
<1> QED
  BY <1>2, <1>3, <1>4, <1>6, <1>7, <1>8, <1>9, <1>10, <1>11 DEF Next, Flight

\* The refreshes that are followed up whatever the timer does.
Attended == \E f \in Flights : flights[f].from \in {"load", "busy"} \/ flights[f].at = "attach"

\* A spinner is polled for, or attended to, in every step.
LEMMA PolledStep == IInv /\ [Next]_vars => ActiveIsPolled'
<1> SUFFICES ASSUME IInv, Next, Active(shown)' PROVE Polled' \/ Attended'
  BY DEF IInv, ActiveIsPolled, Active, Polled, Attended, vars, page
<1>0. TypeOK /\ Followed /\ flights \in [Flights -> Calls] /\ (Active(shown) => Polled \/ Attended)
  BY DEF IInv, TypeOK, ActiveIsPolled, Polled, Attended
<1>1. ASSUME UNCHANGED <<shown, flights, timer, crossed>> PROVE Polled' \/ Attended'
  BY <1>0, <1>1 DEF Active, Polled, Attended
<1>2. ASSUME Tick PROVE Polled'
  BY <1>2 DEF Tick, Polled
<1>3. ASSUME StartAnswered PROVE Polled' \/ Attended'
  <2>1. CASE StartPolling
    BY <2>1 DEF StartPolling, Polled
  <2>2. CASE Ask("busy")
    <3> PICK f \in Flights : flights'[f] = [NoFlight EXCEPT !.at = "asked", !.from = "busy"]
      BY <1>0, <2>2, AskMoves
    <3>1. flights'[f].from = "busy"
      BY DEF NoFlight
    <3> QED
      BY <3>1 DEF Attended
  <2> QED
    BY <1>3, <2>1, <2>2 DEF StartAnswered
<1>4. ASSUME Reopen PROVE Polled' \/ Attended'
  BY <1>4 DEF Reopen, Active
<1>5. ASSUME NEW f \in Flights, flights[f].at # "attach", NEW prev, Ends(f, prev, shown),
             UNCHANGED shown
      PROVE  Polled' \/ Attended'
  <2>1. Active(shown) /\ (Polled \/ Attended)
    BY <1>0, <1>5 DEF Active
  <2>2. /\ Polled => Polled'
        /\ Polled' \/ flights'[f].at = "attach" \/ flights[f].from \notin {"load", "busy"}
    BY <1>0, <1>5, <2>1, EndsFollowed
  <2>3. \A g \in Flights : g # f => flights'[g] = flights[g]
    BY <1>0, <1>5, EndsMoves
  <2>4. Attended => Polled' \/ Attended'
    BY <1>5, <2>2, <2>3 DEF Attended
  <2> QED
    BY <2>1, <2>2, <2>4
<1>6. ASSUME NEW f \in Flights, LogFetched(f) \/ AskFails(f) PROVE Polled' \/ Attended'
  BY <1>5, <1>6 DEF LogFetched, AskFails
<1>7. ASSUME NEW f \in Flights, Answered(f) PROVE Polled' \/ Attended'
  <2>1. shown' # None
    BY DEF Active
  <2>2. /\ UNCHANGED <<timer, crossed>> /\ flights[f].at = "answered"
        /\ flights'[f].from = flights[f].from
    BY <1>0, <1>7, <2>1 DEF Answered, Calls
  <2>3. CASE flights[f].from \in {"load", "busy"}
    BY <2>2, <2>3 DEF Attended
  <2>4. CASE flights[f].from \notin {"load", "busy"}
    BY <1>0, <2>2, <2>4 DEF Followed, Pending, Polled
  <2> QED
    BY <2>3, <2>4
<1>8. ASSUME NEW f \in Flights, Attach(f) PROVE Polled'
  BY <1>8 DEF Attach, StartPolling, Active, Polled
<1>9. ASSUME NEW f \in Flights, ReadCurrent(f) \/ Reply(f) PROVE Polled' \/ Attended'
  <2>1. /\ UNCHANGED <<shown, timer, crossed>> /\ flights[f].at # "attach"
        /\ \A g \in Flights : flights'[g].from = flights[g].from
        /\ \A g \in Flights : g # f => flights'[g] = flights[g]
    BY <1>0, <1>9 DEF ReadCurrent, Reply, Calls
  <2> QED
    BY <1>0, <2>1 DEF Active, Polled, Attended
<1>10. ASSUME Restarts PROVE Polled' \/ Attended'
  <2>1. ASSUME NEW f \in Flights, flights[f].at = "read", Ends(f, None, shown)
        PROVE  Polled' \/ Attended'
    BY <1>5, <1>10, <2>1 DEF Restarts
  <2> QED
    BY <1>1, <1>10, <2>1 DEF Restarts
<1>11. ASSUME ServeStart \/ Threads \/ OthersPoll \/ OthersStart \/ CanaryTakes \/ CanaryReleases
       PROVE  Polled' \/ Attended'
  BY <1>1, <1>11 DEF ServeStart, Threads, OthersPoll, OthersStart, CanaryTakes, CanaryReleases, page
<1> QED
  BY <1>2, <1>3, <1>4, <1>6, <1>7, <1>8, <1>9, <1>10, <1>11 DEF Next, Flight

-----------------------------------------------------------------------------
(***************************************************************************)
(* The theorems.                                                           *)
(***************************************************************************)
\* The invariant holds in every reachable state.
THEOREM Invariance == Spec => []IInv
<1>1. IInv /\ [Next]_vars => IInv'
  <2> SUFFICES ASSUME IInv, [Next]_vars PROVE IInv'
    OBVIOUS
  <2>1. Served'
    BY ServerMoves, MovesKeep DEF IInv, TypeOK, Promised
  <2> QED
    BY <2>1, TypeStep, HandledStep, FinalStep, FollowedStep, PolledStep DEF IInv
<1> QED
  BY InitInv, <1>1, PTL DEF Spec

\* Every variable of the page and of the server it polls keeps its type, for
\* any jobs and any number of requests under way.
THEOREM TypeCorrect == Spec => []TypeOK
  BY Invariance, PTL DEF IInv

\* A page with a spinner goes on asking or is about to, in whatever order its
\* requests are answered, until polling stops while one is under way.
THEOREM SpinnerFollowed == Spec => []ActiveIsPolled
  BY Invariance, PTL DEF IInv

\* A job that the page calls failed is on record as failed and stays so,
\* though its thread may have been at work when the page asked.
THEOREM FailureFinal == Spec => []FailureTruthful
<1>1. IInv => FailureTruthful
  BY DEF IInv, Final, Failed, FailureTruthful
<1> QED
  BY Invariance, <1>1, PTL
================================================================================
