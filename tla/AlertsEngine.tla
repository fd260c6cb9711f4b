----------------------------- MODULE AlertsEngine -----------------------------
(***************************************************************************)
(* The alerts engine (homefree_alerts_engine.py): a timer starts a process *)
(* that goes once through the sources that are enabled, compares what each *)
(* reports with the row of the source in a SQLite store, and on a change   *)
(* amends the history and tells the user.  The row, the history and the    *)
(* push are separate transactions: a tick that is killed, or that gets an  *)
(* error from the store, leaves them in disagreement, and the next tick    *)
(* starts from the row.                                                    *)
(*                                                                         *)
(* The admin API writes the same history when the user sends a test push.  *)
(* systemd runs one tick at a time.  An action is one transaction or one   *)
(* request.                                                                *)
(***************************************************************************)
EXTENDS Naturals, Sequences, FiniteSets, Functions

CONSTANTS
    Order,        \* the sources, in the order of the config
    Tiered,       \* those with thresholds: disk-temperature, disk-space, sensors
    Broken,       \* those whose evaluator may raise at any time
    Items,        \* what a tiered source measures: drives, mounts, sensors
    Values,       \* readings of an item
    Counts,       \* what other sources report when they fire
    Warn, Err,    \* thresholds of each item
    Hysteresis,
    Tests,        \* test pushes
    None,
    MaxEvents,    \* bound: rows of the history
    MaxFaults,    \* bound: kills, failed reads and writes, failed pushes
    MaxChanges    \* bound: rebuilds with another config

Sources == Range(Order)

ASSUME AlertsAssumption ==
    /\ Order \in Seq(Sources) /\ IsFiniteSet(Items)
    /\ Tiered \subseteq Sources /\ Broken \subseteq Sources
    /\ Values \subseteq Nat /\ Counts \subseteq Nat /\ None \notin Nat
    /\ Warn \in [Items -> Int] /\ Err \in [Items -> Int] /\ Hysteresis \in Int
    /\ "_test-ntfy" \notin Sources
    /\ MaxEvents \in Nat /\ MaxFaults \in Nat /\ MaxChanges \in Nat

VARIABLES
    \* The deployed config: the sources enabled, whether there is a channel.
    enabled, channel,
    \* The store: alert_state and alert_events.
    state, events,
    \* The tick that runs, and the test pushes under way.
    tick, tests,
    \* The user: severity of each source according to the last push.
    told,
    \* History.  Of a source: the push of the last change did not come; a
    \* tick was cut short between its writes, or misread its row.  The test
    \* pushes that died with their row open.
    lost, torn, killed,
    \* Bounds.
    faults, changes

config == <<enabled, channel, changes>>
store  == <<state, events>>
user   == <<told, lost>>
vars   == <<config, store, tick, tests, user, torn, killed, faults>>

-----------------------------------------------------------------------------
Rank == [clear |-> 0, warn |-> 1, err |-> 2]
Severities == DOMAIN Rank
Firing(sev) == sev # "clear"

NoRow  == [severity |-> "clear", peak |-> None]
NothingRead == [i \in Items |-> None]
NoResult == [severity |-> "clear", value |-> None, readings |-> NothingRead]
NoTick == [at |-> "idle", todo |-> {}, channel |-> FALSE,
           prev |-> NoRow, result |-> NoResult]

Peaks == Values \cup Counts \cup {0, None}
Rows == [severity : Severities, peak : Peaks]
Event == [source : Sources \cup {"_test-ntfy"}, open : BOOLEAN,
          severity : {"warn", "err"}, peak : Peaks \ {None}]

Stages == {"idle", "ready", "evaluated", "history", "peak", "push"}
Readings == [Items -> Values \cup {None}]
Results == [severity : Severities, value : Peaks, readings : Readings]
Ticks == [at : Stages, todo : SUBSET Sources, channel : BOOLEAN, prev : Rows, result : Results]

TypeOK ==
    /\ enabled \subseteq Sources /\ channel \in BOOLEAN
    /\ state \in [Sources -> Rows]
    /\ events \in Seq(Event) /\ Len(events) <= MaxEvents
    /\ tick \in Ticks
    /\ tests \in [Tests -> {"none", "opened"}]
    /\ told \in [Sources -> Severities]
    /\ lost \in [Sources -> BOOLEAN] /\ torn \in [Sources -> BOOLEAN]
    /\ killed \in Nat /\ faults \in 0 .. MaxFaults /\ changes \in 0 .. MaxChanges

Init ==
    /\ enabled = Sources /\ channel = TRUE
    /\ state = [s \in Sources |-> NoRow] /\ events = <<>>
    /\ tick = NoTick /\ tests = [t \in Tests |-> "none"]
    /\ told = [s \in Sources |-> "clear"]
    /\ lost = [s \in Sources |-> FALSE] /\ torn = [s \in Sources |-> FALSE]
    /\ killed = 0 /\ faults = 0 /\ changes = 0

Fault == faults < MaxFaults /\ faults' = faults + 1

-----------------------------------------------------------------------------
(* What a source reports. *)

\* Is some reading at its threshold, give or take a margin?
Reaches(readings, threshold, margin) ==
    \E i \in Items : readings[i] # None /\ readings[i] + margin >= threshold[i]

\* The worst severity of an item.
Tentative(readings) ==
    IF Reaches(readings, Err, 0) THEN "err"
    ELSE IF Reaches(readings, Warn, 0) THEN "warn" ELSE "clear"

\* Mutant: what was err is let down as soon as it is below its threshold.
ApplyHysteresis_ErrDrops(was, tentative, readings) ==
    IF was # "clear" /\ tentative = "clear" /\ Reaches(readings, Warn, Hysteresis)
    THEN "warn" ELSE tentative

\* _apply_hysteresis: up at once, down when no reading is near the threshold.
ApplyHysteresis(was, tentative, readings) ==
    LET fromWarn == IF tentative = "clear" /\ Reaches(readings, Warn, Hysteresis)
                    THEN "warn" ELSE tentative
    IN  CASE Rank[tentative] >= Rank[was] -> tentative
          [] was = "err" /\ Reaches(readings, Err, Hysteresis) -> "err"
          [] OTHER -> fromWarn

Highest(readings) ==
    LET seen == {readings[i] : i \in Items} \ {None}
    IN  CHOOSE v \in seen : \A w \in seen : w <= v

\* The severity is held by the margin alone.  The message of a severity names
\* the worst of the items at a threshold, hot[0], and there is none: the tiered
\* evaluators raise.
Held(was, readings) ==
    Tentative(readings) = "clear" /\ Firing(ApplyHysteresis(was, "clear", readings))

\* evaluate of the tiered sources, when they answer.
Measured(was) ==
    {[severity |-> ApplyHysteresis(was, Tentative(r), r), value |-> Highest(r),
      readings |-> r] : r \in {q \in Readings \ {NothingRead} : ~Held(was, q)}}
\* evaluate of the others.
Binary == {[NoResult EXCEPT !.severity = "warn", !.value = v] : v \in Counts}

\* A source that could not look, or has nothing to look at, says clear.
Evaluations(s, was) ==
    {NoResult} \cup (IF s \in Tiered THEN Measured(was) ELSE Binary)

-----------------------------------------------------------------------------
(* run_source *)

\* The source that comes first in the config, of those still to do.
Current ==
    Order[CHOOSE n \in DOMAIN Order :
            /\ Order[n] \in tick.todo
            /\ \A m \in DOMAIN Order : Order[m] \in tick.todo => n <= m]
InTick(stage) == tick.at = stage

\* On to the next source.
Passed ==
    IF tick.todo = {Current} THEN NoTick
    ELSE [tick EXCEPT !.at = "ready", !.todo = @ \ {Current}, !.prev = NoRow, !.result = NoResult]

\* Mutant: a source that gets milder is told of like one that goes on.
Transition_Quiet(prev, new) ==
    CASE Rank[new] > 0 /\ Rank[prev] = 0 -> "open"
      [] Rank[new] > Rank[prev] /\ Rank[prev] > 0 -> "escalate"
      [] Rank[prev] > 0 /\ Rank[new] > 0 -> "steady"
      [] Rank[new] = 0 /\ Rank[prev] > 0 -> "close"
      [] OTHER -> "idle"
\* Mutant: a change for the worse opens an event.
Transition_Reopens(prev, new) ==
    CASE Rank[new] > Rank[prev] -> "open"
      [] Rank[prev] > Rank[new] /\ Rank[new] > 0 -> "deescalate"
      [] Rank[new] = Rank[prev] /\ Rank[new] > 0 -> "steady"
      [] Rank[new] = 0 /\ Rank[prev] > 0 -> "close"
      [] OTHER -> "idle"

Transition(prev, new) ==
    CASE Rank[new] > 0 /\ Rank[prev] = 0 -> "open"
      [] Rank[new] > Rank[prev] /\ Rank[prev] > 0 -> "escalate"
      [] Rank[prev] > Rank[new] /\ Rank[new] > 0 -> "deescalate"
      [] Rank[new] = Rank[prev] /\ Rank[new] > 0 -> "steady"
      [] Rank[new] = 0 /\ Rank[prev] > 0 -> "close"
      [] OTHER -> "idle"

Change == Transition(tick.prev.severity, tick.result.severity)

\* The timer elapses: the config is read, and the channels are built from it.
TickStarts ==
    /\ InTick("idle") /\ enabled # {}
    /\ tick' = [NoTick EXCEPT !.at = "ready", !.channel = channel, !.todo = enabled]
    /\ UNCHANGED <<config, store, tests, user, torn, killed, faults>>

\* The evaluator of the source may raise.
MayRaise(s) ==
    \/ s \in Broken
    \/ s \in Tiered /\ \E r \in Readings : Held(state[s].severity, r)


\* The evaluator raises: the row stays as it is, and the engine goes on with
\* the next source.
EvaluateRaises ==
    /\ InTick("ready") /\ MayRaise(Current)
    /\ tick' = Passed
    /\ UNCHANGED <<config, store, tests, user, torn, killed, faults>>

\* get_state, which reads a row that it cannot read as if there were none, and
\* evaluate.
Evaluate ==
    LET s == Current IN
    /\ InTick("ready")
    /\ \E misread \in BOOLEAN :
        LET prev == IF misread THEN NoRow ELSE state[s] IN
        /\ IF misread THEN Fault ELSE UNCHANGED faults
        /\ \E r \in Evaluations(s, prev.severity) :
            /\ Transition(prev.severity, r.severity) = "open" => Len(events) < MaxEvents
            /\ tick' = [tick EXCEPT !.at = "evaluated", !.prev = prev, !.result = r]
        /\ LET blurred == misread /\ Firing(state[s].severity)
           IN  /\ torn' = [torn EXCEPT ![s] = @ \/ blurred]
               /\ lost' = [lost EXCEPT ![s] = @ \/ blurred]
    /\ UNCHANGED <<config, store, tests, told, killed>>

\* Mutant: there is no high-water mark before the second reading.
PeakOf_Late(prev, result) ==
    CASE Firing(result.severity) /\ Firing(prev.severity) ->
            IF prev.peak = None \/ result.value > prev.peak THEN result.value ELSE prev.peak
      [] Firing(result.severity) /\ ~Firing(prev.severity) -> None
      [] OTHER -> result.value

\* The high-water mark while firing, the last reading while idle.
PeakOf(prev, result) ==
    CASE Firing(result.severity) /\ Firing(prev.severity) ->
            IF result.value # None /\ (prev.peak = None \/ result.value > prev.peak)
            THEN result.value ELSE prev.peak
      [] Firing(result.severity) /\ ~Firing(prev.severity) ->
            IF result.value # None THEN result.value ELSE 0
      [] OTHER -> result.value

\* set_state, on every tick, before what the change calls for.
SetState ==
    /\ InTick("evaluated")
    /\ state' = [state EXCEPT ![Current] =
           [severity |-> tick.result.severity, peak |-> PeakOf(tick.prev, tick.result)]]
    /\ LET written == [tick EXCEPT !.result.value = None,   \* no longer needed
                           !.result.readings = NothingRead]
       IN  tick' = CASE Change \in {"open", "escalate", "close"} -> [written EXCEPT !.at = "history"]
                     [] Change = "steady"     -> [written EXCEPT !.at = "peak"]
                     [] Change = "deescalate" -> [written EXCEPT !.at = "push"]
                     [] OTHER -> Passed
    /\ UNCHANGED <<config, events, tests, user, torn, killed, faults>>

OpenRow(src, sev, peak) == [source |-> src, open |-> TRUE, severity |-> sev, peak |-> peak]
OpenRowsOf(src) == {i \in DOMAIN events : events[i].source = src /\ events[i].open}

\* close_event: the most recent open one of the source, if there is any.
CloseEvent(src) ==
    events' = [i \in DOMAIN events |->
        IF i \in OpenRowsOf(src) /\ \A j \in OpenRowsOf(src) : j <= i
        THEN [events[i] EXCEPT !.open = FALSE] ELSE events[i]]

\* update_severity, only ever up.
UpdateSeverity(src, sev) ==
    events' = [i \in DOMAIN events |->
        IF i \in OpenRowsOf(src) /\ Rank[events[i].severity] < Rank[sev]
        THEN [events[i] EXCEPT !.severity = sev] ELSE events[i]]

\* update_peak, of the open rows, only ever up.
UpdatePeak(src, peak) ==
    events' = [i \in DOMAIN events |->
        IF i \in OpenRowsOf(src) /\ events[i].peak < peak
        THEN [events[i] EXCEPT !.peak = peak] ELSE events[i]]

\* The history of an opening, a worsening or an end.
RecordChange ==
    LET s == Current IN
    /\ InTick("history")
    /\ CASE Change = "open" ->
              events' = Append(events, OpenRow(s, tick.result.severity, state[s].peak))
         [] Change = "escalate" -> UpdateSeverity(s, tick.result.severity)
         [] OTHER -> CloseEvent(s)
    /\ tick' = [tick EXCEPT !.at = IF Change = "escalate" THEN "peak" ELSE "push"]
    /\ UNCHANGED <<config, state, tests, user, torn, killed, faults>>

\* The high-water mark goes into the history; one that goes on is not told of.
RecordPeak ==
    LET peak == state[Current].peak IN
    /\ InTick("peak")
    /\ IF peak # None /\ peak # tick.prev.peak
       THEN UpdatePeak(Current, peak) ELSE UNCHANGED events
    /\ tick' = IF Change = "steady" THEN Passed ELSE [tick EXCEPT !.at = "push"]
    /\ UNCHANGED <<config, state, tests, user, torn, killed, faults>>

\* dispatch: without a channel, or when the request fails, nothing comes of it,
\* and the engine goes on.
Dispatch ==
    LET s == Current IN
    /\ InTick("push")
    /\ \/ /\ tick.channel
          /\ told' = [told EXCEPT ![s] = tick.result.severity]
          /\ lost' = [lost EXCEPT ![s] = FALSE]
          /\ UNCHANGED faults
       \/ /\ lost' = [lost EXCEPT ![s] = TRUE]
          /\ IF tick.channel THEN Fault ELSE UNCHANGED faults
          /\ UNCHANGED told
    /\ tick' = Passed
    /\ UNCHANGED <<config, store, tests, torn, killed>>

\* The process is killed, or the store refuses a write and main gives the tick
\* up, before the write that is next.
TickAborts ==
    /\ ~InTick("idle") /\ Fault
    /\ tick' = NoTick
    /\ LET s == Current
           cut == tick.at \in {"history", "peak", "push"} /\ Change # "steady"
       IN  /\ lost' = [lost EXCEPT ![s] = @ \/ cut]
           /\ torn' = [torn EXCEPT ![s] = @ \/ (tick.at = "history")]
    /\ UNCHANGED <<config, store, tests, told, killed>>

Tick ==
    \/ TickStarts \/ Evaluate \/ EvaluateRaises \/ SetState
    \/ RecordChange \/ RecordPeak \/ Dispatch

-----------------------------------------------------------------------------
(* The admin API and the rebuilds. *)

\* Bound: room for the row that the tick is about to open is kept.
Reserved == tick.at \in {"evaluated", "history"} /\ Change = "open"

\* ntfy_test_push, once the push has gone out: a row of a source of its own is
\* opened, and then closed.
TestOpens(t) ==
    /\ tests[t] = "none"
    /\ Len(events) + (IF Reserved THEN 1 ELSE 0) < MaxEvents
    /\ tests' = [tests EXCEPT ![t] = "opened"]
    /\ events' = Append(events, OpenRow("_test-ntfy", "warn", 0))
    /\ UNCHANGED <<config, state, tick, user, torn, killed, faults>>

TestCloses(t) ==
    /\ tests[t] = "opened"
    /\ tests' = [tests EXCEPT ![t] = "none"]
    /\ CloseEvent("_test-ntfy")
    /\ UNCHANGED <<config, state, tick, user, torn, killed, faults>>

\* The API dies in between, or the second write is refused.
TestDies(t) ==
    /\ tests[t] = "opened" /\ Fault
    /\ tests' = [tests EXCEPT ![t] = "none"]
    /\ killed' = killed + 1
    /\ UNCHANGED <<config, store, tick, user, torn>>

\* A rebuild deploys another config: sources or the channel are switched.
Reconfigure ==
    /\ changes < MaxChanges /\ changes' = changes + 1
    /\ enabled' \in SUBSET Sources /\ channel' \in BOOLEAN
    /\ UNCHANGED <<store, tick, tests, user, torn, killed, faults>>

Next ==
    \/ Tick \/ TickAborts \/ Reconfigure
    \/ \E t \in Tests : TestOpens(t) \/ TestCloses(t) \/ TestDies(t)

Spec == Init /\ [][Next]_vars

\* The timer elapses again after each tick, and a tick comes to its end: every
\* command and request it makes has a timeout.
FairSpec == Spec /\ WF_vars(Tick)

-----------------------------------------------------------------------------
\* The tick has begun to write for a source, and is not done.
AtWorkOn(s) == tick.at \in {"history", "peak", "push"} /\ Current = s

(* EventOfAlarm.  Row and history agree: a source has one open event when  *)
(* it fires, at least as severe as it is now, and none when it is clear;   *)
(* through escalations, changes of config and tests, unless a tick was cut *)
(* short between the two or misread the row.  The rows of test pushes are  *)
(* closed by whichever of them gets there: none stays open but those under *)
(* way and those that died.                                                *)
EventOfAlarm ==
    /\ \A s \in Sources : ~torn[s] /\ ~AtWorkOn(s) =>
           IF Firing(state[s].severity)
           THEN /\ Cardinality(OpenRowsOf(s)) = 1
                /\ \A i \in OpenRowsOf(s) :
                       /\ Rank[events[i].severity] >= Rank[state[s].severity]
                       /\ events[i].peak <= state[s].peak
           ELSE OpenRowsOf(s) = {}
    /\ Cardinality(OpenRowsOf("_test-ntfy")) =
           killed + Cardinality({t \in Tests : tests[t] = "opened"})

(* ToldTruthful.  The last push about a source says what its row says,     *)
(* unless the push that was due did not come: no change of severity is     *)
(* kept from the user.                                                     *)
ToldTruthful ==
    \A s \in Sources : ~lost[s] /\ ~AtWorkOn(s) => told[s] = state[s].severity

(* NoFlapping.  A source leaves a severity only when every reading has     *)
(* fallen below the threshold by the margin, clears (from err too, which   *)
(* then drops two levels at once) only when that holds of the lower one,   *)
(* and takes a severity at once.  While a severity is held by the margin   *)
(* alone its row is not touched: a row that fires is written from a        *)
(* reading at a threshold.  Except when the row was misread; with nothing  *)
(* to read a source is clear.                                              *)
Limit(sev) == IF sev = "err" THEN Err ELSE Warn
NoFlapping ==
    [][ \A s \in Tiered :
          LET was == state[s].severity
              is  == state'[s].severity
              r   == tick.result.readings
          IN  state'[s] # state[s] /\ ~torn[s] =>
                /\ Rank[is] < Rank[was] => ~Reaches(r, Limit(was), Hysteresis)
                /\ Firing(was) /\ ~Firing(is) => ~Reaches(r, Warn, Hysteresis)
                /\ Reaches(r, Err, 0) => is = "err"
                /\ Reaches(r, Warn, 0) => Firing(is)
                /\ Firing(is) => Reaches(r, Err, 0) \/ Reaches(r, Warn, 0) ]_vars


-----------------------------------------------------------------------------
(* Promises that do not hold. *)

(* WrittenEveryTick.  "We always write state on every tick"                *)
(* (homefree_alerts_engine.py): a source that can be read has its row      *)
(* written, whatever its readings are.                                     *)
WrittenEveryTick ==
    [][ \A s \in Sources \ Broken :
          InTick("ready") /\ Current = s /\ tick' # tick /\ faults' = faults
            => tick'.at = "evaluated" ]_vars

(* OpenIsRecorded.  "On open: insert event, persist state, dispatch"       *)
(* (homefree_alerts_engine.py): a row that fires has its event.            *)
OpenIsRecorded ==
    \A s \in Sources :
        Firing(state[s].severity) /\ ~AtWorkOn(s) => OpenRowsOf(s) # {}

(* PeakInSync.  "keep history event peak in sync with state's high-water   *)
(* mark".                                                                  *)
PeakInSync ==
    \A s \in Sources : ~torn[s] /\ ~AtWorkOn(s) =>
        \A i \in OpenRowsOf(s) : events[i].peak = state[s].peak

(* SkippedIsNoVerdict.  "Drive enumeration failed; skipping tick": a tick  *)
(* that is skipped leaves the severity of the source as it was.            *)
SkippedIsNoVerdict ==
    [][ \A s \in Tiered :
          state'[s] # state[s] /\ tick.result.readings = NothingRead
            => state'[s].severity = state[s].severity ]_vars

(* PushRetried.  "a hung HTTP POST to ntfy will time out within 10s, and   *)
(* the next tick will retry": a tick does not pass a source whose last     *)
(* push was lost without a push.                                           *)
PushRetried ==
    [][ \A s \in Sources :
          lost[s] /\ tick.at \in {"evaluated", "peak"} /\ Current = s
            => tick'.at \in {"history", "peak", "push"} \/ faults' # faults ]_vars
=============================================================================
