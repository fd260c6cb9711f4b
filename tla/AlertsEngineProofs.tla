--------------------------- MODULE AlertsEngineProofs --------------------------
(***************************************************************************)
(* Proofs about AlertsEngine, for any sources, items, thresholds and test  *)
(* pushes: its types, that row and history agree, that the user has been   *)
(* told what the row says, and that severities do not flap.                *)
(*                                                                         *)
(* Row, history and push of a change are three transactions.  IInv says    *)
(* what each of them has left to do: what the tick has read is what the    *)
(* row still says, what it has written is not yet in the history, or not   *)
(* yet told.                                                               *)
(***************************************************************************)
EXTENDS AlertsEngine, TLAPS, FiniteSetTheorems, WellFoundedInduction

-----------------------------------------------------------------------------
(***************************************************************************)
(* The inductive invariant.                                                *)
(***************************************************************************)
Writing == tick.at \in {"history", "peak", "push"}

\* A tick has something to do until it is done, and each stage is that of its
\* change; the row is written first.
Staged ==
    /\ tick.at = "idle" <=> tick.todo = {}
    /\ tick.at = "history" => Change \in {"open", "escalate", "close"}
    /\ tick.at = "peak" => Change \in {"escalate", "steady"}
    /\ tick.at = "push" => Change \in {"open", "escalate", "close", "deescalate"}
    /\ Writing => state[Current].severity = tick.result.severity

\* What fires has a high-water mark, and a row that is read and will be added
\* to the history has room there.
Marked ==
    /\ \A s \in Sources : Firing(state[s].severity) => state[s].peak # None
    /\ tick.at = "evaluated" /\ Firing(tick.prev.severity) => tick.prev.peak # None
    /\ Reserved => Len(events) < MaxEvents

\* The evaluator has been given the row that the store still has.
ReadRight ==
    LET s == Current IN
    tick.at = "evaluated" =>
        /\ tick.result \in Evaluations(s, tick.prev.severity)
        /\ ~torn[s] \/ ~lost[s] =>
              /\ tick.prev.severity = state[s].severity
              /\ Firing(tick.prev.severity) => tick.prev = state[s]

\* An open row of the source and no other, or none; it is not below severity
\* sev, nor above the mark of a row that fires.
Alarmed(s, sev) ==
    IF Firing(sev)
    THEN \E i \in OpenRowsOf(s) :
            /\ OpenRowsOf(s) = {i}
            /\ Rank[events[i].severity] >= Rank[sev]
            /\ Firing(state[s].severity) => events[i].peak <= state[s].peak
    ELSE OpenRowsOf(s) = {}

\* Row and history of a source agree, but for the change that the tick is
\* about to record.
Unrecorded(s) == tick.at = "history" /\ Current = s
Agrees(s) == Alarmed(s, IF Unrecorded(s) THEN tick.prev.severity ELSE state[s].severity)
Agree == \A s \in Sources : ~torn[s] => Agrees(s)

\* The user knows what the row says, or said before the change under way.
Told ==
    \A s \in Sources : ~lost[s] =>
        told[s] = IF AtWorkOn(s) THEN tick.prev.severity ELSE state[s].severity

\* Each test push has opened its row, and whoever closes one closes one.
OpenTests == {t \in Tests : tests[t] = "opened"}
TestRows ==
    /\ IsFiniteSet(OpenTests)
    /\ Cardinality(OpenRowsOf("_test-ntfy")) = killed + Cardinality(OpenTests)

IInv == TypeOK /\ Staged /\ Marked /\ ReadRight /\ Agree /\ Told /\ TestRows

-----------------------------------------------------------------------------
(***************************************************************************)
(* Numbers: least and greatest elements, and the order of the sources.     *)
(***************************************************************************)
\* A set of naturals has a least element.
LEMMA Least ==
    ASSUME NEW T, T \subseteq Nat, T # {}
    PROVE  \E n \in T : \A m \in T : n <= m
<1>1. PICK n \in T : \A m \in T : ~(<<m, n>> \in OpToRel(<, Nat))
  BY NatLessThanWellFounded, WFMin
<1>2. \A m \in T : n <= m
  <2> SUFFICES ASSUME NEW m \in T PROVE n <= m
    OBVIOUS
  <2>1. m \in Nat /\ n \in Nat
    OBVIOUS
  <2>2. ~(m < n)
    BY <1>1, <2>1 DEF OpToRel
  <2> QED
    BY <2>1, <2>2
<1> QED
  BY <1>2

\* A bounded one has a greatest.
LEMMA Greatest ==
    ASSUME NEW n \in Nat, NEW T, T \subseteq 1 .. n, T # {}
    PROVE  \E i \in T : \A j \in T : j <= i
<1> DEFINE D == {n - i : i \in T}
<1>1. D \subseteq Nat /\ D # {}
  <2>1. \A i \in T : i \in Nat /\ i <= n
    OBVIOUS
  <2>2. \A i \in T : n - i \in Nat
    BY <2>1
  <2> QED
    BY <2>2
<1>2. PICK d \in D : \A e \in D : d <= e
  <2> HIDE DEF D
  <2> QED
    BY <1>1, Least
<1>3. PICK i \in T : d = n - i
  OBVIOUS
<1>4. \A j \in T : j <= i
  <2> SUFFICES ASSUME NEW j \in T PROVE j <= i
    OBVIOUS
  <2>1. n - j \in D /\ i \in Nat /\ j \in Nat
    OBVIOUS
  <2>2. n - i <= n - j
    BY <1>2, <1>3, <2>1
  <2> QED
    BY <2>2
<1> QED
  BY <1>4

\* Finitely many readings have a highest.
LEMMA HighestOf ==
    ASSUME NEW r, NEW A, IsFiniteSet(A), A # {}, \A i \in A : r[i] \in Nat
    PROVE  \E i \in A : \A j \in A : r[j] <= r[i]
<1> DEFINE Has(B) == \E i \in B : \A j \in B : r[j] <= r[i]
           Fails == {B \in SUBSET A : B # {} /\ ~Has(B)}
           Sizes == {Cardinality(B) : B \in Fails}
<1>1. ASSUME NEW B \in SUBSET A PROVE IsFiniteSet(B) /\ Cardinality(B) \in Nat
  BY FS_Subset, FS_CardinalityType
<1>2. Fails = {}
  <2> SUFFICES ASSUME Fails # {} PROVE FALSE
    OBVIOUS
  <2>1. Sizes \subseteq Nat /\ Sizes # {}
    BY <1>1
  <2>2. PICK n \in Sizes : \A m \in Sizes : n <= m
    <3> HIDE DEF Sizes
    <3> QED
      BY <2>1, Least
  <2>3. PICK B \in Fails : n = Cardinality(B)
    OBVIOUS
  <2>4. PICK x \in B : TRUE
    OBVIOUS
  <2>5. x \in A /\ B \ {x} \in SUBSET A
    OBVIOUS
  <2>6. Cardinality(B \ {x}) = n - 1 /\ n \in Nat
    BY <1>1, <2>3, FS_RemoveElement
  <2>7. Has(B \ {x})
    <3>1. CASE B \ {x} = {}
      <4>1. \A j \in B : j = x
        BY <3>1
      <4>2. Has(B)
        BY <2>5, <4>1
      <4> QED
        BY <4>2
    <3>2. CASE B \ {x} # {}
      <4> SUFFICES ASSUME ~Has(B \ {x}) PROVE FALSE
        OBVIOUS
      <4>1. B \ {x} \in Fails
        BY <2>5, <3>2
      <4>2. n - 1 \in Sizes
        BY <2>6, <4>1
      <4> QED
        BY <2>2, <2>6, <4>2
    <3> QED
      BY <3>1, <3>2
  <2>8. PICK i \in B \ {x} : \A j \in B \ {x} : r[j] <= r[i]
    BY <2>7
  <2>9. i \in A /\ r[i] \in Nat /\ r[x] \in Nat /\ \A j \in B : r[j] \in Nat
    BY <2>5
  <2>10. CASE r[x] <= r[i]
    <3>1. \A j \in B : r[j] <= r[i]
      BY <2>8, <2>10
    <3> QED
      BY <3>1
  <2>11. CASE r[i] <= r[x]
    <3>1. \A j \in B : r[j] <= r[x]
      BY <2>8, <2>9, <2>11
    <3> QED
      BY <3>1
  <2> QED
    BY <2>9, <2>10, <2>11
<1> QED
  BY <1>2

\* The tick works on a source that it still has to do.
LEMMA CurrentToDo ==
    ASSUME tick.todo \subseteq Sources, tick.todo # {}
    PROVE  Current \in tick.todo
<1> DEFINE Places == {n \in DOMAIN Order : Order[n] \in tick.todo}
<1>1. DOMAIN Order \subseteq Nat
  BY AlertsAssumption
<1>2. Places # {}
  BY DEF Sources, Range
<1>3. \E n \in Places : \A m \in Places : n <= m
  <2>1. Places \subseteq Nat
    BY <1>1
  <2> HIDE DEF Places
  <2> QED
    BY <1>2, <2>1, Least
<1> QED
  BY <1>3 DEF Current

-----------------------------------------------------------------------------
(***************************************************************************)
(* Severities, marks, results.                                             *)
(***************************************************************************)
\* The three severities and their ranks.
LEMMA Ranks ==
    /\ Severities = {"clear", "warn", "err"}
    /\ Rank["clear"] = 0 /\ Rank["warn"] = 1 /\ Rank["err"] = 2
  BY DEF Severities, Rank

\* A mark is a number, or there is none.
LEMMA MarksAreNumbers == None \notin Nat /\ Peaks \ {None} \subseteq Nat /\ 0 \in Peaks /\ None \in Peaks
<1>1. None \notin Nat /\ Values \subseteq Nat /\ Counts \subseteq Nat
  BY AlertsAssumption
<1>2. \A p \in Peaks \ {None} : p \in Nat
  BY <1>1 DEF Peaks
<1>3. 0 \in Peaks /\ None \in Peaks
  BY DEF Peaks
<1> QED
  BY <1>1, <1>2, <1>3

\* The new mark: a mark, a number while firing, and never below the last.
LEMMA PeakMoves ==
    ASSUME NEW prev \in Rows, NEW result, result.severity \in Severities, result.value \in Peaks,
           Firing(prev.severity) => prev.peak # None
    PROVE  /\ PeakOf(prev, result) \in Peaks
           /\ Firing(result.severity) => PeakOf(prev, result) # None
           /\ Firing(result.severity) /\ Firing(prev.severity) => prev.peak <= PeakOf(prev, result)
  BY MarksAreNumbers DEF PeakOf, Rows

\* A change is what becomes of being clear or firing.
LEMMA TransitionIs ==
    ASSUME NEW prev \in Severities, NEW new \in Severities
    PROVE  /\ Transition(prev, new) \in {"open", "escalate", "deescalate", "steady", "close", "idle"}
           /\ Transition(prev, new) = "open" <=> ~Firing(prev) /\ Firing(new)
           /\ Transition(prev, new) = "close" <=> Firing(prev) /\ ~Firing(new)
           /\ Transition(prev, new) = "steady" <=> prev = new /\ Firing(new)
           /\ Transition(prev, new) = "idle" <=> ~Firing(prev) /\ ~Firing(new)
           /\ Transition(prev, new) = "escalate" =>
                 Firing(prev) /\ Firing(new) /\ Rank[prev] <= Rank[new]
           /\ Transition(prev, new) = "deescalate" =>
                 Firing(prev) /\ Firing(new) /\ Rank[new] <= Rank[prev]
  BY Ranks DEF Transition, Firing

\* The highest reading of several is a reading.
LEMMA HighestIsValue ==
    ASSUME NEW r \in Readings, r # NothingRead
    PROVE  Highest(r) \in Values
<1> DEFINE A == {i \in Items : r[i] # None}
<1>1. A # {}
  BY DEF Readings, NothingRead
<1>2. IsFiniteSet(A) /\ \A i \in A : r[i] \in Values /\ r[i] \in Nat
  <2>1. A \in SUBSET Items
    OBVIOUS
  <2>2. IsFiniteSet(A)
    BY <2>1, AlertsAssumption, FS_Subset
  <2> QED
    BY <2>2, AlertsAssumption DEF Readings
<1>3. PICK i \in A : \A j \in A : r[j] <= r[i]
  <2> HIDE DEF A
  <2> QED
    BY <1>1, <1>2, HighestOf
<1> DEFINE seen == {r[j] : j \in Items} \ {None}
<1>4. seen \subseteq Values /\ r[i] \in seen /\ \A w \in seen : w <= r[i]
  BY <1>2, <1>3
<1> QED
  BY <1>4 DEF Highest

\* Hysteresis answers with a severity.
LEMMA HysteresisTyped ==
    ASSUME NEW was \in Severities, NEW r
    PROVE  ApplyHysteresis(was, Tentative(r), r) \in Severities
  BY Ranks DEF ApplyHysteresis, Tentative

\* Evaluators answer with results.
LEMMA EvaluationsTyped ==
    ASSUME NEW s, NEW was \in Severities
    PROVE  Evaluations(s, was) \subseteq Results
<1>1. NoResult \in Results
  BY Ranks, MarksAreNumbers DEF NoResult, Results, NothingRead, Readings
<1>2. Measured(was) \subseteq Results
  <2> SUFFICES ASSUME NEW r \in Readings \ {NothingRead}
               PROVE  [severity |-> ApplyHysteresis(was, Tentative(r), r), value |-> Highest(r),
                       readings |-> r] \in Results
    BY DEF Measured
  <2>1. Highest(r) \in Peaks
    BY HighestIsValue DEF Peaks
  <2> QED
    BY <2>1, HysteresisTyped DEF Results
<1>3. Binary \subseteq Results
  BY <1>1, Ranks DEF Binary, Results, Peaks
<1> QED
  BY <1>1, <1>2, <1>3 DEF Evaluations

-----------------------------------------------------------------------------
(***************************************************************************)
(* The history.                                                            *)
(***************************************************************************)
\* A source whose rows a write does not touch.
RowsKept(s) == OpenRowsOf(s)' = OpenRowsOf(s) /\ \A i \in OpenRowsOf(s) : events'[i] = events[i]

\* Rows of the history are numbered.
LEMMA RowNumbers ==
    ASSUME events \in Seq(Event)
    PROVE  /\ DOMAIN events = 1 .. Len(events) /\ Len(events) \in Nat
           /\ \A i \in DOMAIN events : events[i] \in Event
           /\ \A s : OpenRowsOf(s) \subseteq 1 .. Len(events) /\ IsFiniteSet(OpenRowsOf(s))
<1>1. DOMAIN events = 1 .. Len(events) /\ Len(events) \in Nat
  OBVIOUS
<1>2. \A i \in DOMAIN events : events[i] \in Event
  OBVIOUS
<1>3. ASSUME NEW s PROVE OpenRowsOf(s) \subseteq 1 .. Len(events) /\ IsFiniteSet(OpenRowsOf(s))
  <2>1. OpenRowsOf(s) \subseteq 1 .. Len(events)
    BY <1>1 DEF OpenRowsOf
  <2>2. IsFiniteSet(1 .. Len(events))
    BY <1>1, FS_Interval
  <2> QED
    BY <2>1, <2>2, FS_Subset
<1> QED
  BY <1>1, <1>2, <1>3

\* A sequence of events is what maps the numbers to events.
LEMMA RowsRewritten ==
    ASSUME events \in Seq(Event), NEW f, f = [i \in DOMAIN events |-> f[i]],
           \A i \in DOMAIN events : f[i] \in Event
    PROVE  f \in Seq(Event) /\ Len(f) = Len(events) /\ DOMAIN f = DOMAIN events
<1>1. DOMAIN events = 1 .. Len(events) /\ Len(events) \in Nat
  OBVIOUS
<1>2. f \in [1 .. Len(events) -> Event]
  BY <1>1
<1> QED
  BY <1>1, <1>2

\* An event that opens is one more open row of its source.
LEMMA RowAppended ==
    ASSUME events \in Seq(Event), NEW e \in Event, e.open, events' = Append(events, e)
    PROVE  /\ events' \in Seq(Event) /\ Len(events') = Len(events) + 1
           /\ Len(events') \notin OpenRowsOf(e.source)
           /\ OpenRowsOf(e.source)' = OpenRowsOf(e.source) \cup {Len(events')}
           /\ events'[Len(events')] = e
           /\ \A s : s # e.source => RowsKept(s)
<1>1. /\ DOMAIN events = 1 .. Len(events) /\ Len(events) \in Nat
      /\ events' \in Seq(Event) /\ Len(events') = Len(events) + 1
      /\ DOMAIN events' = 1 .. Len(events')
  OBVIOUS
<1>2. events'[Len(events')] = e /\ \A i \in DOMAIN events : events'[i] = events[i]
  OBVIOUS
<1>3. /\ DOMAIN events' = DOMAIN events \cup {Len(events')}
      /\ Len(events') \notin DOMAIN events
  BY <1>1
<1> QED
  BY <1>1, <1>2, <1>3 DEF OpenRowsOf, RowsKept

\* An event that is closed is the latest open row of its source.
LEMMA RowClosed ==
    ASSUME events \in Seq(Event), NEW src, CloseEvent(src)
    PROVE  /\ events' \in Seq(Event) /\ Len(events') = Len(events)
           /\ OpenRowsOf(src) # {} =>
                 \E i \in OpenRowsOf(src) : OpenRowsOf(src)' = OpenRowsOf(src) \ {i}
           /\ \A s : s # src \/ OpenRowsOf(s) = {} => RowsKept(s)
<1> DEFINE Latest(i) == i \in OpenRowsOf(src) /\ \A j \in OpenRowsOf(src) : j <= i
<1>1. DOMAIN events = 1 .. Len(events) /\ \A i \in DOMAIN events : events[i] \in Event
  BY RowNumbers
<1>2. events' = [i \in DOMAIN events |->
                       IF Latest(i) THEN [events[i] EXCEPT !.open = FALSE] ELSE events[i]]
  BY DEF CloseEvent
<1>3. \A i \in DOMAIN events : [events[i] EXCEPT !.open = FALSE] \in Event
  BY <1>1 DEF Event
<1>4. DOMAIN events' = DOMAIN events /\ \A i \in DOMAIN events :
          /\ events'[i] \in Event
          /\ Latest(i) => events'[i].source = events[i].source /\ ~events'[i].open
          /\ ~Latest(i) => events'[i] = events[i]
  BY <1>1, <1>2, <1>3 DEF Event
<1>5. events' \in Seq(Event) /\ Len(events') = Len(events)
  BY <1>2, <1>4, RowsRewritten
<1>6. ASSUME NEW s, s # src \/ OpenRowsOf(s) = {} PROVE RowsKept(s)
  <2>1. \A i \in DOMAIN events : Latest(i) => events[i].source = src /\ (s # src)
    BY <1>6 DEF OpenRowsOf
  <2> QED
    BY <1>4, <2>1 DEF OpenRowsOf, RowsKept
<1>7. ASSUME OpenRowsOf(src) # {}
      PROVE  \E i \in OpenRowsOf(src) : OpenRowsOf(src)' = OpenRowsOf(src) \ {i}
  <2>1. OpenRowsOf(src) \subseteq 1 .. Len(events) /\ Len(events) \in Nat
    BY RowNumbers
  <2>2. PICK i \in OpenRowsOf(src) : \A j \in OpenRowsOf(src) : j <= i
    BY <1>7, <2>1, Greatest
  <2>3. \A j \in DOMAIN events : Latest(j) <=> j = i
    <3>1. \A j \in OpenRowsOf(src) : j \in Nat
      BY <2>1
    <3> QED
      BY <2>2, <3>1
  <2> HIDE DEF Latest
  <2>4. OpenRowsOf(src)' = OpenRowsOf(src) \ {i}
    BY <1>4, <2>3 DEF OpenRowsOf
  <2> QED
    BY <2>4
<1> QED
  BY <1>5, <1>6, <1>7

\* Severities of the open rows of a source are raised.
LEMMA SeverityRaised ==
    ASSUME events \in Seq(Event), NEW src, NEW sev \in {"warn", "err"}, UpdateSeverity(src, sev)
    PROVE  /\ events' \in Seq(Event) /\ Len(events') = Len(events)
           /\ \A s : s # src => RowsKept(s)
           /\ OpenRowsOf(src)' = OpenRowsOf(src)
           /\ \A i \in OpenRowsOf(src) :
                 Rank[events'[i].severity] >= Rank[sev] /\ events'[i].peak = events[i].peak
<1>1. DOMAIN events = 1 .. Len(events) /\ \A i \in DOMAIN events : events[i] \in Event
  BY RowNumbers
<1> DEFINE Low(i) == i \in OpenRowsOf(src) /\ Rank[events[i].severity] < Rank[sev]
<1>2. events' = [i \in DOMAIN events |->
                     IF Low(i) THEN [events[i] EXCEPT !.severity = sev] ELSE events[i]]
  BY DEF UpdateSeverity
<1>3. \A i \in DOMAIN events :
          LET e == [events[i] EXCEPT !.severity = sev]
          IN  /\ e \in Event /\ e.severity = sev /\ e.peak = events[i].peak
              /\ e.source = events[i].source /\ e.open = events[i].open
  BY <1>1 DEF Event
<1>4. DOMAIN events' = DOMAIN events /\ \A i \in DOMAIN events :
          /\ events'[i] \in Event /\ events'[i].peak = events[i].peak
          /\ events'[i].source = events[i].source /\ events'[i].open = events[i].open
          /\ Low(i) => events'[i].severity = sev
          /\ ~Low(i) => events'[i] = events[i]
  BY <1>1, <1>2, <1>3
<1>5. events' \in Seq(Event) /\ Len(events') = Len(events)
  BY <1>2, <1>4, RowsRewritten
<1>6. \A i \in OpenRowsOf(src) : Rank[events'[i].severity] >= Rank[sev]
  <2> SUFFICES ASSUME NEW i \in OpenRowsOf(src) PROVE Rank[events'[i].severity] >= Rank[sev]
    OBVIOUS
  <2>1. i \in DOMAIN events /\ events[i].severity \in {"warn", "err"}
    BY <1>1 DEF OpenRowsOf, Event
  <2> QED
    BY <1>4, <2>1, Ranks
<1> QED
  <2>1. \A s : s # src => RowsKept(s)
    BY <1>4 DEF OpenRowsOf, RowsKept
  <2>2. OpenRowsOf(src)' = OpenRowsOf(src)
    BY <1>4 DEF OpenRowsOf
  <2>3. \A i \in OpenRowsOf(src) : events'[i].peak = events[i].peak
    BY <1>4 DEF OpenRowsOf
  <2> QED
    BY <1>5, <1>6, <2>1, <2>2, <2>3

\* Marks of the open rows of a source are raised.
LEMMA PeakRaised ==
    ASSUME events \in Seq(Event), NEW src, NEW peak \in Peaks \ {None}, UpdatePeak(src, peak)
    PROVE  /\ events' \in Seq(Event) /\ Len(events') = Len(events)
           /\ \A s : s # src => RowsKept(s)
           /\ OpenRowsOf(src)' = OpenRowsOf(src)
           /\ \A i \in OpenRowsOf(src) :
                 /\ events'[i].severity = events[i].severity
                 /\ events'[i].peak \in {events[i].peak, peak}
<1>1. DOMAIN events = 1 .. Len(events) /\ \A i \in DOMAIN events : events[i] \in Event
  BY RowNumbers
<1> DEFINE Low(i) == i \in OpenRowsOf(src) /\ events[i].peak < peak
<1>2. events' = [i \in DOMAIN events |->
                     IF Low(i) THEN [events[i] EXCEPT !.peak = peak] ELSE events[i]]
  BY DEF UpdatePeak
<1>3. \A i \in DOMAIN events :
          LET e == [events[i] EXCEPT !.peak = peak]
          IN  /\ e \in Event /\ e.peak = peak /\ e.severity = events[i].severity
              /\ e.source = events[i].source /\ e.open = events[i].open
  BY <1>1 DEF Event
<1>4. DOMAIN events' = DOMAIN events /\ \A i \in DOMAIN events :
          /\ events'[i] \in Event /\ events'[i].severity = events[i].severity
          /\ events'[i].source = events[i].source /\ events'[i].open = events[i].open
          /\ events'[i].peak \in {events[i].peak, peak}
          /\ ~Low(i) => events'[i] = events[i]
  BY <1>1, <1>2, <1>3
<1>5. events' \in Seq(Event) /\ Len(events') = Len(events)
  BY <1>2, <1>4, RowsRewritten
<1> QED
  <2>1. \A s : s # src => RowsKept(s)
    BY <1>4 DEF OpenRowsOf, RowsKept
  <2>2. OpenRowsOf(src)' = OpenRowsOf(src)
    BY <1>4 DEF OpenRowsOf
  <2>3. \A i \in OpenRowsOf(src) : events'[i].severity = events[i].severity
                                   /\ events'[i].peak \in {events[i].peak, peak}
    BY <1>4 DEF OpenRowsOf
  <2> QED
    BY <1>5, <2>1, <2>2, <2>3

-----------------------------------------------------------------------------
(***************************************************************************)
(* The tick.                                                               *)
(***************************************************************************)
\* The parts of a tick; it works on a source until it is idle.
LEMMA TickParts ==
    ASSUME TypeOK, Staged
    PROVE  /\ tick \in Ticks /\ tick.at \in Stages /\ tick.todo \subseteq Sources
           /\ tick.prev \in Rows /\ tick.prev.severity \in Severities
           /\ tick.result \in Results /\ tick.result.severity \in Severities
           /\ tick.result.value \in Peaks
           /\ tick.at # "idle" => Current \in tick.todo /\ Current \in Sources
<1>1. tick \in Ticks
  BY DEF TypeOK
<1>2. tick.todo \subseteq Sources
  BY <1>1 DEF Ticks
<1>3. tick.at # "idle" => Current \in tick.todo
  BY <1>2, CurrentToDo DEF Staged
<1> QED
  BY <1>1, <1>2, <1>3 DEF Ticks, Rows, Results

\* No tick, and a tick that goes on to the next source.
LEMMA TicksMove ==
    ASSUME TypeOK, Staged
    PROVE  /\ NoTick \in Ticks /\ NoTick.at = "idle" /\ NoTick.todo = {}
           /\ tick.at # "idle" =>
                 /\ Passed \in Ticks /\ Passed.at \in {"idle", "ready"}
                 /\ Passed.at = "idle" <=> Passed.todo = {}
<1>1. NoRow \in Rows /\ NoResult \in Results
  BY Ranks, MarksAreNumbers DEF NoRow, Rows, NoResult, Results, NothingRead, Readings
<1>2. NoTick \in Ticks /\ NoTick.at = "idle" /\ NoTick.todo = {}
  BY <1>1 DEF NoTick, Ticks, Stages
<1>3. ASSUME tick.at # "idle"
      PROVE  /\ Passed \in Ticks /\ Passed.at \in {"idle", "ready"}
             /\ Passed.at = "idle" <=> Passed.todo = {}
  <2>1. tick \in Ticks /\ Current \in tick.todo
    BY <1>3, TickParts
  <2> DEFINE next == [tick EXCEPT !.at = "ready", !.todo = @ \ {Current}, !.prev = NoRow,
                                  !.result = NoResult]
  <2>2. next \in Ticks /\ next.at = "ready" /\ next.todo = tick.todo \ {Current}
    BY <1>1, <2>1 DEF Ticks, Stages
  <2>3. Passed = IF tick.todo = {Current} THEN NoTick ELSE next
    BY DEF Passed
  <2> HIDE DEF next
  <2> QED
    BY <1>2, <2>1, <2>2, <2>3
<1> QED
  BY <1>2, <1>3

\* The tick when its row has been written.
LEMMA RowWritten ==
    ASSUME TypeOK, Staged, Marked, SetState
    PROVE  /\ \A s \in Sources : s # Current => state'[s] = state[s]
           /\ state' \in [Sources -> Rows]
           /\ state'[Current].severity = tick.result.severity
           /\ state'[Current].peak = PeakOf(tick.prev, tick.result)
           /\ Firing(tick.result.severity) => state'[Current].peak # None
           /\ Firing(tick.result.severity) /\ Firing(tick.prev.severity) =>
                 tick.prev.peak <= state'[Current].peak
<1>1. Current \in Sources /\ InTick("evaluated")
  BY TickParts DEF SetState, InTick
<1>2. /\ PeakOf(tick.prev, tick.result) \in Peaks
      /\ Firing(tick.result.severity) => PeakOf(tick.prev, tick.result) # None
      /\ Firing(tick.result.severity) /\ Firing(tick.prev.severity) =>
            tick.prev.peak <= PeakOf(tick.prev, tick.result)
  BY <1>1, TickParts, PeakMoves DEF Marked, InTick
<1>3. [severity |-> tick.result.severity, peak |-> PeakOf(tick.prev, tick.result)] \in Rows
  BY <1>2, TickParts DEF Rows
<1>4. state \in [Sources -> Rows]
  BY DEF TypeOK
<1>5. state' = [state EXCEPT ![Current] =
            [severity |-> tick.result.severity, peak |-> PeakOf(tick.prev, tick.result)]]
  BY DEF SetState
<1> QED
  BY <1>1, <1>2, <1>3, <1>4, <1>5

\* The stage that follows it, by the change.
LEMMA AfterRow ==
    ASSUME TypeOK, Staged, SetState
    PROVE  \/ /\ Change \in {"open", "escalate", "close", "steady", "deescalate"}
              /\ tick'.at = CASE Change \in {"open", "escalate", "close"} -> "history"
                              [] Change = "steady" -> "peak"
                              [] OTHER -> "push"
              /\ tick' \in Ticks /\ tick'.todo = tick.todo /\ tick'.prev = tick.prev
              /\ tick'.result.severity = tick.result.severity
              /\ tick'.channel = tick.channel /\ Change' = Change /\ Current' = Current
           \/ Change = "idle" /\ tick' = Passed
<1> DEFINE written == [tick EXCEPT !.result.value = None, !.result.readings = NothingRead]
<1>1. tick \in Ticks /\ Change \in {"open", "escalate", "deescalate", "steady", "close", "idle"}
  BY TickParts, TransitionIs DEF Change
<1>2. NothingRead \in Readings /\ None \in Peaks
  BY MarksAreNumbers DEF NothingRead, Readings
<1>3. ASSUME NEW at \in Stages, tick' = [written EXCEPT !.at = at]
      PROVE  /\ tick' \in Ticks /\ tick'.at = at /\ tick'.todo = tick.todo /\ tick'.prev = tick.prev
             /\ tick'.result.severity = tick.result.severity /\ tick'.channel = tick.channel
             /\ Change' = Change /\ Current' = Current
  <2>1. /\ tick' \in Ticks /\ tick'.at = at /\ tick'.todo = tick.todo /\ tick'.prev = tick.prev
        /\ tick'.result.severity = tick.result.severity /\ tick'.channel = tick.channel
    BY <1>1, <1>2, <1>3 DEF Ticks, Results
  <2> QED
    BY <2>1 DEF Change, Current
<1>4. tick' = CASE Change \in {"open", "escalate", "close"} -> [written EXCEPT !.at = "history"]
                [] Change = "steady"     -> [written EXCEPT !.at = "peak"]
                [] Change = "deescalate" -> [written EXCEPT !.at = "push"]
                [] OTHER -> Passed
  BY DEF SetState
<1> HIDE DEF written
<1>5. CASE Change \in {"open", "escalate", "close"}
  <2>1. tick' = [written EXCEPT !.at = "history"]
    BY <1>4, <1>5
  <2> QED
    BY <1>3, <1>5, <2>1 DEF Stages
<1>6. CASE Change = "steady"
  <2>1. tick' = [written EXCEPT !.at = "peak"]
    BY <1>4, <1>6
  <2> QED
    BY <1>3, <1>6, <2>1 DEF Stages
<1>7. CASE Change = "deescalate"
  <2>1. tick' = [written EXCEPT !.at = "push"]
    BY <1>4, <1>7
  <2> QED
    BY <1>3, <1>7, <2>1 DEF Stages
<1>8. CASE Change = "idle"
  BY <1>4, <1>8
<1> QED
  BY <1>1, <1>5, <1>6, <1>7, <1>8

\* A later stage of the same source.
LEMMA StageMoves ==
    ASSUME TypeOK, NEW at \in Stages, tick' = [tick EXCEPT !.at = at]
    PROVE  /\ tick' \in Ticks /\ tick'.at = at
           /\ UNCHANGED <<tick.todo, tick.prev, tick.result, tick.channel, Change, Current>>
<1>1. tick \in Ticks
  BY DEF TypeOK
<1>2. /\ tick' \in Ticks /\ tick'.at = at
      /\ UNCHANGED <<tick.todo, tick.prev, tick.result, tick.channel>>
  BY <1>1 DEF Ticks
<1> QED
  BY <1>2 DEF Change, Current

\* Bounds that are kept by a fault.
LEMMA FaultBounded == TypeOK /\ (Fault \/ UNCHANGED faults) => faults' \in 0 .. MaxFaults
<1>1. MaxFaults \in Nat
  BY AlertsAssumption
<1> QED
  BY <1>1 DEF TypeOK, Fault

\* What is read of a row, and what the evaluator makes of it.
LEMMA Evaluated ==
    ASSUME TypeOK, Staged, Marked, Evaluate
    PROVE  /\ Current \in Sources /\ Current' = Current
           /\ tick' \in Ticks /\ tick'.at = "evaluated" /\ tick'.todo = tick.todo
           /\ tick'.result \in Evaluations(Current, tick'.prev.severity)
           /\ Firing(tick'.prev.severity) => tick'.prev = state[Current]
           /\ ~torn'[Current] \/ ~lost'[Current] => tick'.prev.severity = state[Current].severity
           /\ Change' = "open" => Len(events) < MaxEvents
           /\ torn' \in [Sources -> BOOLEAN] /\ lost' \in [Sources -> BOOLEAN]
           /\ \A s \in Sources : (~torn'[s] => ~torn[s]) /\ (~lost'[s] => ~lost[s])
           /\ faults' \in 0 .. MaxFaults
<1>1. Current \in Sources /\ tick \in Ticks
  BY TickParts DEF Evaluate, InTick
<1>2. PICK misread \in BOOLEAN :
        LET prev == IF misread THEN NoRow ELSE state[Current] IN
        /\ IF misread THEN Fault ELSE UNCHANGED faults
        /\ \E r \in Evaluations(Current, prev.severity) :
            /\ Transition(prev.severity, r.severity) = "open" => Len(events) < MaxEvents
            /\ tick' = [tick EXCEPT !.at = "evaluated", !.prev = prev, !.result = r]
        /\ LET blurred == misread /\ Firing(state[Current].severity)
           IN  /\ torn' = [torn EXCEPT ![Current] = @ \/ blurred]
               /\ lost' = [lost EXCEPT ![Current] = @ \/ blurred]
  BY DEF Evaluate
<1> DEFINE prev == IF misread THEN NoRow ELSE state[Current]
           blurred == misread /\ Firing(state[Current].severity)
<1>3. prev \in Rows /\ state[Current] \in Rows /\ prev.severity \in Severities
  <2>1. NoRow \in Rows
    BY Ranks, MarksAreNumbers DEF NoRow, Rows
  <2>2. state[Current] \in Rows
    BY <1>1 DEF TypeOK
  <2>3. prev \in Rows
    BY <2>1, <2>2
  <2> HIDE DEF prev
  <2> QED
    BY <2>2, <2>3 DEF Rows
<1>4. PICK r \in Evaluations(Current, prev.severity) :
        /\ Transition(prev.severity, r.severity) = "open" => Len(events) < MaxEvents
        /\ tick' = [tick EXCEPT !.at = "evaluated", !.prev = prev, !.result = r]
  BY <1>2
<1>5. r \in Results
  BY <1>3, EvaluationsTyped
<1>6. /\ tick' \in Ticks /\ tick'.at = "evaluated" /\ tick'.todo = tick.todo
      /\ tick'.prev = prev /\ tick'.result = r
  BY <1>1, <1>3, <1>4, <1>5 DEF Ticks, Stages
<1>7. Current' = Current /\ Change' = Transition(prev.severity, r.severity)
  BY <1>6 DEF Current, Change
<1>8. Firing(prev.severity) => prev = state[Current]
  BY DEF NoRow, Firing
<1>9. ~blurred => prev.severity = state[Current].severity
  BY DEF NoRow, Firing
<1>10. torn \in [Sources -> BOOLEAN] /\ lost \in [Sources -> BOOLEAN]
  BY DEF TypeOK
<1>11. /\ torn' = [torn EXCEPT ![Current] = @ \/ blurred]
       /\ lost' = [lost EXCEPT ![Current] = @ \/ blurred]
  BY <1>2
<1>12. faults' \in 0 .. MaxFaults
  BY <1>2, FaultBounded
<1> HIDE DEF prev, blurred
<1>13. /\ torn' \in [Sources -> BOOLEAN] /\ lost' \in [Sources -> BOOLEAN]
       /\ \A s \in Sources : (~torn'[s] => ~torn[s]) /\ (~lost'[s] => ~lost[s])
       /\ ~torn'[Current] \/ ~lost'[Current] => ~blurred
  <2>1. \A s \in Sources : torn'[s] = (torn[s] \/ (s = Current /\ blurred))
    BY <1>1, <1>10, <1>11
  <2>2. \A s \in Sources : lost'[s] = (lost[s] \/ (s = Current /\ blurred))
    BY <1>1, <1>10, <1>11
  <2>3. blurred \in BOOLEAN
    BY DEF blurred, Firing
  <2>4. torn' \in [Sources -> BOOLEAN]
    BY <1>1, <1>10, <1>11, <2>3
  <2>5. lost' \in [Sources -> BOOLEAN]
    BY <1>1, <1>10, <1>11, <2>3
  <2> QED
    BY <1>1, <2>1, <2>2, <2>4, <2>5
<1> QED
  BY <1>1, <1>4, <1>6, <1>7, <1>8, <1>9, <1>12, <1>13

\* What is recorded of a change: an event when it opens, the severity when it
\* gets worse, the end.
LEMMA Recorded ==
    ASSUME TypeOK, Staged, Marked, RecordChange
    PROVE  /\ Current \in Sources /\ tick.at = "history"
           /\ tick'.at = IF Change = "escalate" THEN "peak" ELSE "push"
           /\ tick' \in Ticks
           /\ UNCHANGED <<tick.todo, tick.prev, tick.result, Change, Current>>
           /\ \/ /\ Change = "open" /\ Len(events) < MaxEvents
                 /\ \E e \in Event : /\ e = OpenRow(Current, tick.result.severity, state[Current].peak)
                                     /\ e.open /\ e.source = Current
                                     /\ e.severity = tick.result.severity
                                     /\ e.peak = state[Current].peak
                                     /\ events' = Append(events, e)
              \/ /\ Change = "escalate" /\ tick.result.severity \in {"warn", "err"}
                 /\ UpdateSeverity(Current, tick.result.severity)
              \/ Change = "close" /\ CloseEvent(Current)
<1>1. Current \in Sources /\ tick.at = "history" /\ Change \in {"open", "escalate", "close"}
  BY TickParts DEF RecordChange, InTick, Staged
<1>2. tick.result.severity \in {"clear", "warn", "err"} /\ tick.prev.severity \in Severities
  BY TickParts, Ranks
<1>3. /\ tick'.at = IF Change = "escalate" THEN "peak" ELSE "push"
      /\ tick' \in Ticks
      /\ UNCHANGED <<tick.todo, tick.prev, tick.result, Change, Current>>
  <2> DEFINE at == IF Change = "escalate" THEN "peak" ELSE "push"
  <2>1. tick' = [tick EXCEPT !.at = at]
    BY DEF RecordChange
  <2>2. at \in Stages
    BY DEF Stages
  <2> HIDE DEF at
  <2>3. tick'.at = at /\ tick' \in Ticks
        /\ UNCHANGED <<tick.todo, tick.prev, tick.result, Change, Current>>
    BY <2>1, <2>2, StageMoves
  <2> QED
    BY <2>3 DEF at
<1>4. CASE Change = "open"
  <2> DEFINE e == OpenRow(Current, tick.result.severity, state[Current].peak)
  <2>1. Firing(tick.result.severity) /\ tick.result.severity \in {"warn", "err"}
    BY <1>2, <1>4, TickParts, TransitionIs DEF Change, Firing
  <2>2. state[Current].peak \in Peaks \ {None}
    <3>1. state[Current] \in Rows /\ Firing(state[Current].severity)
      BY <1>1, <2>1 DEF TypeOK, Staged, Writing
    <3> QED
      BY <1>1, <3>1 DEF Marked, Rows
  <2>3. e \in Event /\ e.open /\ e.source = Current /\ e.severity = tick.result.severity
        /\ e.peak = state[Current].peak
    BY <1>1, <2>1, <2>2 DEF OpenRow, Event
  <2>4. events' = Append(events, e) /\ Len(events) < MaxEvents
    BY <1>1, <1>4 DEF RecordChange, Marked, Reserved
  <2> QED
    BY <1>1, <1>3, <1>4, <2>3, <2>4
<1>5. CASE Change = "escalate"
  <2>1. tick.result.severity \in {"warn", "err"}
    BY <1>2, <1>5, TickParts, TransitionIs DEF Change, Firing
  <2>2. UpdateSeverity(Current, tick.result.severity)
    BY <1>5 DEF RecordChange
  <2> QED
    BY <1>1, <1>3, <1>5, <2>1, <2>2
<1>6. CASE Change = "close"
  <2>1. CloseEvent(Current)
    BY <1>6 DEF RecordChange
  <2> QED
    BY <1>1, <1>3, <1>6, <2>1
<1> QED
  BY <1>1, <1>4, <1>5, <1>6

\* How the mark gets into the history.
LEMMA PeakRecorded ==
    ASSUME TypeOK, Staged, RecordPeak
    PROVE  /\ Current \in Sources /\ tick.at = "peak" /\ Change \in {"escalate", "steady"}
           /\ \/ UNCHANGED events
              \/ state[Current].peak \in Peaks \ {None} /\ UpdatePeak(Current, state[Current].peak)
           /\ \/ Change = "steady" /\ tick' = Passed
              \/ /\ Change = "escalate" /\ tick'.at = "push" /\ tick' \in Ticks
                 /\ UNCHANGED <<tick.todo, tick.prev, tick.result, Change, Current>>
<1>1. Current \in Sources /\ tick.at = "peak" /\ Change \in {"escalate", "steady"}
  BY TickParts DEF RecordPeak, InTick, Staged
<1>2. state[Current].peak \in Peaks
  BY <1>1 DEF TypeOK, Rows
<1>3. \/ UNCHANGED events
      \/ state[Current].peak \in Peaks \ {None} /\ UpdatePeak(Current, state[Current].peak)
  BY <1>2 DEF RecordPeak
<1>4. CASE Change = "steady"
  BY <1>1, <1>3, <1>4 DEF RecordPeak
<1>5. CASE Change = "escalate"
  <2>1. tick' = [tick EXCEPT !.at = "push"]
    BY <1>5 DEF RecordPeak
  <2>2. /\ tick'.at = "push" /\ tick' \in Ticks
        /\ UNCHANGED <<tick.todo, tick.prev, tick.result, Change, Current>>
    BY <2>1, StageMoves DEF Stages
  <2> QED
    BY <1>1, <1>3, <1>5, <2>2
<1> QED
  BY <1>1, <1>4, <1>5

\* The row of a test push.
LEMMA TestRowIs ==
    /\ OpenRow("_test-ntfy", "warn", 0) \in Event
    /\ OpenRow("_test-ntfy", "warn", 0).open
    /\ OpenRow("_test-ntfy", "warn", 0).source = "_test-ntfy"
<1>1. 0 \in Peaks \ {None}
  BY MarksAreNumbers
<1> QED
  BY <1>1 DEF OpenRow, Event

\* The history keeps its type and its bound.
LEMMA HistoryStep ==
    IInv /\ [Next]_vars => events' \in Seq(Event) /\ Len(events') <= MaxEvents
<1> SUFFICES ASSUME TypeOK, Staged, Marked, Next
             PROVE  events' \in Seq(Event) /\ Len(events') <= MaxEvents
  BY DEF IInv, TypeOK, vars, store
<1>0. events \in Seq(Event) /\ Len(events) <= MaxEvents /\ Len(events) \in Nat /\ MaxEvents \in Nat
  BY RowNumbers, AlertsAssumption DEF TypeOK
<1>1. CASE UNCHANGED events
  BY <1>0, <1>1
<1>2. ASSUME NEW e \in Event, e.open, events' = Append(events, e), Len(events) < MaxEvents
      PROVE  events' \in Seq(Event) /\ Len(events') <= MaxEvents
  BY <1>0, <1>2, RowAppended
<1>3. ASSUME NEW s, CloseEvent(s) PROVE events' \in Seq(Event) /\ Len(events') <= MaxEvents
  BY <1>0, <1>3, RowClosed
<1>4. ASSUME RecordChange PROVE events' \in Seq(Event) /\ Len(events') <= MaxEvents
  BY <1>0, <1>2, <1>3, <1>4, Recorded, SeverityRaised
<1>5. ASSUME RecordPeak PROVE events' \in Seq(Event) /\ Len(events') <= MaxEvents
  BY <1>0, <1>5, PeakRecorded, PeakRaised
<1>6. ASSUME NEW t \in Tests, TestOpens(t) PROVE events' \in Seq(Event) /\ Len(events') <= MaxEvents
  <2>1. Len(events) < MaxEvents /\ events' = Append(events, OpenRow("_test-ntfy", "warn", 0))
    BY <1>0, <1>6 DEF TestOpens
  <2> QED
    BY <1>2, <2>1, TestRowIs
<1>7. ASSUME NEW t \in Tests, TestCloses(t) PROVE events' \in Seq(Event) /\ Len(events') <= MaxEvents
  BY <1>3, <1>7 DEF TestCloses
<1>8. CASE \/ TickStarts \/ Evaluate \/ EvaluateRaises \/ SetState \/ Dispatch \/ TickAborts
           \/ Reconfigure \/ \E t \in Tests : TestDies(t)
  BY <1>1, <1>8 DEF TickStarts, Evaluate, EvaluateRaises, SetState, Dispatch, TickAborts,
     Reconfigure, TestDies, store
<1> QED
  BY <1>4, <1>5, <1>6, <1>7, <1>8 DEF Next, Tick

\* Every variable keeps its type.
LEMMA TypeStep == IInv /\ [Next]_vars => TypeOK'
<1> SUFFICES ASSUME IInv, Next PROVE TypeOK'
  BY DEF IInv, TypeOK, vars, config, store, user
<1>0. TypeOK /\ Staged /\ Marked
  BY DEF IInv
<1>1. events' \in Seq(Event) /\ Len(events') <= MaxEvents
  BY HistoryStep
<1>2. MaxChanges \in Nat
  BY AlertsAssumption
<1> USE DEF config, store, user
<1>3. CASE TickStarts
  <2>1. tick' \in Ticks
    <3>1. tick' = [NoTick EXCEPT !.at = "ready", !.channel = channel, !.todo = enabled]
      BY <1>3 DEF TickStarts
    <3>2. NoTick \in Ticks /\ enabled \subseteq Sources /\ channel \in BOOLEAN
      BY <1>0, TicksMove DEF TypeOK
    <3> QED
      BY <3>1, <3>2 DEF Ticks, Stages
  <2> QED
    BY <1>0, <1>3, <2>1 DEF TickStarts, TypeOK
<1>4. CASE Evaluate
  BY <1>0, <1>4, Evaluated DEF Evaluate, TypeOK
<1>5. CASE EvaluateRaises
  BY <1>0, <1>5, TicksMove DEF EvaluateRaises, InTick, TypeOK
<1>6. CASE SetState
  <2>1. tick' \in Ticks
    BY <1>0, <1>6, AfterRow, TicksMove DEF SetState, InTick
  <2>2. state' \in [Sources -> Rows]
    BY <1>0, <1>6, RowWritten
  <2> QED
    BY <1>0, <1>6, <2>1, <2>2 DEF SetState, TypeOK
<1>7. CASE RecordChange
  BY <1>0, <1>1, <1>7, Recorded DEF RecordChange, TypeOK
<1>8. CASE RecordPeak
  <2>1. tick' \in Ticks
    BY <1>0, <1>8, PeakRecorded, TicksMove
  <2> QED
    BY <1>0, <1>1, <1>8, <2>1 DEF RecordPeak, TypeOK
<1>9. CASE Dispatch
  <2>1. tick' \in Ticks
    BY <1>0, <1>9, TicksMove DEF Dispatch, InTick
  <2>2. Current \in Sources /\ tick.result.severity \in Severities
    BY <1>0, <1>9, TickParts DEF Dispatch, InTick
  <2>3. faults' \in 0 .. MaxFaults
    BY <1>0, <1>9, FaultBounded DEF Dispatch
  <2>4. told' \in [Sources -> Severities] /\ lost' \in [Sources -> BOOLEAN]
    BY <1>0, <1>9, <2>2 DEF Dispatch, TypeOK
  <2> QED
    BY <1>0, <1>9, <2>1, <2>3, <2>4 DEF Dispatch, TypeOK
<1>10. CASE TickAborts
  <2>1. tick' \in Ticks
    BY <1>0, <1>10, TicksMove DEF TickAborts
  <2>2. faults' \in 0 .. MaxFaults
    BY <1>0, <1>10, FaultBounded DEF TickAborts
  <2>3. lost' \in [Sources -> BOOLEAN] /\ torn' \in [Sources -> BOOLEAN]
    <3>1. lost \in [Sources -> BOOLEAN] /\ torn \in [Sources -> BOOLEAN]
      BY <1>0 DEF TypeOK
    <3> DEFINE cut == tick.at \in {"history", "peak", "push"} /\ Change # "steady"
               open == tick.at = "history"
    <3>2. lost' = [lost EXCEPT ![Current] = @ \/ cut] /\ torn' = [torn EXCEPT ![Current] = @ \/ open]
      BY <1>10 DEF TickAborts
    <3>3. cut \in BOOLEAN /\ open \in BOOLEAN
      OBVIOUS
    <3> HIDE DEF cut, open
    <3> QED
      BY <3>1, <3>2, <3>3
  <2> QED
    BY <1>0, <1>10, <2>1, <2>2, <2>3 DEF TickAborts, TypeOK
<1>11. CASE Reconfigure
  BY <1>0, <1>2, <1>11 DEF Reconfigure, TypeOK
<1>12. ASSUME NEW t \in Tests, TestOpens(t) \/ TestCloses(t) PROVE TypeOK'
  BY <1>0, <1>1, <1>12 DEF TestOpens, TestCloses, TypeOK
<1>13. ASSUME NEW t \in Tests, TestDies(t) PROVE TypeOK'
  <2>1. faults' \in 0 .. MaxFaults
    BY <1>0, <1>13, FaultBounded DEF TestDies
  <2> QED
    BY <1>0, <1>13, <2>1 DEF TestDies, TypeOK
<1> QED
  BY <1>3, <1>4, <1>5, <1>6, <1>7, <1>8, <1>9, <1>10, <1>11, <1>12, <1>13 DEF Next, Tick

-----------------------------------------------------------------------------
(***************************************************************************)
(* What a tick has still to do.                                            *)
(***************************************************************************)
\* Steps that leave the tick and the rows alone.
Aside == \/ Reconfigure \/ \E t \in Tests : TestOpens(t) \/ TestCloses(t) \/ TestDies(t)

\* They do.
LEMMA AsideLeaves == Aside => UNCHANGED <<tick, state, told, torn>>
  BY DEF Aside, Reconfigure, TestOpens, TestCloses, TestDies, config, store, user

\* A tick that begins, is between two sources or is over.
Outside == tick.at \in {"idle", "ready"} /\ (tick.at = "idle" <=> tick.todo = {})

\* Where a step leaves the tick.
LEMMA TickGoes ==
    IInv /\ Next =>
        \/ UNCHANGED <<tick, state, torn>> /\ Aside
        \/ Outside' /\ (tick.at # "idle" \/ TickStarts)
        \/ Evaluate
        \/ SetState /\ Change # "idle"
        \/ RecordChange
        \/ RecordPeak /\ Change = "escalate"
<1> SUFFICES ASSUME TypeOK, Staged, Next
             PROVE  \/ UNCHANGED <<tick, state, torn>> /\ Aside
                    \/ Outside' /\ (tick.at # "idle" \/ TickStarts)
                    \/ Evaluate
                    \/ SetState /\ Change # "idle"
                    \/ RecordChange
                    \/ RecordPeak /\ Change = "escalate"
  BY DEF IInv
<1>1. CASE TickStarts
  <2>1. tick' = [NoTick EXCEPT !.at = "ready", !.channel = channel, !.todo = enabled] /\ enabled # {}
    BY <1>1 DEF TickStarts
  <2>2. tick'.at = "ready" /\ tick'.todo # {}
    BY <2>1 DEF NoTick
  <2> QED
    BY <1>1, <2>2 DEF Outside
<1>2. ASSUME tick' = Passed \/ tick' = NoTick, tick.at # "idle" PROVE Outside' /\ tick.at # "idle"
  BY <1>2, TicksMove DEF Outside
<1>3. CASE EvaluateRaises \/ Dispatch \/ TickAborts
  BY <1>2, <1>3 DEF EvaluateRaises, Dispatch, TickAborts, InTick
<1>4. CASE SetState
  BY <1>2, <1>4, AfterRow DEF SetState, InTick
<1>5. CASE RecordPeak
  BY <1>2, <1>5, PeakRecorded DEF RecordPeak, InTick
<1>6. CASE Aside
  BY <1>6, AsideLeaves
<1> QED
  BY <1>1, <1>3, <1>4, <1>5, <1>6 DEF Next, Tick, Aside

\* Each stage is that of its change.
LEMMA StagedStep == IInv /\ [Next]_vars => Staged'
<1> SUFFICES ASSUME IInv, Next PROVE Staged'
  BY DEF IInv, Staged, Writing, Change, Current, vars, store
<1>0. TypeOK /\ Staged /\ Marked
  BY DEF IInv
<1>1. CASE UNCHANGED <<tick, state, torn>>
  BY <1>0, <1>1 DEF Staged, Writing, Change, Current
<1>2. CASE Outside'
  BY <1>2 DEF Outside, Staged, Writing
<1>3. CASE Evaluate
  <2>1. tick'.at = "evaluated" /\ tick'.todo = tick.todo /\ tick.at = "ready"
    BY <1>0, <1>3, Evaluated DEF Evaluate, InTick
  <2> QED
    BY <1>0, <2>1 DEF Staged, Writing
<1>4. CASE SetState /\ Change # "idle"
  <2>1. state'[Current].severity = tick.result.severity /\ tick.at = "evaluated"
    BY <1>0, <1>4, RowWritten DEF SetState, InTick
  <2>2. /\ Change \in {"open", "escalate", "close", "steady", "deescalate"}
        /\ tick'.at = CASE Change \in {"open", "escalate", "close"} -> "history"
                        [] Change = "steady" -> "peak"
                        [] OTHER -> "push"
        /\ tick'.todo = tick.todo /\ tick'.result.severity = tick.result.severity
        /\ Change' = Change /\ Current' = Current
    BY <1>0, <1>4, AfterRow
  <2> QED
    BY <1>0, <2>1, <2>2 DEF Staged, Writing
<1>5. CASE RecordChange
  <2>1. UNCHANGED state
    BY <1>5 DEF RecordChange
  <2>2. /\ tick.at = "history" /\ tick'.at = IF Change = "escalate" THEN "peak" ELSE "push"
        /\ UNCHANGED <<tick.todo, tick.result, Change, Current>>
    BY <1>0, <1>5, Recorded
  <2> QED
    BY <1>0, <2>1, <2>2 DEF Staged, Writing
<1>6. CASE RecordPeak /\ Change = "escalate"
  <2>1. UNCHANGED state
    BY <1>6 DEF RecordPeak
  <2>2. /\ tick.at = "peak" /\ tick'.at = "push" /\ UNCHANGED <<tick.todo, tick.result, Change, Current>>
    BY <1>0, <1>6, PeakRecorded
  <2> QED
    BY <1>0, <1>6, <2>1, <2>2 DEF Staged, Writing
<1> QED
  BY <1>1, <1>2, <1>3, <1>4, <1>5, <1>6, TickGoes

\* Only SetState writes rows.
LEMMA RowsStay == Next /\ ~SetState => UNCHANGED state
  BY DEF Next, Tick, TickStarts, Evaluate, EvaluateRaises, RecordChange, RecordPeak, Dispatch,
     TickAborts, Reconfigure, TestOpens, TestCloses, TestDies, store

\* What fires has a mark, and what opens has room.
LEMMA MarkedStep == IInv /\ [Next]_vars => Marked'
<1> SUFFICES ASSUME IInv, Next PROVE Marked'
  BY DEF IInv, Marked, Reserved, Change, vars, store
<1>0. TypeOK /\ Staged /\ Marked
  BY DEF IInv
<1>1. \A s \in Sources : Firing(state'[s].severity) => state'[s].peak # None
  <2>1. CASE UNCHANGED state
    BY <1>0, <2>1 DEF Marked
  <2>2. CASE SetState
    BY <1>0, <2>2, RowWritten DEF Marked
  <2> QED
    BY <2>1, <2>2, RowsStay
<1>2. tick'.at = "evaluated" /\ Firing(tick'.prev.severity) => tick'.prev.peak # None
  <2>1. CASE Evaluate
    BY <1>0, <2>1, Evaluated DEF Marked
  <2>2. CASE UNCHANGED tick
    BY <1>0, <2>2 DEF Marked
  <2>3. CASE tick'.at # "evaluated"
    BY <2>3
  <2> QED
    BY <1>0, <2>1, <2>2, <2>3, TickGoes, AfterRow, Recorded, PeakRecorded DEF Outside
<1>3. Reserved' => Len(events') < MaxEvents
  <2>0. Len(events) \in Nat /\ MaxEvents \in Nat
    BY <1>0, RowNumbers, AlertsAssumption DEF TypeOK
  <2>1. ASSUME UNCHANGED events, Reserved' => Reserved PROVE Reserved' => Len(events') < MaxEvents
    BY <1>0, <2>1 DEF Marked
  <2>2. CASE Evaluate
    <3>1. UNCHANGED events /\ (Change' = "open" => Len(events) < MaxEvents)
      BY <1>0, <2>2, Evaluated DEF Evaluate, store
    <3> QED
      BY <3>1 DEF Reserved
  <2>3. CASE SetState /\ Change # "idle"
    <3>1. UNCHANGED events /\ tick.at = "evaluated" /\ Change' = Change
      BY <1>0, <2>3, AfterRow DEF SetState, InTick
    <3> QED
      BY <2>1, <3>1 DEF Reserved
  <2>4. CASE Aside
    <3>1. Reserved' <=> Reserved
      BY <2>4, AsideLeaves DEF Reserved, Change
    <3>2. ASSUME NEW t \in Tests, TestOpens(t), Reserved PROVE Len(events') < MaxEvents
      <4>1. Len(events) + 1 < MaxEvents /\ events' = Append(events, OpenRow("_test-ntfy", "warn", 0))
        BY <3>2 DEF TestOpens
      <4>2. Len(events') = Len(events) + 1
        BY <1>0, <4>1, TestRowIs, RowAppended DEF TypeOK
      <4> QED
        BY <4>1, <4>2
    <3>3. ASSUME NEW t \in Tests, TestCloses(t) PROVE Len(events') = Len(events)
      BY <1>0, <3>3, RowClosed DEF TestCloses, TypeOK
    <3>4. ASSUME Reconfigure \/ \E t \in Tests : TestDies(t) PROVE UNCHANGED events
      BY <3>4 DEF Reconfigure, TestDies, store
    <3> QED
      BY <1>0, <2>4, <3>1, <3>2, <3>3, <3>4 DEF Aside, Marked
  <2>5. CASE tick'.at \notin {"evaluated", "history"}
    BY <2>5 DEF Reserved
  <2> QED
    BY <1>0, <2>2, <2>3, <2>4, <2>5, TickGoes, Recorded, PeakRecorded DEF Outside
<1> QED
  BY <1>1, <1>2, <1>3 DEF Marked

\* The row that the evaluator was given stays what it was.
LEMMA ReadRightStep == IInv /\ [Next]_vars => ReadRight'
<1> SUFFICES ASSUME IInv, Next PROVE ReadRight'
  BY DEF IInv, ReadRight, Current, vars, store, user
<1>0. TypeOK /\ Staged /\ Marked /\ ReadRight
  BY DEF IInv
<1>1. CASE Evaluate
  <2>1. UNCHANGED state
    BY <1>1 DEF Evaluate, store
  <2> QED
    BY <1>0, <1>1, <2>1, Evaluated DEF ReadRight
<1>2. CASE Aside
  <2>1. \A s : lost'[s] = lost[s]
    BY <1>2 DEF Aside, Reconfigure, TestOpens, TestCloses, TestDies, user
  <2> QED
    BY <1>0, <1>2, <2>1, AsideLeaves DEF ReadRight, Current
<1>3. CASE tick'.at # "evaluated"
  BY <1>3 DEF ReadRight
<1> QED
  BY <1>0, <1>1, <1>2, <1>3, TickGoes, AfterRow, Recorded, PeakRecorded DEF Outside

-----------------------------------------------------------------------------
(***************************************************************************)
(* Row, history and user.                                                  *)
(***************************************************************************)
\* Rows of a source change only when the tick records for it, or a test push
\* does.
LEMMA RowsOfOthers ==
    ASSUME IInv, Next, NEW s
    PROVE  \/ RowsKept(s)
           \/ s = Current /\ (RecordChange \/ RecordPeak)
           \/ s = "_test-ntfy" /\ \E t \in Tests : TestOpens(t) \/ TestCloses(t)
<1>0. TypeOK /\ Staged /\ Marked /\ events \in Seq(Event)
  BY DEF IInv, TypeOK
<1>1. UNCHANGED events => RowsKept(s)
  BY DEF RowsKept, OpenRowsOf
<1>2. CASE RecordChange /\ s # Current
  BY <1>0, <1>2, Recorded, RowAppended, RowClosed, SeverityRaised
<1>3. CASE RecordPeak /\ s # Current
  BY <1>0, <1>1, <1>3, PeakRecorded, PeakRaised
<1>4. ASSUME NEW t \in Tests, TestOpens(t) \/ TestCloses(t), s # "_test-ntfy" PROVE RowsKept(s)
  BY <1>0, <1>4, TestRowIs, RowAppended, RowClosed DEF TestOpens, TestCloses
<1>5. CASE \/ TickStarts \/ Evaluate \/ EvaluateRaises \/ SetState \/ Dispatch \/ TickAborts
           \/ Reconfigure \/ \E t \in Tests : TestDies(t)
  BY <1>1, <1>5 DEF TickStarts, Evaluate, EvaluateRaises, SetState, Dispatch, TickAborts,
     Reconfigure, TestDies, store
<1> QED
  BY <1>2, <1>3, <1>4, <1>5 DEF Next, Tick

\* A source whose row and rows stay agrees as before.
LEMMA AgreeElsewhere ==
    ASSUME NEW s \in Sources, Agrees(s), RowsKept(s), state'[s] = state[s],
           (~Unrecorded(s) /\ ~Unrecorded(s)') \/ UNCHANGED tick
    PROVE  Agrees(s)'
<1>1. Unrecorded(s)' = Unrecorded(s) /\ (Unrecorded(s) => tick'.prev = tick.prev)
  BY DEF Unrecorded, Current
<1>2. OpenRowsOf(s)' = OpenRowsOf(s) /\ \A i \in OpenRowsOf(s) : events'[i] = events[i]
  BY DEF RowsKept
<1> QED
  BY <1>1, <1>2 DEF Agrees, Alarmed

\* Marks and severities of the open rows can be compared.
LEMMA RowParts ==
    ASSUME TypeOK, NEW s \in Sources, NEW i \in OpenRowsOf(s)
    PROVE  /\ events[i].peak \in Nat /\ events[i].severity \in Severities
           /\ Rank[events[i].severity] \in Nat
<1>1. i \in DOMAIN events /\ events[i] \in Event
  BY RowNumbers DEF TypeOK, OpenRowsOf
<1> QED
  BY <1>1, Ranks, MarksAreNumbers DEF Event

\* The source whose row has just been written.
LEMMA AgreeWritten ==
    ASSUME IInv, SetState, NEW s \in Sources, s = Current, ~torn[s]
    PROVE  Agrees(s)'
<1>0. TypeOK /\ Staged /\ Marked /\ ReadRight /\ Agree
  BY DEF IInv
<1>1. tick.at = "evaluated" /\ UNCHANGED events /\ \A x : OpenRowsOf(x)' = OpenRowsOf(x)
  BY DEF SetState, InTick, OpenRowsOf
<1>2. /\ tick.prev.severity = state[s].severity
      /\ Firing(tick.prev.severity) => tick.prev = state[s]
  BY <1>0, <1>1 DEF ReadRight
<1>3. /\ state'[s].severity = tick.result.severity
      /\ Firing(tick.result.severity) /\ Firing(tick.prev.severity) => tick.prev.peak <= state'[s].peak
      /\ Firing(tick.result.severity) => state'[s].peak \in Nat
      /\ Firing(tick.prev.severity) => tick.prev.peak \in Nat
  <2>1. state'[s] \in Rows /\ tick.prev \in Rows
    BY <1>0, RowWritten, TickParts
  <2> QED
    BY <1>0, <1>1, <2>1, RowWritten, MarksAreNumbers DEF Rows, Marked
<1>4. Alarmed(s, state[s].severity)
  BY <1>0, <1>1 DEF Agree, Agrees, Unrecorded
<1>5. tick.prev.severity \in Severities /\ tick.result.severity \in Severities
  BY <1>0, TickParts
<1>6. \/ /\ Change \in {"open", "escalate", "close"}
         /\ Unrecorded(s)' /\ tick'.prev = tick.prev
      \/ Change \in {"steady", "deescalate", "idle"} /\ ~Unrecorded(s)'
  BY <1>0, <1>1, AfterRow, TicksMove DEF Unrecorded
<1>7. CASE ~Firing(tick.prev.severity)
  <2>1. OpenRowsOf(s) = {} /\ Change \in {"open", "idle"}
    BY <1>2, <1>4, <1>5, <1>7, TransitionIs DEF Alarmed, Change
  <2>2. Change = "idle" => ~Firing(tick.result.severity)
    BY <1>5, TransitionIs DEF Change
  <2> QED
    BY <1>1, <1>3, <1>6, <1>7, <2>1, <2>2 DEF Agrees, Alarmed
<1>8. CASE Firing(tick.prev.severity)
  <2>1. PICK i \in OpenRowsOf(s) :
          /\ OpenRowsOf(s) = {i}
          /\ Rank[events[i].severity] >= Rank[tick.prev.severity]
          /\ events[i].peak <= tick.prev.peak
    BY <1>2, <1>4, <1>8 DEF Alarmed
  <2>2. Firing(tick.result.severity) => events[i].peak <= state'[s].peak
    BY <1>0, <1>3, <1>8, <2>1, RowParts
  <2>3. CASE Unrecorded(s)'
    BY <1>1, <1>3, <1>6, <1>8, <2>1, <2>2, <2>3 DEF Agrees, Alarmed
  <2>4. CASE ~Unrecorded(s)'
    <3>1. Firing(tick.result.severity) /\ Rank[tick.result.severity] <= Rank[tick.prev.severity]
      <4>1. Change \in {"steady", "deescalate", "idle"}
        BY <1>6, <2>4
      <4>2. Rank[tick.result.severity] <= Rank[tick.result.severity]
        BY <1>5, Ranks
      <4> QED
        BY <1>5, <1>8, <4>1, <4>2, TransitionIs DEF Change
    <3>2. Rank[events[i].severity] >= Rank[tick.result.severity]
      BY <1>0, <1>5, <2>1, <3>1, RowParts, Ranks
    <3> QED
      BY <1>1, <1>3, <2>1, <2>2, <2>4, <3>1, <3>2 DEF Agrees, Alarmed
  <2> QED
    BY <2>3, <2>4
<1> QED
  BY <1>7, <1>8

\* The source whose change has just been recorded.
LEMMA AgreeRecorded ==
    ASSUME IInv, RecordChange, NEW s \in Sources, s = Current, ~torn[s]
    PROVE  Agrees(s)'
<1>0. TypeOK /\ Staged /\ Marked /\ Agree /\ events \in Seq(Event)
  BY DEF IInv, TypeOK
<1>1. /\ tick.at = "history" /\ tick'.at \in {"peak", "push"} /\ UNCHANGED state
      /\ state[s].severity = tick.result.severity
  BY <1>0, Recorded DEF RecordChange, Staged, Writing
<1>2. Alarmed(s, tick.prev.severity)
  BY <1>0, <1>1 DEF Agree, Agrees, Unrecorded
<1>3. tick.prev.severity \in Severities /\ tick.result.severity \in Severities
  BY <1>0, TickParts
<1>4. ~Unrecorded(s)'
  BY <1>1 DEF Unrecorded
<1>5. CASE Change = "open"
  <2>1. OpenRowsOf(s) = {} /\ Firing(tick.result.severity)
    BY <1>2, <1>3, <1>5, TransitionIs DEF Alarmed, Change
  <2>2. PICK e \in Event :
          /\ e.open /\ e.source = s /\ e.severity = tick.result.severity /\ e.peak = state[s].peak
          /\ events' = Append(events, e)
    BY <1>0, <1>5, Recorded
  <2>3. OpenRowsOf(s)' = {Len(events')} /\ events'[Len(events')] = e
    BY <1>0, <2>1, <2>2, RowAppended
  <2>4. e.peak \in Nat /\ Rank[e.severity] \in Nat
    BY MarksAreNumbers, Ranks DEF Event
  <2> QED
    BY <1>1, <1>4, <2>1, <2>2, <2>3, <2>4 DEF Agrees, Alarmed
<1>6. CASE Change = "escalate"
  <2>1. Firing(tick.prev.severity) /\ Firing(tick.result.severity)
    BY <1>3, <1>6, TransitionIs DEF Change
  <2>2. PICK i \in OpenRowsOf(s) : OpenRowsOf(s) = {i} /\ events[i].peak <= state[s].peak
    BY <1>1, <1>2, <2>1 DEF Alarmed
  <2>3. /\ OpenRowsOf(s)' = {i} /\ Rank[events'[i].severity] >= Rank[tick.result.severity]
        /\ events'[i].peak = events[i].peak
    BY <1>0, <1>6, <2>2, Recorded, SeverityRaised
  <2> QED
    BY <1>1, <1>4, <2>1, <2>2, <2>3 DEF Agrees, Alarmed
<1>7. CASE Change = "close"
  <2>1. Firing(tick.prev.severity) /\ ~Firing(tick.result.severity)
    BY <1>3, <1>7, TransitionIs DEF Change
  <2>2. PICK i \in OpenRowsOf(s) : OpenRowsOf(s) = {i}
    BY <1>2, <2>1 DEF Alarmed
  <2>3. OpenRowsOf(s)' = {}
    BY <1>0, <1>7, <2>2, Recorded, RowClosed
  <2> QED
    BY <1>1, <1>4, <2>1, <2>3 DEF Agrees, Alarmed
<1> QED
  BY <1>0, <1>5, <1>6, <1>7, Recorded

\* The source whose mark has just been recorded.
LEMMA AgreePeak ==
    ASSUME IInv, RecordPeak, NEW s \in Sources, s = Current, ~torn[s]
    PROVE  Agrees(s)'
<1>0. TypeOK /\ Staged /\ Marked /\ Agree /\ events \in Seq(Event)
  BY DEF IInv, TypeOK
<1>1. /\ tick.at = "peak" /\ Change \in {"escalate", "steady"} /\ UNCHANGED state
      /\ state[s].severity = tick.result.severity
  BY <1>0, PeakRecorded DEF RecordPeak, Staged, Writing
<1>2. Firing(state[s].severity)
  BY <1>0, <1>1, TickParts, TransitionIs DEF Change
<1>3. PICK i \in OpenRowsOf(s) :
        /\ OpenRowsOf(s) = {i}
        /\ Rank[events[i].severity] >= Rank[state[s].severity]
        /\ events[i].peak <= state[s].peak
  BY <1>0, <1>1, <1>2 DEF Agree, Agrees, Alarmed, Unrecorded
<1>4. ~Unrecorded(s)'
  BY <1>0, <1>1, PeakRecorded, TicksMove DEF Unrecorded
<1>5. CASE UNCHANGED events
  BY <1>1, <1>2, <1>3, <1>4, <1>5 DEF Agrees, Alarmed, OpenRowsOf
<1>6. CASE state[s].peak \in Peaks \ {None} /\ UpdatePeak(s, state[s].peak)
  <2>1. /\ OpenRowsOf(s)' = {i} /\ events'[i].severity = events[i].severity
        /\ events'[i].peak \in {events[i].peak, state[s].peak}
    BY <1>0, <1>3, <1>6, PeakRaised
  <2>2. state[s].peak \in Nat
    BY <1>6, MarksAreNumbers
  <2> QED
    BY <1>1, <1>2, <1>3, <1>4, <2>1, <2>2 DEF Agrees, Alarmed
<1> QED
  BY <1>0, <1>5, <1>6, PeakRecorded

\* Row and history agree.
LEMMA AgreeStep == IInv /\ [Next]_vars => Agree'
<1>1. CASE UNCHANGED vars
  BY <1>1 DEF IInv, Agree, Agrees, Alarmed, Unrecorded, Current, OpenRowsOf, vars, store
<1> SUFFICES ASSUME IInv, Next, NEW s \in Sources, ~torn'[s] PROVE Agrees(s)'
  BY <1>1 DEF Agree
<1>0. TypeOK /\ Staged /\ Marked /\ ReadRight /\ Agree
  BY DEF IInv
<1>2. ~torn[s] /\ (TickAborts => ~Unrecorded(s))
  <2>1. CASE Evaluate
    BY <1>0, <2>1, Evaluated DEF Evaluate, TickAborts, InTick, Unrecorded
  <2>2. CASE TickAborts
    BY <1>0, <2>2, TickParts DEF TickAborts, TypeOK, Unrecorded, InTick
  <2>3. CASE ~Evaluate /\ ~TickAborts
    BY <2>3 DEF Next, Tick, TickStarts, EvaluateRaises, SetState, RecordChange, RecordPeak,
       Dispatch, Reconfigure, TestOpens, TestCloses, TestDies
  <2> QED
    BY <2>1, <2>2, <2>3
<1>3. Agrees(s)
  BY <1>0, <1>2 DEF Agree
<1>4. CASE s = Current /\ (SetState \/ RecordChange \/ RecordPeak)
  BY <1>2, <1>4, AgreeWritten, AgreeRecorded, AgreePeak
<1>5. CASE ~(s = Current /\ (SetState \/ RecordChange \/ RecordPeak))
  <2>1. s # "_test-ntfy"
    BY AlertsAssumption
  <2>2. RowsKept(s)
    BY <1>5, <2>1, RowsOfOthers
  <2>3. state'[s] = state[s]
    BY <1>0, <1>5, RowsStay, RowWritten
  <2>4. UNCHANGED tick \/ (~Unrecorded(s) /\ ~Unrecorded(s)')
    <3>1. CASE Aside
      BY <3>1, AsideLeaves
    <3>2. CASE Outside' /\ ~Aside
      <4>1. ~Unrecorded(s)'
        BY <3>2 DEF Outside, Unrecorded
      <4>2. ~Unrecorded(s)
        <5>1. Tick \/ TickAborts
          BY <3>2 DEF Next, Aside
        <5> QED
          BY <1>2, <1>5, <5>1 DEF Tick, TickStarts, Evaluate, EvaluateRaises, SetState, RecordPeak,
             Dispatch, InTick, Unrecorded
      <4> QED
        BY <4>1, <4>2
    <3>3. CASE Evaluate
      BY <1>0, <3>3, Evaluated DEF Evaluate, InTick, Unrecorded
    <3>4. CASE SetState /\ Change # "idle"
      BY <1>0, <1>5, <3>4, AfterRow DEF Unrecorded
    <3>5. CASE RecordChange \/ (RecordPeak /\ Change = "escalate")
      BY <1>0, <1>5, <3>5, Recorded, PeakRecorded DEF Unrecorded
    <3> QED
      BY <3>1, <3>2, <3>3, <3>4, <3>5, TickGoes
  <2> QED
    BY <1>3, <2>2, <2>3, <2>4, AgreeElsewhere
<1> QED
  BY <1>4, <1>5

\* The user knows what the row says, or said before the change under way.
LEMMA ToldStep == IInv /\ [Next]_vars => Told'
<1>1. CASE UNCHANGED vars
  BY <1>1 DEF IInv, Told, AtWorkOn, Current, vars, store, user
<1> SUFFICES ASSUME IInv, Next, NEW s \in Sources, ~lost'[s]
             PROVE  told'[s] = (IF AtWorkOn(s) THEN tick.prev.severity ELSE state[s].severity)'
  BY <1>1 DEF Told
<1>0. /\ TypeOK /\ Staged /\ Marked /\ ReadRight /\ Told
      /\ tick.prev.severity \in Severities /\ tick.result.severity \in Severities
  BY TickParts DEF IInv
<1>00. ~lost[s] => told[s] = IF AtWorkOn(s) THEN tick.prev.severity ELSE state[s].severity
  BY <1>0 DEF Told
<1>2. CASE Aside
  <2>1. lost' = lost
    BY <1>2 DEF Aside, Reconfigure, TestOpens, TestCloses, TestDies, user
  <2> QED
    BY <1>00, <1>2, <2>1, AsideLeaves DEF AtWorkOn, Current
<1>3. CASE TickStarts \/ EvaluateRaises
  <2>1. UNCHANGED <<state, told, lost>> /\ tick.at \in {"idle", "ready"}
    BY <1>3 DEF TickStarts, EvaluateRaises, InTick, store, user
  <2>2. tick'.at \in {"idle", "ready"}
    BY <1>0, <1>3, TicksMove DEF TickStarts, EvaluateRaises, InTick, NoTick
  <2> QED
    BY <1>00, <2>1, <2>2 DEF AtWorkOn
<1>4. CASE Evaluate
  <2>1. UNCHANGED <<state, told>> /\ tick.at = "ready" /\ tick'.at = "evaluated" /\ ~lost[s]
    BY <1>0, <1>4, Evaluated DEF Evaluate, InTick, store
  <2> QED
    BY <1>00, <2>1 DEF AtWorkOn
<1>5. CASE SetState
  <2>1. UNCHANGED <<told, lost>> /\ tick.at = "evaluated" /\ told[s] = state[s].severity
    BY <1>00, <1>5 DEF SetState, InTick, user, AtWorkOn
  <2>2. CASE s # Current
    <3>1. state'[s] = state[s]
      BY <1>0, <1>5, <2>2, RowWritten
    <3>2. ~AtWorkOn(s)'
      BY <1>0, <1>5, <2>1, <2>2, AfterRow, TicksMove DEF AtWorkOn
    <3> QED
      BY <2>1, <3>1, <3>2
  <2>3. CASE s = Current
    <3>1. tick.prev.severity = state[s].severity
      BY <1>0, <2>1, <2>3 DEF ReadRight
    <3>2. CASE Change = "idle"
      <4>1. ~Firing(tick.prev.severity) /\ ~Firing(tick.result.severity)
        BY <1>0, <3>2, TransitionIs DEF Change
      <4>2. state'[s].severity = tick.result.severity /\ ~AtWorkOn(s)'
        BY <1>0, <1>5, <2>1, <2>3, <3>2, RowWritten, AfterRow, TicksMove DEF AtWorkOn
      <4> QED
        BY <2>1, <3>1, <4>1, <4>2 DEF Firing
    <3>3. CASE Change # "idle"
      <4>1. tick'.prev = tick.prev /\ AtWorkOn(s)'
        BY <1>0, <1>5, <2>3, <3>3, AfterRow DEF AtWorkOn
      <4> QED
        BY <2>1, <3>1, <4>1
    <3> QED
      BY <3>2, <3>3
  <2> QED
    BY <2>2, <2>3
<1>6. CASE RecordChange
  <2>1. UNCHANGED <<state, told, lost>>
    BY <1>6 DEF RecordChange, user
  <2>2. /\ tick.at = "history" /\ tick'.at \in {"peak", "push"}
        /\ tick'.prev = tick.prev /\ Current' = Current
    BY <1>0, <1>6, Recorded
  <2> QED
    BY <1>00, <2>1, <2>2 DEF AtWorkOn
<1>7. CASE RecordPeak
  <2>1. UNCHANGED <<state, told, lost>> /\ tick.at = "peak"
    BY <1>7 DEF RecordPeak, InTick, user
  <2>2. CASE Change = "escalate"
    <3>1. tick'.at = "push" /\ tick'.prev = tick.prev /\ Current' = Current
      BY <1>0, <1>7, <2>2, PeakRecorded
    <3> QED
      BY <1>00, <2>1, <3>1 DEF AtWorkOn
  <2>3. CASE Change # "escalate"
    <3>1. Change = "steady" /\ ~AtWorkOn(s)'
      BY <1>0, <1>7, <2>1, <2>3, PeakRecorded, TicksMove DEF AtWorkOn
    <3>2. AtWorkOn(s) => tick.prev.severity = state[s].severity
      BY <1>0, <2>1, <3>1, TransitionIs DEF AtWorkOn, Staged, Writing, Change
    <3> QED
      BY <1>00, <2>1, <3>1, <3>2
  <2> QED
    BY <2>2, <2>3
<1>8. CASE Dispatch
  <2>1. tick.at = "push" /\ UNCHANGED state /\ ~AtWorkOn(s)' /\ Current \in Sources
    BY <1>0, <1>8, TicksMove, TickParts DEF Dispatch, InTick, store, AtWorkOn
  <2>2. CASE s = Current
    <3>1. lost \in [Sources -> BOOLEAN] /\ told \in [Sources -> Severities]
      BY <1>0 DEF TypeOK
    <3>2. told' = [told EXCEPT ![Current] = tick.result.severity]
      BY <1>8, <2>2, <3>1 DEF Dispatch
    <3>3. told'[s] = state[s].severity
      BY <1>0, <2>1, <2>2, <3>1, <3>2 DEF Staged, Writing
    <3> QED
      BY <2>1, <3>3
  <2>3. CASE s # Current
    <3>1. told'[s] = told[s] /\ lost'[s] = lost[s]
      BY <1>0, <1>8, <2>1, <2>3 DEF Dispatch, TypeOK
    <3> QED
      BY <1>00, <2>1, <2>3, <3>1 DEF AtWorkOn
  <2> QED
    BY <2>2, <2>3
<1>9. CASE TickAborts
  <2>1. UNCHANGED <<state, told>> /\ tick.at # "idle" /\ tick'.at = "idle"
    BY <1>0, <1>9, TicksMove DEF TickAborts, InTick, store
  <2>2. lost \in [Sources -> BOOLEAN] /\ Current \in Sources
    BY <1>0, <2>1, TickParts DEF TypeOK
  <2>3. ~lost[s] /\ (AtWorkOn(s) => Change = "steady")
    BY <1>9, <2>2 DEF TickAborts, AtWorkOn
  <2>4. AtWorkOn(s) => tick.prev.severity = state[s].severity
    BY <1>0, <2>3, TransitionIs DEF AtWorkOn, Staged, Writing, Change
  <2> QED
    BY <1>00, <2>1, <2>3, <2>4 DEF AtWorkOn
<1> QED
  BY <1>2, <1>3, <1>4, <1>5, <1>6, <1>7, <1>8, <1>9 DEF Next, Tick, Aside

\* One row stays open for each test push that is under way or has died.
LEMMA TestRowsStep == IInv /\ [Next]_vars => TestRows'
<1> DEFINE rows == OpenRowsOf("_test-ntfy")
<1>1. CASE UNCHANGED vars
  BY <1>1 DEF IInv, TestRows, OpenTests, OpenRowsOf, vars, store
<1> SUFFICES ASSUME IInv, Next PROVE TestRows'
  BY <1>1
<1>0. /\ TypeOK /\ Staged /\ events \in Seq(Event) /\ tests \in [Tests -> {"none", "opened"}]
      /\ IsFiniteSet(OpenTests) /\ Cardinality(rows) = killed + Cardinality(OpenTests)
      /\ killed \in Nat /\ Cardinality(OpenTests) \in Nat
  BY FS_CardinalityType DEF IInv, TypeOK, TestRows
<1>00. IsFiniteSet(rows) /\ rows \subseteq 1 .. Len(events) /\ Cardinality(rows) \in Nat
  BY <1>0, RowNumbers, FS_CardinalityType
<1>2. ASSUME NEW t \in Tests, TestOpens(t) PROVE TestRows'
  <2>1. OpenTests' = OpenTests \cup {t} /\ t \notin OpenTests /\ UNCHANGED killed
    BY <1>0, <1>2 DEF TestOpens, OpenTests
  <2>2. rows' = rows \cup {Len(events')} /\ Len(events') \notin rows
    BY <1>0, <1>2, TestRowIs, RowAppended DEF TestOpens
  <2>3. IsFiniteSet(OpenTests') /\ Cardinality(OpenTests') = Cardinality(OpenTests) + 1
    BY <1>0, <2>1, FS_AddElement
  <2>4. Cardinality(rows') = Cardinality(rows) + 1
    BY <1>00, <2>2, FS_AddElement
  <2> QED
    BY <1>0, <2>1, <2>3, <2>4 DEF TestRows
<1>3. ASSUME NEW t \in Tests, tests[t] = "opened", tests' = [tests EXCEPT ![t] = "none"]
      PROVE  /\ IsFiniteSet(OpenTests') /\ Cardinality(OpenTests') = Cardinality(OpenTests) - 1
             /\ Cardinality(OpenTests) # 0
  <2>1. OpenTests' = OpenTests \ {t} /\ t \in OpenTests
    BY <1>0, <1>3 DEF OpenTests
  <2> QED
    BY <1>0, <2>1, FS_RemoveElement, FS_EmptySet
<1>4. ASSUME NEW t \in Tests, TestCloses(t) PROVE TestRows'
  <2>1. /\ IsFiniteSet(OpenTests') /\ Cardinality(OpenTests') = Cardinality(OpenTests) - 1
        /\ Cardinality(OpenTests) # 0 /\ UNCHANGED killed
    BY <1>3, <1>4 DEF TestCloses
  <2>2. rows # {}
    BY <1>0, <2>1, FS_EmptySet
  <2>3. PICK i \in rows : rows' = rows \ {i}
    BY <1>0, <1>4, <2>2, RowClosed DEF TestCloses
  <2>4. Cardinality(rows') = Cardinality(rows) - 1
    BY <1>00, <2>3, FS_RemoveElement
  <2> QED
    BY <1>0, <2>1, <2>4 DEF TestRows
<1>5. ASSUME NEW t \in Tests, TestDies(t) PROVE TestRows'
  <2>1. /\ IsFiniteSet(OpenTests') /\ Cardinality(OpenTests') = Cardinality(OpenTests) - 1
        /\ killed' = killed + 1 /\ rows' = rows
    BY <1>3, <1>5 DEF TestDies, store, OpenRowsOf
  <2> QED
    BY <1>0, <2>1 DEF TestRows
<1>6. CASE ~\E t \in Tests : TestOpens(t) \/ TestCloses(t) \/ TestDies(t)
  <2>1. UNCHANGED <<tests, killed>>
    BY <1>6 DEF Next, Tick, TickStarts, Evaluate, EvaluateRaises, SetState, RecordChange, RecordPeak,
       Dispatch, TickAborts, Reconfigure
  <2>2. RecordChange \/ RecordPeak => Current # "_test-ntfy"
    BY <1>0, TickParts, AlertsAssumption DEF RecordChange, RecordPeak, InTick
  <2>3. rows' = rows
    BY <1>6, <2>2, RowsOfOthers DEF RowsKept
  <2>4. OpenTests' = OpenTests
    BY <2>1 DEF OpenTests
  <2> QED
    BY <1>0, <2>1, <2>3, <2>4 DEF TestRows
<1> QED
  BY <1>2, <1>4, <1>5, <1>6

\* Initially, nothing fires and nobody has been told anything.
LEMMA InitInv == Init => IInv
<1> SUFFICES ASSUME Init PROVE IInv
  OBVIOUS
<1>1. TypeOK
  <2>1. NoRow \in Rows /\ NoResult \in Results
    BY Ranks, MarksAreNumbers DEF NoRow, Rows, NoResult, Results, NothingRead, Readings
  <2>2. NoTick \in Ticks
    BY <2>1 DEF NoTick, Ticks, Stages
  <2>3. MaxEvents \in Nat /\ MaxFaults \in Nat /\ MaxChanges \in Nat
    BY AlertsAssumption
  <2>4. events \in Seq(Event) /\ Len(events) = 0
    BY DEF Init
  <2> QED
    BY <2>1, <2>2, <2>3, <2>4, Ranks DEF Init, TypeOK
<1>2. tick.at = "idle" /\ tick.todo = {} /\ \A s : OpenRowsOf(s) = {}
  BY DEF Init, NoTick, OpenRowsOf
<1>3. \A s \in Sources : state[s].severity = "clear" /\ told[s] = "clear"
  BY DEF Init, NoRow
<1>4. TestRows
  <2>1. OpenTests = {} /\ killed = 0
    BY DEF Init, OpenTests
  <2> QED
    BY <1>2, <2>1, FS_EmptySet DEF TestRows
<1>5. Staged /\ ReadRight
  BY <1>2 DEF Staged, Writing, ReadRight
<1>6. Marked /\ Agree /\ Told
  BY <1>2, <1>3 DEF Marked, Reserved, Agree, Agrees, Alarmed, Unrecorded, Told, AtWorkOn, Firing
<1> QED
  BY <1>1, <1>4, <1>5, <1>6 DEF IInv

-----------------------------------------------------------------------------
(***************************************************************************)
(* The theorems.                                                           *)
(***************************************************************************)
\* The invariant holds in every reachable state.
THEOREM Invariance == Spec => []IInv
<1>1. IInv /\ [Next]_vars => IInv'
  BY TypeStep, StagedStep, MarkedStep, ReadRightStep, AgreeStep, ToldStep, TestRowsStep DEF IInv
<1> QED
  BY InitInv, <1>1, PTL DEF Spec

\* Config, store, tick and user keep their types, for any sources, items and
\* thresholds.
THEOREM TypeCorrect == Spec => []TypeOK
  BY Invariance, PTL DEF IInv

\* A source that fires has one open event, at least as severe as it is now, one
\* that is clear has none, unless a tick was cut short between row and history
\* or misread the row; open rows of tests are those of pushes under way or dead.
THEOREM HistoryAgrees == Spec => []EventOfAlarm
<1>1. IInv => EventOfAlarm
  <2> SUFFICES ASSUME IInv PROVE EventOfAlarm
    OBVIOUS
  <2>0. Agree /\ TestRows /\ events \in Seq(Event)
    BY DEF IInv, TypeOK
  <2>1. ASSUME NEW s \in Sources, ~torn[s], ~AtWorkOn(s)
        PROVE  IF Firing(state[s].severity)
               THEN /\ Cardinality(OpenRowsOf(s)) = 1
                    /\ \A i \in OpenRowsOf(s) :
                          /\ Rank[events[i].severity] >= Rank[state[s].severity]
                          /\ events[i].peak <= state[s].peak
               ELSE OpenRowsOf(s) = {}
    <3>1. Alarmed(s, state[s].severity)
      BY <2>0, <2>1 DEF Agree, Agrees, Unrecorded, AtWorkOn
    <3>2. CASE Firing(state[s].severity)
      <4> PICK i \in OpenRowsOf(s) :
              /\ OpenRowsOf(s) = {i}
              /\ Rank[events[i].severity] >= Rank[state[s].severity]
              /\ events[i].peak <= state[s].peak
        BY <3>1, <3>2 DEF Alarmed
      <4>1. Cardinality(OpenRowsOf(s)) = 1
        BY FS_Singleton
      <4> QED
        BY <3>2, <4>1
    <3> QED
      BY <3>1, <3>2 DEF Alarmed
  <2> QED
    BY <2>0, <2>1 DEF EventOfAlarm, TestRows, OpenTests
<1> QED
  BY Invariance, <1>1, PTL

\* The last push about a source says what its row says, unless the push that
\* was due did not come.
THEOREM UserKnows == Spec => []ToldTruthful
<1>1. IInv => ToldTruthful
  BY DEF IInv, Told, ToldTruthful
<1> QED
  BY Invariance, <1>1, PTL

\* A severity is left only when every reading has fallen below its threshold by
\* the margin, an alarm ends only when that holds of the lower threshold, and a
\* severity is taken at once.  A severity that is held by the margin alone is
\* never written: its evaluator raises.
THEOREM Steady == Spec => NoFlapping
<1>1. ASSUME NEW was \in Severities, NEW r \in Readings
      PROVE  LET is == ApplyHysteresis(was, Tentative(r), r) IN
             /\ Rank[is] < Rank[was] => ~Reaches(r, Limit(was), Hysteresis)
             /\ Firing(was) /\ ~Firing(is) => ~Reaches(r, Warn, Hysteresis)
             /\ Reaches(r, Err, 0) => is = "err"
             /\ Reaches(r, Warn, 0) => Firing(is)
             /\ ~Held(was, r) /\ Firing(is) => Reaches(r, Err, 0) \/ Reaches(r, Warn, 0)
  <2>1. Reaches(r, Err, 0) => Tentative(r) = "err"
    BY DEF Tentative
  <2>2. Reaches(r, Warn, 0) => Tentative(r) \in {"err", "warn"}
    BY DEF Tentative
  <2>3. Tentative(r) \in {"clear", "warn", "err"} /\ was \in {"clear", "warn", "err"}
    BY Ranks DEF Tentative
  <2>4. Tentative(r) # "clear" => Reaches(r, Err, 0) \/ Reaches(r, Warn, 0)
    BY DEF Tentative
  <2>5. ~Held(was, r) /\ Tentative(r) = "clear" => ~Firing(ApplyHysteresis(was, Tentative(r), r))
    BY DEF Held
  <2>6. LET is == ApplyHysteresis(was, Tentative(r), r) IN
             /\ Rank[is] < Rank[was] => ~Reaches(r, Limit(was), Hysteresis)
             /\ Firing(was) /\ ~Firing(is) => ~Reaches(r, Warn, Hysteresis)
             /\ Reaches(r, Err, 0) => is = "err"
             /\ Reaches(r, Warn, 0) => Firing(is)
    BY <2>1, <2>2, <2>3, Ranks DEF ApplyHysteresis, Limit, Firing
  <2> QED
    BY <2>4, <2>5, <2>6
<1>2. \A threshold : ~Reaches(NothingRead, threshold, 0) /\ ~Reaches(NothingRead, threshold, Hysteresis)
  BY DEF Reaches, NothingRead
<1>3. IInv /\ [Next]_vars =>
        [ \A s \in Tiered :
            LET was == state[s].severity
                is  == state'[s].severity
                r   == tick.result.readings
            IN  state'[s] # state[s] /\ ~torn[s] =>
                  /\ Rank[is] < Rank[was] => ~Reaches(r, Limit(was), Hysteresis)
                  /\ Firing(was) /\ ~Firing(is) => ~Reaches(r, Warn, Hysteresis)
                  /\ Reaches(r, Err, 0) => is = "err"
                  /\ Reaches(r, Warn, 0) => Firing(is)
                  /\ Firing(is) => Reaches(r, Err, 0) \/ Reaches(r, Warn, 0) ]_vars
  <2> DEFINE r == tick.result.readings
  <2> SUFFICES ASSUME IInv, Next, NEW s \in Tiered, state'[s] # state[s], ~torn[s]
               PROVE  /\ Rank[state'[s].severity] < Rank[state[s].severity] =>
                            ~Reaches(r, Limit(state[s].severity), Hysteresis)
                      /\ Firing(state[s].severity) /\ ~Firing(state'[s].severity) =>
                            ~Reaches(r, Warn, Hysteresis)
                      /\ Reaches(r, Err, 0) => state'[s].severity = "err"
                      /\ Reaches(r, Warn, 0) => Firing(state'[s].severity)
                      /\ Firing(state'[s].severity) => Reaches(r, Err, 0) \/ Reaches(r, Warn, 0)
    OBVIOUS
  <2>0. TypeOK /\ Staged /\ Marked /\ ReadRight /\ s \in Sources
    BY AlertsAssumption DEF IInv
  <2>1. SetState /\ s = Current /\ tick.at = "evaluated"
    BY <2>0, RowsStay, RowWritten DEF SetState, InTick
  <2>2. state'[s].severity = tick.result.severity /\ tick.prev.severity = state[s].severity
    BY <2>0, <2>1, RowWritten DEF ReadRight
  <2>3. tick.result \in {NoResult} \cup Measured(state[s].severity)
    BY <2>0, <2>1, <2>2 DEF ReadRight, Evaluations
  <2>4. CASE tick.result = NoResult
    BY <1>2, <2>2, <2>4 DEF NoResult, Firing
  <2>5. CASE tick.result \in Measured(state[s].severity)
    <3>1. /\ r \in Readings /\ ~Held(state[s].severity, r)
          /\ tick.result.severity = ApplyHysteresis(state[s].severity, Tentative(r), r)
      BY <2>5 DEF Measured
    <3>2. state[s].severity \in Severities
      BY <2>0 DEF TypeOK, Rows
    <3> QED
      BY <1>1, <2>2, <3>1, <3>2
  <2> QED
    BY <2>3, <2>4, <2>5
<1> QED
  BY Invariance, <1>3, PTL DEF Spec, NoFlapping
================================================================================
