---------------------------- MODULE BlueGreenProofs ----------------------------
(***************************************************************************)
(* Proofs about BlueGreen: that it keeps its types, that at rest Caddy     *)
(* routes to the colour of the pointer file, that the failure marker says  *)
(* what it means, and that no step of a flip interrupts the service.       *)
(*                                                                         *)
(* None of the three is inductive: what Caddy routes to at rest follows    *)
(* from what the pointer, the snippet and the flip's own variables agree   *)
(* on after each of its steps.  IInv below says so, step by step.          *)
(***************************************************************************)
EXTENDS BlueGreen, TLAPS

box == <<vars, service>>

-----------------------------------------------------------------------------
(***************************************************************************)
(* The inductive invariant.                                                *)
(***************************************************************************)
\* Nothing has killed the hand-over or sent Caddy into the middle of it.
Undisturbed == upset \subseteq {"lost"}

\* No write of a flip has failed unseen.
AllWritten == "unwritten" \notin upset

BeforeSwitch == {"start", "gate", "snippet"}
AfterCommit  == {"closure", "stop", "clear"}
Deciding     == BeforeSwitch \cup {"reload", "color"}
Promoted     == {"snippet", "reload", "color", "closure", "stop"}

\* Only a unit that runs answers, and a supervisor that is about to act has
\* read a pointer.
Supervised ==
    /\ \A c \in Colours : answers[c] => running[c] # None
    /\ supPc \in {"check", "start", "restart"} => supWant \in Colours

\* The flip's variables: current is the pointer until the pointer is moved,
\* a first deploy skips the switch, and a flip that found Caddy down finds
\* it down until it ends.
Shell ==
    /\ flipPc = "idle" => ~caddyDown
    /\ flipPc \in Deciding => current = activeColor
    /\ flipPc \in {"snippet", "reload"} => current # None
    /\ caddyDown /\ Undisturbed => ~CaddyUp

\* The snippet names the colour of the pointer, or, between the switch and
\* the commit, the one the pointer is about to name; at rest, unless a flip
\* was killed in between or a write of it failed unseen.
SnippetFollows ==
    /\ flipPc \in BeforeSwitch \cup {"flip"} /\ activeColor # "" => snippet = ActiveColour
    /\ flipPc = "post" /\ AllWritten /\ activeColor # "" => snippet = ActiveColour
    /\ flipPc = "idle" /\ Undisturbed /\ activeColor # "" => snippet = ActiveColour
    /\ flipPc \in {"reload", "color"} => snippet = Standby
    /\ flipPc \in AfterCommit => snippet = Standby /\ (AllWritten => activeColor = Standby)

\* Caddy follows the snippet as soon as it was reloaded.
CaddyFollows ==
    CaddyUp /\ Undisturbed =>
        /\ flipPc \in BeforeSwitch \cup {"idle", "flip", "reload", "post"} /\ activeColor # ""
              => caddy = ActiveColour
        /\ flipPc \in AfterCommit \cup {"color"} => caddy = Standby

\* The recorded definition, before the commit, after it and at the end.
Recorded ==
    /\ flipPc \in Deciding => activeClosure # unitDef
    /\ flipPc \in {"stop", "clear"} /\ AllWritten => activeClosure = unitDef
    /\ flipPc \in {"idle", "post"} /\ unitDef # None /\ "killed" \notin upset /\ AllWritten =>
          /\ marker # None => activeClosure # unitDef
          /\ activeClosure # unitDef => (marker # None \/ HasGate)

\* A promoted colour that nobody has lost goes on answering.
Answering ==
    flipPc \in Promoted /\ upset = {} /\ current \in Colours => answers[Standby]

IInv ==
    /\ TypeOK
    /\ Supervised
    /\ Shell
    /\ SnippetFollows
    /\ CaddyFollows
    /\ Recorded
    /\ Answering

-----------------------------------------------------------------------------
(***************************************************************************)
(* Typing.                                                                 *)
(***************************************************************************)
\* The two colours are two, and each is the other's standby.
LEMMA TwoColours ==
    /\ \A c \in Colours : Other(c) \in Colours /\ Other(c) # c
    /\ Standby \in Colours /\ Standby # current
    /\ ActiveColour \in Colours
    /\ activeColor \in Colours => ActiveColour = activeColor
  BY DEF Colours, Other, Standby, ActiveColour

\* What systemctl start, restart and stop leave behind are units.
LEMMA UnitsTyped ==
    ASSUME TypeOK, NEW c, Start(c) \/ Restart(c) \/ Stop(c)
    PROVE  running' \in Units /\ answers' \in [Colours -> BOOLEAN]
  BY DEF TypeOK, Start, Restart, Stop, Units

\* A flip that gives up leaves well-typed units.
LEMMA AbortTyped ==
    ASSUME TypeOK, NEW r, Abort(r)
    PROVE  /\ running' \in Units /\ answers' \in [Colours -> BOOLEAN]
           /\ legacy' \in BOOLEAN
  <1>1. Stop(Standby) \/ UNCHANGED <<running, answers>>
    BY DEF Abort
  <1>2. legacy' \in BOOLEAN
    BY DEF Abort, TypeOK, Migrating
  <1> QED
    BY <1>1, <1>2, UnitsTyped DEF TypeOK

\* What a flip adds to what upsets the hand-over: a write that failed unseen.
LEMMA FlipUpset == Flip => upset' \in {upset, upset \cup {"unwritten"}}
  BY DEF Flip, FlipUnchanged, FlipMigrate, FlipNotReady, FlipBegin, FlipStart, FlipStartFails,
     FlipGate, FlipGateFails, FlipSnippet, FlipSnippetFails, FlipReload, FlipReloadFails,
     FlipColor, FlipClosure, FlipStop, FlipClear, Abort, Written, Unwritten

\* Every step keeps the types, one variable after the other.
LEMMA TypeStep == TypeOK /\ [Next]_box => TypeOK'
<1> SUFFICES ASSUME TypeOK, Next PROVE TypeOK'
  BY DEF TypeOK, box, vars, files, units, supervisor, flip, bounds
<1> DEFINE Streaks == 0 .. (UnhealthyTicks - 1)
<1> DEFINE Routes == Colours \cup {"stopped", "restarting"}
<1>0. /\ service \in Services
      /\ activeColor \in Pointers /\ activeClosure \in Closed
      /\ marker \in Markers /\ snippet \in Colours
      /\ unitDef \in Closures \cup {None}
      /\ running \in Units /\ answers \in [Colours -> BOOLEAN] /\ legacy \in BOOLEAN
      /\ caddy \in Routes
      /\ supPc \in SupPcs /\ supWant \in Colours \cup {None} /\ streak \in Streaks
      /\ flipPc \in FlipPcs /\ current \in Pointers /\ caddyDown \in BOOLEAN
      /\ prereqs \in BOOLEAN /\ upset \subseteq Upsets
      /\ rebuilds \in 0 .. MaxRebuilds /\ faults \in 0 .. MaxFaults
  BY DEF TypeOK
<1>a. UnhealthyTicks \in Nat /\ UnhealthyTicks # 0 /\ MaxRebuilds \in Nat /\ MaxFaults \in Nat
  BY ConstantsAssumption
<1>00. 0 \in Streaks
  BY <1>a
<1> HIDE DEF Streaks, Routes
<1>1. flipPc' \in FlipPcs
  <2>1. CASE Flip \/ Activate \/ Settle
    BY <1>0, <2>1 DEF Flip, FlipUnchanged, FlipNotReady, FlipMigrate, FlipBegin, FlipStart,
       FlipStartFails, FlipGate, FlipGateFails, FlipSnippet, FlipSnippetFails, FlipReload,
       FlipReloadFails, FlipColor, FlipClosure, FlipStop, FlipClear, Activate, Settle, flip,
       FlipPcs, Abort
  <2>2. CASE Supervisor
    BY <1>0, <2>2 DEF Supervisor, SupervisorRead, SupervisorCheck, SupervisorStart,
       SupervisorRestart, flip, FlipPcs
  <2>3. CASE Environment
    BY <1>0, <2>3 DEF Environment, BecomeHealthy, Wedge, Crash, CaddyDies, CaddyReturns,
       GateOpens, GateCloses, SupervisorDies, RebuildKilled, Reboot, flip, FlipPcs
  <2> QED
    BY <2>1, <2>2, <2>3 DEF Next
<1>2. supPc' \in SupPcs
  <2>1. CASE Flip \/ Activate \/ Settle
    BY <1>0, <2>1 DEF Flip, FlipUnchanged, FlipNotReady, FlipMigrate, FlipBegin, FlipStart,
       FlipStartFails, FlipGate, FlipGateFails, FlipSnippet, FlipSnippetFails, FlipReload,
       FlipReloadFails, FlipColor, FlipClosure, FlipStop, FlipClear, Activate, Settle,
       supervisor, SupPcs
  <2>2. CASE Supervisor
    BY <1>0, <2>2 DEF Supervisor, SupervisorRead, SupervisorCheck, SupervisorStart,
       SupervisorRestart, supervisor, SupPcs
  <2>3. CASE Environment
    BY <1>0, <2>3 DEF Environment, BecomeHealthy, Wedge, Crash, CaddyDies, CaddyReturns,
       GateOpens, GateCloses, SupervisorDies, RebuildKilled, Reboot, supervisor, SupPcs
  <2> QED
    BY <2>1, <2>2, <2>3 DEF Next
<1>3. marker' \in Markers
  <2>1. CASE Flip \/ Activate \/ Settle
    BY <1>0, <2>1 DEF Flip, FlipUnchanged, FlipNotReady, FlipMigrate, FlipBegin, FlipStart,
       FlipStartFails, FlipGate, FlipGateFails, FlipSnippet, FlipSnippetFails, FlipReload,
       FlipReloadFails, FlipColor, FlipClosure, FlipStop, FlipClear, Activate, Settle, files,
       Markers, Abort
  <2>2. CASE Supervisor
    BY <1>0, <2>2 DEF Supervisor, SupervisorRead, SupervisorCheck, SupervisorStart,
       SupervisorRestart, files, Markers
  <2>3. CASE Environment
    BY <1>0, <2>3 DEF Environment, BecomeHealthy, Wedge, Crash, CaddyDies, CaddyReturns,
       GateOpens, GateCloses, SupervisorDies, RebuildKilled, Reboot, files, Markers
  <2> QED
    BY <2>1, <2>2, <2>3 DEF Next
<1>4. upset' \subseteq Upsets
  <2>1. CASE Flip \/ Activate \/ Settle
    BY <1>0, <2>1, FlipUpset DEF Activate, Settle, Upsets
  <2>2. CASE Supervisor
    BY <1>0, <2>2 DEF Supervisor, SupervisorRead, SupervisorCheck, SupervisorStart,
       SupervisorRestart, Upsets, Lose
  <2>3. CASE Environment
    BY <1>0, <2>3 DEF Environment, BecomeHealthy, Wedge, Crash, CaddyDies, CaddyReturns,
       GateOpens, GateCloses, SupervisorDies, RebuildKilled, Reboot, Upsets, Lose
  <2> QED
    BY <2>1, <2>2, <2>3 DEF Next
<1>5. activeColor' \in Pointers /\ snippet' \in Colours
  <2>0. Standby \in Colours /\ ActiveColour \in Colours /\ Other(Standby) \in Colours
    BY TwoColours
  <2>1. CASE Flip \/ Activate \/ Settle
    BY <1>0, <2>1, <2>0 DEF Flip, FlipUnchanged, FlipNotReady, FlipMigrate, FlipBegin,
       FlipStart,
       FlipStartFails, FlipGate, FlipGateFails, FlipSnippet, FlipSnippetFails, FlipReload,
       FlipReloadFails, FlipColor, FlipClosure, FlipStop, FlipClear, Activate, Settle, files,
       Pointers, Colours, TornColor
  <2>2. CASE Supervisor
    BY <1>0, <2>2 DEF Supervisor, SupervisorRead, SupervisorCheck, SupervisorStart,
       SupervisorRestart, files, Pointers, Colours
  <2>3. CASE Environment
    BY <1>0, <2>3 DEF Environment, BecomeHealthy, Wedge, Crash, CaddyDies, CaddyReturns,
       GateOpens, GateCloses, SupervisorDies, RebuildKilled, Reboot, files, Pointers, Colours,
       TornColor
  <2> QED
    BY <2>1, <2>2, <2>3 DEF Next
<1>6. caddy' \in Routes
  <2>0. ActiveColour \in Colours
    BY TwoColours
  <2>1. CASE Flip \/ Activate \/ Settle
    BY <1>0, <2>1, <2>0, <1>5 DEF Flip, FlipUnchanged, FlipNotReady, FlipMigrate, FlipBegin,
       FlipStart,
       FlipStartFails, FlipGate, FlipGateFails, FlipSnippet, FlipSnippetFails, FlipReload,
       FlipReloadFails, FlipColor, FlipClosure, FlipStop, FlipClear, Activate, Settle, Routes,
       CaddyUp
  <2>2. CASE Supervisor
    BY <1>0, <2>2 DEF Supervisor, SupervisorRead, SupervisorCheck, SupervisorStart,
       SupervisorRestart, Routes
  <2>3. CASE Environment
    BY <1>0, <2>3, <1>5 DEF Environment, BecomeHealthy, Wedge, Crash, CaddyDies, CaddyReturns,
       GateOpens, GateCloses, SupervisorDies, RebuildKilled, Reboot, Routes, Colours
  <2> QED
    BY <2>1, <2>2, <2>3 DEF Next
<1>7. current' \in Pointers
  <2>1. CASE Flip \/ Activate \/ Settle
    BY <1>0, <2>1 DEF Flip, FlipUnchanged, FlipNotReady, FlipMigrate, FlipBegin, FlipStart,
       FlipStartFails, FlipGate, FlipGateFails, FlipSnippet, FlipSnippetFails, FlipReload,
       FlipReloadFails, FlipColor, FlipClosure, FlipStop, FlipClear, Activate, Settle, flip,
       Pointers
  <2>2. CASE Supervisor
    BY <1>0, <2>2 DEF Supervisor, SupervisorRead, SupervisorCheck, SupervisorStart,
       SupervisorRestart, flip
  <2>3. CASE Environment
    BY <1>0, <2>3 DEF Environment, BecomeHealthy, Wedge, Crash, CaddyDies, CaddyReturns,
       GateOpens, GateCloses, SupervisorDies, RebuildKilled, Reboot, flip, Pointers
  <2> QED
    BY <2>1, <2>2, <2>3 DEF Next
<1>8. caddyDown' \in BOOLEAN
  <2>1. CASE Flip \/ Activate \/ Settle
    BY <1>0, <2>1 DEF Flip, FlipUnchanged, FlipNotReady, FlipMigrate, FlipBegin, FlipStart,
       FlipStartFails, FlipGate, FlipGateFails, FlipSnippet, FlipSnippetFails, FlipReload,
       FlipReloadFails, FlipColor, FlipClosure, FlipStop, FlipClear, Activate, Settle, flip,
       CaddyUp
  <2>2. CASE Supervisor
    BY <1>0, <2>2 DEF Supervisor, SupervisorRead, SupervisorCheck, SupervisorStart,
       SupervisorRestart, flip
  <2>3. CASE Environment
    BY <1>0, <2>3 DEF Environment, BecomeHealthy, Wedge, Crash, CaddyDies, CaddyReturns,
       GateOpens, GateCloses, SupervisorDies, RebuildKilled, Reboot, flip
  <2> QED
    BY <2>1, <2>2, <2>3 DEF Next
<1>9. activeClosure' \in Closed
  <2>1. CASE Flip \/ Activate \/ Settle
    BY <1>0, <2>1 DEF Flip, FlipUnchanged, FlipNotReady, FlipMigrate, FlipBegin, FlipStart,
       FlipStartFails, FlipGate, FlipGateFails, FlipSnippet, FlipSnippetFails, FlipReload,
       FlipReloadFails, FlipColor, FlipClosure, FlipStop, FlipClear, Activate, Settle, files,
       Closed, TornClosure
  <2>2. CASE Supervisor
    BY <1>0, <2>2 DEF Supervisor, SupervisorRead, SupervisorCheck, SupervisorStart,
       SupervisorRestart, files, Closed
  <2>3. CASE Environment
    BY <1>0, <2>3 DEF Environment, BecomeHealthy, Wedge, Crash, CaddyDies, CaddyReturns,
       GateOpens, GateCloses, SupervisorDies, RebuildKilled, Reboot, files, Closed, TornClosure
  <2> QED
    BY <2>1, <2>2, <2>3 DEF Next
<1>10. unitDef' \in Closures \cup {None}
  <2>1. CASE Flip \/ Activate \/ Settle
    BY <1>0, <2>1 DEF Flip, FlipUnchanged, FlipNotReady, FlipMigrate, FlipBegin, FlipStart,
       FlipStartFails, FlipGate, FlipGateFails, FlipSnippet, FlipSnippetFails, FlipReload,
       FlipReloadFails, FlipColor, FlipClosure, FlipStop, FlipClear, Activate, Settle
  <2>2. CASE Supervisor
    BY <1>0, <2>2 DEF Supervisor, SupervisorRead, SupervisorCheck, SupervisorStart,
       SupervisorRestart
  <2>3. CASE Environment
    BY <1>0, <2>3 DEF Environment, BecomeHealthy, Wedge, Crash, CaddyDies, CaddyReturns,
       GateOpens, GateCloses, SupervisorDies, RebuildKilled, Reboot
  <2> QED
    BY <2>1, <2>2, <2>3 DEF Next
<1>11. running' \in Units /\ answers' \in [Colours -> BOOLEAN]
  <2>1. CASE Flip \/ Activate \/ Settle
    BY <1>0, <2>1, UnitsTyped, AbortTyped DEF Flip, FlipUnchanged, FlipNotReady, FlipMigrate,
       FlipBegin, FlipStart,
       FlipStartFails, FlipGate, FlipGateFails, FlipSnippet, FlipSnippetFails, FlipReload,
       FlipReloadFails, FlipColor, FlipClosure, FlipStop, FlipClear, Activate, Settle, units
  <2>2. CASE Supervisor
    BY <1>0, <2>2, UnitsTyped DEF Supervisor, SupervisorRead, SupervisorCheck, SupervisorStart,
       SupervisorRestart, units
  <2>3. CASE Environment
    BY <1>0, <2>3, UnitsTyped DEF Environment, BecomeHealthy, Wedge, Crash, CaddyDies,
       CaddyReturns,
       GateOpens, GateCloses, SupervisorDies, RebuildKilled, Reboot, units, Units
  <2> QED
    BY <2>1, <2>2, <2>3 DEF Next
<1>12. legacy' \in BOOLEAN
  <2>1. CASE Flip \/ Activate \/ Settle
    BY <1>0, <2>1, AbortTyped DEF Flip, FlipUnchanged, FlipNotReady, FlipMigrate, FlipBegin,
       FlipStart,
       FlipStartFails, FlipGate, FlipGateFails, FlipSnippet, FlipSnippetFails, FlipReload,
       FlipReloadFails, FlipColor, FlipClosure, FlipStop, FlipClear, Activate, Settle, units
  <2>2. CASE Supervisor
    BY <1>0, <2>2 DEF Supervisor, SupervisorRead, SupervisorCheck, SupervisorStart,
       SupervisorRestart, units
  <2>3. CASE Environment
    BY <1>0, <2>3 DEF Environment, BecomeHealthy, Wedge, Crash, CaddyDies, CaddyReturns,
       GateOpens, GateCloses, SupervisorDies, RebuildKilled, Reboot, units
  <2> QED
    BY <2>1, <2>2, <2>3 DEF Next
<1>13. supWant' \in Colours \cup {None}
  <2>0. ActiveColour \in Colours
    BY TwoColours
  <2>1. CASE Flip \/ Activate \/ Settle
    BY <1>0, <2>1 DEF Flip, FlipUnchanged, FlipNotReady, FlipMigrate, FlipBegin, FlipStart,
       FlipStartFails, FlipGate, FlipGateFails, FlipSnippet, FlipSnippetFails, FlipReload,
       FlipReloadFails, FlipColor, FlipClosure, FlipStop, FlipClear, Activate, Settle,
       supervisor
  <2>2. CASE Supervisor
    BY <1>0, <2>2, <2>0 DEF Supervisor, SupervisorRead, SupervisorCheck, SupervisorStart,
       SupervisorRestart, supervisor
  <2>3. CASE Environment
    BY <1>0, <2>3 DEF Environment, BecomeHealthy, Wedge, Crash, CaddyDies, CaddyReturns,
       GateOpens, GateCloses, SupervisorDies, RebuildKilled, Reboot, supervisor
  <2> QED
    BY <2>1, <2>2, <2>3 DEF Next
<1>14. streak' \in Streaks
  <2>1. CASE Flip \/ Activate \/ Settle
    BY <1>0, <2>1 DEF Flip, FlipUnchanged, FlipNotReady, FlipMigrate, FlipBegin, FlipStart,
       FlipStartFails, FlipGate, FlipGateFails, FlipSnippet, FlipSnippetFails, FlipReload,
       FlipReloadFails, FlipColor, FlipClosure, FlipStop, FlipClear, Activate, Settle,
       supervisor
  <2>2. CASE Supervisor
    BY <1>0, <2>2, <1>00, <1>a DEF Supervisor, SupervisorRead, SupervisorCheck, SupervisorStart,
       SupervisorRestart, supervisor, Streaks
  <2>3. CASE Environment
    BY <1>0, <2>3, <1>00 DEF Environment, BecomeHealthy, Wedge, Crash, CaddyDies, CaddyReturns,
       GateOpens, GateCloses, SupervisorDies, RebuildKilled, Reboot, supervisor
  <2> QED
    BY <2>1, <2>2, <2>3 DEF Next
<1>15. prereqs' \in BOOLEAN
  <2>0. HasGate \in BOOLEAN
    BY <1>0, ConstantsAssumption DEF HasGate
  <2>1. CASE Flip \/ Activate \/ Settle
    BY <1>0, <2>1 DEF Flip, FlipUnchanged, FlipNotReady, FlipMigrate, FlipBegin, FlipStart,
       FlipStartFails, FlipGate, FlipGateFails, FlipSnippet, FlipSnippetFails, FlipReload,
       FlipReloadFails, FlipColor, FlipClosure, FlipStop, FlipClear, Activate, Settle
  <2>2. CASE Supervisor
    BY <1>0, <2>2 DEF Supervisor, SupervisorRead, SupervisorCheck, SupervisorStart,
       SupervisorRestart
  <2>3. CASE Environment
    BY <1>0, <2>3, <2>0 DEF Environment, BecomeHealthy, Wedge, Crash, CaddyDies, CaddyReturns,
       GateOpens, GateCloses, SupervisorDies, RebuildKilled, Reboot
  <2> QED
    BY <2>1, <2>2, <2>3 DEF Next
<1>16. rebuilds' \in 0 .. MaxRebuilds /\ faults' \in 0 .. MaxFaults
  <2>1. CASE Flip \/ Activate \/ Settle
    BY <1>0, <2>1, <1>a DEF Flip, FlipUnchanged, FlipNotReady, FlipMigrate, FlipBegin,
       FlipStart,
       FlipStartFails, FlipGate, FlipGateFails, FlipSnippet, FlipSnippetFails, FlipReload,
       FlipReloadFails, FlipColor, FlipClosure, FlipStop, FlipClear, Activate, Settle, bounds,
       Fault, NoFault, Written, Unwritten
  <2>2. CASE Supervisor
    BY <1>0, <2>2 DEF Supervisor, SupervisorRead, SupervisorCheck, SupervisorStart,
       SupervisorRestart, bounds
  <2>3. CASE Environment
    BY <1>0, <2>3, <1>a DEF Environment, BecomeHealthy, Wedge, Crash, CaddyDies, CaddyReturns,
       GateOpens, GateCloses, SupervisorDies, RebuildKilled, Reboot, bounds, Fault
  <2> QED
    BY <2>1, <2>2, <2>3 DEF Next
<1>17. service' \in Services
  BY <1>0 DEF Next
<1> QED
  BY <1>1, <1>2, <1>3, <1>4, <1>5, <1>6, <1>7, <1>8, <1>9, <1>10, <1>11, <1>12, <1>13, <1>14,
     <1>15, <1>16, <1>17 DEF TypeOK, Streaks, Routes

-----------------------------------------------------------------------------
(***************************************************************************)
(* Each part of the invariant, step by step.                               *)
(***************************************************************************)
\* Every initial state satisfies the invariant.
LEMMA InitInv == Init => IInv
<1> SUFFICES ASSUME Init PROVE IInv
  OBVIOUS
<1>1. TypeOK
  <2>1. /\ UnhealthyTicks \in Nat /\ UnhealthyTicks # 0 /\ MaxRebuilds \in Nat /\ MaxFaults \in Nat
        /\ service \in Services /\ service.gate \in BOOLEAN
    BY ConstantsAssumption DEF Init
  <2>2. streak \in 0 .. (UnhealthyTicks - 1) /\ rebuilds \in 0 .. MaxRebuilds /\ faults \in 0 .. MaxFaults
    BY <2>1 DEF Init
  <2>3. /\ unitDef \in Closures \cup {None} /\ legacy \in BOOLEAN /\ supPc \in SupPcs
        /\ activeColor \in Pointers /\ activeClosure \in Closed /\ marker \in Markers
    BY DEF Init, SupPcs, Pointers, Colours, Closed, Markers
  <2>4. /\ snippet \in Colours /\ caddy \in Colours \cup {"stopped", "restarting"}
        /\ running \in Units /\ answers \in [Colours -> BOOLEAN]
    BY DEF Init, Colours, Units
  <2>5. /\ supWant \in Colours \cup {None} /\ flipPc \in FlipPcs /\ current \in Pointers
        /\ caddyDown \in BOOLEAN /\ upset \subseteq Upsets
    BY DEF Init, FlipPcs, Pointers
  <2>6. prereqs \in BOOLEAN
    BY <2>1 DEF Init, HasGate
  <2> QED
    BY <2>1, <2>2, <2>3, <2>4, <2>5, <2>6 DEF TypeOK
<1>2. flipPc = "idle" /\ snippet = "blue" /\ caddy = "blue" /\ ~caddyDown /\ upset = {}
      /\ (activeColor = None \/ activeColor = "blue")
  BY DEF Init
<1>3. Supervised
  BY DEF Init, Supervised
<1>4. Shell
  BY <1>2 DEF Shell, Deciding, BeforeSwitch
<1>5. SnippetFollows /\ CaddyFollows
  BY <1>2, ConstantsAssumption DEF SnippetFollows, CaddyFollows, ActiveColour, AfterCommit
<1>6. Recorded
  BY <1>2, ConstantsAssumption DEF Init, Recorded, Deciding, BeforeSwitch
<1>7. Answering
  BY <1>2 DEF Answering, Promoted
<1> QED
  BY <1>1, <1>3, <1>4, <1>5, <1>6, <1>7 DEF IInv

\* A unit that answers runs, whatever systemctl does to it.
LEMMA UnitsSupervised ==
    ASSUME TypeOK, Supervised, NEW c, Start(c) \/ Restart(c) \/ Stop(c)
    PROVE  \A d \in Colours : answers'[d] => running'[d] # None
<1> SUFFICES ASSUME NEW d \in Colours, answers'[d] PROVE running'[d] # None
  OBVIOUS
<1>1. answers[d] => running[d] # None
  BY DEF Supervised
<1>2. running \in Units /\ answers \in [Colours -> BOOLEAN]
  BY DEF TypeOK
<1> QED
  BY <1>1, <1>2 DEF Start, Restart, Stop, Units

\* Only running units answer, and a supervisor acts on a pointer it has read.
LEMMA SupervisedStep == TypeOK /\ Supervised /\ [Next]_box => Supervised'
<1> SUFFICES ASSUME TypeOK, Supervised, Next PROVE Supervised'
  BY DEF Supervised, box, vars, units, supervisor
<1>0. \A c \in Colours : answers[c] => running[c] # None
  BY DEF Supervised
<1>1. \A c \in Colours : answers'[c] => running'[c] # None
  <2>1. CASE Flip \/ Activate \/ Settle
    <3>1. ASSUME NEW r, Abort(r) PROVE \A c \in Colours : answers'[c] => running'[c] # None
      BY <1>0, <3>1, UnitsSupervised DEF Abort
    <3> QED
      BY <1>0, <2>1, <3>1, UnitsSupervised DEF Flip, FlipUnchanged, FlipMigrate, FlipNotReady,
         FlipBegin, FlipStart, FlipStartFails, FlipGate, FlipGateFails, FlipSnippet,
         FlipSnippetFails, FlipReload, FlipReloadFails, FlipColor, FlipClosure, FlipStop,
         FlipClear, Activate, Settle, units
  <2>2. CASE Supervisor
    BY <1>0, <2>2, UnitsSupervised DEF Supervisor, SupervisorRead, SupervisorCheck,
       SupervisorStart, SupervisorRestart, units
  <2>3. ASSUME NEW c \in Colours, BecomeHealthy(c)
        PROVE  \A d \in Colours : answers'[d] => running'[d] # None
    BY <1>0, <2>3, ConstantsAssumption DEF BecomeHealthy, TypeOK
  <2>4. ASSUME NEW c \in Colours, Wedge(c)
        PROVE  \A d \in Colours : answers'[d] => running'[d] # None
    BY <1>0, <2>4 DEF Wedge, TypeOK
  <2>5. ASSUME NEW c \in Colours, Crash(c)
        PROVE  \A d \in Colours : answers'[d] => running'[d] # None
    BY <2>5, UnitsSupervised DEF Crash
  <2>6. CASE CaddyDies \/ CaddyReturns \/ GateOpens \/ GateCloses \/ SupervisorDies \/ RebuildKilled
    BY <1>0, <2>6 DEF CaddyDies, CaddyReturns, GateOpens, GateCloses, SupervisorDies,
       RebuildKilled, units
  <2>7. CASE Reboot
    BY <2>7 DEF Reboot
  <2> QED
    BY <2>1, <2>2, <2>3, <2>4, <2>5, <2>6, <2>7 DEF Next, Environment
<1>2. supPc' \in {"check", "start", "restart"} => supWant' \in Colours
  <2>0. ActiveColour \in Colours
    BY TwoColours
  <2>1. CASE Flip \/ Activate \/ Settle
    BY <2>1 DEF Flip, FlipUnchanged, FlipMigrate, FlipNotReady, FlipBegin, FlipStart,
       FlipStartFails, FlipGate, FlipGateFails, FlipSnippet, FlipSnippetFails, FlipReload,
       FlipReloadFails, FlipColor, FlipClosure, FlipStop, FlipClear, Activate, Settle,
       supervisor, Supervised
  <2>2. CASE Supervisor
    BY <2>0, <2>2 DEF Supervisor, SupervisorRead, SupervisorCheck, SupervisorStart,
       SupervisorRestart, Supervised
  <2>3. CASE Environment
    BY <2>3 DEF Environment, BecomeHealthy, Wedge, Crash, CaddyDies, CaddyReturns, GateOpens,
       GateCloses, SupervisorDies, RebuildKilled, Reboot, supervisor, Supervised
  <2> QED
    BY <2>1, <2>2, <2>3 DEF Next
<1> QED
  BY <1>1, <1>2 DEF Supervised

\* Once the hand-over was killed, or Caddy restarted into it, a flip no longer
\* counts as undisturbed; only a boot starts anew.
LEMMA UpsetGrows ==
    ASSUME Next, ~Reboot
    PROVE  /\ Undisturbed' => Undisturbed
           /\ "killed" \notin upset' => "killed" \notin upset
           /\ AllWritten' => AllWritten
           /\ ~Activate /\ upset' = {} => upset = {}
<1> USE DEF Undisturbed, AllWritten
<1>1. CASE Activate \/ Settle
  BY <1>1 DEF Activate, Settle
<1>4. CASE Flip
  BY <1>4, FlipUpset
<1>2. CASE Supervisor
  BY <1>2 DEF Supervisor, SupervisorRead, SupervisorCheck, SupervisorStart,
     SupervisorRestart, Lose, Undisturbed
<1>3. CASE Environment
  BY <1>3 DEF Environment, BecomeHealthy, Wedge, Crash, CaddyDies, CaddyReturns, GateOpens,
     GateCloses, SupervisorDies, RebuildKilled, Lose, Undisturbed
<1> QED
  BY <1>1, <1>2, <1>3, <1>4 DEF Next

\* The steps that are neither the activation's nor change where traffic goes:
\* those of the supervisor, of the units and of the gate, and Caddy's death.
Aside ==
    \/ Supervisor
    \/ \E c \in Colours : BecomeHealthy(c) \/ Wedge(c) \/ Crash(c)
    \/ CaddyDies \/ GateOpens \/ GateCloses \/ SupervisorDies

\* They leave the files and the flip alone, and Caddy where it is or dead.
LEMMA AsideSteps ==
    ASSUME Next, Aside
    PROVE  /\ UNCHANGED <<service, activeColor, activeClosure, marker, snippet, unitDef>>
           /\ UNCHANGED <<flipPc, current, caddyDown>>
           /\ caddy' \in {caddy, "restarting"}
           /\ upset \subseteq upset'
<1>1. service' = service
  BY DEF Next
<1>2. CASE Supervisor
  BY <1>1, <1>2 DEF Supervisor, SupervisorRead, SupervisorCheck, SupervisorStart,
     SupervisorRestart, Lose, files, flip
<1>3. CASE ~Supervisor
  BY <1>1, <1>3 DEF Aside, BecomeHealthy, Wedge, Crash, CaddyDies, GateOpens, GateCloses,
     SupervisorDies, Lose, files, flip
<1> QED
  BY <1>2, <1>3

\* The steps of the system, apart from those.
LEMMA StepCases ==
    Next => Activate \/ Flip \/ Settle \/ Aside \/ CaddyReturns \/ RebuildKilled \/ Reboot
  BY DEF Next, Environment, Aside

\* No step of a flip begins at rest, and none ends there.
LEMMA FlipsBegin == Flip => flipPc \in FlipPcs \ {"idle", "post"} /\ flipPc' # "idle"
  BY DEF Flip, FlipUnchanged, FlipMigrate, FlipNotReady, FlipBegin, FlipStart, FlipStartFails,
     FlipGate, FlipGateFails, FlipSnippet, FlipSnippetFails, FlipReload, FlipReloadFails,
     FlipColor, FlipClosure, FlipStop, FlipClear, Abort, FlipPcs

\* The flip's variables keep to the pointer, and to whether Caddy is up.
LEMMA ShellStep == TypeOK /\ Shell /\ [Next]_box => Shell'
<1> SUFFICES ASSUME TypeOK, Shell, Next PROVE Shell'
  BY DEF Shell, Undisturbed, CaddyUp, box, vars, files, flip
<1> USE DEF Deciding, BeforeSwitch
<1>1. CASE Activate
  <2>1. flipPc = "idle" /\ flipPc' = "flip" /\ ~caddyDown /\ caddyDown' = caddyDown
    BY <1>1 DEF Activate, Shell
  <2> QED
    BY <2>1 DEF Shell
<1>2. CASE Flip
  <2>1. flipPc' # "idle"
    BY <1>2, FlipsBegin
  <2>2. flipPc' \in Deciding => current' = activeColor'
    BY <1>2 DEF Flip, FlipUnchanged, FlipMigrate, FlipNotReady, FlipBegin, FlipStart,
       FlipStartFails, FlipGate, FlipGateFails, FlipSnippet, FlipSnippetFails, FlipReload,
       FlipReloadFails, FlipColor, FlipClosure, FlipStop, FlipClear, Abort, Shell, files, flip
  <2>3. flipPc' \in {"snippet", "reload"} => current' # None
    BY <1>2 DEF Flip, FlipUnchanged, FlipMigrate, FlipNotReady, FlipBegin, FlipStart,
       FlipStartFails, FlipGate, FlipGateFails, FlipSnippet, FlipSnippetFails, FlipReload,
       FlipReloadFails, FlipColor, FlipClosure, FlipStop, FlipClear, Abort, Shell, flip, Migrating
  <2>4. caddyDown' /\ Undisturbed' => ~CaddyUp'
    BY <1>2, FlipUpset DEF Flip, FlipUnchanged, FlipMigrate, FlipNotReady, FlipBegin, FlipStart,
       FlipStartFails, FlipGate, FlipGateFails, FlipSnippet, FlipSnippetFails, FlipReload,
       FlipReloadFails, FlipColor, FlipClosure, FlipStop, FlipClear, Shell, CaddyUp, Undisturbed, flip
  <2> QED
    BY <2>1, <2>2, <2>3, <2>4 DEF Shell
<1>3. CASE Settle \/ RebuildKilled \/ Reboot
  BY <1>3 DEF Settle, RebuildKilled, Reboot, Shell
<1>4. CASE Aside
  <2>1. /\ UNCHANGED <<activeColor, flipPc, current, caddyDown>>
        /\ caddy' \in {caddy, "restarting"} /\ (Undisturbed' => Undisturbed)
    BY <1>4, AsideSteps DEF Undisturbed
  <2> QED
    BY <2>1 DEF Shell, CaddyUp, Colours
<1>5. CASE CaddyReturns
  <2>1. UNCHANGED <<activeColor, flipPc, current, caddyDown>>
    BY <1>5 DEF CaddyReturns, files, flip
  <2>2. flipPc # "idle" => ~Undisturbed'
    BY <1>5 DEF CaddyReturns, Undisturbed
  <2> QED
    BY <2>1, <2>2 DEF Shell
<1> QED
  BY <1>1, <1>2, <1>3, <1>4, <1>5, StepCases

\* The snippet follows the pointer, or runs ahead of it during the switch.
LEMMA SnippetStep == TypeOK /\ Shell /\ SnippetFollows /\ [Next]_box => SnippetFollows'
<1> SUFFICES ASSUME TypeOK, Shell, SnippetFollows, Next PROVE SnippetFollows'
  BY DEF SnippetFollows, AllWritten, Undisturbed, ActiveColour, Standby, box, vars, files, flip
<1> USE DEF BeforeSwitch, AfterCommit
<1>1. CASE Activate
  BY <1>1 DEF Activate, SnippetFollows, ActiveColour
<1>2. CASE FlipUnchanged \/ FlipNotReady \/ FlipBegin
  <2>1. /\ flipPc = "flip" /\ flipPc' \in {"post", "start"}
        /\ UNCHANGED <<activeColor, snippet>>
    BY <1>2 DEF FlipUnchanged, FlipNotReady, FlipBegin, files
  <2> QED
    BY <2>1 DEF SnippetFollows, ActiveColour
<1>3. CASE FlipMigrate
  BY <1>3, ConstantsAssumption DEF FlipMigrate, SnippetFollows, ActiveColour, Standby
<1>4. CASE FlipStart \/ FlipGate
  <2>1. /\ flipPc \in {"start", "gate"} /\ UNCHANGED <<activeColor, snippet, current>>
        /\ flipPc' \in {"gate", "snippet"} \/ (current = None /\ flipPc' = "color")
    BY <1>4 DEF FlipStart, FlipGate, files, flip, Migrating
  <2>2. current = activeColor /\ (activeColor # "" => snippet = ActiveColour)
    BY <2>1 DEF Shell, Deciding, SnippetFollows
  <2> QED
    BY <2>1, <2>2, ConstantsAssumption DEF SnippetFollows, ActiveColour, Standby
<1>5. CASE FlipStartFails \/ FlipGateFails \/ FlipSnippetFails
  <2>1. /\ flipPc \in BeforeSwitch /\ flipPc' = "post"
        /\ UNCHANGED <<activeColor, snippet>>
    BY <1>5 DEF FlipStartFails, FlipGateFails, FlipSnippetFails, Abort
  <2> QED
    BY <2>1 DEF SnippetFollows, ActiveColour
<1>6. CASE FlipSnippet
  BY <1>6 DEF FlipSnippet, SnippetFollows, Standby
<1>7. CASE FlipReload
  BY <1>7 DEF FlipReload, SnippetFollows, Standby, files
<1>8. CASE FlipReloadFails
  <2>1. /\ flipPc = "reload" /\ flipPc' = "post" /\ activeColor' = activeColor
        /\ AllWritten' => snippet' = Other(Standby)
    BY <1>8 DEF FlipReloadFails, Abort, AllWritten
  <2>2. current = activeColor /\ current # None /\ activeColor \in Pointers
    BY <2>1 DEF Shell, Deciding, TypeOK
  <2> QED
    BY <2>1, <2>2 DEF SnippetFollows, ActiveColour, Standby, Other, Pointers, Colours
<1>9. CASE FlipColor
  <2>1. /\ flipPc = "color" /\ flipPc' = "closure" /\ UNCHANGED <<snippet, current>>
        /\ AllWritten' => activeColor' = Standby
    BY <1>9 DEF FlipColor, Unwritten, AllWritten
  <2> QED
    BY <2>1 DEF SnippetFollows, Standby
<1>10. CASE FlipClosure \/ FlipStop
  <2>1. /\ flipPc \in {"closure", "stop"} /\ flipPc' \in {"stop", "clear"}
        /\ UNCHANGED <<activeColor, snippet, current>> /\ (AllWritten' => AllWritten)
    BY <1>10 DEF FlipClosure, FlipStop, files, flip, Written, Unwritten, AllWritten
  <2> QED
    BY <2>1 DEF SnippetFollows, Standby
<1>11. CASE FlipClear
  <2>1. /\ flipPc = "clear" /\ flipPc' = "post"
        /\ UNCHANGED <<activeColor, snippet, upset>>
    BY <1>11 DEF FlipClear
  <2> QED
    BY <2>1 DEF SnippetFollows, ActiveColour, Standby, AllWritten
<1>12. CASE Settle
  BY <1>12 DEF Settle, SnippetFollows, ActiveColour, Undisturbed, AllWritten
<1>13. CASE Aside
  <2>1. /\ UNCHANGED <<activeColor, snippet, flipPc, current>>
        /\ (Undisturbed' => Undisturbed) /\ (AllWritten' => AllWritten)
    BY <1>13, AsideSteps DEF Undisturbed, AllWritten
  <2> QED
    BY <2>1 DEF SnippetFollows, ActiveColour, Standby
<1>14. CASE CaddyReturns
  <2>1. UNCHANGED <<activeColor, snippet, flipPc, current>>
    BY <1>14 DEF CaddyReturns, files, flip
  <2>2. (flipPc = "idle" => upset' = upset) /\ (AllWritten' => AllWritten)
    BY <1>14 DEF CaddyReturns, AllWritten
  <2> QED
    BY <2>1, <2>2 DEF SnippetFollows, ActiveColour, Standby, Undisturbed
<1>15. CASE RebuildKilled
  BY <1>15 DEF RebuildKilled, SnippetFollows, Undisturbed
<1>16. CASE Reboot
  BY <1>16 DEF Reboot, SnippetFollows, ActiveColour
<1> QED
  BY <1>1, <1>2, <1>3, <1>4, <1>5, <1>6, <1>7, <1>8, <1>9, <1>10, <1>11, <1>12, <1>13, <1>14,
     <1>15, <1>16, StepCases DEF Flip

\* Caddy follows the pointer, and the standby from its reload on.
LEMMA CaddyStep ==
    TypeOK /\ Shell /\ SnippetFollows /\ CaddyFollows /\ [Next]_box => CaddyFollows'
<1> SUFFICES ASSUME TypeOK, Shell, SnippetFollows, CaddyFollows, Next, CaddyUp', Undisturbed'
             PROVE  CaddyFollows'
  BY DEF CaddyFollows, Undisturbed, CaddyUp, ActiveColour, Standby, box, vars, files, flip
<1> USE DEF BeforeSwitch, AfterCommit
<1>1. CASE Activate
  <2>1. /\ flipPc = "idle" /\ flipPc' = "flip" /\ activeColor' = activeColor
        /\ caddy' = caddy /\ Undisturbed
    BY <1>1, UpsetGrows DEF Activate, CaddyUp, Colours, Reboot, Undisturbed
  <2> QED
    BY <2>1 DEF CaddyFollows, CaddyUp, ActiveColour
<1>2. CASE FlipUnchanged \/ FlipNotReady \/ FlipBegin
  <2>1. /\ flipPc = "flip" /\ flipPc' \in {"post", "start"}
        /\ UNCHANGED <<activeColor, caddy, upset>>
    BY <1>2 DEF FlipUnchanged, FlipNotReady, FlipBegin, files
  <2> QED
    BY <2>1 DEF CaddyFollows, CaddyUp, ActiveColour, Undisturbed
<1>3. CASE FlipMigrate
  <2>1. /\ flipPc = "flip" /\ flipPc' \in {"start", "color"} /\ activeColor = None /\ current' = None
        /\ UNCHANGED <<activeColor, caddy, upset>>
    BY <1>3 DEF FlipMigrate
  <2> QED
    BY <2>1, ConstantsAssumption DEF CaddyFollows, CaddyUp, ActiveColour, Undisturbed, Standby
<1>4. CASE FlipStart \/ FlipGate \/ FlipSnippet
  <2>1. /\ flipPc \in BeforeSwitch /\ UNCHANGED <<activeColor, caddy, current, upset>>
        /\ flipPc' \in {"gate", "snippet", "reload"} \/ (current = None /\ flipPc' = "color")
    BY <1>4 DEF FlipStart, FlipGate, FlipSnippet, files, flip, Migrating
  <2>2. current = activeColor
    BY <2>1 DEF Shell, Deciding
  <2> QED
    BY <2>1, <2>2, ConstantsAssumption DEF CaddyFollows, CaddyUp, ActiveColour, Undisturbed, Standby
<1>5. CASE FlipStartFails \/ FlipGateFails \/ FlipSnippetFails \/ FlipReloadFails
  <2>1. /\ flipPc \in BeforeSwitch \cup {"reload"} /\ flipPc' = "post"
        /\ UNCHANGED <<activeColor, caddy>> /\ Undisturbed
    BY <1>5, FlipUpset DEF Flip, FlipStartFails, FlipGateFails, FlipSnippetFails,
       FlipReloadFails, Abort, Undisturbed
  <2> QED
    BY <2>1 DEF CaddyFollows, CaddyUp, ActiveColour, Undisturbed
<1>6. CASE FlipReload
  <2>1. /\ flipPc = "reload" /\ flipPc' = "color" /\ current' = current /\ upset' = upset
        /\ IF caddyDown THEN caddy' = caddy ELSE caddy' = snippet
    BY <1>6 DEF FlipReload, flip
  <2>2. ~caddyDown
    BY <2>1 DEF Shell, CaddyUp, Undisturbed
  <2>3. snippet = Standby
    BY <2>1 DEF SnippetFollows
  <2> QED
    BY <2>1, <2>2, <2>3 DEF CaddyFollows, Standby
<1>7. CASE FlipColor \/ FlipClosure \/ FlipStop
  <2>1. /\ flipPc \in {"color", "closure", "stop"} /\ flipPc' \in AfterCommit
        /\ UNCHANGED <<caddy, current>> /\ Undisturbed
    BY <1>7, FlipUpset DEF Flip, FlipColor, FlipClosure, FlipStop, flip, Undisturbed
  <2> QED
    BY <2>1 DEF CaddyFollows, CaddyUp, Undisturbed, Standby
<1>8. CASE FlipClear
  <2>1. /\ flipPc = "clear" /\ flipPc' = "post"
        /\ UNCHANGED <<activeColor, caddy, upset>>
    BY <1>8 DEF FlipClear
  <2> QED
    BY <2>1 DEF CaddyFollows, SnippetFollows, CaddyUp, ActiveColour, Standby, Undisturbed,
       AllWritten
<1>9. CASE Settle
  <2>1. /\ flipPc = "post" /\ flipPc' = "idle" /\ UNCHANGED <<activeColor, upset>>
        /\ snippet' \in {snippet, ActiveColour}
        /\ caddy' \in IF CaddyUp THEN {caddy, snippet'} ELSE {snippet'}
    BY <1>9 DEF Settle
  <2>2. activeColor # "" => snippet' = ActiveColour /\ (CaddyUp => caddy = ActiveColour)
    BY <2>1 DEF SnippetFollows, CaddyFollows, Undisturbed, AllWritten
  <2> QED
    BY <2>1, <2>2 DEF CaddyFollows, ActiveColour
<1>10. CASE Aside
  <2>1. /\ UNCHANGED <<activeColor, flipPc, current>> /\ caddy' \in {caddy, "restarting"}
        /\ Undisturbed
    BY <1>10, AsideSteps DEF Undisturbed
  <2>2. caddy' = caddy
    BY <2>1 DEF CaddyUp, Colours
  <2> QED
    BY <2>1, <2>2 DEF CaddyFollows, CaddyUp, ActiveColour, Standby
<1>11. CASE CaddyReturns
  <2>1. /\ UNCHANGED <<activeColor, flipPc>> /\ caddy' = snippet /\ flipPc = "idle"
        /\ upset' = upset
    BY <1>11 DEF CaddyReturns, Undisturbed, files, flip
  <2> QED
    BY <2>1 DEF SnippetFollows, CaddyFollows, ActiveColour, Undisturbed
<1>12. CASE RebuildKilled
  BY <1>12 DEF RebuildKilled, Undisturbed
<1>13. CASE Reboot
  BY <1>13 DEF Reboot, CaddyFollows, ActiveColour
<1> QED
  BY <1>1, <1>2, <1>3, <1>4, <1>5, <1>6, <1>7, <1>8, <1>9, <1>10, <1>11, <1>12, <1>13,
     StepCases DEF Flip

\* The marker and the recorded definition agree whenever a flip is over.
LEMMA RecordedStep == TypeOK /\ Recorded /\ [Next]_box => Recorded'
<1> SUFFICES ASSUME TypeOK, Recorded, Next PROVE Recorded'
  BY DEF Recorded, AllWritten, HasGate, box, vars, files, flip
<1> USE DEF Deciding, BeforeSwitch, AllWritten
<1>s. service' = service /\ marker \in Markers
  BY DEF Next, TypeOK
<1>1. CASE Activate
  BY <1>1 DEF Activate, Recorded
<1>2. CASE FlipUnchanged
  BY <1>2 DEF FlipUnchanged, Recorded
<1>3. CASE FlipMigrate \/ FlipBegin
  <2>1. /\ flipPc' \in {"start", "color"} /\ activeClosure # unitDef
        /\ UNCHANGED <<activeClosure, unitDef>>
    BY <1>3 DEF FlipMigrate, FlipBegin, files
  <2> QED
    BY <2>1 DEF Recorded
<1>4. CASE FlipNotReady
  <2>1. /\ flipPc' = "post" /\ activeClosure # unitDef /\ HasGate
        /\ UNCHANGED <<activeClosure, unitDef>>
    BY <1>4 DEF FlipNotReady, files, Ready
  <2> QED
    BY <2>1, <1>s DEF Recorded, HasGate
<1>5. CASE FlipStart \/ FlipGate \/ FlipSnippet \/ FlipReload
  <2>1. /\ flipPc \in Deciding /\ flipPc' \in Deciding
        /\ UNCHANGED <<activeClosure, unitDef>>
    BY <1>5 DEF FlipStart, FlipGate, FlipSnippet, FlipReload, files
  <2> QED
    BY <2>1 DEF Recorded
<1>6. CASE FlipStartFails \/ FlipGateFails \/ FlipSnippetFails \/ FlipReloadFails
  <2>1. /\ flipPc \in Deciding /\ flipPc' = "post"
        /\ AllWritten' => marker' \in {"failed", "deferred"}
        /\ UNCHANGED <<activeClosure, unitDef>>
    BY <1>6 DEF FlipStartFails, FlipGateFails, FlipSnippetFails, FlipReloadFails, Abort
  <2> QED
    BY <2>1, ConstantsAssumption DEF Recorded
<1>7. CASE FlipColor \/ FlipClosure \/ FlipStop
  BY <1>7 DEF FlipColor, FlipClosure, FlipStop, Recorded, files, Written, Unwritten
<1>8. CASE FlipClear
  BY <1>8 DEF FlipClear, Recorded
<1>9. CASE Settle
  <2>1. /\ flipPc = "post" /\ flipPc' = "idle"
        /\ UNCHANGED <<activeClosure, marker, unitDef, upset>>
    BY <1>9 DEF Settle
  <2> QED
    BY <2>1, <1>s DEF Recorded, HasGate
<1>10. CASE Aside
  <2>1. UNCHANGED <<activeClosure, marker, unitDef, flipPc>> /\ upset \subseteq upset'
    BY <1>10, AsideSteps
  <2> QED
    BY <2>1, <1>s DEF Recorded, HasGate
<1>11. CASE CaddyReturns
  <2>1. UNCHANGED <<activeClosure, marker, unitDef, flipPc>> /\ upset \subseteq upset'
    BY <1>11 DEF CaddyReturns, files, flip
  <2> QED
    BY <2>1, <1>s DEF Recorded, HasGate
<1>12. CASE RebuildKilled
  BY <1>12 DEF RebuildKilled, Recorded
<1>13. CASE Reboot
  <2>1. flipPc' = "idle" /\ unitDef' = unitDef
    BY <1>13 DEF Reboot
  <2>2. (marker' # None => activeClosure' # unitDef) /\ (activeClosure' # unitDef => marker' # None \/ HasGate)
    BY <1>13, ConstantsAssumption DEF Reboot
  <2> QED
    BY <2>1, <2>2, <1>s DEF Recorded, HasGate
<1> QED
  BY <1>1, <1>2, <1>3, <1>4, <1>5, <1>6, <1>7, <1>8, <1>9, <1>10, <1>11, <1>12, <1>13,
     StepCases DEF Flip

\* A colour that passed its gate answers until the flip is over, or is lost.
LEMMA AnsweringStep ==
    TypeOK /\ Supervised /\ Answering /\ [Next]_box => Answering'
<1> SUFFICES ASSUME TypeOK, Supervised, Answering, Next,
                    flipPc' \in Promoted, upset' = {}, current' \in Colours
             PROVE  answers'[Standby']
  BY DEF Answering, Standby, box, vars, units, flip
<1>0. /\ answers \in [Colours -> BOOLEAN] /\ running \in Units
      /\ Standby \in Colours /\ Standby # current
  BY TwoColours DEF TypeOK
<1>1. CASE Activate \/ Settle \/ RebuildKilled \/ Reboot
  BY <1>1 DEF Activate, Settle, RebuildKilled, Reboot, Promoted
<1>2. CASE Flip
  <2>1. CASE FlipGate
    BY <2>1 DEF FlipGate, Standby, units, flip
  <2>2. CASE FlipSnippet \/ FlipReload \/ FlipColor \/ FlipClosure
    <3>1. flipPc \in Promoted /\ UNCHANGED <<answers, current>> /\ upset = {}
      BY <1>2, <2>2, FlipUpset DEF FlipSnippet, FlipReload, FlipColor, FlipClosure, Promoted, units, flip
    <3> QED
      BY <3>1 DEF Answering, Standby
  <2>3. CASE FlipMigrate
    BY <2>3, ConstantsAssumption DEF FlipMigrate, Colours
  <2>4. CASE ~FlipMigrate /\ ~(FlipSnippet \/ FlipReload \/ FlipColor \/ FlipClosure) /\ ~FlipGate
    BY <1>2, <2>4 DEF Flip, FlipUnchanged, FlipNotReady, FlipBegin, FlipStart, FlipStartFails,
       FlipGateFails, FlipSnippetFails, FlipReloadFails, FlipStop, FlipClear, Abort, Promoted
  <2> QED
    BY <2>1, <2>2, <2>3, <2>4
<1>3. CASE Aside
  <2>1. UNCHANGED <<flipPc, current>> /\ upset = {} /\ Standby' = Standby
    BY <1>3, AsideSteps DEF Standby
  <2>2. answers[Standby] /\ running[Standby] # None /\ StandbyLost(Standby)
    BY <1>0, <2>1 DEF Answering, Supervised, StandbyLost, Promoted
  <2>3. CASE SupervisorStart
    BY <1>0, <2>1, <2>2, <2>3 DEF SupervisorStart, Start
  <2>4. CASE SupervisorRestart
    <3>1. supWant # Standby
      BY <2>2, <2>4 DEF SupervisorRestart, Lose
    <3> QED
      BY <1>0, <2>1, <2>2, <2>4, <3>1 DEF SupervisorRestart, Restart
  <2>5. ASSUME NEW c \in Colours, BecomeHealthy(c) PROVE answers'[Standby']
    BY <1>0, <2>1, <2>2, <2>5 DEF BecomeHealthy
  <2>6. ASSUME NEW c \in Colours, Wedge(c) \/ Crash(c) PROVE answers'[Standby']
    <3>1. c # Standby
      BY <2>2, <2>6 DEF Wedge, Crash, Lose
    <3> QED
      BY <1>0, <2>1, <2>2, <2>6, <3>1 DEF Wedge, Crash, Restart, Stop
  <2>7. CASE \/ SupervisorRead \/ SupervisorCheck \/ CaddyDies \/ GateOpens \/ GateCloses
             \/ SupervisorDies
    BY <2>1, <2>2, <2>7 DEF SupervisorRead, SupervisorCheck, CaddyDies, GateOpens, GateCloses,
       SupervisorDies, units
  <2> QED
    BY <1>3, <2>3, <2>4, <2>5, <2>6, <2>7 DEF Aside, Supervisor
<1>4. CASE CaddyReturns
  <2>1. UNCHANGED <<flipPc, current, answers>> /\ upset = {}
    BY <1>4 DEF CaddyReturns, units, flip
  <2> QED
    BY <2>1 DEF Answering, Standby
<1> QED
  BY <1>1, <1>2, <1>3, <1>4, StepCases

-----------------------------------------------------------------------------
(***************************************************************************)
(* The theorems.                                                           *)
(***************************************************************************)
\* The invariant holds in every reachable state.
THEOREM Invariance == Spec => []IInv
<1>1. IInv /\ [Next]_box => IInv'
  BY TypeStep, SupervisedStep, ShellStep, SnippetStep, CaddyStep, RecordedStep, AnsweringStep
     DEF IInv
<1> QED
  BY InitInv, <1>1, PTL DEF Spec, box

\* Every variable keeps its type, whatever the flip, the supervisor and the
\* faults of the box do.
THEOREM TypeCorrect == Spec => []TypeOK
  BY Invariance, PTL DEF IInv

\* At rest Caddy routes to the colour that the pointer file names, for both
\* kinds of service and any number of rebuilds and faults: the writes of
\* snippet and pointer, and the moments at which Caddy reads the snippet,
\* never leave the two apart, unless a flip was killed, or a write of it
\* failed unseen, or Caddy came back into one, or the pointer was truncated.
THEOREM RoutesCorrect == Spec => []RoutesToPointer
<1>1. IInv => RoutesToPointer
  BY DEF IInv, CaddyFollows, Undisturbed, RoutesToPointer
<1> QED
  BY Invariance, <1>1, PTL

\* When no flip runs the failure marker is there only when the recorded
\* definition is not the installed one, and always then, except behind a closed
\* gate: every way out of a flip leaves both right, unless it was killed or one
\* of its writes failed unseen.
THEOREM MarkerCorrect == Spec => []MarkerTruthful
<1>1. IInv => MarkerTruthful
  BY DEF IInv, Recorded, AllWritten, MarkerTruthful
<1> QED
  BY Invariance, <1>1, PTL

\* No step of a flip, its failures included, takes down a service that Caddy
\* routes to and that answers: what a step stops is never what Caddy routes
\* to, and what Caddy is moved to answers.
THEOREM HandOverServes == Spec => FlipKeepsServing
<1>1. IInv /\ [Next]_box => [Flip /\ Serving /\ current \in Colours /\ upset = {} => Serving']_vars
  <2> SUFFICES ASSUME IInv, Next, Flip, Serving, current \in Colours, upset = {}
               PROVE  Serving'
    BY DEF box
  <2>0. /\ TypeOK /\ Shell /\ SnippetFollows /\ CaddyFollows /\ Answering
        /\ Undisturbed /\ CaddyUp /\ answers[caddy]
    BY DEF IInv, Serving, Undisturbed
  <2>1. answers \in [Colours -> BOOLEAN] /\ caddy \in Colours /\ Standby \in Colours /\ Standby # current
    BY <2>0, TwoColours DEF TypeOK, CaddyUp
  <2>2. CASE \/ FlipUnchanged \/ FlipMigrate \/ FlipNotReady \/ FlipBegin \/ FlipGate
             \/ FlipSnippet \/ FlipColor \/ FlipClosure \/ FlipClear
    <3>1. UNCHANGED <<caddy, answers>>
      BY <2>2 DEF FlipUnchanged, FlipMigrate, FlipNotReady, FlipBegin, FlipGate, FlipSnippet,
         FlipColor, FlipClosure, FlipClear, units
    <3> QED
      BY <2>0, <3>1 DEF Serving, CaddyUp
  <2>3. flipPc \in BeforeSwitch \cup {"reload"} => caddy # Standby
    <3>1. SUFFICES ASSUME flipPc \in BeforeSwitch \cup {"reload"} PROVE caddy # Standby
      OBVIOUS
    <3>2. current = activeColor /\ activeColor # ""
      BY <2>0, <3>1 DEF Shell, Deciding, Colours
    <3> QED
      BY <2>0, <2>1, <3>1, <3>2 DEF CaddyFollows, ActiveColour, Colours
  <2>4. CASE FlipStart
    BY <2>0, <2>1, <2>3, <2>4 DEF FlipStart, Start, BeforeSwitch, Serving, CaddyUp
  <2>5. CASE FlipStartFails \/ FlipGateFails \/ FlipSnippetFails \/ FlipReloadFails
    <3>1. /\ caddy' = caddy /\ answers' \in {answers, [answers EXCEPT ![Standby] = FALSE]}
          /\ flipPc \in BeforeSwitch \cup {"reload"}
      BY <2>5 DEF FlipStartFails, FlipGateFails, FlipSnippetFails, FlipReloadFails, Abort, Stop,
         BeforeSwitch
    <3> QED
      BY <2>0, <2>1, <2>3, <3>1 DEF Serving, CaddyUp
  <2>6. CASE FlipReload
    <3>1. answers[Standby] /\ snippet = Standby /\ answers' = answers
      BY <2>0, <2>6 DEF FlipReload, Answering, Promoted, SnippetFollows, units
    <3>2. caddy' \in {caddy, Standby}
      BY <3>1, <2>6 DEF FlipReload
    <3> QED
      BY <2>0, <2>1, <3>1, <3>2 DEF Serving, CaddyUp
  <2>7. CASE FlipStop
    <3>1. caddy = Standby /\ caddy' = caddy
      BY <2>0, <2>7 DEF FlipStop, CaddyFollows, AfterCommit
    <3>2. answers' \in {answers, [answers EXCEPT ![current] = FALSE]}
      BY <2>7 DEF FlipStop, Stop
    <3> QED
      BY <2>0, <2>1, <3>1, <3>2 DEF Serving, CaddyUp
  <2> QED
    BY <2>2, <2>4, <2>5, <2>6, <2>7 DEF Flip
<1> QED
  BY Invariance, <1>1, PTL DEF Spec, box, FlipKeepsServing
================================================================================
