------------------------------ MODULE BlueGreen ------------------------------
(***************************************************************************)
(* lib/blue-green.nix: a service as two units on two ports, of which Caddy *)
(* routes to one.  Three actors share its files and units without a lock:  *)
(*                                                                         *)
(*   - the flip, an activation script of nixos-rebuild: it starts the      *)
(*     standby colour, waits until it answers, points Caddy at it, commits *)
(*     the pointer files and stops the old colour;                         *)
(*   - the supervisor, a loop that reads the pointer and starts, or        *)
(*     restarts when it stopped answering, the colour it names;            *)
(*   - systemd: units crash and are restarted, or are stopped with a       *)
(*     mount target; Caddy dies and comes back; the box reboots.           *)
(*                                                                         *)
(* A definition of the service is a member of Closures.  The unit files of *)
(* both colours carry the definition of the last activation (unitDef); a   *)
(* running unit keeps the one it was started with, and systemctl start     *)
(* does nothing to it.  A member of BadClosures never answers its probe.   *)
(***************************************************************************)
EXTENDS Naturals

CONSTANTS
    Closures,         \* definitions of the service
    BadClosures,      \* the definitions that never become healthy
    Services,         \* what a service may be: has it a readiness gate,
                      \* what becomes of the old unit when a first flip fails
    UnhealthyTicks,   \* failed probes after which the supervisor restarts
    MaxRebuilds,      \* bound: activations
    MaxFaults,        \* bound: crashes, reboots, lost gates, failed commands
    None              \* no such file, no such unit: no content a file may have

ASSUME ConstantsAssumption ==
    /\ BadClosures \subseteq Closures /\ None \notin Closures
    /\ None \notin {"", "blue", "green", "failed", "deferred"}
    /\ Services \subseteq [gate : BOOLEAN, rollback : {"restart-legacy", "leave-down"}]
    /\ UnhealthyTicks \in Nat \ {0}
    /\ MaxRebuilds \in Nat /\ MaxFaults \in Nat

VARIABLES
    \* The service, which never changes.
    service,
    \* Files: /var/lib/<svc>/active-{color,closure}, the failure marker and
    \* the upstream snippet that the Caddyfile imports.
    activeColor, activeClosure, marker, snippet,
    \* systemd: the unit files, the definition each colour runs, whether it
    \* answers, the unit from before blue/green, what Caddy routes to.
    unitDef, running, answers, legacy, caddy,
    \* The supervisor: program counter, active_color, unhealthy_streak.
    supPc, supWant, streak,
    \* The flip: program counter and its shell variables.
    flipPc, current, caddyDown,
    \* The prerequisites behind the readiness gate (secrets, Zitadel).
    prereqs,
    \* History: what has upset the hand-over since the last boot.
    upset,
    \* Bounds.
    rebuilds, faults

files      == <<activeColor, activeClosure, marker, snippet>>
units      == <<running, answers, legacy>>
supervisor == <<supPc, supWant, streak>>
flip       == <<flipPc, current, caddyDown>>
bounds     == <<rebuilds, faults>>
vars == <<files, unitDef, units, caddy, supervisor, flip, prereqs, upset, bounds>>

-----------------------------------------------------------------------------
Colours == {"blue", "green"}
Other(c) == IF c = "blue" THEN "green" ELSE "blue"

\* TRUE: gated, reaches SSO through Caddy (oauth2-proxy); FALSE:
\* self-contained (admin-api).
HasGate == service.gate
MigrateRollback == service.rollback

\* A pointer file that was truncated by a crash reads as "".
Pointers == Colours \cup {"", None}
Closed == Closures \cup {"", None}
Markers == {None, "failed", "deferred"}
Units == [Colours -> Closures \cup {None}]
SupPcs == {"off", "read", "check", "start", "restart"}
FlipPcs == {"idle", "flip", "start", "gate", "snippet", "reload", "color",
            "closure", "stop", "clear", "post"}
Upsets == {"killed", "rerouted", "lost", "unwritten"}

TypeOK ==
    /\ service \in Services
    /\ activeColor \in Pointers
    /\ activeClosure \in Closed
    /\ marker \in Markers
    /\ snippet \in Colours
    /\ unitDef \in Closures \cup {None}
    /\ running \in Units
    /\ answers \in [Colours -> BOOLEAN]
    /\ legacy \in BOOLEAN
    /\ caddy \in Colours \cup {"stopped", "restarting"}
    /\ supPc \in SupPcs
    /\ supWant \in Colours \cup {None}
    /\ streak \in 0..(UnhealthyTicks - 1)
    /\ flipPc \in FlipPcs
    /\ current \in Pointers
    /\ caddyDown \in BOOLEAN
    /\ prereqs \in BOOLEAN
    /\ upset \subseteq Upsets
    /\ rebuilds \in 0..MaxRebuilds /\ faults \in 0..MaxFaults

\* cat active-color, with the default every reader of it applies.
ActiveColour == IF activeColor = "green" THEN "green" ELSE "blue"

CaddyUp == caddy \in Colours

\* readiness_ready: the secrets are there and Zitadel answers through Caddy.
Ready == HasGate => prereqs /\ CaddyUp

NoFault == faults' = faults
Fault == faults < MaxFaults /\ faults' = faults + 1

\* A write whose outcome the flip does not look at, that is refused or cut short.
Written   == NoFault /\ UNCHANGED upset
Unwritten == Fault /\ upset' = upset \cup {"unwritten"}

\* systemctl start: nothing happens to a unit that is already active.
Start(c) ==
    /\ running' = [running EXCEPT ![c] = IF @ = None THEN unitDef ELSE @]
    /\ answers' = [answers EXCEPT ![c] = @ /\ running[c] # None]

Restart(c) ==
    /\ running' = [running EXCEPT ![c] = unitDef]
    /\ answers' = [answers EXCEPT ![c] = FALSE]

Stop(c) ==
    /\ running' = [running EXCEPT ![c] = None]
    /\ answers' = [answers EXCEPT ![c] = FALSE]

\* A box before its first activation with blue/green, or a fresh one: there
\* the installer and the first boot ran the flip without a systemd, so it
\* started nothing and (unless gated) left no pointer.
Init ==
    /\ service \in Services
    /\ \/ /\ unitDef = None /\ legacy = TRUE /\ supPc = "off"
          /\ activeColor = None /\ activeClosure = None /\ marker = None
       \/ /\ unitDef \in Closures /\ legacy = FALSE /\ supPc = "read"
          /\ IF HasGate
             THEN activeColor = "blue" /\ activeClosure = unitDef /\ marker = None
             ELSE activeColor = None /\ activeClosure = None /\ marker = "deferred"
    /\ snippet = "blue" /\ caddy = "blue"
    /\ running = [c \in Colours |-> None]
    /\ answers = [c \in Colours |-> FALSE]
    /\ supWant = None /\ streak = 0
    /\ flipPc = "idle" /\ current = None /\ caddyDown = FALSE
    /\ prereqs = ~HasGate
    /\ upset = {}
    /\ rebuilds = 0 /\ faults = 0

-----------------------------------------------------------------------------
(***************************************************************************)
(* The activation, up to the flip: the unit files, the snippet writer of   *)
(* the service, daemon-reload.  Caddy is down during all of it when the    *)
(* rebuild changes its package.                                            *)
(***************************************************************************)
Activate ==
    /\ flipPc = "idle" /\ rebuilds < MaxRebuilds
    /\ rebuilds' = rebuilds + 1
    /\ unitDef' \in Closures
    /\ caddy' \in {caddy, "stopped"}
    /\ snippet' = ActiveColour
    /\ flipPc' = "flip"
    /\ upset' = upset \ {"lost"}
    /\ UNCHANGED <<activeColor, activeClosure, marker, units, supervisor>>
    /\ UNCHANGED <<current, caddyDown, prereqs, faults>>

\* Mutant: the unchanged path leaves the marker of an earlier failure.
FlipUnchanged_KeepsMarker ==
    /\ flipPc = "flip" /\ activeClosure = unitDef
    /\ flipPc' = "post"
    /\ UNCHANGED <<files, unitDef, units, caddy, supervisor, current, caddyDown>>
    /\ UNCHANGED <<prereqs, upset, bounds>>

\* The definition is the recorded one: clear the marker, do nothing.
FlipUnchanged ==
    /\ flipPc = "flip" /\ activeClosure = unitDef
    /\ marker' = None
    /\ flipPc' = "post"
    /\ UNCHANGED <<activeColor, activeClosure, snippet, unitDef, units, caddy>>
    /\ UNCHANGED <<supervisor, current, caddyDown, prereqs, upset, bounds>>

\* First deploy: retire the legacy unit, then start blue as the target, or
\* only commit the pointers when the gate is closed.
FlipMigrate ==
    /\ flipPc = "flip" /\ activeClosure # unitDef /\ activeColor = None
    /\ snippet' = "blue"
    /\ legacy' = FALSE
    /\ current' = None /\ caddyDown' = ~CaddyUp
    /\ flipPc' = IF Ready THEN "start" ELSE "color"
    /\ UNCHANGED <<activeColor, activeClosure, marker, unitDef, running, answers>>
    /\ UNCHANGED <<caddy, supervisor, prereqs, upset, bounds>>

\* The gate is closed: skip, a later rebuild retries.
FlipNotReady ==
    /\ flipPc = "flip" /\ activeClosure # unitDef /\ activeColor # None
    /\ ~Ready
    /\ flipPc' = "post"
    /\ UNCHANGED <<files, unitDef, units, caddy, supervisor, current, caddyDown>>
    /\ UNCHANGED <<prereqs, upset, bounds>>

FlipBegin ==
    /\ flipPc = "flip" /\ activeClosure # unitDef /\ activeColor # None
    /\ Ready
    /\ current' = activeColor /\ caddyDown' = ~CaddyUp
    /\ flipPc' = "start"
    /\ UNCHANGED <<files, unitDef, units, caddy, supervisor, prereqs, upset, bounds>>

-----------------------------------------------------------------------------
(***************************************************************************)
(* The hand-over.  current = None stands for a first deploy.               *)
(***************************************************************************)
Migrating == current = None
Standby == IF current = "blue" THEN "green" ELSE "blue"

\* Give up: stop the standby and leave a marker.  A first deploy may bring
\* the legacy unit back, if systemd still knows it.  No outcome is looked at:
\* with a fault the standby may go on, and the marker may be the old one, or
\* cut short, which nobody can read.
Abort(reason) ==
    /\ \/ Stop(Standby)
       \/ faults' # faults /\ UNCHANGED <<running, answers>>
    /\ legacy' \in {legacy, Migrating /\ MigrateRollback = "restart-legacy"}
    /\ \/ marker' = reason /\ UNCHANGED upset
       \/ faults' # faults /\ marker' \in {marker, None} /\ upset' = upset \cup {"unwritten"}
    /\ flipPc' = "post"

FlipStart ==
    /\ flipPc = "start"
    /\ Start(Standby)
    /\ flipPc' = "gate"
    /\ UNCHANGED <<files, unitDef, legacy, caddy, supervisor, current, caddyDown>>
    /\ UNCHANGED <<prereqs, upset, bounds>>

FlipStartFails ==
    /\ flipPc = "start"
    /\ Fault
    /\ Abort(IF Migrating /\ caddyDown THEN "deferred" ELSE "failed")
    /\ UNCHANGED <<activeColor, activeClosure, snippet, unitDef, caddy, supervisor>>
    /\ UNCHANGED <<current, caddyDown, prereqs, rebuilds>>

\* Mutant: the standby is promoted without asking whether it answers.
FlipGate_Blind ==
    /\ flipPc = "gate"
    /\ flipPc' = IF Migrating THEN "color" ELSE "snippet"
    /\ UNCHANGED <<files, unitDef, units, caddy, supervisor, current, caddyDown>>
    /\ UNCHANGED <<prereqs, upset, bounds>>

FlipGate ==
    /\ flipPc = "gate"
    /\ answers[Standby]
    /\ flipPc' = IF Migrating THEN "color" ELSE "snippet"
    /\ UNCHANGED <<files, unitDef, units, caddy, supervisor, current, caddyDown>>
    /\ UNCHANGED <<prereqs, upset, bounds>>

\* Sixty probes without an answer, or the unit is gone.
FlipGateFails ==
    /\ flipPc = "gate"
    /\ ~answers[Standby]
    /\ Fault \/ NoFault
    /\ Abort(IF caddyDown THEN "deferred" ELSE "failed")
    /\ UNCHANGED <<activeColor, activeClosure, snippet, unitDef, caddy, supervisor>>
    /\ UNCHANGED <<current, caddyDown, prereqs, rebuilds>>

FlipSnippet ==
    /\ flipPc = "snippet"
    /\ snippet' = Standby
    /\ flipPc' = "reload"
    /\ UNCHANGED <<activeColor, activeClosure, marker, unitDef, units, caddy>>
    /\ UNCHANGED <<supervisor, current, caddyDown, prereqs, upset, bounds>>

FlipSnippetFails ==
    /\ flipPc = "snippet"
    /\ Fault
    /\ Abort("failed")
    /\ UNCHANGED <<activeColor, activeClosure, snippet, unitDef, caddy, supervisor>>
    /\ UNCHANGED <<current, caddyDown, prereqs, rebuilds>>

\* Skipped when Caddy was down at the start: it reads the snippet later.
FlipReload ==
    /\ flipPc = "reload"
    /\ IF caddyDown THEN UNCHANGED caddy ELSE CaddyUp /\ caddy' = snippet
    /\ flipPc' = "color"
    /\ UNCHANGED <<files, unitDef, units, supervisor, current, caddyDown>>
    /\ UNCHANGED <<prereqs, upset, bounds>>

\* Mutant: the snippet is not rolled back.
FlipReloadFails_NoRollback ==
    /\ flipPc = "reload"
    /\ ~caddyDown
    /\ IF CaddyUp THEN Fault ELSE NoFault
    /\ Abort("failed")
    /\ UNCHANGED <<activeColor, activeClosure, snippet, unitDef, caddy, supervisor>>
    /\ UNCHANGED <<current, caddyDown, prereqs, rebuilds>>

\* Five refused reloads: roll the snippet back, or fail to and go on.
FlipReloadFails ==
    /\ flipPc = "reload"
    /\ ~caddyDown
    /\ Fault \/ (~CaddyUp /\ NoFault)
    /\ Abort("failed")
    /\ \/ snippet' = Other(Standby)
       \/ faults' # faults /\ "unwritten" \in upset' /\ UNCHANGED snippet
    /\ UNCHANGED <<activeColor, activeClosure, unitDef, caddy, supervisor>>
    /\ UNCHANGED <<current, caddyDown, prereqs, rebuilds>>

\* What a write that is cut short may leave behind.
TornColor == IF flipPc = "color" THEN {activeColor, ""} ELSE {activeColor}
TornClosure == IF flipPc = "closure" THEN {activeClosure, ""} ELSE {activeClosure}

\* Commit: the pointer first, then the closure, then the old colour.
FlipColor ==
    /\ flipPc = "color"
    /\ \/ activeColor' = Standby /\ Written
       \/ activeColor' \in TornColor /\ Unwritten
    /\ flipPc' = "closure"
    /\ UNCHANGED <<activeClosure, marker, snippet, unitDef, units, caddy>>
    /\ UNCHANGED <<supervisor, current, caddyDown, prereqs, rebuilds>>

FlipClosure ==
    /\ flipPc = "closure"
    /\ \/ activeClosure' = unitDef /\ Written
       \/ activeClosure' \in TornClosure /\ Unwritten
    /\ flipPc' = "stop"
    /\ UNCHANGED <<activeColor, marker, snippet, unitDef, units, caddy>>
    /\ UNCHANGED <<supervisor, current, caddyDown, prereqs, rebuilds>>

FlipStop ==
    /\ flipPc = "stop"
    /\ \/ current \in Colours /\ Stop(current) /\ NoFault
       \/ current \in Colours /\ UNCHANGED <<running, answers>> /\ Fault
       \/ current \notin Colours /\ UNCHANGED <<running, answers>> /\ NoFault
    /\ flipPc' = "clear"
    /\ UNCHANGED <<files, unitDef, legacy, caddy, supervisor, current, caddyDown>>
    /\ UNCHANGED <<prereqs, upset, rebuilds>>

FlipClear ==
    /\ flipPc = "clear"
    /\ marker' = None
    /\ flipPc' = "post"
    /\ UNCHANGED <<activeColor, activeClosure, snippet, unitDef, units, caddy>>
    /\ UNCHANGED <<supervisor, current, caddyDown, prereqs, upset, bounds>>

\* After the activation scripts: a new supervisor is started, the snippet
\* unit may run again, and Caddy is started, or maybe reloaded.
Settle ==
    /\ flipPc = "post"
    /\ snippet' \in {snippet, ActiveColour}
    /\ caddy' \in IF CaddyUp THEN {caddy, snippet'} ELSE {snippet'}
    /\ supPc' = IF supPc = "off" THEN "read" ELSE supPc
    /\ flipPc' = "idle" /\ current' = None /\ caddyDown' = FALSE
    /\ UNCHANGED <<activeColor, activeClosure, marker, unitDef, units>>
    /\ UNCHANGED <<supWant, streak, prereqs, upset, bounds>>

-----------------------------------------------------------------------------
(***************************************************************************)
(* The supervisor.  Between reading the pointer and acting on it anything  *)
(* may happen.                                                             *)
(***************************************************************************)
\* A colour that passed the gate may be lost before the flip is over: it
\* fails, or a supervisor whose tick began before the last flip restarts it.
StandbyLost(c) ==
    flipPc \in {"snippet", "reload", "color", "closure", "stop"} /\ c = Standby
Lose(c) == upset' = IF StandbyLost(c) THEN upset \cup {"lost"} ELSE upset

\* A pointer that moved since the last tick resets the streak.
SupervisorRead ==
    /\ supPc = "read"
    /\ supWant' = ActiveColour
    /\ streak' = IF supWant' = supWant THEN streak ELSE 0
    /\ supPc' = "check"
    /\ UNCHANGED <<files, unitDef, units, caddy, flip, prereqs, upset, bounds>>

\* Mutant: only a unit that is not active is looked after.
SupervisorCheck_NoProbe ==
    /\ supPc = "check"
    /\ supPc' = IF running[supWant] = None /\ Ready THEN "start" ELSE "read"
    /\ streak' = 0
    /\ UNCHANGED <<supWant, files, unitDef, units, caddy, flip, prereqs, upset, bounds>>

\* Mutant: the restart comes one failed probe late.
SupervisorCheck_OffByOne ==
    /\ supPc = "check"
    /\ IF running[supWant] = None
       THEN supPc' = (IF Ready THEN "start" ELSE "read") /\ streak' = 0
       ELSE IF answers[supWant]
       THEN supPc' = "read" /\ streak' = 0
       ELSE IF streak = UnhealthyTicks
       THEN supPc' = "restart" /\ streak' = 0
       ELSE supPc' = "read" /\ streak' = streak + 1
    /\ UNCHANGED <<supWant, files, unitDef, units, caddy, flip, prereqs, upset, bounds>>

SupervisorCheck ==
    /\ supPc = "check"
    /\ IF running[supWant] = None
       THEN supPc' = (IF Ready THEN "start" ELSE "read") /\ streak' = 0
       ELSE IF answers[supWant]
       THEN supPc' = "read" /\ streak' = 0
       ELSE IF streak + 1 = UnhealthyTicks
       THEN supPc' = "restart" /\ streak' = 0
       ELSE supPc' = "read" /\ streak' = streak + 1
    /\ UNCHANGED <<supWant, files, unitDef, units, caddy, flip, prereqs, upset, bounds>>

SupervisorStart ==
    /\ supPc = "start"
    /\ Start(supWant)
    /\ supPc' = "read"
    /\ UNCHANGED <<supWant, streak, files, unitDef, legacy, caddy, flip>>
    /\ UNCHANGED <<prereqs, upset, bounds>>

SupervisorRestart ==
    /\ supPc = "restart"
    /\ Restart(supWant)
    /\ Lose(supWant)
    /\ supPc' = "read"
    /\ UNCHANGED <<supWant, streak, files, unitDef, legacy, caddy, flip>>
    /\ UNCHANGED <<prereqs, bounds>>

-----------------------------------------------------------------------------
(***************************************************************************)
(* Units, Caddy and the box.                                               *)
(***************************************************************************)
\* A started colour begins to answer.
BecomeHealthy(c) ==
    /\ running[c] \in Closures \ BadClosures /\ ~answers[c]
    /\ Ready
    /\ answers' = [answers EXCEPT ![c] = TRUE]
    /\ UNCHANGED <<running, legacy, files, unitDef, caddy, supervisor, flip>>
    /\ UNCHANGED <<prereqs, upset, bounds>>

\* It wedges: alive for systemd, deaf to the probe.
Wedge(c) ==
    /\ answers[c]
    /\ Fault
    /\ answers' = [answers EXCEPT ![c] = FALSE]
    /\ Lose(c)
    /\ UNCHANGED <<running, legacy, files, unitDef, caddy, supervisor, flip>>
    /\ UNCHANGED <<prereqs, rebuilds>>

\* It crashes and Restart=always brings it back, or it is stopped with
\* local-fs.target and nothing pulls it in again.
Crash(c) ==
    /\ running[c] # None
    /\ Fault
    /\ Restart(c) \/ Stop(c)
    /\ Lose(c)
    /\ UNCHANGED <<legacy, files, unitDef, caddy, supervisor, flip>>
    /\ UNCHANGED <<prereqs, rebuilds>>

CaddyDies ==
    /\ CaddyUp
    /\ Fault
    /\ caddy' = "restarting"
    /\ UNCHANGED <<files, unitDef, units, supervisor, flip, prereqs, upset, rebuilds>>

\* Caddy comes back and reads the snippet as it is now.
CaddyReturns ==
    /\ caddy = "restarting"
    /\ caddy' = snippet
    /\ upset' = IF flipPc # "idle" THEN upset \cup {"rerouted"} ELSE upset
    /\ UNCHANGED <<files, unitDef, units, supervisor, flip, prereqs, bounds>>

\* The prerequisites of a gated service land, or go away again.
GateOpens ==
    /\ ~prereqs /\ prereqs' = TRUE
    /\ UNCHANGED <<files, unitDef, units, caddy, supervisor, flip, upset, bounds>>

GateCloses ==
    /\ HasGate /\ prereqs /\ prereqs' = FALSE
    /\ Fault
    /\ UNCHANGED <<files, unitDef, units, caddy, supervisor, flip, upset, rebuilds>>

SupervisorDies ==
    /\ supPc \notin {"off", "read"}
    /\ Fault
    /\ supPc' = "read" /\ supWant' = None /\ streak' = 0
    /\ UNCHANGED <<files, unitDef, units, caddy, flip, prereqs, upset, rebuilds>>

\* The rebuild dies in the middle of the flip; nothing else does.
RebuildKilled ==
    /\ flipPc # "idle"
    /\ Fault
    /\ activeColor' \in TornColor /\ activeClosure' \in TornClosure
    /\ flipPc' = "idle" /\ current' = None /\ caddyDown' = FALSE
    /\ upset' = upset \cup {"killed"}
    /\ UNCHANGED <<marker, snippet, unitDef, units, caddy, supervisor, prereqs, rebuilds>>

\* A boot runs the activation scripts, flip included, before systemd: no
\* unit can be started there, and no gate is open.  Then the snippet unit,
\* Caddy and the supervisor start.
Reboot ==
    /\ unitDef # None
    /\ Fault
    /\ \E color \in TornColor, closure \in TornClosure :
        IF closure = unitDef
        THEN /\ marker' = None
             /\ activeColor' = color /\ activeClosure' = closure
        ELSE IF HasGate
        THEN /\ marker' = IF color = None THEN None ELSE marker
             /\ activeColor' = IF color = None THEN "blue" ELSE color
             /\ activeClosure' = IF color = None THEN unitDef ELSE closure
        ELSE /\ marker' = IF color = None THEN "deferred" ELSE "failed"
             /\ activeColor' = color /\ activeClosure' = closure
    /\ snippet' = IF activeColor' = "green" THEN "green" ELSE "blue"
    /\ caddy' = snippet'
    /\ running' = [c \in Colours |-> None]
    /\ answers' = [c \in Colours |-> FALSE]
    /\ legacy' = FALSE
    /\ supPc' = "read" /\ supWant' = None /\ streak' = 0
    /\ flipPc' = "idle" /\ current' = None /\ caddyDown' = FALSE
    /\ prereqs' = ~HasGate
    /\ upset' = {}
    /\ UNCHANGED <<unitDef, rebuilds>>

-----------------------------------------------------------------------------
Flip ==
    \/ FlipUnchanged \/ FlipMigrate \/ FlipNotReady \/ FlipBegin
    \/ FlipStart \/ FlipStartFails \/ FlipGate \/ FlipGateFails
    \/ FlipSnippet \/ FlipSnippetFails \/ FlipReload \/ FlipReloadFails
    \/ FlipColor \/ FlipClosure \/ FlipStop \/ FlipClear
Supervisor ==
    \/ SupervisorRead \/ SupervisorCheck \/ SupervisorStart \/ SupervisorRestart
Environment ==
    \/ \E c \in Colours : BecomeHealthy(c) \/ Wedge(c) \/ Crash(c)
    \/ CaddyDies \/ CaddyReturns \/ GateOpens \/ GateCloses
    \/ SupervisorDies \/ RebuildKilled \/ Reboot

Next == (Activate \/ Flip \/ Settle \/ Supervisor \/ Environment) /\ UNCHANGED service

Spec == Init /\ [][Next]_<<vars, service>>

\* An activation runs to its end, the supervisor loops, Caddy comes back and
\* the prerequisites land.  A colour that is started over and over answers,
\* at least once, before the supervisor has counted a tick against it.
Fairness ==
    /\ WF_vars(Flip) /\ WF_vars(Settle)
    /\ WF_vars(Supervisor)
    /\ WF_vars(CaddyReturns) /\ WF_vars(GateOpens)
    /\ \A c \in Colours : SF_vars(BecomeHealthy(c) /\ supPc = "read" /\ streak = 0)

FairSpec == Spec /\ Fairness

-----------------------------------------------------------------------------
(***************************************************************************)
(* Properties.                                                             *)
(***************************************************************************)
Serving == CaddyUp /\ answers[caddy]

\* No step of a flip takes a service down that Caddy routes to and that
\* answers, whatever fails on the way.  Excepted: a first deploy, a pointer
\* file cut short by a crash, and (upset) a hand-over that was killed, that
\* Caddy restarted into, or one of whose writes failed unseen.
FlipKeepsServing ==
    [][Flip /\ Serving /\ current \in Colours /\ upset = {} => Serving']_vars

\* At rest Caddy routes to the colour the pointer names, the one that the
\* supervisor keeps alive, with the same exceptions.
RoutesToPointer ==
    flipPc = "idle" /\ CaddyUp /\ upset \subseteq {"lost"} /\ activeColor # ""
        => caddy = ActiveColour

\* The failure marker is there when the recorded definition is not the
\* installed one, and only then: the note "still serving the previous version"
\* neither lingers nor is missing.  Excepted: a flip that was killed or one of
\* whose writes failed unseen; and a closed gate skips a flip without a marker.
MarkerTruthful ==
    flipPc = "idle" /\ unitDef # None /\ upset \cap {"killed", "unwritten"} = {} =>
        /\ marker # None => activeClosure # unitDef
        /\ activeClosure # unitDef => marker # None \/ HasGate

\* Once nothing goes wrong any more the service is served again, if the
\* installed definition works at all.
Calm ==
    /\ flipPc = "idle" /\ supPc # "off" /\ upset \subseteq {"lost"}
    /\ activeColor # "" /\ prereqs /\ CaddyUp
    /\ unitDef \notin BadClosures
ServiceRecovers == <>[]Calm => <>[]Serving

\* What a flip records as deployed is what the promoted colour runs.  The
\* notes call a standby left running by a crashed flip harmless; but the
\* next flip starts it with a no-op, passes its gate and records the new
\* definition for a colour that still runs the old one.
RecordsDeployed ==
    [][FlipClosure /\ activeClosure' = unitDef => running[Standby] \in {unitDef, None}]_vars
=============================================================================
