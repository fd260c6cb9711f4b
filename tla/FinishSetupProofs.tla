--------------------------- MODULE FinishSetupProofs ---------------------------
(***************************************************************************)
(* Proofs about FinishSetup, for every value of its constants: its types   *)
(* and the two safety invariants.                                          *)
(*                                                                         *)
(* What the sentinel says of the box is only true because of what a page   *)
(* was doing long before it asked for it, and through a rebuild that may   *)
(* have been followed by another.  The strengthening says that a config is *)
(* never taken back once it is on disk, built or running (BoxInv), and     *)
(* what each page has in hand and may expect of the last rebuild, whoever  *)
(* started it (Sound).                                                     *)
(***************************************************************************)
EXTENDS FinishSetup, TLAPS

Builds == [running : BOOLEAN, by : {"nobody", "setup", "restore", "other"},
           of : Configs, verdict : {"none", "ok", "failed"}]

\* Configs only move on: the disk is ahead of the last rebuild, which is ahead
\* of the box.
BoxInv ==
    /\ disk \in Configs /\ box \in Configs /\ build \in Builds
    /\ build.running => build.verdict = "none"
    /\ build.verdict = "ok" => box = build.of
    /\ box # "bare" => build.of # "bare"
    /\ build.of # "bare" => disk # "bare"
    /\ box = "restored" => build.of = "restored"
    /\ build.of = "restored" => disk = "restored"
    /\ build.by = "restore" => build.of = "restored"

\* A rebuild that a fresh setup asked for builds a config with a key.
OwnInv == astray \/ (build.by = "setup" => build.of # "bare")

\* A page does one thing at a time, and its Apply button says so.
OneThing(g) ==
    /\ g.data # "" => g.apply = "done"
    /\ g.poll # "none" =>
         /\ g.apply = "running" /\ g.flow = "none"
         /\ g.mode # "" /\ g.step = "apply"
    /\ g.at \in {"here", "left"} /\ g.flow \in {"apply", "restore"} =>
         /\ g.apply = "running" /\ g.poll = "none" /\ g.step = "apply"
         /\ g.mode = IF g.flow = "apply" THEN "fresh" ELSE "restore"
    /\ g.recovering =>
         /\ g.apply = "idle" /\ g.flow = "none"
         /\ g.poll = "none" /\ g.dataPoll = "none"
    /\ g.dataPoll # "none" => g.data # ""
    /\ g.at \in {"here", "left"} /\ g.flow = "start" => g.data # ""

\* A page of a fresh setup that took up no other rebuild waits for a config
\* with a key.
FreshPage(g) ==
    \/ astray
    \/ /\ g.mode = "fresh" /\ g.step = "apply" => disk # "bare"
       /\ g.flow = "apply" => disk # "bare"
       /\ g.mode = "fresh" /\ g.poll # "none" => build.of # "bare"

\* A page of a restore that took up no other rebuild waits for the backup's
\* config, and restores the data once it runs.
RestorePage(g) ==
    \/ misled
    \/ /\ g.mode = "restore" /\ g.poll # "none" => build.of = "restored"
       /\ g.flow = "start" \/ g.data # "" => box = "restored"

\* Setup is about to be marked complete for a box that runs a config with a key.
MarkPage(g) ==
    astray \/ misled \/ (g.flow \in {"mark", "finish"} => box # "bare")

Sound(g) ==
    g \in Page /\ OneThing(g) /\ FreshPage(g) /\ RestorePage(g) /\ MarkPage(g)

PagesInv == pages \in [Pages -> Page] /\ \A p \in Pages : Sound(pages[p])

IInv ==
    /\ TypeOK /\ BoxInv /\ OwnInv /\ PagesInv
    /\ CompleteIsDeployed /\ DataAfterBuild

-----------------------------------------------------------------------------
\* What no step takes back.
Forward ==
    /\ disk # "bare" => disk' # "bare"
    /\ box # "bare" => box' # "bare"
    /\ build.of # "bare" => build'.of # "bare"
    /\ box = "restored" => box' = "restored"
    /\ build.of = "restored" => build'.of = "restored"
    /\ astray => astray'
    /\ misled => misled'

\* A rebuild of what is on disk takes nothing back.
LEMMA BuildStarts ==
    ASSUME BoxInv, NEW by \in {"setup", "restore", "other"}, NEW of \in Configs,
           StartBuild(by, of),
           of = disk', disk # "bare" => of # "bare", disk = "restored" => of = disk,
           by = "restore" => of = "restored", UNCHANGED box
    PROVE  BoxInv' /\ (build.of # "bare" => build'.of # "bare")
                  /\ (build.of = "restored" => build'.of = "restored")
                  /\ build'.by = by /\ build'.of = of
BY DEF BoxInv, StartBuild, Builds, Configs

\* Every step keeps the order of disk, rebuild and box, and takes nothing back.
LEMMA BoxStep == BoxInv /\ [Next]_vars => BoxInv' /\ Forward
<1> SUFFICES ASSUME BoxInv, [Next]_vars PROVE BoxInv' /\ Forward
  OBVIOUS
<1> DEFINE Still == /\ UNCHANGED <<disk, box, build>>
                    /\ astray => astray'
                    /\ misled => misled'
<1>1. Still => BoxInv' /\ Forward
  BY DEF BoxInv, Forward
<1>2. ASSUME NEW p \in Pages,
             \/ Open(p) \/ Leave(p) \/ Close(p) \/ ConnectionLost(p)
             \/ Choose(p) \/ ClickFinish(p) \/ OpenBackup(p) \/ Navigate(p)
             \/ ClickRestore(p) \/ TryAgain(p) \/ RetryData(p) \/ ClickDone(p)
             \/ ServeStart(p) \/ ServeMark(p) \/ ServeFinish(p)
             \/ Follow(p)
      PROVE  Still
  BY <1>2
  DEF Open, Leave, Close, ConnectionLost, Choose, ClickFinish, OpenBackup, Navigate,
      ClickRestore, TryAgain, RetryData, ClickDone, ServeStart, ServeMark,
      ServeFinish, Follow, PollTimer, Poll, PollData, Recover, server,
      history
<1>3. ASSUME NEW p \in Pages, SaveSteps(p) PROVE BoxInv' /\ Forward
  BY <1>3 DEF SaveSteps, BoxInv, Forward, Configs, history
<1>4. ASSUME NEW p \in Pages, ServeApply(p) PROVE BoxInv' /\ Forward
  <2>1. UNCHANGED <<disk, box, misled>>
    BY <1>4 DEF ServeApply
  <2>2. astray => astray'
    BY <1>4 DEF ServeApply
  <2>3. StartBuild("setup", disk) \/ UNCHANGED build
    BY <1>4 DEF ServeApply
  <2>4. CASE StartBuild("setup", disk)
    BY <2>1, <2>2, <2>4, BuildStarts DEF BoxInv, Forward
  <2>5. CASE UNCHANGED build
    BY <2>1, <2>2, <2>5, <1>1
  <2> QED BY <2>3, <2>4, <2>5
<1>5. ASSUME NEW p \in Pages, ServeRestore(p) PROVE BoxInv' /\ Forward
  <2>1. CASE disk' = "restored" /\ StartBuild("restore", "restored")
    BY <1>5, <2>1, BuildStarts DEF ServeRestore, BoxInv, Forward, Configs, history
  <2>2. CASE disk' \in {disk, "restored"} /\ UNCHANGED build
    BY <1>5, <2>2 DEF ServeRestore, BoxInv, Forward, Configs, history
  <2> QED BY <1>5, <2>1, <2>2 DEF ServeRestore
<1>6. CASE OtherBuild
  BY <1>6, BuildStarts DEF OtherBuild, BoxInv, Forward, history
<1>7. CASE BuildEnds
  <2>1. /\ build' \in Builds /\ build'.of = build.of /\ build'.by = build.by
        /\ ~build'.running
        /\ box' = build.of \/ (box' = box /\ build'.verdict = "failed")
    BY <1>7 DEF BuildEnds, BoxInv, Builds
  <2> QED BY <1>7, <2>1 DEF BuildEnds, BoxInv, Forward, Builds, history
<1>8. CASE UNCHANGED vars
  BY <1>1, <1>8 DEF vars, server, history
<1>9. ASSUME JobEnds \/ ApiRestarts PROVE Still
  BY <1>9 DEF JobEnds, ApiRestarts, history
<1> QED
  BY <1>1, <1>2, <1>3, <1>4, <1>5, <1>6, <1>7, <1>8, <1>9 DEF Next, User, Serve

-----------------------------------------------------------------------------
\* What is sound of a page stays so while the page does not change.
LEMMA SoundStays == ASSUME Forward, NEW g, Sound(g) PROVE Sound(g)'
BY DEF Forward, Sound, FreshPage, RestorePage, MarkPage

\* Every page is sound after a step that turns one into another sound one.
LEMMA Turned ==
    ASSUME PagesInv, Forward, NEW p \in Pages, NEW h, Becomes(p, h), Sound(h)'
    PROVE  PagesInv'
<1>1. ASSUME NEW q \in Pages PROVE Sound(pages[q])'
  <2>1. CASE q = p
    BY <2>1 DEF PagesInv, Becomes
  <2>2. CASE q # p
    <3>1. PICK g : g = pages[q]
      OBVIOUS
    <3>2. Sound(g)' /\ pages'[q] = g
      BY <2>2, <3>1, SoundStays DEF PagesInv, Becomes
    <3> QED BY <3>2
  <2> QED BY <2>1, <2>2
<1>2. h \in Page
  BY DEF Sound
<1> QED BY <1>1, <1>2 DEF PagesInv, Becomes

\* The page that is not shown yet.
LEMMA NewPageIsPage == NewPage \in Page
BY DEF NewPage, Page, Ats, Modes, Steps, Applies, Datas, Flows, Polls

\* What a page does, clicked, answered or on its own, keeps it sound.
LEMMA PageStep ==
    ASSUME BoxInv, Forward, OwnInv, DataAfterBuild,
           pages \in [Pages -> Page], NEW p \in Pages,
           NEW g \in Page, g = pages[p], Sound(g), Sound(g)', NEW h, h = pages'[p],
           \/ Leave(p) \/ Close(p) \/ ConnectionLost(p) \/ User(p)
           \/ Serve(p) \/ Follow(p)
    PROVE  Sound(h)'
<1> USE DEF Sound, OneThing, FreshPage, RestorePage, MarkPage, Page
<1>1. CASE Leave(p)
  <2>1. /\ h = [g EXCEPT !.at = "left",
                  !.poll = IF @ = "timer" THEN "none" ELSE @,
                  !.dataPoll = IF @ = "timer" THEN "none" ELSE @]
        /\ g.at = "here"
    BY <1>1 DEF Leave, Here, Becomes
  <2>2. h \in Page
    BY <2>1 DEF Ats, Polls
  <2>3. /\ h.poll \in {"none", g.poll} /\ h.dataPoll \in {"none", g.dataPoll}
        /\ h.at = "left" /\ h.mode = g.mode /\ h.step = g.step
        /\ h.apply = g.apply /\ h.data = g.data /\ h.flow = g.flow
        /\ h.recovering = g.recovering
    BY <2>1
  <2>4. g.at = "here"
    BY <2>1
  <2> HIDE DEF Page
  <2> QED BY <2>2, <2>3, <2>4
<1>2. CASE Close(p)
  <2>1. h = [NewPage EXCEPT !.at = "dead", !.flow = g.flow]
    BY <1>2 DEF Close, Becomes
  <2>2. h \in Page
    BY <2>1 DEF NewPage, Ats, Modes, Steps, Applies, Datas, Polls
  <2> QED
    BY <2>1, <2>2 DEF NewPage
<1>3. CASE ConnectionLost(p)
  <2>1. /\ h = [g EXCEPT !.poll = "none", !.apply = "failed"]
        /\ g.poll = "asked"
    BY <1>3 DEF ConnectionLost, Becomes
  <2>2. h \in Page
    BY <2>1 DEF Polls, Applies
  <2> QED
    BY <2>1, <2>2
<1>4. CASE Choose(p)
  <2>1. g.mode = "" /\ g.at = "here"
    BY <1>4 DEF Choose, Here
  <2>2. \/ h = [g EXCEPT !.mode = "restore", !.step = "enter"]
        \/ h = [g EXCEPT !.mode = "fresh", !.step = "enter"]
        \/ /\ h = [g EXCEPT !.mode = "fresh", !.step = "apply"]
           /\ disk # "bare"
    BY <1>4 DEF Choose, Becomes
  <2>3. CASE h = [g EXCEPT !.mode = "restore", !.step = "enter"]
    <3>1. h \in Page
      BY <2>3 DEF Modes, Steps
    <3> QED
      BY <2>1, <2>3, <3>1
  <2>4. CASE h = [g EXCEPT !.mode = "fresh", !.step = "enter"]
    <3>1. h \in Page
      BY <2>4 DEF Modes, Steps
    <3> QED
      BY <2>1, <2>4, <3>1
  <2>5. CASE /\ h = [g EXCEPT !.mode = "fresh", !.step = "apply"]
            /\ disk # "bare"
    <3>1. h \in Page
      BY <2>5 DEF Modes, Steps
    <3> QED
      BY <2>1, <2>5, <3>1 DEF Forward
  <2> QED
    BY <2>2, <2>3, <2>4, <2>5
<1>5. CASE SaveSteps(p)
  <2>1. disk' # "bare" /\ g.step = "enter"
    BY <1>5 DEF SaveSteps
  <2>2. h = [g EXCEPT !.step = "apply"]
    BY <1>5 DEF SaveSteps, Becomes
  <2>3. h \in Page
    BY <2>2 DEF Steps
  <2> QED
    BY <2>1, <2>2, <2>3
<1>6. CASE ClickFinish(p) \/ ClickRestore(p)
  <2>1. /\ g.apply = "idle" /\ g.step = "apply"
        /\ g.flow = "none" /\ ~g.recovering
    BY <1>6 DEF ClickFinish, ClickRestore, Idle, Ready
  <2>2. \/ /\ h = [g EXCEPT !.apply = "running", !.flow = "apply"]
           /\ g.mode = "fresh"
        \/ /\ h = [g EXCEPT !.apply = "running", !.flow = "restore"]
           /\ g.mode = "restore"
    BY <1>6 DEF ClickFinish, ClickRestore, Becomes
  <2>3. CASE /\ h = [g EXCEPT !.apply = "running", !.flow = "apply"]
            /\ g.mode = "fresh"
    <3>1. h \in Page
      BY <2>3 DEF Applies, Flows
    <3> QED
      BY <2>1, <2>3, <3>1
  <2>4. CASE /\ h = [g EXCEPT !.apply = "running", !.flow = "restore"]
            /\ g.mode = "restore"
    <3>1. h \in Page
      BY <2>4 DEF Applies, Flows
    <3> QED
      BY <2>1, <2>4, <3>1
  <2> QED
    BY <2>2, <2>3, <2>4
<1>7. CASE OpenBackup(p)
  <2>1. /\ h = [g EXCEPT !.step = "domain"]
        /\ g.at = "here" /\ g.mode = "restore" /\ g.step = "enter"
    BY <1>7 DEF OpenBackup, Ready, Here, Becomes
  <2>2. h \in Page
    BY <2>1 DEF Steps
  <2> QED
    BY <2>1, <2>2
<1>8. CASE Navigate(p)
  <2>1. g.at = "here" /\ ~g.recovering /\ g.mode = "restore"
    BY <1>8 DEF Navigate, Ready, Here
  <2>2. \/ /\ h = [g EXCEPT !.step = "apply"]
           /\ g.step = "domain"
        \/ /\ h = [g EXCEPT !.step = "enter"]
           /\ g.step = "domain"
        \/ /\ h = [g EXCEPT !.step = "domain"]
           /\ g.apply = "idle"
        \/ /\ h = [g EXCEPT !.mode = ""]
           /\ g.step = "enter"
    BY <1>8 DEF Navigate, Idle, Becomes
  <2>3. CASE /\ h = [g EXCEPT !.step = "apply"]
            /\ g.step = "domain"
    <3>1. h \in Page
      BY <2>3 DEF Steps
    <3> QED
      BY <2>1, <2>3, <3>1
  <2>4. CASE /\ h = [g EXCEPT !.step = "enter"]
            /\ g.step = "domain"
    <3>1. h \in Page
      BY <2>4 DEF Steps
    <3> QED
      BY <2>1, <2>4, <3>1
  <2>5. CASE /\ h = [g EXCEPT !.step = "domain"]
            /\ g.apply = "idle"
    <3>1. h \in Page
      BY <2>5 DEF Steps
    <3> QED
      BY <2>1, <2>5, <3>1
  <2>6. CASE /\ h = [g EXCEPT !.mode = ""]
            /\ g.step = "enter"
    <3>1. h \in Page
      BY <2>6 DEF Modes
    <3> QED
      BY <2>1, <2>6, <3>1
  <2> QED
    BY <2>2, <2>3, <2>4, <2>5, <2>6
<1>9. CASE TryAgain(p)
  <2>1. /\ h = [g EXCEPT !.apply = "idle"]
        /\ g.apply = "failed"
    BY <1>9 DEF TryAgain, Becomes
  <2>2. h \in Page
    BY <2>1 DEF Applies
  <2> QED
    BY <2>1, <2>2
<1>10. CASE RetryData(p)
  <2>1. UNCHANGED <<box, misled>>
    BY <1>10 DEF RetryData, server, history
  <2>2. /\ h = [g EXCEPT !.apply = "done", !.data = "running", !.flow = "start"]
        /\ g.data = "failed" /\ g.flow = "none"
    BY <1>10 DEF RetryData, StartsData, Becomes
  <2>3. h \in Page
    BY <2>2 DEF Applies, Datas, Flows
  <2> QED
    BY <2>1, <2>2, <2>3
<1>11. CASE ClickDone(p)
  <2>1. UNCHANGED <<box, misled, astray>>
    BY <1>11 DEF ClickDone, server, history
  <2>2. /\ h = [g EXCEPT !.flow = "finish"]
        /\ g.data \in {"done", "failed"} /\ g.flow = "none"
    BY <1>11 DEF ClickDone, Becomes
  <2>3. h \in Page
    BY <2>2 DEF Flows
  <2> QED
    BY <2>1, <2>2, <2>3 DEF BoxInv
<1>12. CASE ServeApply(p)
  <2>1. g.flow = "apply" /\ UNCHANGED <<disk, box, misled>>
    BY <1>12 DEF ServeApply
  <2>2. disk # "bare" \/ astray'
    BY <2>1 DEF Forward
  <2>3. build.by = "setup" => build.of # "bare" \/ astray'
    BY DEF OwnInv, Forward
  <2>4. h = [[g EXCEPT !.poll = "asked"] EXCEPT !.flow = "none"] /\ Alive(p)
        => build'.of # "bare" \/ astray'
    <3>1. CASE StartBuild("setup", disk)
      BY <2>2, <3>1 DEF StartBuild
    <3>2. CASE h.apply = "failed"
      BY <2>1, <3>2 DEF Alive
    <3>3. CASE UNCHANGED build /\ astray' = (astray \/ (Alive(p) /\ build.by # "setup"))
      BY <2>3, <3>3
    <3>4. \/ StartBuild("setup", disk) \/ ~Alive(p) \/ h.apply = "failed"
          \/ UNCHANGED build /\ astray' = (astray \/ (Alive(p) /\ build.by # "setup"))
      BY <1>12 DEF ServeApply, Answer, Becomes
    <3> QED BY <3>1, <3>2, <3>3, <3>4
  <2>5. \/ /\ h = [[g EXCEPT !.poll = "asked"] EXCEPT !.flow = "none"]
           /\ Alive(p)
        \/ /\ h = [[g EXCEPT !.apply = "failed"] EXCEPT !.flow = "none"]
           /\ Alive(p)
        \/ h = [g EXCEPT !.flow = "none"]
    BY <1>12 DEF ServeApply, Answer, Polling, Becomes
  <2>6. CASE /\ h = [[g EXCEPT !.poll = "asked"] EXCEPT !.flow = "none"]
            /\ Alive(p)
    <3>1. h \in Page
      BY <2>6 DEF Polls, Flows
    <3> QED
      BY <2>1, <2>4, <2>6, <3>1 DEF Alive
  <2>7. CASE /\ h = [[g EXCEPT !.apply = "failed"] EXCEPT !.flow = "none"]
            /\ Alive(p)
    <3>1. h \in Page
      BY <2>7 DEF Applies, Flows
    <3> QED
      BY <2>1, <2>4, <2>7, <3>1 DEF Alive
  <2>8. CASE h = [g EXCEPT !.flow = "none"]
    <3>1. h \in Page
      BY <2>8 DEF Flows
    <3> QED
      BY <2>1, <2>4, <2>8, <3>1
  <2> QED
    BY <2>5, <2>6, <2>7, <2>8
<1>13. CASE ServeRestore(p)
  <2>1. g.flow = "restore" /\ UNCHANGED <<box, misled, astray>>
    BY <1>13 DEF ServeRestore, history
  <2>2. \/ /\ h = [[g EXCEPT !.poll = "asked"] EXCEPT !.flow = "none"]
           /\ Alive(p)
           /\ StartBuild("restore", "restored")
        \/ /\ h = [[g EXCEPT !.apply = "failed"] EXCEPT !.flow = "none"]
           /\ Alive(p)
        \/ h = [g EXCEPT !.flow = "none"]
    BY <1>13 DEF ServeRestore, Answer, Polling, Becomes
  <2>3. CASE /\ h = [[g EXCEPT !.poll = "asked"] EXCEPT !.flow = "none"]
            /\ Alive(p)
            /\ StartBuild("restore", "restored")
    <3>1. h \in Page
      BY <2>3 DEF Polls, Flows
    <3> QED
      BY <2>1, <2>3, <3>1 DEF StartBuild, Alive
  <2>4. CASE /\ h = [[g EXCEPT !.apply = "failed"] EXCEPT !.flow = "none"]
            /\ Alive(p)
    <3>1. h \in Page
      BY <2>4 DEF Applies, Flows
    <3> QED
      BY <2>1, <2>4, <3>1 DEF Alive
  <2>5. CASE h = [g EXCEPT !.flow = "none"]
    <3>1. h \in Page
      BY <2>5 DEF Flows
    <3> QED
      BY <2>1, <2>5, <3>1
  <2> QED
    BY <2>2, <2>3, <2>4, <2>5
<1>14. CASE ServeStart(p)
  <2>1. g.flow = "start" /\ UNCHANGED <<box, misled, astray>>
    BY <1>14 DEF ServeStart, history
  <2>2. \/ /\ h = [[g EXCEPT !.dataPoll = "asked"] EXCEPT !.flow = "none"]
           /\ Alive(p)
        \/ /\ h = [[g EXCEPT !.data = "failed"] EXCEPT !.flow = "none"]
           /\ Alive(p)
        \/ h = [g EXCEPT !.flow = "none"]
    BY <1>14 DEF ServeStart, Answer, PollingData, Becomes
  <2>3. CASE /\ h = [[g EXCEPT !.dataPoll = "asked"] EXCEPT !.flow = "none"]
            /\ Alive(p)
    <3>1. h \in Page
      BY <2>3 DEF Polls, Flows
    <3> QED
      BY <2>1, <2>3, <3>1 DEF Alive
  <2>4. CASE /\ h = [[g EXCEPT !.data = "failed"] EXCEPT !.flow = "none"]
            /\ Alive(p)
    <3>1. h \in Page
      BY <2>4 DEF Datas, Flows
    <3> QED
      BY <2>1, <2>4, <3>1 DEF Alive
  <2>5. CASE h = [g EXCEPT !.flow = "none"]
    <3>1. h \in Page
      BY <2>5 DEF Flows
    <3> QED
      BY <2>1, <2>5, <3>1
  <2> QED
    BY <2>2, <2>3, <2>4, <2>5
<1>15. CASE ServeMark(p)
  <2>1. g.flow = "mark"
    BY <1>15 DEF ServeMark
  <2>2. \/ h = [[g EXCEPT !.apply = "done"] EXCEPT !.flow = "none"]
        \/ h = [g EXCEPT !.flow = "none"]
    BY <1>15 DEF ServeMark, Answer, Becomes
  <2>3. CASE h = [[g EXCEPT !.apply = "done"] EXCEPT !.flow = "none"]
    <3>1. h \in Page
      BY <2>3 DEF Applies, Flows
    <3> QED
      BY <2>1, <2>3, <3>1
  <2>4. CASE h = [g EXCEPT !.flow = "none"]
    <3>1. h \in Page
      BY <2>4 DEF Flows
    <3> QED
      BY <2>1, <2>4, <3>1
  <2> QED
    BY <2>2, <2>3, <2>4
<1>16. CASE ServeFinish(p)
  <2>1. h = [NewPage EXCEPT !.at = "dead"]
    BY <1>16 DEF ServeFinish, Becomes
  <2>2. h \in Page
    BY <2>1, NewPageIsPage DEF Ats
  <2> QED
    BY <2>1, <2>2 DEF NewPage
<1>17. CASE PollTimer(p)
  <2>1. \/ /\ h = [g EXCEPT !.poll = "asked"]
           /\ g.poll = "timer"
        \/ /\ h = [g EXCEPT !.dataPoll = "asked"]
           /\ g.dataPoll = "timer"
    BY <1>17 DEF PollTimer, Polling, PollingData, Becomes
  <2>2. CASE /\ h = [g EXCEPT !.poll = "asked"]
            /\ g.poll = "timer"
    <3>1. h \in Page
      BY <2>2 DEF Polls
    <3> QED
      BY <2>2, <3>1
  <2>3. CASE /\ h = [g EXCEPT !.dataPoll = "asked"]
            /\ g.dataPoll = "timer"
    <3>1. h \in Page
      BY <2>3 DEF Polls
    <3> QED
      BY <2>3, <3>1
  <2> QED
    BY <2>1, <2>2, <2>3
<1>18. CASE Poll(p)
  <2>1. g.poll = "asked" /\ UNCHANGED <<box, build, misled, astray>>
    BY <1>18 DEF Poll, server, history
  <2>2. \/ h = [[g EXCEPT !.poll = "none"] EXCEPT !.poll = "timer"]
        \/ /\ h = [[g EXCEPT !.poll = "none"] EXCEPT !.apply = "done",
                    !.data = "running", !.flow = "start"]
           /\ g.mode = "restore" /\ build.verdict = "ok"
        \/ /\ h = [[g EXCEPT !.poll = "none"] EXCEPT !.flow = "mark"]
           /\ g.mode # "restore" /\ build.verdict = "ok"
        \/ h = [[g EXCEPT !.poll = "none"] EXCEPT !.apply = "failed"]
    BY <1>18 DEF Poll, Succeeded, StartsData, Becomes
  <2>3. CASE h = [[g EXCEPT !.poll = "none"] EXCEPT !.poll = "timer"]
    <3>1. h \in Page
      BY <2>3 DEF Polls
    <3> QED
      BY <2>1, <2>3, <3>1
  <2>4. CASE /\ h = [[g EXCEPT !.poll = "none"] EXCEPT !.apply = "done",
                    !.data = "running", !.flow = "start"]
            /\ g.mode = "restore" /\ build.verdict = "ok"
    <3>1. h \in Page
      BY <2>4 DEF Polls, Applies, Datas, Flows
    <3> QED
      BY <2>1, <2>4, <3>1 DEF BoxInv
  <2>5. CASE /\ h = [[g EXCEPT !.poll = "none"] EXCEPT !.flow = "mark"]
            /\ g.mode # "restore" /\ build.verdict = "ok"
    <3>1. h \in Page
      BY <2>5 DEF Polls, Flows
    <3> QED
      BY <2>1, <2>5, <3>1 DEF BoxInv, Modes
  <2>6. CASE h = [[g EXCEPT !.poll = "none"] EXCEPT !.apply = "failed"]
    <3>1. h \in Page
      BY <2>6 DEF Polls, Applies
    <3> QED
      BY <2>1, <2>6, <3>1
  <2> QED
    BY <2>2, <2>3, <2>4, <2>5, <2>6
<1>19. CASE PollData(p)
  <2>1. g.dataPoll = "asked" /\ UNCHANGED <<box, misled, astray>>
    BY <1>19 DEF PollData, history
  <2>2. \/ h = [[g EXCEPT !.dataPoll = "none"] EXCEPT !.dataPoll = "timer"]
        \/ h = [[g EXCEPT !.dataPoll = "none"] EXCEPT !.data = "done", !.flow = "mark"]
        \/ h = [[g EXCEPT !.dataPoll = "none"] EXCEPT !.data = "failed"]
    BY <1>19 DEF PollData, Becomes
  <2>3. CASE h = [[g EXCEPT !.dataPoll = "none"] EXCEPT !.dataPoll = "timer"]
    <3>1. h \in Page
      BY <2>3 DEF Polls
    <3> QED
      BY <2>1, <2>3, <3>1
  <2>4. CASE h = [[g EXCEPT !.dataPoll = "none"] EXCEPT !.data = "done", !.flow = "mark"]
    <3>1. h \in Page
      BY <2>4 DEF Polls, Datas, Flows
    <3> QED
      BY <2>1, <2>4, <3>1 DEF BoxInv
  <2>5. CASE h = [[g EXCEPT !.dataPoll = "none"] EXCEPT !.data = "failed"]
    <3>1. h \in Page
      BY <2>5 DEF Polls, Datas
    <3> QED
      BY <2>1, <2>5, <3>1
  <2> QED
    BY <2>2, <2>3, <2>4, <2>5
<1>20. CASE Recover(p)
  <2>1. g.recovering /\ UNCHANGED <<disk, box, build>>
    BY <1>20 DEF Recover, server
  <2>2. CASE build.running /\ g.mode = "restore"
    <3>1. h = [[[g EXCEPT !.recovering = FALSE] EXCEPT !.mode = g.mode,
                         !.step = "apply", !.apply = "running"] EXCEPT !.poll = "asked"]
      BY <1>20, <2>2 DEF Recover, Polling, Becomes
    <3>2. build.of = "restored" \/ misled'
      <4>1. misled' = (misled \/ build.by # "restore")
        BY <1>20, <2>2 DEF Recover
      <4> QED BY <4>1 DEF BoxInv
    <3>3. h \in Page
      BY <3>1 DEF Steps, Applies, Polls
    <3>4. /\ h.apply = "running" /\ h.poll = "asked" /\ h.step = "apply"
          /\ h.mode = g.mode /\ h.flow = g.flow /\ h.data = g.data
          /\ h.dataPoll = g.dataPoll /\ h.recovering = FALSE
      BY <3>1
    <3> HIDE DEF Page
    <3> QED BY <2>1, <2>2, <3>2, <3>3, <3>4
  <2>3. CASE build.running /\ g.mode # "restore"
    <3>1. h = [[[g EXCEPT !.recovering = FALSE] EXCEPT !.mode = "fresh",
                         !.step = "apply", !.apply = "running"] EXCEPT !.poll = "asked"]
      BY <1>20, <2>3 DEF Recover, Polling, Modes, Becomes
    <3>2. build.of # "bare" \/ astray'
      <4>1. astray' = (astray \/ build.by # "setup")
        BY <1>20, <2>3 DEF Recover, Modes
      <4> QED BY <4>1 DEF OwnInv
    <3>3. h \in Page
      BY <3>1 DEF Modes, Steps, Applies, Polls
    <3>4. /\ h.apply = "running" /\ h.poll = "asked" /\ h.step = "apply"
          /\ h.mode = "fresh" /\ h.flow = g.flow /\ h.data = g.data
          /\ h.dataPoll = g.dataPoll /\ h.recovering = FALSE
      BY <3>1
    <3> HIDE DEF Page
    <3> QED BY <2>1, <3>2, <3>3, <3>4 DEF BoxInv
  <2>4. CASE ~build.running
    <3>1. h = [g EXCEPT !.recovering = FALSE]
      BY <1>20, <2>4 DEF Recover, Becomes
    <3>2. h \in Page
      BY <3>1
    <3> QED BY <3>1, <3>2
  <2> QED BY <2>2, <2>3, <2>4
<1> QED
  BY <1>1, <1>2, <1>3, <1>4, <1>5, <1>6, <1>7, <1>8, <1>9, <1>10, <1>11,
     <1>12, <1>13, <1>14, <1>15, <1>16, <1>17, <1>18, <1>19, <1>20
  DEF User, Serve, Follow

\* A page that is opened is sound: the marker it follows is of a restore, and
\* the step it is told of was reached by a sound page.
LEMMA OpenStep ==
    ASSUME TypeOK, BoxInv, Forward, DataAfterBuild, PagesInv,
           NEW p \in Pages, Open(p), NEW h, h = pages'[p]
    PROVE  Sound(h)'
<1>1. UNCHANGED <<disk, box, build>>
  BY DEF Open, server
<1>2. CASE marker = "data"
  <2>1. h = [NewPage EXCEPT !.at = "here", !.mode = "restore", !.step = "apply",
               !.apply = "done", !.data = "running", !.dataPoll = "asked"]
    BY <1>2 DEF Open, Resumed, Becomes, PagesInv
  <2>2. box = "restored" \/ misled'
    BY <1>2 DEF DataAfterBuild, Forward
  <2>3. h \in Page
    BY <2>1, NewPageIsPage DEF Page, Ats, Modes, Steps, Applies, Datas, Polls
  <2>4. /\ h.poll = "none" /\ h.data = "running" /\ h.apply = "done" /\ h.at = "here"
        /\ h.flow = "none" /\ h.recovering = FALSE /\ h.mode = "restore"
    BY <2>1 DEF NewPage
  <2> QED
    BY <1>1, <2>2, <2>3, <2>4 DEF Sound, OneThing, FreshPage, RestorePage, MarkPage
<1>3. CASE marker = "rebuild"
  <2>1. h = [NewPage EXCEPT !.at = "here", !.mode = "restore", !.step = "apply",
               !.apply = "running", !.poll = "asked"]
    BY <1>3 DEF Open, Resumed, Becomes, PagesInv
  <2>2. build.of = "restored" \/ misled'
    <3>1. misled' = (misled \/ (marker = "rebuild" /\ build.by # "restore"))
      BY <1>3 DEF Open
    <3> QED BY <1>3, <3>1 DEF BoxInv
  <2>3. h \in Page
    BY <2>1, NewPageIsPage DEF Page, Ats, Modes, Steps, Applies, Polls
  <2>4. /\ h.poll = "asked" /\ h.data = "" /\ h.apply = "running" /\ h.at = "here"
        /\ h.flow = "none" /\ h.recovering = FALSE /\ h.mode = "restore"
        /\ h.step = "apply" /\ h.dataPoll = "none"
    BY <2>1 DEF NewPage
  <2> QED
    BY <1>1, <2>2, <2>3, <2>4 DEF Sound, OneThing, FreshPage, RestorePage, MarkPage
<1>4. CASE marker = "none"
  <2>1. PICK mode \in Modes, step \in Steps :
          /\ h = Opened(mode, step)
          /\ mode = "fresh" /\ step = "apply" => disk # "bare" \/ astray
    <3>1. h \in Openings
      BY <1>4 DEF Open, Becomes, PagesInv
    <3>2. CASE h = Opened("", "enter")
      BY <3>2 DEF Modes, Steps
    <3>3. CASE \E step \in {"enter", "apply"} : h = Opened("fresh", step) /\ disk # "bare"
      BY <3>3 DEF Modes, Steps
    <3>4. ASSUME NEW q \in Pages,
                 h = Opened("fresh", IF pages[q].mode = "fresh" THEN pages[q].step
                                                                ELSE "enter")
          PROVE  \E mode \in Modes, step \in Steps :
                   /\ h = Opened(mode, step)
                   /\ mode = "fresh" /\ step = "apply" => disk # "bare" \/ astray
      <4>1. /\ pages[q] \in Page
            /\ pages[q].mode = "fresh" /\ pages[q].step = "apply" =>
                 disk # "bare" \/ astray
        BY DEF PagesInv, Sound, FreshPage
      <4>2. pages[q].step \in Steps
        BY <4>1 DEF Page
      <4> QED BY <3>4, <4>1, <4>2 DEF Modes, Steps
    <3> QED BY <3>1, <3>2, <3>3, <3>4 DEF Openings
  <2>2. h = [NewPage EXCEPT !.at = "here", !.mode = mode, !.step = step,
               !.recovering = TRUE]
    BY <2>1 DEF Opened
  <2>3. h \in Page
    BY <2>2, NewPageIsPage DEF Page, Ats
  <2>4. /\ h.poll = "none" /\ h.data = "" /\ h.apply = "idle" /\ h.at = "here"
        /\ h.flow = "none" /\ h.mode = mode /\ h.step = step /\ h.dataPoll = "none"
    BY <2>2 DEF NewPage
  <2> QED
    BY <1>1, <2>1, <2>3, <2>4
    DEF Sound, OneThing, FreshPage, RestorePage, MarkPage, Forward
<1> QED BY <1>2, <1>3, <1>4 DEF TypeOK

\* Every page is sound after every step.
LEMMA PagesStep ==
    TypeOK /\ BoxInv /\ OwnInv /\ DataAfterBuild /\ PagesInv /\ [Next]_vars
    => PagesInv'
<1> SUFFICES ASSUME TypeOK, BoxInv, OwnInv, DataAfterBuild, PagesInv, [Next]_vars
             PROVE  PagesInv'
  OBVIOUS
<1>1. BoxInv' /\ Forward
  BY BoxStep
<1>2. ASSUME NEW p \in Pages,
             \/ Open(p) \/ Leave(p) \/ Close(p) \/ ConnectionLost(p)
             \/ User(p) \/ Serve(p) \/ Follow(p)
      PROVE  PagesInv'
  <2>1. PICK h : Becomes(p, h)
    BY <1>2
    DEF Open, Leave, Close, ConnectionLost, User, Choose, SaveSteps, ClickFinish,
        OpenBackup, Navigate, ClickRestore, TryAgain, RetryData, ClickDone,
        Serve, ServeApply, ServeRestore, ServeStart, ServeMark, ServeFinish, Answer,
        Follow, PollTimer, Poll, PollData, Recover
  <2>2. h = pages'[p]
    BY <2>1 DEF Becomes, PagesInv
  <2>3. PICK g \in Page : g = pages[p] /\ Sound(g)
    BY DEF PagesInv, Sound
  <2>4. Sound(g)'
    BY <1>1, <2>3, SoundStays
  <2>5. Sound(h)'
    <3>1. CASE Open(p)
      BY <1>1, <2>2, <3>1, OpenStep
    <3>2. CASE ~Open(p)
      BY <1>1, <1>2, <2>2, <2>3, <2>4, <3>2, PageStep DEF PagesInv
    <3> QED BY <3>1, <3>2
  <2> QED BY <1>1, <2>1, <2>5, Turned
<1>3. CASE UNCHANGED pages
  <2>1. ASSUME NEW q \in Pages PROVE Sound(pages[q])'
    <3>1. PICK g : g = pages[q] /\ g = pages'[q]
      BY <1>3
    <3> QED BY <1>1, <3>1, SoundStays DEF PagesInv
  <2> QED BY <1>3, <2>1 DEF PagesInv
<1> QED
  BY <1>2, <1>3
  DEF Next, OtherBuild, BuildEnds, JobEnds, ApiRestarts, vars, browser

\* What a fresh setup builds has a key in it, as the page that asks for it knows.
LEMMA OwnStep == BoxInv /\ OwnInv /\ PagesInv /\ [Next]_vars => OwnInv'
<1> SUFFICES ASSUME BoxInv, OwnInv, PagesInv, [Next]_vars, ~astray'
             PROVE  build'.by = "setup" => build'.of # "bare"
  BY DEF OwnInv
<1>1. BoxInv' /\ Forward
  BY BoxStep
<1>2. build.by = "setup" => build.of # "bare"
  BY <1>1 DEF Forward, OwnInv
<1>3. ASSUME NEW p \in Pages, pages[p].flow = "apply" PROVE disk # "bare"
  BY <1>1, <1>3 DEF Forward, PagesInv, Sound, FreshPage
<1>4. ASSUME NEW p \in Pages, ServeApply(p), StartBuild("setup", disk)
      PROVE  build'.of # "bare"
  BY <1>3, <1>4 DEF ServeApply, StartBuild
<1>5. \/ UNCHANGED build
      \/ \E p \in Pages : ServeApply(p) /\ StartBuild("setup", disk)
      \/ StartBuild("restore", "restored") \/ StartBuild("other", disk)
      \/ build'.by = build.by /\ build'.of = build.of
  <2>1. ASSUME NEW p \in Pages, ServeApply(p)
        PROVE  UNCHANGED build \/ StartBuild("setup", disk)
    BY <2>1 DEF ServeApply
  <2>2. ASSUME NEW p \in Pages, ServeRestore(p)
        PROVE  UNCHANGED build \/ StartBuild("restore", "restored")
    BY <2>2 DEF ServeRestore
  <2>3. CASE BuildEnds
    BY <2>3 DEF BuildEnds, BoxInv, Builds
  <2> QED
    BY <2>1, <2>2, <2>3
    DEF Next, Open, Leave, Close, ConnectionLost, User, Choose, SaveSteps, ClickFinish,
        OpenBackup, Navigate, ClickRestore, TryAgain, RetryData, ClickDone, Serve,
        ServeStart, ServeMark, ServeFinish, Follow, PollTimer, Poll, PollData, Recover,
        OtherBuild, JobEnds, ApiRestarts, vars, server
<1> QED BY <1>2, <1>4, <1>5 DEF StartBuild

-----------------------------------------------------------------------------
\* Data go onto the backup's config, whichever page asks for them.
LEMMA DataStep ==
    TypeOK /\ BoxInv /\ OwnInv /\ PagesInv /\ DataAfterBuild /\ [Next]_vars
    => DataAfterBuild'
<1> SUFFICES ASSUME TypeOK, BoxInv, OwnInv, PagesInv, DataAfterBuild, [Next]_vars,
                    ~misled'
             PROVE  /\ job' # "none" => box' = "restored"
                    /\ marker' = "data" => box' = "restored"
                    /\ \A p \in Pages : pages'[p].data # "" => box' = "restored"
  BY DEF DataAfterBuild
<1>1. Forward /\ PagesInv'
  BY BoxStep, PagesStep
<1>2. ~misled
  BY <1>1 DEF Forward
<1>3. ASSUME NEW p \in Pages, RetryData(p) \/ Poll(p) PROVE marker' = "data" => box = "restored"
  <2>1. PICK g \in Page : g = pages[p] /\ Sound(g)
    BY DEF PagesInv, Sound
  <2>2. CASE RetryData(p)
    BY <1>2, <2>1, <2>2 DEF RetryData, Sound, RestorePage
  <2>3. CASE Poll(p) /\ ~UNCHANGED marker
    <3>1. g.poll # "none" /\ g.mode = "restore" /\ build.verdict = "ok"
      BY <2>1, <2>3 DEF Poll, Succeeded
    <3> QED BY <1>2, <2>1, <3>1 DEF Sound, RestorePage, BoxInv
  <2>4. CASE UNCHANGED marker
    BY <1>2, <2>4 DEF DataAfterBuild
  <2> QED BY <1>3, <2>2, <2>3, <2>4
<1>4. ASSUME NEW p \in Pages, ServeStart(p) PROVE box = "restored"
  <2>1. pages[p].flow = "start" /\ Sound(pages[p])
    BY <1>4 DEF ServeStart, PagesInv
  <2> QED BY <1>2, <2>1 DEF Sound, RestorePage
<1>5. marker' = "data" =>
        marker = "data" \/ \E p \in Pages : RetryData(p) \/ Poll(p)
  BY DEF Next, Open, Leave, Close, ConnectionLost, User, Choose, SaveSteps, ClickFinish,
         OpenBackup, Navigate, ClickRestore, TryAgain, ClickDone, Serve, ServeApply,
         ServeRestore, ServeStart, ServeMark, ServeFinish, Follow, PollTimer, PollData,
         Recover, OtherBuild, BuildEnds, JobEnds, ApiRestarts, vars, browser
<1>6. job' # "none" => job # "none" \/ \E p \in Pages : ServeStart(p)
  BY DEF Next, Open, Leave, Close, ConnectionLost, User, Choose, SaveSteps, ClickFinish,
         OpenBackup, Navigate, ClickRestore, TryAgain, RetryData, ClickDone, Serve,
         ServeApply, ServeRestore, ServeMark, ServeFinish, Follow, PollTimer, Poll,
         PollData, Recover, OtherBuild, BuildEnds, JobEnds, ApiRestarts, vars, server
<1>7. box = "restored" => box' = "restored"
  BY <1>1 DEF Forward
<1>8. ASSUME NEW p \in Pages, pages'[p].data # "" PROVE box' = "restored"
  BY <1>1, <1>8 DEF PagesInv, Sound, RestorePage
<1> QED BY <1>2, <1>3, <1>4, <1>5, <1>6, <1>7, <1>8 DEF DataAfterBuild

\* The sentinel is written for a request that was sent after the rebuild.
LEMMA CompleteStep ==
    BoxInv /\ PagesInv /\ CompleteIsDeployed /\ [Next]_vars => CompleteIsDeployed'
<1> SUFFICES ASSUME BoxInv, PagesInv, CompleteIsDeployed, [Next]_vars
             PROVE  CompleteIsDeployed'
  OBVIOUS
<1>1. Forward
  BY BoxStep
<1>2. ASSUME NEW p \in Pages, ServeMark(p) \/ ServeFinish(p)
      PROVE  box # "bare" \/ astray \/ misled
  <2>1. pages[p].flow \in {"mark", "finish"} /\ Sound(pages[p])
    BY <1>2 DEF ServeMark, ServeFinish, PagesInv
  <2> QED BY <2>1 DEF Sound, MarkPage
<1>3. complete' => complete \/ \E p \in Pages : ServeMark(p) \/ ServeFinish(p)
  BY DEF Next, Open, Leave, Close, ConnectionLost, User, Choose, SaveSteps, ClickFinish,
         OpenBackup, Navigate, ClickRestore, TryAgain, RetryData, ClickDone, Serve,
         ServeApply, ServeRestore, ServeStart, Follow, PollTimer, Poll, PollData,
         Recover, OtherBuild, BuildEnds, JobEnds, ApiRestarts, vars, server
<1> QED BY <1>1, <1>2, <1>3 DEF Forward, CompleteIsDeployed

\* Every variable keeps its type at every step.
LEMMA TypeStep == IInv /\ [Next]_vars => TypeOK'
<1> SUFFICES ASSUME IInv, [Next]_vars PROVE TypeOK'
  OBVIOUS
<1> USE DEF IInv
<1>1. BoxInv' /\ PagesInv'
  BY BoxStep, PagesStep
<1> DEFINE Rest == /\ sessions \subseteq Pages
                   /\ job \in {"none", "working", "done", "failed", "lost"}
                   /\ complete \in BOOLEAN
                   /\ marker \in {"none", "rebuild", "data"}
                   /\ astray \in BOOLEAN /\ misled \in BOOLEAN
                   /\ builds \in 0 .. MaxBuilds /\ events \in 0 .. MaxEvents
<1>2. Rest
  BY DEF TypeOK
<1>3. Rest'
  <2> USE <1>2, SetupAssumption DEF SetupAssumption, Event, server, browser, history
  <2>1. ASSUME NEW p \in Pages, Open(p) PROVE Rest'
    BY <2>1 DEF Open
  <2>2. ASSUME NEW p \in Pages, Leave(p) \/ Close(p) \/ ConnectionLost(p) PROVE Rest'
    BY <2>2 DEF Leave, Close, ConnectionLost
  <2>3. ASSUME NEW p \in Pages, Choose(p) \/ SaveSteps(p) \/ ClickFinish(p) PROVE Rest'
    BY <2>3 DEF Choose, SaveSteps, ClickFinish
  <2>4. ASSUME NEW p \in Pages, OpenBackup(p) PROVE Rest'
    BY <2>4 DEF OpenBackup
  <2>5. ASSUME NEW p \in Pages, Navigate(p) PROVE Rest'
    BY <2>5 DEF Navigate
  <2>6. ASSUME NEW p \in Pages, ClickRestore(p) \/ TryAgain(p) \/ RetryData(p) \/ ClickDone(p) PROVE Rest'
    BY <2>6 DEF ClickRestore, TryAgain, RetryData, ClickDone
  <2>7. ASSUME NEW p \in Pages, ServeApply(p) PROVE Rest'
    <3>1. UNCHANGED <<sessions, job, complete, marker, misled>>
      BY <2>7 DEF ServeApply
    <3>2. events' \in 0 .. MaxEvents
      BY <2>7 DEF ServeApply
    <3>3. builds' \in 0 .. MaxBuilds
      BY <2>7 DEF ServeApply, StartBuild, MayBuild
    <3>4. astray' \in BOOLEAN
      BY <2>7 DEF ServeApply
    <3> QED BY <3>1, <3>2, <3>3, <3>4
  <2>8. ASSUME NEW p \in Pages, ServeRestore(p) PROVE Rest'
    BY <2>8 DEF ServeRestore, StartBuild, MayBuild
  <2>9. ASSUME NEW p \in Pages, ServeStart(p) PROVE Rest'
    BY <2>9 DEF ServeStart
  <2>10. ASSUME NEW p \in Pages, ServeMark(p) \/ ServeFinish(p) PROVE Rest'
    <3>1. complete' \in BOOLEAN
      BY <2>10 DEF ServeMark, ServeFinish
    <3>2. events' \in 0 .. MaxEvents
      BY <2>10 DEF ServeMark, ServeFinish
    <3>3. marker' \in {marker, "none"}
      BY <2>10 DEF ServeMark, ServeFinish
    <3>4. UNCHANGED <<sessions, job, astray, misled, builds>>
      BY <2>10 DEF ServeMark, ServeFinish
    <3> QED BY <3>1, <3>2, <3>3, <3>4
  <2>11. ASSUME NEW p \in Pages, PollTimer(p) \/ Poll(p) PROVE Rest'
    BY <2>11 DEF PollTimer, Poll
  <2>12. ASSUME NEW p \in Pages, PollData(p) PROVE Rest'
    BY <2>12 DEF PollData
  <2>13. ASSUME NEW p \in Pages, Recover(p) PROVE Rest'
    BY <2>13 DEF Recover
  <2>14. CASE OtherBuild \/ BuildEnds \/ JobEnds \/ ApiRestarts
    BY <2>14 DEF OtherBuild, BuildEnds, JobEnds, ApiRestarts, StartBuild, MayBuild
  <2>15. CASE UNCHANGED vars
    BY <2>15 DEF vars
  <2> QED
    BY <2>1, <2>2, <2>3, <2>4, <2>5, <2>6, <2>7, <2>8, <2>9, <2>10, <2>11, <2>12, <2>13, <2>14, <2>15
    DEF Next, User, Serve, Follow
<1>4. \A p \in Pages : pages'[p].data # "" => pages'[p].apply = "done"
  BY <1>1 DEF PagesInv, Sound, OneThing
<1> QED BY <1>1, <1>3, <1>4 DEF TypeOK, BoxInv, Builds, PagesInv

-----------------------------------------------------------------------------
\* What is true of every state of the box and of the pages.
THEOREM Invariance == Spec => []IInv
<1>1. Init => IInv
  <2> SUFFICES ASSUME Init PROVE IInv
    OBVIOUS
  <2>1. Sound(NewPage)
    BY NewPageIsPage DEF Sound, OneThing, FreshPage, RestorePage, MarkPage, NewPage
  <2>2. NewPage.data = ""
    BY DEF NewPage
  <2>3. PagesInv
    BY <2>1, NewPageIsPage DEF Init, PagesInv
  <2>4. BoxInv /\ OwnInv
    BY DEF Init, BoxInv, OwnInv, Builds, Configs, NoBuild
  <2>5. TypeOK
    <3>1. builds \in 0 .. MaxBuilds /\ events \in 0 .. MaxEvents
      BY SetupAssumption DEF Init, SetupAssumption
    <3>2. \A p \in Pages : pages[p].data = ""
      BY <2>2 DEF Init
    <3> QED BY <2>3, <2>4, <3>1, <3>2 DEF Init, TypeOK, PagesInv, BoxInv, Builds
  <2>6. CompleteIsDeployed /\ DataAfterBuild
    BY <2>2 DEF Init, CompleteIsDeployed, DataAfterBuild
  <2> QED BY <2>3, <2>4, <2>5, <2>6 DEF IInv
<1>2. IInv /\ [Next]_vars => IInv'
  BY TypeStep, BoxStep, OwnStep, PagesStep, DataStep, CompleteStep DEF IInv
<1> QED BY <1>1, <1>2, PTL DEF Spec

\* Every variable keeps its type, and a page restores data only after its apply.
THEOREM TypeCorrect == Spec => []TypeOK
<1>1. IInv => TypeOK
  BY DEF IInv
<1> QED BY <1>1, Invariance, PTL

\* The sentinel that closes the wizard for good is only written on a box that
\* runs a config with a key in it, unless a page took up somebody else's rebuild.
THEOREM SentinelTruthful == Spec => []CompleteIsDeployed
<1>1. IInv => CompleteIsDeployed
  BY DEF IInv
<1> QED BY <1>1, Invariance, PTL

\* The data of a backup are only restored, or said to be, on a box that runs
\* the backup's config, whatever was reloaded, lost or rebuilt in between.
THEOREM NoDataBeforeBuild == Spec => []DataAfterBuild
<1>1. IInv => DataAfterBuild
  BY DEF IInv
<1> QED BY <1>1, Invariance, PTL
=============================================================================
