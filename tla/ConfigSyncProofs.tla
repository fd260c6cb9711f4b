---------------------------- MODULE ConfigSyncProofs ---------------------------
(***************************************************************************)
(* Proofs about ConfigSync, for any sections, edits, applies and faults:   *)
(* its types, that a tab at rest has lost no edit, and that a rebuild      *)
(* evaluates every edit made before it was asked for.                      *)
(*                                                                         *)
(* That a tab at rest has lost nothing follows only from what is under way *)
(* when it is not: which edits the body of a save in flight carries, that  *)
(* something is armed to save the others, that what the page shows is      *)
(* never behind the user.  IInv says so.                                   *)
(***************************************************************************)
EXTENDS ConfigSync, TLAPS

-----------------------------------------------------------------------------
(***************************************************************************)
(* The inductive invariant.                                                *)
(***************************************************************************)
\* No value anywhere is from the future.
Seen == 0 .. changes
Known == [Sections -> Seen]

NoneFromFuture ==
    /\ changes \in 0 .. MaxChanges
    /\ disk \in Known /\ theirs \in Known /\ serverConfig \in Known /\ mine \in Known
    /\ late \subseteq Known
    /\ pendingConfig \in [Sections -> Seen \cup {None}]
    /\ saveBody \in Known \cup {None} /\ asked \in Known \cup {None}
    /\ fetched \in Known \cup {None} /\ reloaded \in Known \cup {None}

Labels ==
    /\ build \in Builds /\ saveTimer \in Timers /\ saveInFlight \in Requests
    /\ saveStatus \in Statuses /\ apply \in Applies /\ reload \in Reloads
    /\ dirtyModules \in BOOLEAN /\ savePending \in BOOLEAN
    /\ moduleSaves \in BOOLEAN /\ error \in BOOLEAN /\ hidden \in BOOLEAN
    /\ applies \in 0 .. MaxApplies /\ faults \in 0 .. MaxFaults

\* One request at a time, with its body and its trailing save; one answer at
\* a time.
OneRequest ==
    /\ saveInFlight = "no" <=> saveBody = None
    /\ savePending => saveInFlight # "no"
    /\ reload = "asked" => reloaded # None

\* What the tab shows has every edit that counts.
Shown == \A s \in Kept : mine[s] <= View[s]

\* Something is going to start another save.
Coming == saveTimer = "armed" \/ savePending \/ (apply = "waiting" /\ dirtyModules)

\* A save in flight carries every edit, or another save follows.
Carried == saveInFlight = "no" \/ Coming \/ \A s \in Kept : mine[s] <= saveBody[s]

\* A stored save has brought what it carried to the disk; without a save in
\* flight everything is there, or a save is due, or one failed.
Stored ==
    /\ saveInFlight = "stored" =>
          \A s \in Kept : mine[s] <= saveBody[s] => mine[s] <= disk[s]
    /\ saveInFlight = "no" =>
          Coming \/ saveStatus = "error" \/ hidden \/ \A s \in Kept : mine[s] <= disk[s]

\* What was asked to be built is on the screen, in every save from the click
\* on, and on the disk from the end of the flush on.
Asked ==
    asked # None =>
        /\ apply \in {"flushing", "requested", "accepted", "polling"}
        /\ apply \in {"accepted", "polling"} => build = "started"
        /\ \A s \in Kept :
              /\ asked[s] <= View[s]
              /\ saveInFlight # "no" => asked[s] <= saveBody[s]
              /\ apply # "flushing" \/ saveInFlight = "stored" => asked[s] <= disk[s]

IInv ==
    NoneFromFuture /\ Labels /\ OneRequest /\ Shown /\ Carried /\ Stored /\ Asked

-----------------------------------------------------------------------------
(***************************************************************************)
(* The operators on configs.                                               *)
(***************************************************************************)
\* What is left of the edits after a config has overtaken them is in it.
LEMMA LeftIsThere ==
    ASSUME NoneFromFuture, NEW made \in Known, NEW now \in Known
    PROVE  /\ Left(made, now) \in Known
           /\ \A s \in Sections :
                 Left(made, now)[s] <= now[s] /\ Left(made, now)[s] \in {made[s], 0}
<1>1. changes \in Nat
  BY BoundsAssumption DEF NoneFromFuture
<1> QED
  BY <1>1 DEF Left, Known, Seen

\* The views, the merges and the fresh config of a tab know no future values.
LEMMA ViewsKnown ==
    ASSUME NoneFromFuture
    PROVE  /\ View \in Known
           /\ \A f \in Known : ViewOf(f) \in Known /\ Overlay(f) \in Known
  BY SectionsAssumption DEF NoneFromFuture, View, ViewOf, Overlay, Known, Seen

\* None is neither a value nor a config.
LEMMA NoneIsNothing ==
    ASSUME NoneFromFuture
    PROVE  None \notin Seen /\ None \notin Known /\ Known \subseteq [Sections -> Nat]
  BY BoundsAssumption DEF NoneFromFuture, Known, Seen

\* What is kept when a config overtakes the edits, of those that count and of
\* those that were asked to be built.
LEMMA OvertakeKnown ==
    ASSUME NoneFromFuture, NEW now \in Known, Overtake(now)
    PROVE  /\ mine' \in Known /\ asked' \in Known \cup {None}
           /\ \A s \in Sections : mine'[s] <= now[s] /\ mine'[s] \in {mine[s], 0}
           /\ (asked' = None) <=> (asked = None)
           /\ asked # None => \A s \in Sections : asked'[s] <= now[s] /\ asked'[s] \in {asked[s], 0}
<1>1. mine' = Left(mine, now) /\ asked' = IF asked = None THEN None ELSE Left(asked, now)
  BY DEF Overtake
<1>2. mine \in Known /\ asked \in Known \cup {None} /\ None \notin Known
  BY NoneIsNothing DEF NoneFromFuture
<1>3. /\ Left(mine, now) \in Known
      /\ \A s \in Sections : Left(mine, now)[s] <= now[s] /\ Left(mine, now)[s] \in {mine[s], 0}
  BY <1>2, LeftIsThere
<1>4. asked # None =>
        /\ Left(asked, now) \in Known
        /\ \A s \in Sections : Left(asked, now)[s] <= now[s] /\ Left(asked, now)[s] \in {asked[s], 0}
  BY <1>2, LeftIsThere
<1> QED
  BY <1>1, <1>2, <1>3, <1>4

\* What is kept when a stale copy replaces the file: an edit that was in the
\* file is in the copy or no longer counts, the others are as they were.
LEMMA ReplaceKnown ==
    ASSUME NoneFromFuture, NEW now \in [Sections -> Nat], Replace(now)
    PROVE  /\ disk' = now
           /\ mine' \in Known /\ asked' \in Known \cup {None}
           /\ \A s \in Sections : /\ mine'[s] \in {mine[s], 0}
                                  /\ mine[s] <= disk[s] => mine'[s] <= now[s]
           /\ (asked' = None) <=> (asked = None)
           /\ asked # None =>
                 \A s \in Sections : /\ asked'[s] \in {asked[s], 0}
                                     /\ asked[s] <= disk[s] => asked'[s] <= now[s]
<1>1. /\ disk' = now /\ mine' = PutBack(mine, now)
      /\ asked' = IF asked = None THEN None ELSE PutBack(asked, now)
  BY DEF Replace
<1>2. /\ mine \in Known /\ disk \in Known /\ asked \in Known \cup {None} /\ None \notin Known
      /\ changes \in Nat
  BY NoneIsNothing, BoundsAssumption DEF NoneFromFuture
<1>3. ASSUME NEW made \in Known
      PROVE  /\ PutBack(made, now) \in Known
             /\ \A s \in Sections : /\ PutBack(made, now)[s] \in {made[s], 0}
                                    /\ made[s] <= disk[s] => PutBack(made, now)[s] <= now[s]
  BY <1>2, <1>3 DEF PutBack, Known, Seen
<1>4. /\ PutBack(mine, now) \in Known
      /\ \A s \in Sections : /\ PutBack(mine, now)[s] \in {mine[s], 0}
                             /\ mine[s] <= disk[s] => PutBack(mine, now)[s] <= now[s]
  BY <1>2, <1>3
<1>5. asked # None =>
        /\ PutBack(asked, now) \in Known
        /\ \A s \in Sections : /\ PutBack(asked, now)[s] \in {asked[s], 0}
                               /\ asked[s] <= disk[s] => PutBack(asked, now)[s] <= now[s]
  BY <1>2, <1>3
<1>6. CASE asked = None
  BY <1>1, <1>4, <1>6
<1>7. CASE asked # None
  <2>1. asked' = PutBack(asked, now)
    BY <1>1, <1>7
  <2>2. asked' # None
    BY <1>2, <1>5, <1>7, <2>1
  <2>3. /\ asked' \in Known
        /\ \A s \in Sections : /\ asked'[s] \in {asked[s], 0}
                               /\ asked[s] <= disk[s] => asked'[s] <= now[s]
    BY <1>5, <1>7, <2>1
  <2>4. /\ mine' \in Known
        /\ \A s \in Sections : /\ mine'[s] \in {mine[s], 0}
                               /\ mine[s] <= disk[s] => mine'[s] <= now[s]
    BY <1>1, <1>4
  <2> QED
    BY <1>1, <1>7, <2>2, <2>3, <2>4
<1> QED
  BY <1>6, <1>7

\* Whoever replaces the file, another writer or a late save: the edits that
\* count are among those that counted, and what was in the file still is.
LEMMA Replaced ==
    ASSUME NoneFromFuture, LateSave \/ \E s \in Sections : OthersWrite(s)
    PROVE  /\ changes' \in 0 .. MaxChanges /\ Seen \subseteq Seen' /\ Known \subseteq Known'
           /\ disk' \in Known' /\ theirs' \in Known'
           /\ mine' \in Known /\ asked' \in Known \cup {None}
           /\ \A s \in Sections : /\ mine'[s] \in {mine[s], 0}
                                  /\ mine[s] <= disk[s] => mine'[s] <= disk'[s]
           /\ (asked' = None) <=> (asked = None)
           /\ asked # None =>
                 \A s \in Sections : /\ asked'[s] \in {asked[s], 0}
                                     /\ asked[s] <= disk[s] => asked'[s] <= disk'[s]
<1>0. /\ changes \in Nat /\ MaxChanges \in Nat /\ Known \subseteq [Sections -> Nat]
      /\ changes \in 0 .. MaxChanges /\ disk \in Known /\ mine \in Known /\ theirs \in Known
      /\ asked \in Known \cup {None} /\ None \notin Known
      /\ \A s \in Sections : mine[s] \in Nat /\ disk[s] \in Nat
  BY NoneIsNothing, BoundsAssumption DEF NoneFromFuture, Known
<1>1. CASE LateSave
  <2>1. UNCHANGED <<theirs, changes>>
    BY <1>1 DEF LateSave, bounds
  <2>2. PICK body \in late : Replace(Overlay(body)) \/ UNCHANGED <<disk, history>>
    BY <1>1 DEF LateSave
  <2>3. Overlay(body) \in Known
    BY ViewsKnown DEF NoneFromFuture
  <2>4. Seen' = Seen /\ Known' = Known
    BY <2>1 DEF Seen, Known
  <2>5. CASE Replace(Overlay(body))
    <3>1. Overlay(body) \in [Sections -> Nat]
      BY <1>0, <2>3
    <3> QED
      BY <1>0, <2>1, <2>3, <2>4, <2>5, <3>1, ReplaceKnown
  <2>6. CASE UNCHANGED <<disk, history>>
    BY <1>0, <2>1, <2>4, <2>6 DEF history
  <2> QED
    BY <2>2, <2>5, <2>6
<1>2. ASSUME NEW s \in Sections, OthersWrite(s)
      PROVE  /\ changes' \in 0 .. MaxChanges /\ Seen \subseteq Seen' /\ Known \subseteq Known'
             /\ theirs' \in Known'
             /\ \E now \in Known' : now \in [Sections -> Nat] /\ Replace(now)
  <2>1. changes' = changes + 1 /\ changes < MaxChanges
    BY <1>2 DEF OthersWrite, Newest
  <2>2. /\ changes' \in 0 .. MaxChanges /\ Seen \subseteq Seen' /\ Newest \in Seen'
        /\ Seen' \subseteq Nat
    BY <1>0, <2>1 DEF Seen, Newest
  <2>3. Known \subseteq Known' /\ Known' \subseteq [Sections -> Nat]
    BY <2>2 DEF Known
  <2>4. theirs' \in Known'
    BY <1>0, <1>2, <2>2 DEF OthersWrite, Known
  <2>5. Overlay(theirs') \in Known'
    <3>1. \A x \in Sections : theirs'[x] \in Seen' /\ disk[x] \in Seen'
      BY <1>0, <2>2, <2>4 DEF Known
    <3> QED
      BY <3>1 DEF Overlay, Known
  <2>6. PICK now \in {theirs', Overlay(theirs')} : Replace(now)
    BY <1>2 DEF OthersWrite
  <2> QED
    BY <2>2, <2>3, <2>4, <2>5, <2>6
<1>3. CASE \E s \in Sections : OthersWrite(s)
  <2>1. /\ changes' \in 0 .. MaxChanges /\ Seen \subseteq Seen' /\ Known \subseteq Known'
        /\ theirs' \in Known'
    BY <1>2, <1>3
  <2>2. PICK now \in Known' : now \in [Sections -> Nat] /\ Replace(now)
    BY <1>2, <1>3
  <2> QED
    BY <1>0, <2>1, <2>2, ReplaceKnown
<1> QED
  BY <1>1, <1>3

-----------------------------------------------------------------------------
(***************************************************************************)
(* Typing.                                                                 *)
(***************************************************************************)
\* Every initial state satisfies the invariant.
LEMMA InitInv == Init => IInv
<1> SUFFICES ASSUME Init PROVE IInv
  OBVIOUS
<1>1. NoneFromFuture
  BY BoundsAssumption DEF Init, NoneFromFuture, Known, Seen, NoEdits
<1>2. Labels
  <2>1. applies \in 0 .. MaxApplies /\ faults \in 0 .. MaxFaults
    BY BoundsAssumption DEF Init
  <2> QED
    BY <2>1 DEF Init, Labels, Builds, Timers, Requests, Statuses, Applies, Reloads
<1>3. OneRequest
  BY DEF Init, OneRequest
<1>4. Shown /\ Carried /\ Stored /\ Asked
  <2>1. \A s \in Kept : s \in Sections
    BY SectionsAssumption DEF Kept
  <2>2. \A s \in Sections : mine[s] = 0 /\ View[s] = 0 /\ disk[s] = 0
    BY DEF Init, View, NoEdits
  <2> QED
    BY <2>1, <2>2 DEF Init, Shown, Carried, Stored, Asked
<1> QED
  BY <1>1, <1>2, <1>3, <1>4 DEF IInv

\* An edit, the tab's or another's, is the newest value, and newer than all.
LEMMA Newer ==
    ASSUME NoneFromFuture, changes < MaxChanges, changes' = Newest
    PROVE  /\ changes' \in 0 .. MaxChanges /\ Newest \in Seen'
           /\ Seen \subseteq Seen' /\ Known \subseteq Known'
           /\ [Sections -> Seen \cup {None}] \subseteq [Sections -> Seen' \cup {None}]
           /\ \A v \in Seen : v < Newest
<1>1. changes \in Nat /\ MaxChanges \in Nat
  BY BoundsAssumption DEF NoneFromFuture
<1>2. Seen \subseteq Seen' /\ Newest \in Seen' /\ changes' \in 0 .. MaxChanges /\ \A v \in Seen : v < Newest
  BY <1>1 DEF Seen, Newest
<1> QED
  BY <1>2 DEF Known

\* No step takes a value from the future.
LEMMA FutureStep == NoneFromFuture /\ OneRequest /\ [Next]_vars => NoneFromFuture'
<1> SUFFICES ASSUME NoneFromFuture, OneRequest, Next PROVE NoneFromFuture'
  BY DEF NoneFromFuture, Known, Seen, vars, server, config, saving, loading, history, bounds
<1> USE DEF server, config, saving, loading, history, bounds
<1>0. View \in Known /\ \A f \in Known : ViewOf(f) \in Known /\ Overlay(f) \in Known
  BY ViewsKnown
<1>00. None \notin Known /\ None \notin Seen
  BY NoneIsNothing
<1>1. ASSUME NEW s \in Sections, Edit(s) PROVE NoneFromFuture'
  <2>1. /\ changes' \in 0 .. MaxChanges /\ Newest \in Seen' /\ Known \subseteq Known'
        /\ [Sections -> Seen \cup {None}] \subseteq [Sections -> Seen' \cup {None}]
        /\ Seen \subseteq Seen'
    BY <1>1, Newer DEF Edit
  <2>2. serverConfig' \in Known' /\ mine' \in Known'
    BY <1>1, <2>1 DEF Edit, NoneFromFuture, Known
  <2>3. pendingConfig' \in [Sections -> Seen' \cup {None}]
    <3>1. \A x \in Sections : View[x] \in Seen /\ pendingConfig[x] \in Seen \cup {None}
      BY <1>0 DEF Known, NoneFromFuture
    <3>2. pendingConfig' = [x \in Sections |->
              IF x = s THEN Newest ELSE IF s \in Whole THEN View[x] ELSE pendingConfig[x]]
      BY <1>1 DEF Edit, Emitted
    <3> QED
      BY <2>1, <3>1, <3>2
  <2> QED
    BY <1>1, <2>1, <2>2, <2>3 DEF Edit, NoneFromFuture
<1>2. CASE LateSave \/ \E s \in Sections : OthersWrite(s)
  <2>1. /\ changes' \in 0 .. MaxChanges /\ Seen \subseteq Seen' /\ Known \subseteq Known'
        /\ disk' \in Known' /\ theirs' \in Known'
        /\ mine' \in Known /\ asked' \in Known \cup {None}
    BY <1>2, Replaced
  <2>2. /\ UNCHANGED <<serverConfig, pendingConfig, saveBody, fetched, reloaded>>
        /\ late' \subseteq late
    BY <1>2 DEF LateSave, OthersWrite
  <2>3. [Sections -> Seen \cup {None}] \subseteq [Sections -> Seen' \cup {None}]
    BY <2>1
  <2> QED
    BY <2>1, <2>2, <2>3 DEF NoneFromFuture
<1> USE DEF NoneFromFuture
<1> DEFINE Same == Known' = Known /\ Seen' = Seen
<1>3. changes' = changes => Same
  BY DEF Known, Seen
<1> HIDE DEF Same
<1>s. Same => /\ \A f : (f \in Known) <=> (f \in Known')
              /\ [Sections -> Seen' \cup {None}] = [Sections -> Seen \cup {None}]
  BY DEF Same
<1>4. CASE TimerFires
  <2>1. changes' = changes /\ saveBody' \in Known \cup {None}
    BY <1>0, <1>4 DEF TimerFires, AutoSave
  <2> QED
    BY <1>3, <1>s, <1>4, <2>1 DEF TimerFires
<1>5. CASE MergeSave \/ StoreSave \/ RefuseSave
  <2>1. changes' = changes /\ disk' \in Known /\ saveBody' \in Known \cup {None}
    BY <1>0, <1>00, <1>5 DEF MergeSave, StoreSave, RefuseSave, OneRequest
  <2> QED
    BY <1>3, <1>s, <1>5, <2>1 DEF MergeSave, StoreSave, RefuseSave
<1>6. ASSUME NEW ok, SaveReturns(ok)
      PROVE  /\ UNCHANGED <<changes, disk, theirs, serverConfig, mine, pendingConfig, fetched,
                            reloaded>>
             /\ saveBody' = None /\ asked' \in {asked, None}
  BY <1>6 DEF SaveReturns
<1>7. CASE SaveAnswered \/ SaveTimesOut
  <2>1. late' \subseteq Known
    BY <1>00, <1>7 DEF SaveAnswered, SaveTimesOut, OneRequest
  <2> QED
    BY <1>3, <1>s, <1>6, <1>7, <2>1 DEF SaveAnswered, SaveTimesOut
<1>8. CASE OthersRead \/ ModuleSaves \/ ModuleSaved
  BY <1>3, <1>s, <1>8 DEF OthersRead, ModuleSaves, ModuleSaved, ShowStatus
<1>9. CASE Refresh \/ RefreshFails
  BY <1>3, <1>s, <1>9 DEF Refresh, RefreshFails
<1>10. CASE RefreshAnswered
  <2>1. fetched \in Known /\ Overtake(ViewOf(fetched))
    BY <1>10 DEF RefreshAnswered
  <2>2. mine' \in Known /\ asked' \in Known \cup {None}
    BY <1>0, <2>1, OvertakeKnown
  <2> QED
    BY <1>3, <1>s, <1>10, <2>1, <2>2 DEF RefreshAnswered
<1>11. CASE ClickApply
  <2>1. mine' \in Known
    <3>1. saveInFlight # "no" => saveBody \in Known
      BY DEF OneRequest
    <3>2. mine' = mine \/ mine' = Left(mine, disk) \/ (saveInFlight # "no" /\ mine' = Left(mine,
    saveBody))
      BY <1>11 DEF ClickApply
    <3> QED
      BY <3>1, <3>2, LeftIsThere
  <2>2. asked' \in {mine', None} /\ saveBody' \in {saveBody, View}
    BY <1>11 DEF ClickApply, Flush, AutoSave
  <2>3. changes' = changes /\ UNCHANGED <<disk, theirs, late, serverConfig, pendingConfig,
                                          fetched, reloaded>>
    BY <1>11 DEF ClickApply
  <2> QED
    BY <1>0, <1>3, <1>s, <2>1, <2>2, <2>3
<1>12. CASE ApplyWaited
  <2>1. saveBody' \in {saveBody, View}
    BY <1>12 DEF ApplyWaited, Flush, AutoSave
  <2> QED
    BY <1>0, <1>3, <1>s, <1>12, <2>1 DEF ApplyWaited
<1>13. CASE ApplyServed \/ ApplyAnswered \/ ApplyTimesOut \/ Reattach
  BY <1>3, <1>s, <1>13 DEF ApplyServed, ApplyAnswered, ApplyTimesOut, Reattach
<1>14. CASE Build \/ PollEnds
  BY <1>3, <1>s, <1>14 DEF Build, BuildEvaluates, BuildEnds, PollEnds
<1>15. CASE ReloadAsks \/ ReloadFails
  BY <1>3, <1>s, <1>15 DEF ReloadAsks, ReloadFails
<1>16. CASE ReloadAnswered
  <2>1. reloaded \in Known /\ Overtake(ViewOf(reloaded))
    BY <1>16 DEF ReloadAnswered, OneRequest
  <2>2. mine' \in Known /\ asked' \in Known \cup {None}
    BY <1>0, <2>1, OvertakeKnown
  <2> QED
    BY <1>3, <1>s, <1>16, <2>1, <2>2 DEF ReloadAnswered
<1>17. CASE ReloadEnds
  <2>1. mine' \in Known /\ asked' \in Known \cup {None}
    BY <1>17, OvertakeKnown DEF ReloadEnds
  <2> QED
    BY <1>3, <1>s, <1>17, <2>1 DEF ReloadEnds, NoEdits
<1>18. CASE PageReloads
  <2>1. late' \subseteq Known
    BY <1>00, <1>18 DEF PageReloads, OneRequest
  <2>2. mine' \in Known
    BY <1>18 DEF PageReloads, Known, Seen
  <2> QED
    BY <1>3, <1>s, <1>18, <2>1, <2>2 DEF PageReloads, NoEdits
<1> QED
  BY <1>1, <1>2, <1>4, <1>5, <1>7, <1>8, <1>9, <1>10, <1>11, <1>12, <1>13, <1>14, <1>15, <1>16,
     <1>17, <1>18 DEF Next, Save, Applying, Reload

\* Every label is one of the code's, and the bounds are kept.
LEMMA LabelsStep == Labels /\ [Next]_vars => Labels'
<1> SUFFICES ASSUME Labels, Next PROVE Labels'
  BY DEF Labels, vars, server, config, saving, loading, history, bounds
<1>0. /\ build \in Builds /\ saveTimer \in Timers /\ saveInFlight \in Requests
      /\ saveStatus \in Statuses /\ apply \in Applies /\ reload \in Reloads
      /\ dirtyModules \in BOOLEAN /\ savePending \in BOOLEAN
      /\ moduleSaves \in BOOLEAN /\ error \in BOOLEAN /\ hidden \in BOOLEAN
      /\ applies \in 0 .. MaxApplies /\ faults \in 0 .. MaxFaults
  BY DEF Labels
<1>f. Fault \/ faults' = faults => faults' \in 0 .. MaxFaults
  BY <1>0, BoundsAssumption DEF Fault
<1>1. CASE \E s \in Sections : Edit(s) \/ OthersWrite(s)
  BY <1>0, <1>1 DEF Edit, OthersWrite, Labels, Timers, server, config, saving, loading
<1>2. CASE TimerFires \/ MergeSave \/ StoreSave \/ RefuseSave
  <2>1. /\ savePending' \in BOOLEAN /\ saveInFlight' \in Requests /\ saveStatus' \in Statuses
        /\ hidden' \in BOOLEAN
    BY <1>0, <1>2 DEF TimerFires, AutoSave, MergeSave, StoreSave, RefuseSave, Requests, Statuses
  <2>2. faults' \in 0 .. MaxFaults
    BY <1>f, <1>2 DEF TimerFires, MergeSave, StoreSave, RefuseSave, bounds
  <2> QED
    BY <1>0, <1>2, <2>1, <2>2 DEF TimerFires, MergeSave, StoreSave, RefuseSave, Labels, Timers,
       server, config, loading, bounds
<1>10. CASE OthersRead \/ ModuleSaves \/ ModuleSaved
  BY <1>0, <1>10 DEF OthersRead, ModuleSaves, ModuleSaved, ShowStatus, Labels, Statuses, server,
     config, saving, loading, bounds
<1>3. CASE SaveAnswered \/ SaveTimesOut
  <2>1. PICK ok \in BOOLEAN : SaveReturns(ok)
    BY <1>3 DEF SaveAnswered, SaveTimesOut
  <2>2. /\ savePending' \in BOOLEAN /\ saveInFlight' \in Requests /\ saveTimer' \in Timers
        /\ saveStatus' \in Statuses /\ apply' \in Applies
    BY <1>0, <2>1 DEF SaveReturns, Requests, Timers, Statuses, Applies
  <2>3. faults' \in 0 .. MaxFaults
    BY <1>f, <1>3 DEF SaveAnswered, SaveTimesOut
  <2> QED
    BY <1>0, <2>1, <2>2, <2>3 DEF SaveReturns, Labels, config, loading
<1>4. CASE LateSave \/ Refresh \/ RefreshAnswered \/ RefreshFails
  <2>1. UNCHANGED <<build, dirtyModules, saving, reload, error, apply, applies>>
    BY <1>4 DEF LateSave, Refresh, RefreshAnswered, RefreshFails, server, config, loading, bounds
  <2>2. faults' \in 0 .. MaxFaults
    BY <1>f, <1>4 DEF LateSave, Refresh, RefreshAnswered, RefreshFails, bounds
  <2> QED
    BY <1>0, <2>1, <2>2 DEF Labels, saving
<1>5. CASE ClickApply \/ ApplyWaited
  <2>1. /\ savePending' \in BOOLEAN /\ saveInFlight' \in Requests /\ saveTimer' \in Timers
        /\ saveStatus' \in Statuses /\ apply' \in Applies /\ hidden' \in BOOLEAN
    BY <1>0, <1>5 DEF ClickApply, ApplyWaited, Flush, AutoSave, saving, Requests, Timers,
       Statuses, Applies
  <2>2. applies' \in 0 .. MaxApplies
    BY <1>0, <1>5, BoundsAssumption DEF ClickApply, ApplyWaited, bounds
  <2> QED
    BY <1>0, <1>5, <2>1, <2>2 DEF ClickApply, ApplyWaited, Labels, server, config, loading, bounds
<1>6. CASE ApplyServed \/ ApplyAnswered \/ ApplyTimesOut \/ Reattach
  <2>1. apply' \in Applies /\ build' \in Builds /\ dirtyModules' \in BOOLEAN
    BY <1>0, <1>6 DEF ApplyServed, ApplyAnswered, ApplyTimesOut, Reattach, Applies, Builds,
       server, config
  <2>2. applies' = applies /\ faults' \in 0 .. MaxFaults
    BY <1>f, <1>6 DEF ApplyServed, ApplyAnswered, ApplyTimesOut, Reattach, bounds
  <2> QED
    BY <1>0, <1>6, <2>1, <2>2 DEF ApplyServed, ApplyAnswered, ApplyTimesOut, Reattach, Labels,
       saving, loading
<1>7. CASE Build \/ PollEnds
  BY <1>0, <1>7 DEF Build, BuildEvaluates, BuildEnds, PollEnds, Labels, Builds, Applies, Reloads,
     config, saving, bounds, loading
<1>8. CASE Reload
  <2>1. reload' \in Reloads /\ error' \in BOOLEAN
    BY <1>0, <1>8 DEF Reload, ReloadAsks, ReloadAnswered, ReloadFails, ReloadEnds, Reloads
  <2>2. faults' \in 0 .. MaxFaults
    BY <1>f, <1>8 DEF Reload, ReloadAsks, ReloadAnswered, ReloadFails, ReloadEnds, bounds
  <2> QED
    BY <1>0, <1>8, <2>1, <2>2 DEF Reload, ReloadAsks, ReloadAnswered, ReloadFails, ReloadEnds,
       Labels, server, config, saving, bounds
<1>9. CASE PageReloads
  <2>1. faults' \in 0 .. MaxFaults
    BY <1>f, <1>9 DEF PageReloads
  <2> QED
    BY <1>0, <1>9, <2>1 DEF PageReloads, Labels, Timers, Requests, Statuses, Applies, Reloads
<1> QED
  BY <1>1, <1>2, <1>3, <1>4, <1>5, <1>6, <1>7, <1>8, <1>9, <1>10 DEF Next, Save, Applying

\* One save and one answer at a time.
LEMMA OneRequestStep == NoneFromFuture /\ OneRequest /\ [Next]_vars => OneRequest'
<1> SUFFICES ASSUME NoneFromFuture, OneRequest, Next PROVE OneRequest'
  BY DEF OneRequest, vars, saving, loading
<1>0. None \notin Known /\ View \in Known /\ disk \in Known
  BY NoneIsNothing, ViewsKnown DEF NoneFromFuture
<1> USE DEF OneRequest
<1>1. CASE TimerFires \/ ClickApply \/ ApplyWaited
  BY <1>0, <1>1 DEF TimerFires, ClickApply, ApplyWaited, Flush, AutoSave, saving, loading
<1>2. CASE SaveAnswered \/ SaveTimesOut
  <2>1. PICK ok \in BOOLEAN : SaveReturns(ok)
    BY <1>2 DEF SaveAnswered, SaveTimesOut
  <2> QED
    BY <2>1 DEF SaveReturns, loading
<1>3. CASE MergeSave \/ StoreSave \/ RefuseSave
  <2>1. saveInFlight # "no" => Overlay(saveBody) \in Known
    BY ViewsKnown DEF NoneFromFuture
  <2> QED
    BY <1>0, <1>3, <2>1 DEF MergeSave, StoreSave, RefuseSave, saving, loading
<1>4. CASE Reload \/ PollEnds
  BY <1>0, <1>4 DEF Reload, ReloadAsks, ReloadAnswered, ReloadFails, ReloadEnds, PollEnds, saving,
     loading
<1>5. CASE PageReloads
  BY <1>5 DEF PageReloads
<1>6. CASE \/ \E s \in Sections : Edit(s) \/ OthersWrite(s)
           \/ LateSave \/ Refresh \/ RefreshAnswered \/ RefreshFails
           \/ OthersRead \/ ModuleSaves \/ ModuleSaved
           \/ ApplyServed \/ ApplyAnswered \/ ApplyTimesOut \/ Reattach \/ Build
  BY <1>6 DEF Edit, OthersWrite, OthersRead, ModuleSaves, ModuleSaved, ShowStatus, LateSave,
     Refresh, RefreshAnswered, RefreshFails, ApplyServed,
     ApplyAnswered, ApplyTimesOut, Reattach, Build, BuildEvaluates, BuildEnds, saving, loading
<1> QED
  BY <1>1, <1>2, <1>3, <1>4, <1>5, <1>6 DEF Next, Save, Applying

-----------------------------------------------------------------------------
(***************************************************************************)
(* The edits.                                                              *)
(***************************************************************************)
\* Kept sections are sections, and their values are numbers.
LEMMA Numbers ==
    ASSUME NoneFromFuture, OneRequest
    PROVE  /\ Kept \subseteq Sections
           /\ \A s \in Kept :
                 /\ mine[s] \in Seen /\ View[s] \in Seen /\ disk[s] \in Seen
                 /\ saveInFlight # "no" => saveBody[s] \in Seen
                 /\ asked # None => asked[s] \in Seen
           /\ Seen \subseteq Nat
<1>1. View \in Known /\ changes \in Nat
  BY ViewsKnown, BoundsAssumption DEF NoneFromFuture
<1> QED
  BY <1>1, SectionsAssumption DEF NoneFromFuture, OneRequest, Kept, Known, Seen

\* Steps that take up an answer of the server, or drop the edits.
TakesUp == RefreshAnswered \/ ReloadAnswered \/ ReloadEnds

\* Between two edits the list of those that count only shrinks, and what the
\* tab shows only changes when it takes up an answer; what was asked shrinks
\* with it.
LEMMA MineShrinks ==
    ASSUME NoneFromFuture, OneRequest, Next, \A s \in Sections : ~Edit(s)
    PROVE  /\ \A s \in Kept : mine'[s] \in {mine[s], 0}
           /\ ~TakesUp /\ ~PageReloads => View' = View
           /\ TakesUp => /\ \A s \in Kept : mine'[s] <= View'[s]
                         /\ asked' # None =>
                               /\ asked # None
                               /\ \A s \in Kept : asked'[s] <= View'[s] /\ asked'[s] \in {asked[s], 0}
<1>0. Kept \subseteq Sections /\ mine \in Known /\ None \notin Known
  BY Numbers, NoneIsNothing DEF NoneFromFuture
<1>1. CASE TakesUp
  <2>1. PICK now \in Known : Overtake(now) /\ \A s \in Sections : View'[s] = now[s]
    <3>1. CASE RefreshAnswered
      <4>1. fetched \in Known /\ Overtake(ViewOf(fetched)) /\ serverConfig' = fetched
            /\ pendingConfig' = pendingConfig
        BY <3>1 DEF RefreshAnswered, NoneFromFuture
      <4> QED
        BY <4>1, ViewsKnown DEF View, ViewOf
    <3>2. CASE ReloadAnswered
      <4>1. reloaded \in Known /\ Overtake(ViewOf(reloaded)) /\ serverConfig' = reloaded
            /\ pendingConfig' = pendingConfig
        BY <3>2 DEF ReloadAnswered, NoneFromFuture, OneRequest
      <4> QED
        BY <4>1, ViewsKnown DEF View, ViewOf
    <3>3. CASE ReloadEnds
      BY <3>3 DEF ReloadEnds, NoneFromFuture, View, NoEdits
    <3> QED
      BY <1>1, <3>1, <3>2, <3>3 DEF TakesUp
  <2> QED
    BY <1>0, <1>1, <2>1, OvertakeKnown
<1>2. CASE PageReloads /\ ~TakesUp
  BY <1>0, <1>2 DEF PageReloads
<1>3. CASE ~TakesUp /\ ~PageReloads
  <2>1. View' = View
    <3>1. UNCHANGED <<serverConfig, pendingConfig>>
      <4>1. CASE SaveAnswered \/ SaveTimesOut
        BY <4>1 DEF SaveAnswered, SaveTimesOut, SaveReturns, config
      <4> QED
        BY <1>3, <4>1 DEF Next, Save, Applying, Reload, Build, TakesUp, OthersWrite, OthersRead,
           TimerFires, ModuleSaves, ModuleSaved, ShowStatus, MergeSave, StoreSave, RefuseSave,
           LateSave, Refresh, RefreshFails, ClickApply, ApplyWaited,
           ApplyServed, ApplyAnswered, ApplyTimesOut, Reattach, BuildEvaluates, BuildEnds,
           PollEnds, ReloadAsks, ReloadFails, config
    <3> QED
      BY <3>1 DEF View
  <2>2. \A s \in Kept : mine'[s] \in {mine[s], 0}
    <3>1. CASE LateSave \/ \E s \in Sections : OthersWrite(s)
      <4>1. \A s \in Sections : mine'[s] \in {mine[s], 0}
        BY <3>1, Replaced
      <4> QED
        BY <1>0, <4>1
    <3>2. CASE ClickApply
      <4>1. saveInFlight # "no" => saveBody \in Known
        BY DEF OneRequest, NoneFromFuture
      <4>2. \/ mine' = mine \/ mine' = Left(mine, disk)
            \/ saveInFlight # "no" /\ mine' = Left(mine, saveBody)
        BY <3>2 DEF ClickApply
      <4> QED
        BY <1>0, <4>1, <4>2, LeftIsThere DEF NoneFromFuture
    <3>3. CASE SaveAnswered \/ SaveTimesOut
      BY <3>3 DEF SaveAnswered, SaveTimesOut, SaveReturns
    <3>4. CASE /\ ~LateSave /\ ~(\E s \in Sections : OthersWrite(s)) /\ ~ClickApply
               /\ ~(SaveAnswered \/ SaveTimesOut)
      <4>1. mine' = mine
        BY <1>3, <3>4 DEF Next, Save, Applying, Reload, Build, TakesUp, OthersRead, TimerFires,
           ModuleSaves, ModuleSaved, ShowStatus, MergeSave, StoreSave, RefuseSave, Refresh,
           RefreshFails, ApplyWaited, ApplyServed, ApplyAnswered,
           ApplyTimesOut, Reattach, BuildEvaluates, BuildEnds, PollEnds, ReloadAsks, ReloadFails,
           history
      <4> QED
        BY <4>1
    <3> QED
      BY <3>1, <3>2, <3>3, <3>4
  <2> QED
    BY <1>3, <2>1, <2>2
<1> QED
  BY <1>1, <1>2, <1>3

\* An edit is shown at once, and changes nothing else that is shown.
LEMMA EditShown ==
    ASSUME NoneFromFuture, OneRequest, NEW s \in Sections, Edit(s)
    PROVE  /\ \A k \in Kept : k # s => View'[k] = View[k] /\ mine'[k] = mine[k]
           /\ s \in Kept => View'[s] = Newest
           /\ mine'[s] = Newest /\ \A v \in Seen : v < Newest
           /\ Newest \in Nat
<1>0. /\ Kept \subseteq Sections /\ \A k \in Sections : View[k] \in Seen
      /\ None \notin Nat /\ None \notin Seen /\ Newest \in Nat
  BY Numbers, ViewsKnown, NoneIsNothing, BoundsAssumption DEF NoneFromFuture, Known, Seen, Newest
<1>1. \A v \in Seen : v < Newest
  BY Newer DEF Edit
<1>2. /\ serverConfig' = IF s \in InPlace THEN [serverConfig EXCEPT ![s] = Newest] ELSE serverConfig
      /\ pendingConfig' = Emitted(s, Newest) /\ mine' = [mine EXCEPT ![s] = Newest]
  BY DEF Edit
<1>3. mine \in [Sections -> Seen] /\ serverConfig \in [Sections -> Seen]
  BY DEF NoneFromFuture, Known
<1>4. s \in Kept => View'[s] = Newest
  BY <1>0, <1>2, <1>3 DEF View, Emitted, Kept
<1>5. ASSUME NEW k \in Kept, k # s PROVE View'[k] = View[k]
  <2>1. serverConfig'[k] = serverConfig[k] /\ pendingConfig'[k] \in {View[k], pendingConfig[k]}
    BY <1>0, <1>2, <1>3, <1>5 DEF Emitted
  <2> QED
    BY <1>0, <1>5, <2>1 DEF View
<1> QED
  BY <1>0, <1>1, <1>2, <1>3, <1>4, <1>5

\* The tab shows every edit that counts.
LEMMA ShownStep == NoneFromFuture /\ OneRequest /\ Shown /\ [Next]_vars => Shown'
<1> SUFFICES ASSUME NoneFromFuture, OneRequest, Shown, Next PROVE Shown'
  BY DEF Shown, Kept, View, vars, config, history
<1>0. \A k \in Kept : mine[k] \in Nat /\ View[k] \in Nat
  BY Numbers
<1>1. ASSUME NEW s \in Sections, Edit(s) PROVE Shown'
  BY <1>0, <1>1, EditShown DEF Shown, Kept
<1>2. CASE \A s \in Sections : ~Edit(s)
  <2>1. CASE TakesUp
    BY <1>2, <2>1, MineShrinks DEF Shown, Kept
  <2>2. CASE PageReloads
    <3>1. \A s \in Sections : mine'[s] = 0 /\ View'[s] = disk[s]
      BY <2>2 DEF PageReloads, View, NoEdits
    <3> QED
      BY <3>1, Numbers DEF Shown, Kept
  <2>3. CASE ~TakesUp /\ ~PageReloads
    BY <1>0, <1>2, <2>3, MineShrinks DEF Shown, Kept
  <2> QED
    BY <2>1, <2>2, <2>3
<1> QED
  BY <1>1, <1>2

\* The merge with the file changes nothing that the tab's save carries.
LEMMA MergeSpares ==
    ASSUME NoneFromFuture, OneRequest, MergeSave
    PROVE  /\ saveInFlight = "sent" /\ saveInFlight' = "merged"
           /\ \A k \in Kept : saveBody'[k] = saveBody[k]
<1>1. Kept \subseteq Written /\ Kept \subseteq Sections
  BY SectionsAssumption DEF Kept
<1> QED
  BY <1>1 DEF MergeSave, Overlay

\* A save in flight carries every edit that counts, or another one follows.
LEMMA CarriedStep ==
    NoneFromFuture /\ Labels /\ OneRequest /\ Shown /\ Carried /\ [Next]_vars => Carried'
<1> SUFFICES ASSUME NoneFromFuture, Labels, OneRequest, Shown, Carried, Next PROVE Carried'
  BY DEF Carried, Coming, Kept, vars, config, saving, history
<1>0. /\ Kept \subseteq Sections
      /\ \A k \in Kept : /\ mine[k] \in Nat /\ View[k] \in Nat /\ disk[k] \in Nat
                         /\ saveInFlight # "no" => saveBody[k] \in Nat
  BY Numbers
<1>1. ASSUME NEW s \in Sections, Edit(s) PROVE Carried'
  BY <1>1 DEF Edit, Carried, Coming
<1> SUFFICES ASSUME \A s \in Sections : ~Edit(s) PROVE Carried'
  BY <1>1
<1>2. \A k \in Kept : mine'[k] \in {mine[k], 0}
  BY MineShrinks
<1>3. (\A k \in Kept : mine[k] <= View[k]) => (\A k \in Kept : mine'[k] <= View[k])
  BY <1>0, <1>2
<1>4. saveInFlight # "no" /\ (\A k \in Kept : mine[k] <= saveBody[k])
        => (\A k \in Kept : mine'[k] <= saveBody[k])
  BY <1>0, <1>2
<1>5. CASE SaveAnswered \/ SaveTimesOut \/ PageReloads
  BY <1>5 DEF SaveAnswered, SaveTimesOut, SaveReturns, PageReloads, Carried
<1>6. ASSUME AutoSave, mine' = mine PROVE Carried'
  BY <1>6 DEF AutoSave, Shown, Carried, Coming, Kept
<1>7. CASE TimerFires
  BY <1>6, <1>7 DEF TimerFires, history
<1>8. CASE ApplyWaited
  <2>1. CASE dirtyModules \/ saveStatus = "error"
    BY <1>6, <1>8, <2>1 DEF ApplyWaited, Flush, history
  <2>2. CASE ~(dirtyModules \/ saveStatus = "error")
    BY <1>8, <2>2 DEF ApplyWaited, Flush, history, Carried, Coming, Kept
  <2> QED
    BY <2>1, <2>2
<1>9. CASE ClickApply
  <2>1. CASE saveInFlight = "no"
    <3>1. Flush \/ saveInFlight' = saveInFlight
      BY <1>9, <2>1 DEF ClickApply
    <3>2. saveInFlight' = "no" \/ saveBody' = View
      BY <2>1, <3>1 DEF Flush, AutoSave
    <3> QED
      BY <1>3, <3>2 DEF Shown, Carried, Kept
  <2>2. CASE saveInFlight # "no"
    <3>1. apply = "idle" /\ apply' = "waiting"
          /\ UNCHANGED <<saveInFlight, saveBody, savePending, dirtyModules>>
      BY <1>9, <2>2 DEF ClickApply, config
    <3>2. CASE (saveTimer = "armed" \/ hidden) /\ ~dirtyModules
      <4>1. mine' = Left(mine, saveBody) /\ mine \in Known /\ saveBody \in Known
        BY <1>9, <2>2, <3>2 DEF ClickApply, NoneFromFuture, OneRequest
      <4> QED
        BY <1>0, <3>1, <4>1, LeftIsThere DEF Carried, Kept
    <3>3. CASE ~((saveTimer = "armed" \/ hidden) /\ ~dirtyModules)
      BY <1>4, <2>2, <3>1, <3>3 DEF Carried, Coming, Kept
    <3> QED
      BY <3>2, <3>3
  <2> QED
    BY <2>1, <2>2
<1>10. CASE \/ StoreSave \/ RefuseSave
            \/ LateSave \/ Refresh \/ RefreshAnswered \/ RefreshFails \/ Reload
            \/ OthersRead \/ ModuleSaves \/ ModuleSaved
            \/ \E s \in Sections : OthersWrite(s)
  <2>1. /\ UNCHANGED <<saveTimer, saveBody, savePending, dirtyModules, apply>>
        /\ saveInFlight' # "no" => saveInFlight # "no"
    BY <1>10 DEF StoreSave, RefuseSave, LateSave, Refresh, RefreshAnswered, RefreshFails, Reload,
       ReloadAsks, ReloadAnswered, ReloadFails, ReloadEnds, OthersWrite, OthersRead, ModuleSaves,
       ModuleSaved, ShowStatus, config, saving
  <2> QED
    BY <1>4, <2>1 DEF Carried, Coming, Kept
<1>11. CASE ApplyServed \/ ApplyAnswered \/ ApplyTimesOut \/ Reattach \/ Build \/ PollEnds
  <2>1. (UNCHANGED saving /\ apply # "waiting") \/ UNCHANGED <<saving, apply, dirtyModules>>
    BY <1>11 DEF ApplyServed, ApplyAnswered, ApplyTimesOut, Reattach, Build, BuildEvaluates,
       BuildEnds, PollEnds, config
  <2> QED
    BY <1>4, <2>1 DEF Carried, Coming, Kept, saving
<1>12. CASE MergeSave
  <2>1. saveInFlight # "no" /\ \A k \in Kept : saveBody'[k] = saveBody[k]
    BY <1>12, MergeSpares
  <2>2. UNCHANGED <<saveTimer, savePending, dirtyModules, apply, mine>>
    BY <1>12 DEF MergeSave, config, history
  <2> QED
    BY <2>1, <2>2 DEF Carried, Coming, Kept
<1> QED
  BY <1>5, <1>7, <1>8, <1>9, <1>10, <1>11, <1>12 DEF Next, Save, Applying

\* A save that was stored is on the disk, and without one in flight every edit
\* that counts is there or something is due.
LEMMA StoredStep ==
    NoneFromFuture /\ Labels /\ OneRequest /\ Carried /\ Stored /\ [Next]_vars => Stored'
<1> SUFFICES ASSUME NoneFromFuture, Labels, OneRequest, Carried, Stored, Next PROVE Stored'
  BY DEF Stored, Coming, Kept, vars, server, config, saving, history
<1>0. /\ Kept \subseteq Sections
      /\ \A k \in Kept : /\ mine[k] \in Nat /\ disk[k] \in Nat
                         /\ saveInFlight # "no" => saveBody[k] \in Seen /\ saveBody[k] \in Nat
  BY Numbers
<1>1. ASSUME NEW s \in Sections, Edit(s) PROVE Stored'
  <2>1. /\ UNCHANGED <<disk, saveInFlight, saveBody>> /\ saveTimer' = "armed"
        /\ \A k \in Kept : k # s => mine'[k] = mine[k]
        /\ mine'[s] = Newest /\ Newest \in Nat /\ \A v \in Seen : v < Newest
    BY <1>1, EditShown DEF Edit, server
  <2>2. ASSUME saveInFlight = "stored", NEW k \in Kept, mine'[k] <= saveBody[k]
        PROVE  mine'[k] <= disk[k]
    <3>1. k # s
      BY <1>0, <2>1, <2>2
    <3> QED
      BY <2>1, <2>2, <3>1 DEF Stored
  <2> QED
    BY <2>1, <2>2 DEF Stored, Coming, Kept
<1> SUFFICES ASSUME \A s \in Sections : ~Edit(s) PROVE Stored'
  BY <1>1
<1>2. \A k \in Kept : mine'[k] \in {mine[k], 0}
  BY MineShrinks
\* What only shrinks stays stored, on a disk that is not overwritten.
<1>3. ASSUME \A k \in Kept : disk'[k] \in Nat /\ (disk'[k] >= disk[k] \/ disk'[k] >= mine'[k])
      PROVE  /\ (\A k \in Kept : mine[k] <= disk[k]) => (\A k \in Kept : mine'[k] <= disk'[k])
             /\ saveInFlight = "stored" => \A k \in Kept : mine'[k] <= saveBody[k] => mine'[k] <= disk'[k]
  BY <1>0, <1>2, <1>3 DEF Stored
<1>4. disk' = disk => \A k \in Kept : disk'[k] \in Nat /\ (disk'[k] >= disk[k] \/ disk'[k] >= mine'[k])
  BY <1>0
<1>5. CASE TimerFires \/ ApplyWaited
  <2>1. /\ disk' = disk /\ mine' = mine
        /\ AutoSave \/ UNCHANGED <<saveInFlight, saveBody, savePending, saveStatus, hidden>>
    BY <1>5 DEF TimerFires, ApplyWaited, Flush, server, history
  <2>2. CASE AutoSave
    BY <1>3, <1>4, <2>1, <2>2 DEF AutoSave, Stored, Kept
  <2>3. CASE ~AutoSave
    <3>1. UNCHANGED <<saveInFlight, saveBody, savePending, saveStatus, hidden, saveTimer>>
          /\ apply = "waiting" /\ ~dirtyModules
      BY <1>5, <2>1, <2>3 DEF TimerFires, ApplyWaited, Flush
    <3> QED
      BY <1>3, <1>4, <2>1, <3>1 DEF Stored, Coming, Kept
  <2> QED
    BY <2>2, <2>3
<1>6. CASE MergeSave \/ StoreSave \/ RefuseSave
  <2>1. /\ saveInFlight' \in {"merged", "stored", "refused"}
        /\ saveInFlight' = "stored" => disk' = saveBody /\ UNCHANGED <<saveBody, mine>>
    BY <1>6 DEF MergeSave, StoreSave, RefuseSave, history
  <2> QED
    BY <1>0, <2>1 DEF Stored, Kept
<1>7. CASE SaveAnswered \/ SaveTimesOut
  <2>1. PICK ok \in BOOLEAN : SaveReturns(ok) /\ (ok => saveInFlight = "stored")
    BY <1>7 DEF SaveAnswered, SaveTimesOut
  <2>2. saveInFlight' = "no" /\ UNCHANGED <<disk, mine, dirtyModules>> /\ saveInFlight # "no"
    BY <1>7, <2>1 DEF SaveAnswered, SaveTimesOut, SaveReturns, config
  <2>3. CASE ~ok
    BY <2>1, <2>2, <2>3 DEF SaveReturns, Stored
  <2>4. CASE ok /\ Coming
    BY <2>1, <2>2, <2>4 DEF SaveReturns, Stored, Coming
  <2>5. CASE ok /\ ~Coming
    BY <2>1, <2>2, <2>5 DEF Carried, Stored, Kept
  <2> QED
    BY <2>3, <2>4, <2>5
<1>8. CASE Refresh \/ RefreshAnswered \/ RefreshFails \/ Reload \/ OthersRead
  <2>1. disk' = disk /\ UNCHANGED <<saving, dirtyModules, apply>>
    BY <1>8 DEF Refresh, RefreshAnswered, RefreshFails, Reload, ReloadAsks, ReloadAnswered,
       ReloadFails, ReloadEnds, OthersRead, server, config
  <2> QED
    BY <1>3, <1>4, <2>1 DEF Stored, Coming, Kept, saving
\* A page that shows its own status over a failure leaves it hidden.
<1>13. CASE ModuleSaves \/ ModuleSaved
  <2>1. /\ UNCHANGED <<saveTimer, saveInFlight, saveBody, savePending, dirtyModules, apply>>
        /\ disk' = disk /\ mine' = mine /\ hidden' = (hidden \/ saveStatus = "error")
    BY <1>13 DEF ModuleSaves, ModuleSaved, ShowStatus, server, config, history
  <2>2. CASE hidden \/ saveStatus = "error"
    BY <2>1, <2>2 DEF Stored
  <2>3. CASE ~(hidden \/ saveStatus = "error")
    BY <2>1, <2>3 DEF Stored, Coming, Kept
  <2> QED
    BY <2>2, <2>3
<1>12. CASE LateSave \/ \E s \in Sections : OthersWrite(s)
  <2>1. UNCHANGED <<saving, dirtyModules, apply>>
    BY <1>12 DEF LateSave, OthersWrite, config
  <2>2. \A k \in Kept : mine[k] <= disk[k] => mine'[k] <= disk'[k]
    <3>1. \A k \in Sections : mine[k] <= disk[k] => mine'[k] <= disk'[k]
      BY <1>12, Replaced
    <3> QED
      BY <1>0, <3>1
  <2>3. ASSUME saveInFlight = "stored", NEW k \in Kept, mine'[k] <= saveBody[k]
        PROVE  mine'[k] <= disk'[k]
    <3>1. CASE mine'[k] = mine[k]
      BY <2>2, <2>3, <3>1 DEF Stored
    <3>2. CASE mine'[k] = 0
      <4>1. disk' \in Known' /\ Known' \subseteq [Sections -> Nat]
        <5>1. changes' \in Nat
          BY <1>12, Replaced, BoundsAssumption
        <5> QED
          BY <1>12, <5>1, Replaced DEF Known, Seen
      <4> QED
        BY <1>0, <3>2, <4>1
    <3> QED
      BY <1>2, <3>1, <3>2
  <2> QED
    BY <2>1, <2>2, <2>3 DEF Stored, Coming, Kept, saving
<1>9. CASE ClickApply
  <2>1. disk' = disk /\ apply = "idle" /\ dirtyModules' = dirtyModules
    BY <1>9 DEF ClickApply, server, config
  <2>2. CASE saveInFlight # "no"
    BY <1>3, <1>4, <1>9, <2>1, <2>2 DEF ClickApply, Stored
  <2>3. CASE saveInFlight = "no" /\ (dirtyModules \/ saveStatus = "error")
    <3>1. CASE saveStatus = "saving"
      BY <1>9, <2>3, <3>1 DEF ClickApply, config, Stored, Coming
    <3>2. CASE saveStatus # "saving"
      BY <1>9, <2>3, <3>2 DEF ClickApply, Flush, AutoSave, Stored
    <3> QED
      BY <3>1, <3>2
  <2>4. CASE saveInFlight = "no" /\ ~(dirtyModules \/ saveStatus = "error")
    <3>1. saveInFlight' = "no"
      BY <1>9, <2>4 DEF ClickApply, Flush
    <3>2. CASE saveTimer = "armed" \/ hidden
      <4>1. mine' = Left(mine, disk) /\ mine \in Known /\ disk \in Known
        BY <1>9, <2>4, <3>2 DEF ClickApply, NoneFromFuture
      <4> QED
        BY <1>0, <2>1, <3>1, <4>1, LeftIsThere DEF Stored, Kept
    <3>3. CASE ~(saveTimer = "armed" \/ hidden)
      BY <1>3, <1>4, <2>1, <2>4, <3>1, <3>3 DEF Stored, Coming, OneRequest, Kept
    <3> QED
      BY <3>2, <3>3
  <2> QED
    BY <2>2, <2>3, <2>4
<1>10. CASE ApplyServed \/ ApplyAnswered \/ ApplyTimesOut \/ Reattach \/ Build \/ PollEnds
  <2>1. disk' = disk /\ saving' = saving
        /\ (apply # "waiting" \/ UNCHANGED <<apply, dirtyModules>>)
    BY <1>10 DEF ApplyServed, ApplyAnswered, ApplyTimesOut, Reattach, Build, BuildEvaluates,
       BuildEnds, PollEnds, server, config
  <2> QED
    BY <1>3, <1>4, <2>1 DEF Stored, Coming, Kept, saving
<1>11. CASE PageReloads
  <2>1. saveInFlight' = "no" /\ disk' = disk /\ \A s \in Sections : mine'[s] = 0
    BY <1>11 DEF PageReloads
  <2> QED
    BY <1>0, <2>1 DEF Stored, Kept
<1> QED
  BY <1>5, <1>6, <1>7, <1>8, <1>9, <1>10, <1>11, <1>12,
     <1>13 DEF Next, Save, Applying

\* What was asked to be built is not lost on its way to the rebuild.
LEMMA AskedStep ==
    /\ NoneFromFuture /\ OneRequest /\ Asked /\ [Next]_vars
    /\ OneRequest' /\ Shown' /\ Stored'
    => Asked'
<1> SUFFICES ASSUME NoneFromFuture, OneRequest, Asked, Next, OneRequest', Shown', Stored'
             PROVE  Asked'
  BY DEF Asked, Kept, View, vars, server, config, saving, history
<1>0. /\ Kept \subseteq Sections
      /\ \A k \in Kept : /\ View[k] \in Nat /\ disk[k] \in Nat
                         /\ saveInFlight # "no" => saveBody[k] \in Nat
                         /\ asked # None => asked[k] \in Seen /\ asked[k] \in Nat
  BY Numbers
<1>1. ASSUME NEW s \in Sections, Edit(s) PROVE Asked'
  <2>1. /\ UNCHANGED <<disk, saveInFlight, saveBody, apply, build, asked>>
        /\ \A k \in Kept : k # s => View'[k] = View[k]
        /\ s \in Kept => View'[s] = Newest
        /\ Newest \in Nat /\ \A v \in Seen : v < Newest
    BY <1>1, EditShown DEF Edit, server
  <2>2. ASSUME asked # None, NEW k \in Kept PROVE asked[k] <= View'[k]
    BY <1>0, <2>1, <2>2 DEF Asked
  <2> QED
    BY <2>1, <2>2 DEF Asked, Kept
<1> SUFFICES ASSUME \A s \in Sections : ~Edit(s) PROVE Asked'
  BY <1>1
<1>2. CASE TakesUp
  <2>1. UNCHANGED <<disk, saveInFlight, saveBody, apply, build>>
    BY <1>2 DEF TakesUp, RefreshAnswered, ReloadAnswered, ReloadEnds, server, saving
  <2>2. asked' # None =>
          /\ asked # None
          /\ \A k \in Kept : asked'[k] <= View'[k] /\ asked'[k] \in {asked[k], 0}
    BY <1>2, MineShrinks
  <2> QED
    BY <1>0, <2>1, <2>2 DEF Asked, Kept
<1>3. CASE PageReloads
  BY <1>3 DEF PageReloads, Asked
<1> SUFFICES ASSUME ~TakesUp, ~PageReloads, View' = View PROVE Asked'
  BY <1>2, <1>3, MineShrinks
<1>4. CASE TimerFires
  BY <1>4 DEF TimerFires, AutoSave, Asked, Kept, server, history
<1>5. CASE MergeSave \/ StoreSave \/ RefuseSave
  <2>1. /\ UNCHANGED <<asked, apply, build>> /\ saveInFlight # "no"
        /\ \/ saveInFlight' = "stored" /\ disk' = saveBody
           \/ saveInFlight' # "stored" /\ disk' = disk
        /\ \A k \in Kept : saveBody'[k] = saveBody[k]
    BY <1>5, MergeSpares DEF MergeSave, StoreSave, RefuseSave, server, history
  <2> QED
    BY <1>0, <2>1 DEF Asked, Kept
<1>6. CASE SaveAnswered \/ SaveTimesOut
  <2>1. PICK ok \in BOOLEAN : SaveReturns(ok) /\ (ok => saveInFlight = "stored")
    BY <1>6 DEF SaveAnswered, SaveTimesOut
  <2>2. /\ saveInFlight' = "no" /\ UNCHANGED <<disk, build>>
        /\ \/ apply = "flushing" /\ ~ok /\ asked' = None
           \/ apply = "flushing" /\ ok /\ apply' = "requested" /\ asked' = asked
           \/ apply # "flushing" /\ apply' = apply /\ asked' = asked
    BY <2>1 DEF SaveReturns
  <2> QED
    BY <2>1, <2>2 DEF Asked, Kept
<1>7. CASE LateSave \/ \E s \in Sections : OthersWrite(s)
  <2>1. UNCHANGED <<saveInFlight, saveBody, apply, build>>
    BY <1>7 DEF LateSave, OthersWrite, saving
  <2>2. asked' # None =>
          /\ asked # None
          /\ \A k \in Kept : /\ asked'[k] \in {asked[k], 0}
                             /\ asked[k] <= disk[k] => asked'[k] <= disk'[k]
    BY <1>0, <1>7, Replaced
  <2> QED
    BY <1>0, <2>1, <2>2 DEF Asked, Kept
<1>8. CASE ClickApply
  <2>1. asked = None \/ apply # "idle"
    BY DEF Asked
  <2>2. /\ apply = "idle" /\ disk' = disk /\ build' = build
        /\ asked' = None \/ (/\ asked' = mine' /\ saveInFlight = "no" /\ saveTimer' = "null"
                             /\ saveStatus # "saving")
    BY <1>8 DEF ClickApply, server
  <2>3. CASE asked' = None
    BY <2>3 DEF Asked
  <2>4. CASE asked' = mine' /\ saveInFlight = "no" /\ saveTimer' = "null" /\ saveStatus # "saving"
    <3>1. Flush /\ ~savePending
      BY <1>8, <2>4 DEF ClickApply, OneRequest
    <3>2. \A k \in Kept : asked'[k] <= View'[k]
      BY <2>4 DEF Shown, Kept
    <3>3. CASE dirtyModules \/ saveStatus = "error"
      <4>1. saveInFlight' = "sent" /\ saveBody' = View /\ apply' = "flushing"
        BY <2>4, <3>1, <3>3 DEF Flush, AutoSave
      <4> QED
        BY <3>2, <4>1 DEF Asked, Kept
    <3>4. CASE ~(dirtyModules \/ saveStatus = "error")
      <4>1. saveInFlight' = "no" /\ apply' = "requested" /\ ~savePending' /\ saveStatus' # "error"
        BY <2>4, <3>1, <3>4 DEF Flush
      <4>2. \A k \in Kept : asked'[k] <= disk'[k]
        <5>1. CASE hidden
          <6>1. mine' = Left(mine, disk) /\ mine \in Known /\ disk \in Known
            BY <1>8, <2>4, <3>4, <5>1 DEF ClickApply, NoneFromFuture
          <6> QED
            BY <1>0, <2>2, <2>4, <6>1, LeftIsThere
        <5>2. CASE ~hidden
          <6>1. ~hidden'
            BY <3>1, <3>4, <5>2 DEF Flush
          <6> QED
            BY <2>4, <4>1, <6>1 DEF Stored, Coming, Kept
        <5> QED
          BY <5>1, <5>2
      <4> QED
        BY <3>2, <4>1, <4>2 DEF Asked, Kept
    <3> QED
      BY <3>3, <3>4
  <2> QED
    BY <2>2, <2>3, <2>4
<1>9. CASE ApplyWaited \/ Reattach \/ PollEnds
  <2>1. asked' = asked /\ asked = None
    BY <1>9 DEF ApplyWaited, Reattach, PollEnds, Building, Asked, history
  <2> QED
    BY <2>1 DEF Asked
<1>10. CASE ApplyServed \/ ApplyAnswered \/ ApplyTimesOut \/ Build
  <2>1. UNCHANGED <<disk, saveInFlight, saveBody>>
    BY <1>10 DEF ApplyServed, ApplyAnswered, ApplyTimesOut, Build, BuildEvaluates, BuildEnds,
       server, saving
  <2>2. \/ asked' = None
        \/ /\ asked' = asked
           /\ \/ apply = "requested" /\ apply' = "accepted" /\ build' = "started"
              \/ apply = "accepted" /\ apply' = "polling" /\ build' = build
              \/ apply' = apply /\ build = "running"
    BY <1>10 DEF ApplyServed, ApplyAnswered, ApplyTimesOut, Build, BuildEvaluates, BuildEnds,
       server, history
  <2> QED
    BY <2>1, <2>2 DEF Asked, Kept
<1>11. CASE \/ Refresh \/ RefreshFails \/ ReloadAsks \/ ReloadFails
            \/ OthersRead \/ ModuleSaves \/ ModuleSaved
  <2>1. UNCHANGED <<disk, saveInFlight, saveBody, apply, build, asked>>
    BY <1>11 DEF Refresh, RefreshFails, ReloadAsks, ReloadFails, OthersRead, ModuleSaves,
       ModuleSaved, ShowStatus, server, saving, history
  <2> QED
    BY <2>1 DEF Asked, Kept
<1> QED
  BY <1>4, <1>5, <1>6, <1>7, <1>8, <1>9, <1>10, <1>11 DEF Next, Save, Applying, Reload, TakesUp

-----------------------------------------------------------------------------
(***************************************************************************)
(* The theorems.                                                           *)
(***************************************************************************)
\* The invariant holds in every reachable state.
THEOREM Invariance == Spec => []IInv
<1>1. IInv /\ [Next]_vars => IInv'
  BY FutureStep, LabelsStep, OneRequestStep, ShownStep, CarriedStep, StoredStep, AskedStep DEF IInv
<1> QED
  BY InitInv, <1>1, PTL DEF Spec

\* Every variable of the tab and the server keeps its type, for any sections
\* and any number of edits, applies and faults.
THEOREM TypeCorrect == Spec => []TypeOK
<1>1. IInv => TypeOK
  <2> SUFFICES ASSUME IInv PROVE TypeOK
    OBVIOUS
  <2>1. NoneFromFuture /\ Labels /\ OneRequest
    BY DEF IInv
  <2>2. Seen \subseteq Values
    BY <2>1, BoundsAssumption DEF NoneFromFuture, Seen, Values
  <2>3. Known \subseteq Configs /\ [Sections -> Seen \cup {None}] \subseteq [Sections -> Values \cup {None}]
    BY <2>2 DEF Known, Configs
  <2> QED
    BY <2>1, <2>3 DEF TypeOK, NoneFromFuture, Labels, OneRequest
<1> QED
  BY Invariance, <1>1, PTL

\* When the tab is at rest no edit of a kept section that still counts is
\* missing on disk: the debounce, the coalescing of saves, their failures and
\* retries and the flush of an apply lose none.  Others may replace the file
\* by a stale copy at any time: an edit that was in the file then, and is not
\* in the copy, no longer counts, and only such an edit.
THEOREM NoEditLost == Spec => []EditsReachDisk
<1>1. IInv => EditsReachDisk
  <2> SUFFICES ASSUME IInv, AtRest, NEW s \in Kept PROVE disk[s] >= mine[s]
    BY DEF EditsReachDisk
  <2>1. mine[s] <= disk[s]
    BY DEF IInv, AtRest, Stored, Coming, OneRequest
  <2>2. mine[s] \in Nat /\ disk[s] \in Nat
    BY Numbers DEF IInv
  <2> QED
    BY <2>1, <2>2
<1> QED
  BY Invariance, <1>1, PTL

\* The rebuild that an apply started evaluates a file with every edit made
\* before the click, unless a save was in flight then, or the edit was stored
\* and another writer then put back what it had read before.
THEOREM ApplyBuildsEdits == Spec => BuildsWhatWasAsked
<1>1. IInv /\ [Next]_vars =>
        [ build = "started" /\ build' = "running"
            /\ apply \in {"accepted", "polling"} /\ asked # None
          => \A s \in Kept : disk[s] >= asked[s] ]_vars
  <2> SUFFICES ASSUME IInv, apply \in {"accepted", "polling"}, asked # None, NEW s \in Kept
               PROVE  disk[s] >= asked[s]
    OBVIOUS
  <2>1. asked[s] <= disk[s]
    BY DEF IInv, Asked
  <2>2. asked[s] \in Nat /\ disk[s] \in Nat
    BY Numbers DEF IInv
  <2> QED
    BY <2>1, <2>2
<1> QED
  BY Invariance, <1>1, PTL DEF Spec, BuildsWhatWasAsked
================================================================================
