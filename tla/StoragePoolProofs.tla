--------------------------- MODULE StoragePoolProofs ---------------------------
(***************************************************************************)
(* Proofs about StoragePool, for every value of its constants: its types,  *)
(* the safety invariants and what a step may not do.                       *)
(*                                                                         *)
(* What a finished job leaves behind follows from every command it ran,    *)
(* and from what nobody else did to its drives meanwhile.  The             *)
(* strengthening says that one job is at work at most (OneJob), how far it *)
(* came (Progress), that its filesystem is one that no list of volumes,    *)
(* however old, can name (Fresh), and, as long as nothing reached for its  *)
(* drives, what is on each of them at that command (Built, Cleared): but   *)
(* for those where a clean-up failed or a failed probe hid the mount.      *)
(***************************************************************************)
EXTENDS StoragePool, TLAPS

\* A job of its service, or none; never two.
OneJob ==
    /\ jobs["pool"] # NoJob =>
          jobs["pool"].kind \in Volume /\ jobs["pool"].name \in Names
    /\ jobs["reclaim"] # NoJob => jobs["reclaim"].kind = "reclaim"
    /\ \A s \in Services : jobs[s] # NoJob => jobs[s].at # "none"
    /\ \E s \in Services : jobs[s] = NoJob

\* Every list of volumes that somebody holds.
Known == records \cup call.seen \cup page.view \cup jobs["pool"].seen

\* Every filesystem was handed out, the last one to the job at work.
Handed(f) == f <= made /\ (jobs["pool"] # NoJob => f < made)
Fresh ==
    /\ jobs["pool"] # NoJob => jobs["pool"].fs = made /\ made > 0
    /\ \A r \in Known : Handed(r.fs)
    /\ \A f \in mounted : Handed(f)

\* The layers of encryption that a job has made and opened, at each command.
LayersDone(j) ==
    /\ j.formatted \subseteq Layers(j) /\ j.opened \subseteq j.formatted
    /\ j.at \in {"validate", "close", "wipe", "array"} => j.formatted = {}
    /\ j.at = "format" => j.enc /\ j.opened = j.formatted
    /\ j.at = "open" => j.enc /\ \E ds \in j.formatted : j.opened = j.formatted \ {ds}
    /\ j.at \in {"mkfs", "read", "append"} =>
          /\ j.opened = j.formatted
          /\ j.formatted = IF j.enc THEN Layers(j) ELSE {}
Progress == jobs["pool"] # NoJob => LayersDone(jobs["pool"])

\* What a drive holds that the job j has cleared.
AsBuilt(j, d) ==
    /\ content[d].fs = IF j.at \in {"read", "append"} THEN j.fs ELSE 0
    /\ content[d].luks <=> d \in UNION j.formatted
    /\ d \in open <=> d \in UNION j.opened

\* A drive of the job that creates a volume, or one that is none of its.
Built(j, d) ==
    /\ j.at = "wipe" /\ d \in j.members => d \in UNION j.left \/ AsBuilt(j, d)
    /\ j.at \in {"array", "format", "open", "mkfs", "read", "append"} /\ d \in j.members
          => AsBuilt(j, d)
    /\ j.at = "rollback" /\ d \in UNION j.formatted =>
          content[d].fs \in {0, j.fs} /\ (d \in open => d \in UNION j.opened \/ d \in scarred)
    /\ (content[d].luks \/ d \in open) /\ content[d].fs = 0 =>
          d \in UNION j.formatted \/ d \in scarred

\* A drive of the job that reclaims.
Cleared(j, d) ==
    /\ j.at \in {"close", "wipe"} /\ d \in j.members => ~Mounted(d) \/ d \in overlooked
    /\ j.at = "wipe" /\ d \in j.members => d \notin open
    /\ j.left \subseteq {{e} : e \in j.members}

Drives == disturbed \/ \A d \in Disks : Built(jobs["pool"], d) /\ Cleared(jobs["reclaim"], d)

IInv == TypeOK /\ GoingIsAtWork /\ OneJob /\ Fresh /\ Progress /\ Drives

-----------------------------------------------------------------------------
(* Types. *)

Drive == [fs : 0 .. MaxVolumes, luks : BOOLEAN, array : SUBSET Disks]

\* What is erased keeps its type.
LEMMA EraseTypes ==
    ASSUME TypeOK, NEW ds, Erase(ds)
    PROVE  content' \in [Disks -> Drive]
<1>1. content \in [Disks -> Drive] /\ Blank \in Drive
  BY StorageAssumption DEF TypeOK, Drive, Blank
<1> QED
  BY <1>1 DEF Erase, Put

\* And so does what is formatted or made.
LEMMA FillTypes ==
    ASSUME TypeOK, NEW ds, NEW fs \in 0 .. MaxVolumes, NEW luks \in BOOLEAN,
           Fill(ds, fs, luks)
    PROVE  content' \in [Disks -> Drive]
<1>1. content \in [Disks -> Drive]
  BY DEF TypeOK, Drive
<1>2. \A d \in Disks : [content[d] EXCEPT !.fs = fs, !.luks = luks] \in Drive
  BY <1>1 DEF Drive
<1>3. content' = [d \in Disks |-> IF d \in ds
                     THEN [content[d] EXCEPT !.fs = fs, !.luks = luks] ELSE content[d]]
  BY DEF Fill, Put
<1> QED
  BY <1>1, <1>2, <1>3

\* What a step does to a job keeps its type.
LEMMA WorkTypes ==
    ASSUME NEW j \in Work
    PROVE  /\ NoJob \in Work
           /\ \A at \in Stages : [j EXCEPT !.at = at] \in Work
           /\ \A at \in Stages, left \in SUBSET SUBSET Disks :
                 [j EXCEPT !.at = at, !.left = left] \in Work
           /\ \A left \in SUBSET SUBSET Disks : [j EXCEPT !.left = left] \in Work
           /\ \A at \in Stages, ds \in SUBSET SUBSET Disks :
                 /\ [j EXCEPT !.at = at, !.formatted = ds] \in Work
                 /\ [j EXCEPT !.at = at, !.opened = ds] \in Work
           /\ \A ds \in SUBSET SUBSET Disks :
                 /\ [j EXCEPT !.formatted = ds] \in Work
                 /\ [j EXCEPT !.opened = ds] \in Work
           /\ \A at \in Stages, seen \in SUBSET Records :
                 [j EXCEPT !.at = at, !.seen = seen] \in Work
<1>1. NoJob \in Work
  BY StorageAssumption DEF NoJob, Work, Kinds, Stages
<1>2. DEFINE K == Kinds  S == Stages  R == SUBSET Records
             N == Names \cup {"none"}  D == SUBSET Disks  L == SUBSET SUBSET Disks
             F == 0 .. MaxVolumes
<1>3. Work = [kind : K, at : S, name : N, members : D, enc : BOOLEAN, parity : BOOLEAN,
              left : L, formatted : L, opened : L, fs : F, seen : R]
  BY DEF Work
<1> HIDE DEF K, S, R, N, D, L, F
<1>4. /\ \A at \in S : [j EXCEPT !.at = at] \in Work
      /\ \A at \in S, left \in L : [j EXCEPT !.at = at, !.left = left] \in Work
      /\ \A left \in L : [j EXCEPT !.left = left] \in Work
  BY <1>3
<1>5. \A at \in S, ds \in L : /\ [j EXCEPT !.at = at, !.formatted = ds] \in Work
                              /\ [j EXCEPT !.at = at, !.opened = ds] \in Work
  BY <1>3
<1>6. \A at \in S, seen \in R : [j EXCEPT !.at = at, !.seen = seen] \in Work
  BY <1>3
<1>7. \A ds \in L : [j EXCEPT !.formatted = ds] \in Work /\ [j EXCEPT !.opened = ds] \in Work
  BY <1>3
<1> QED
  BY <1>1, <1>4, <1>5, <1>6, <1>7 DEF S, L, R

\* A step changes the job of one service.
LEMMA WorkPut ==
    ASSUME TypeOK, NEW s \in Services, NEW w \in Work, jobs' = [jobs EXCEPT ![s] = w]
    PROVE  /\ jobs' \in [Services -> Work] /\ jobs'[s] = w
           /\ \A t \in Services \ {s} : jobs'[t] = jobs[t]
BY DEF TypeOK

\* The commands of the job that creates a volume, as steps of its record.
LEMMA PoolWork ==
    ASSUME TypeOK, Building
    PROVE  LET j == jobs["pool"] IN
           \E w \in Work : jobs' = [jobs EXCEPT !["pool"] = w] /\ w = jobs'["pool"]
<1> DEFINE j == jobs["pool"]
<1>1. j \in Work /\ "pool" \in Services /\ jobs \in [Services -> Work]
  BY DEF TypeOK, Services
<1>2. j.members \in SUBSET Disks /\ j.left \in SUBSET SUBSET Disks
      /\ j.formatted \in SUBSET SUBSET Disks /\ j.opened \in SUBSET SUBSET Disks
      /\ {{d} : d \in j.members} \in SUBSET SUBSET Disks
      /\ Layers(j) \in SUBSET SUBSET Disks /\ {j.members} \in SUBSET SUBSET Disks
  BY <1>1 DEF Work, Layers
<1>3. \A at \in Stages : [j EXCEPT !.at = at] \in Work
  BY <1>1, WorkTypes
<1> SUFFICES \E w \in Work : jobs' = [jobs EXCEPT !["pool"] = w]
  BY <1>1
<1>4. ASSUME NEW at \in Stages, Goes("pool", at)
      PROVE  \E w \in Work : jobs' = [jobs EXCEPT !["pool"] = w]
  BY <1>3, <1>1, <1>4 DEF Goes
<1>5. ASSUME NEW at \in Stages, NEW left \in SUBSET SUBSET Disks,
             jobs' = [jobs EXCEPT !["pool"].at = at, !["pool"].left = left]
      PROVE  \E w \in Work : jobs' = [jobs EXCEPT !["pool"] = w]
  <2>1. [j EXCEPT !.at = at, !.left = left] \in Work
    BY <1>1, WorkTypes
  <2> QED
    BY <2>1, <1>1, <1>5
<1>6. \A at \in {"close", "array", "format", "mkfs", "read", "rollback"} : at \in Stages
  BY DEF Stages
<1>7. CASE Validate
  <2>1. CASE jobs' = [jobs EXCEPT !["pool"].at = "wipe",
                          !["pool"].left = {{d} : d \in j.members}]
    BY <2>1, <1>2, <1>5 DEF Stages
  <2> QED
    BY <2>1, <1>7, <1>4, <1>6 DEF Validate, Job
<1>8. CASE CloseOld
  BY <1>8, <1>2, <1>5 DEF CloseOld, Job, Stages
<1>9. CASE Wipe
  <2>1. PICK ds \in j.left :
           jobs' = [jobs EXCEPT !["pool"].left = @ \ {ds},
                       !["pool"].at = IF j.left = {ds} THEN AfterWipe(j) ELSE "wipe"]
    BY <1>9 DEF Wipe, Job
  <2> DEFINE at == IF j.left = {ds} THEN AfterWipe(j) ELSE "wipe"
             left == j.left \ {ds}
  <2>2. at \in Stages /\ left \in SUBSET SUBSET Disks
    BY <1>2 DEF AfterWipe, Stages
  <2>3. jobs' = [jobs EXCEPT !["pool"].at = at, !["pool"].left = left]
    BY <2>1, <1>1
  <2> HIDE DEF at, left
  <2> QED
    BY <2>2, <2>3, <1>5
<1>10. CASE BuildArray
  BY <1>10, <1>4, <1>6 DEF BuildArray, Job
<1>11. CASE LuksFormat
  <2>1. PICK ds \in Layers(j) :
           jobs' = [jobs EXCEPT !["pool"].at = "open", !["pool"].formatted = @ \cup {ds}]
    BY <1>11 DEF LuksFormat, Job
  <2>2. [j EXCEPT !.at = "open", !.formatted = j.formatted \cup {ds}] \in Work
    <3>1. j.formatted \cup {ds} \in SUBSET SUBSET Disks /\ "open" \in Stages
      BY <1>2 DEF Stages
    <3> QED
      BY <3>1, <1>1, WorkTypes
  <2> QED
    BY <2>1, <2>2, <1>1
<1>12. CASE LuksOpen
  <2> DEFINE at == IF j.formatted = Layers(j) THEN "mkfs" ELSE "format"
  <2>1. PICK ds \in j.formatted :
           jobs' = [jobs EXCEPT !["pool"].opened = @ \cup {ds}, !["pool"].at = at]
    BY <1>12 DEF LuksOpen, Job
  <2>2. [j EXCEPT !.at = at, !.opened = j.opened \cup {ds}] \in Work
    <3>1. j.opened \cup {ds} \in SUBSET SUBSET Disks /\ at \in Stages
      BY <1>2, <1>6
    <3> HIDE DEF at
    <3> QED
      BY <3>1, <1>1, WorkTypes
  <2> QED
    BY <2>1, <2>2, <1>1
<1>13. CASE Mkfs
  BY <1>13, <1>4, <1>6 DEF Mkfs, Job
<1>14. CASE ReadRecords
  <2>1. [j EXCEPT !.at = "append", !.seen = records] \in Work
    BY <1>1, WorkTypes DEF Stages, TypeOK
  <2> QED
    BY <2>1, <1>14, <1>1 DEF ReadRecords
<1>15. CASE Fails
  BY <1>15, <1>4, <1>6 DEF Fails, Job
<1>16. CASE RollbackClose
  <2>1. PICK ds : jobs' = [jobs EXCEPT !["pool"].opened = @ \ {ds}]
    BY <1>16 DEF RollbackClose
  <2>2. [j EXCEPT !.opened = j.opened \ {ds}] \in Work
    <3>1. j.opened \ {ds} \in SUBSET SUBSET Disks
      BY <1>2
    <3> QED
      BY <3>1, <1>1, WorkTypes
  <2> QED
    BY <2>1, <2>2, <1>1
<1>17. CASE RollbackErase
  <2>1. PICK ds : jobs' = [jobs EXCEPT !["pool"].formatted = @ \ {ds}]
    BY <1>17 DEF RollbackErase
  <2>2. [j EXCEPT !.formatted = j.formatted \ {ds}] \in Work
    <3>1. j.formatted \ {ds} \in SUBSET SUBSET Disks
      BY <1>2
    <3> QED
      BY <3>1, <1>1, WorkTypes
  <2> QED
    BY <2>1, <2>2, <1>1
<1>18. CASE RollbackEnds
  BY <1>18, <1>1, WorkTypes DEF RollbackEnds, Ends
<1> QED
  BY <1>7, <1>8, <1>9, <1>10, <1>11, <1>12, <1>13, <1>14, <1>15, <1>16, <1>17, <1>18
  DEF Building

\* What the job that creates a volume leaves alone until it ends well.
LEMMA BuildingAside == Building => UNCHANGED Aside /\ UNCHANGED mounted
BY DEF Building, Wipe, RollbackClose, RollbackErase, Validate, CloseOld, BuildArray,
       LuksFormat, LuksOpen, Mkfs, ReadRecords, Fails, box

\* A request hands a job that is new to the service it is for.
LEMMA StartWork ==
    ASSUME TypeOK, Start
    PROVE  \E s \in Services, w \in Work :
              /\ Idle /\ ~rebuild
              /\ jobs' = [jobs EXCEPT ![s] = w]
              /\ status' = [status EXCEPT ![s] = "going"]
              /\ w.at = "validate" /\ w.left = {} /\ w.formatted = {}
              /\ w.opened = {} /\ w.seen = {} /\ w # NoJob
              /\ \/ /\ s = "pool" /\ w.kind \in Volume /\ w.name \in Names
                    /\ made < MaxVolumes /\ made' = made + 1 /\ w.fs = made'
                    /\ UNCHANGED events
                 \/ /\ s = "reclaim" /\ w.kind = "reclaim"
                    /\ Event /\ UNCHANGED made
<1>1. ASSUME NEW kind \in {"create", "reformat"}, NEW n \in Names,
             NEW ds \in SUBSET Disks, NEW enc \in BOOLEAN, NEW parity \in BOOLEAN,
             StartVolume(kind, n, ds, enc, parity)
      PROVE  \E w \in Work :
              /\ Launch("pool", w) /\ w.kind \in Volume /\ w.name \in Names
              /\ made < MaxVolumes /\ made' = made + 1 /\ w.fs = made'
              /\ w.at = "validate" /\ w.left = {} /\ w.formatted = {}
              /\ w.opened = {} /\ w.seen = {} /\ w # NoJob
  <2> DEFINE w == [NoJob EXCEPT !.kind = kind, !.at = "validate", !.name = n,
                       !.members = ds, !.enc = enc, !.parity = parity, !.fs = made']
  <2>1. made' \in 0 .. MaxVolumes
    BY <1>1, StorageAssumption DEF TypeOK, StartVolume
  <2>2. w \in Work
    <3>1. kind \in Kinds /\ "validate" \in Stages
      BY DEF Kinds, Stages
    <3> QED
      BY <2>1, <3>1 DEF Work, NoJob
  <2>3. /\ w.kind \in Volume /\ w.name \in Names /\ w.fs = made' /\ w.at = "validate" /\ w.left = {}
        /\ w.formatted = {} /\ w.opened = {} /\ w.seen = {} /\ w # NoJob
    BY DEF NoJob, Volume
  <2>4. Launch("pool", w) /\ made < MaxVolumes /\ made' = made + 1
    BY <1>1 DEF StartVolume
  <2> HIDE DEF w
  <2> QED
    BY <2>2, <2>3, <2>4
<1>2. ASSUME NEW d \in Disks, StartReclaim(d)
      PROVE  \E w \in Work :
              /\ Launch("reclaim", w) /\ w.kind = "reclaim" /\ Event /\ UNCHANGED made
              /\ w.at = "validate" /\ w.left = {} /\ w.formatted = {}
              /\ w.opened = {} /\ w.seen = {} /\ w # NoJob
  <2> DEFINE w == [NoJob EXCEPT !.kind = "reclaim", !.at = "validate",
                       !.members = Group(d)]
  <2>1. Group(d) \in SUBSET Disks
    BY DEF Group
  <2>2. w \in Work
    <3>1. "reclaim" \in Kinds /\ "validate" \in Stages /\ 0 \in 0 .. MaxVolumes
      BY StorageAssumption DEF Kinds, Stages
    <3> QED
      BY <2>1, <3>1 DEF Work, NoJob
  <2>3. /\ w.kind = "reclaim" /\ w.at = "validate" /\ w.left = {}
        /\ w.formatted = {} /\ w.opened = {} /\ w.seen = {} /\ w # NoJob
    BY DEF NoJob
  <2>4. Launch("reclaim", w) /\ Event /\ UNCHANGED made
    BY <1>2 DEF StartReclaim
  <2> HIDE DEF w
  <2> QED
    BY <2>2, <2>3, <2>4
<1>3. CASE (\E kind \in {"create", "reformat"}, n \in Names, ds \in SUBSET Disks,
               enc \in BOOLEAN, parity \in BOOLEAN : StartVolume(kind, n, ds, enc, parity))
           /\ UNCHANGED events
  BY <1>3, <1>1 DEF Launch, Services
<1>4. CASE \E d \in Disks : StartReclaim(d)
  BY <1>4, <1>2 DEF Launch, Services
<1> QED
  BY <1>3, <1>4 DEF Start

\* A step of a reclaim.
LEMMA ReclaimWork ==
    ASSUME TypeOK, Recheck \/ TearDown \/ Zap \/ GivesUp
    PROVE  \E w \in Work : jobs' = [jobs EXCEPT !["reclaim"] = w]
<1> DEFINE j == jobs["reclaim"]
<1>1. j \in Work /\ "reclaim" \in Services /\ jobs \in [Services -> Work]
  BY DEF TypeOK, Services
<1>2. {{d} : d \in j.members} \in SUBSET SUBSET Disks /\ j.left \in SUBSET SUBSET Disks
  BY <1>1 DEF Work
<1>3. CASE Recheck
  <2>1. [j EXCEPT !.at = "close"] \in Work
    BY <1>1, WorkTypes DEF Stages
  <2> QED
    BY <1>1, <1>3, <2>1 DEF Recheck, Goes
<1>4. CASE TearDown
  <2>1. [j EXCEPT !.at = "wipe", !.left = {{d} : d \in j.members}] \in Work
    BY <1>1, <1>2, WorkTypes DEF Stages
  <2> QED
    BY <1>1, <1>4, <2>1 DEF TearDown, Job
<1>5. CASE Zap
  <2>1. PICK ds \in j.left : \/ Ends("reclaim", "completed")
                             \/ jobs' = [jobs EXCEPT !["reclaim"].left = @ \ {ds}]
    BY <1>5 DEF Zap, Job
  <2>2. [j EXCEPT !.left = j.left \ {ds}] \in Work
    BY <1>1, <1>2, WorkTypes
  <2> QED
    BY <1>1, <2>1, <2>2, WorkTypes DEF Ends
<1>6. CASE GivesUp
  BY <1>6, <1>1, WorkTypes DEF GivesUp, Ends
<1> QED
  BY <1>3, <1>4, <1>5, <1>6

\* Every step keeps the types.
LEMMA TypeStep == TypeOK /\ OneJob /\ Fresh /\ [Next]_vars => TypeOK'
<1> SUFFICES ASSUME TypeOK, OneJob, Fresh, [Next]_vars PROVE TypeOK'
  OBVIOUS
<1> USE StorageAssumption
<1> DEFINE j == jobs["pool"]
<1>0. /\ j \in Work /\ "pool" \in Services /\ "reclaim" \in Services
      /\ j.fs \in 0 .. MaxVolumes /\ j.members \subseteq Disks /\ j.seen \subseteq Records
      /\ UNION j.opened \subseteq Disks /\ UNION j.formatted \subseteq Disks
      /\ content \in [Disks -> Drive]
  <2>1. j \in Work /\ "pool" \in Services /\ "reclaim" \in Services
        /\ content \in [Disks -> Drive]
    BY DEF TypeOK, Services, Drive
  <2>2. j.fs \in 0 .. MaxVolumes /\ j.members \in SUBSET Disks
        /\ j.formatted \in SUBSET SUBSET Disks /\ j.opened \in SUBSET SUBSET Disks
        /\ j.seen \in SUBSET Records
    BY <2>1 DEF Work
  <2> QED
    BY <2>1, <2>2
<1>1. CASE Request
  <2>1. jobs' \in [Services -> Work]
        /\ status' \in [Services -> {"idle", "going", "completed", "error"}]
        /\ made' \in 0 .. MaxVolumes /\ events' \in 0 .. MaxEvents
    <3>1. Start
      BY <1>1 DEF Request
    <3>2. PICK s \in Services, w \in Work :
             /\ jobs' = [jobs EXCEPT ![s] = w]
             /\ status' = [status EXCEPT ![s] = "going"]
             /\ (made < MaxVolumes /\ made' = made + 1) \/ UNCHANGED made
             /\ Event \/ UNCHANGED events
      BY <3>1, StartWork
    <3> QED
      BY <3>2 DEF TypeOK, Event
  <2>2. page' \in [at : {"idle", "poll", "load", "save"}, of : Services \cup {"none"},
                   view : SUBSET Records]
    BY <1>1 DEF Request, TypeOK
  <2> QED
    BY <1>1, <2>1, <2>2 DEF Request, TypeOK, box
<1>2. CASE Append
  <2>1. records' \in SUBSET Records /\ kept' \in SUBSET Volumes
    <3>1. j # NoJob
      BY <1>2 DEF Append, At, Volume, NoJob
    <3>2. j.name \in Names /\ j.fs \in Volumes
      BY <3>1, <1>0 DEF OneJob, Fresh, Volumes
    <3>3. [name |-> j.name, fs |-> j.fs, members |-> j.members] \in Records
      BY <3>2, <1>0 DEF Records
    <3> QED
      BY <3>2, <3>3, <1>0, <1>2 DEF Append, Job, TypeOK
  <2>2. jobs' \in [Services -> Work]
        /\ status' \in [Services -> {"idle", "going", "completed", "error"}]
    BY <1>2, <1>0, WorkTypes DEF Append, Ends, TypeOK
  <2> QED
    BY <1>2, <2>1, <2>2 DEF Append, TypeOK, box
<1>3. CASE Building
  <2>1. jobs' \in [Services -> Work]
    BY <1>0, <1>3, PoolWork, WorkPut
  <2>2. content' \in [Disks -> Drive]
    <3>1. CASE BuildArray
      <4>1. \A d \in Disks : [content[d] EXCEPT !.array = j.members] \in Drive
        BY <1>0 DEF Drive
      <4>2. content' = [d \in Disks |-> IF d \in j.members
                            THEN [content[d] EXCEPT !.array = j.members] ELSE content[d]]
        BY <3>1 DEF BuildArray, Put, Job
      <4> QED
        BY <1>0, <4>1, <4>2
    <3>2. CASE Wipe \/ LuksFormat \/ RollbackErase
      <4>1. PICK ds : Fill(ds, 0, FALSE) \/ Fill(ds, 0, TRUE) \/ UNCHANGED content
        BY <3>2 DEF Wipe, LuksFormat, RollbackErase
      <4>2. 0 \in 0 .. MaxVolumes
        OBVIOUS
      <4> QED
        BY <1>0, <4>1, <4>2, FillTypes
    <3>3. CASE Mkfs
      <4>1. j.enc \in BOOLEAN
        BY <1>0 DEF Work
      <4>2. Fill(j.members, j.fs, j.enc)
        BY <3>3 DEF Mkfs, Job
      <4> QED
        BY <4>1, <4>2, <1>0, FillTypes
    <3> QED
      BY <1>0, <1>3, <3>1, <3>2, <3>3
      DEF Building, Validate, CloseOld, LuksOpen, ReadRecords, Fails, RollbackClose, box
  <2>3. open' \subseteq Disks
    <3>1. CASE LuksOpen
      <4>1. \A ds \in j.formatted : ds \subseteq Disks
        BY <1>0
      <4> QED
        BY <3>1, <4>1 DEF LuksOpen, Job, TypeOK
    <3> QED
      BY <1>3, <3>1
      DEF Building, Validate, CloseOld, Closes, Wipe, BuildArray, LuksFormat, Mkfs,
          ReadRecords, Fails, RollbackClose, RollbackErase, box, TypeOK
  <2>4. status' \in [Services -> {"idle", "going", "completed", "error"}]
    BY <1>3
    DEF Building, Validate, CloseOld, Wipe, BuildArray, LuksFormat, LuksOpen, Mkfs,
        ReadRecords, Fails, RollbackClose, RollbackErase, RollbackEnds, Ends, box, TypeOK
  <2>5. scarred' \subseteq Disks
    <3>1. CASE RollbackErase
      <4>1. \A ds \in j.formatted : ds \subseteq Disks
        BY <1>0
      <4> QED
        BY <3>1, <4>1 DEF RollbackErase, Job, TypeOK
    <3> QED
      BY <1>3, <2>3, <3>1 DEF Building, Wipe, RollbackClose, TypeOK
  <2> QED
    BY <1>3, <2>1, <2>2, <2>3, <2>4, <2>5, BuildingAside DEF Aside, TypeOK, Drive
<1>4. CASE Reclaims
  <2>1. jobs' \in [Services -> Work]
    BY <1>0, <1>4, ReclaimWork, WorkPut DEF Reclaims
  <2>2. content' \in [Disks -> Drive]
    BY <1>0, <1>4, EraseTypes DEF Reclaims, Recheck, TearDown, Zap, GivesUp, box
  <2>3. open' \subseteq Disks /\ mounted' = mounted
        /\ status' \in [Services -> {"idle", "going", "completed", "error"}]
    BY <1>4 DEF Reclaims, Recheck, TearDown, Zap, GivesUp, Ends, box, TypeOK
  <2>4. scarred' \subseteq Disks /\ overlooked' \subseteq Disks
    <3>1. CASE Recheck
      <4>1. Job("reclaim").members \in SUBSET Disks
        BY <1>0 DEF Job, TypeOK, Work
      <4> QED
        BY <3>1, <4>1 DEF Recheck, TypeOK
    <3> QED
      BY <1>4, <3>1 DEF Reclaims, TearDown, Zap, GivesUp, TypeOK
  <2> QED
    BY <1>4, <2>1, <2>2, <2>3, <2>4 DEF Reclaims, TypeOK, Drive
<1>5. ASSUME NEW kind \in {"destroy", "forget"}, NEW n \in Names,
             NEW by \in {"page", "other"}, Ask(kind, n, by)
      PROVE  TypeOK'
  BY <1>5 DEF Ask, Event, TypeOK, box
<1>6. CASE Destroy
  <2>1. content' \in [Disks -> Drive] /\ open' \subseteq Disks /\ mounted' \subseteq Volumes
    BY <1>6, EraseTypes DEF Destroy, TypeOK
  <2>2. disturbed' \in BOOLEAN /\ scarred' \subseteq Disks
    BY <1>6 DEF Destroy, TypeOK
  <2> QED
    BY <1>6, <2>1, <2>2 DEF Destroy, TypeOK, Drive
<1>7. CASE Unrecord
  BY <1>7 DEF Unrecord, TypeOK, NoCall, box, Services
<1>8. CASE RebuildStarts
  BY <1>8 DEF RebuildStarts, Event, TypeOK, box
<1>9. CASE RebuildEnds
  <2>1. \A r \in records : r.fs \in Volumes
    BY DEF TypeOK, Records
  <2>2. mounted' \subseteq Volumes /\ open' \subseteq Disks
    BY <1>9, <2>1 DEF RebuildEnds, TypeOK
  <2>3. disturbed' \in BOOLEAN /\ rebuild' \in BOOLEAN
    BY <1>9 DEF RebuildEnds, TypeOK
  <2> QED
    BY <1>9, <2>2, <2>3 DEF RebuildEnds, TypeOK
<1>10. CASE Restart
  <2>1. NoJob \in Work
    BY <1>0, WorkTypes
  <2>2. disturbed' \in BOOLEAN
    BY <1>10 DEF Restart, TypeOK
  <2> QED
    BY <1>10, <2>1, <2>2 DEF Restart, Event, TypeOK, NoCall, box, Services
<1>11. CASE Tick
  BY <1>11 DEF Tick, TypeOK, box
<1>12. CASE Loaded
  <2>1. events' \in 0 .. MaxEvents
    BY <1>12 DEF Loaded, Event, TypeOK
  <2>2. page' \in [at : {"idle", "poll", "load", "save"}, of : Services \cup {"none"},
                   view : SUBSET Records]
    <3>1. PICK view \in SUBSET Records :
             page' = [page EXCEPT !.view = view,
                         !.at = IF page.of = "reclaim" THEN "idle" ELSE "save"]
      <4>1. records \in SUBSET Records /\ page.view \in SUBSET Records
        BY DEF TypeOK
      <4> QED
        BY <4>1, <1>12 DEF Loaded
    <3> QED
      BY <3>1 DEF TypeOK
  <2> QED
    BY <1>12, <2>1, <2>2 DEF Loaded, TypeOK, box
<1>13. CASE Save
  BY <1>13 DEF Save, TypeOK, box
<1>14. CASE UNCHANGED vars
  BY <1>14 DEF vars, TypeOK, box
<1> QED
  BY <1>1, <1>2, <1>3, <1>4, <1>5, <1>6, <1>7, <1>8, <1>9, <1>10, <1>11, <1>12,
     <1>13, <1>14
  DEF Next, Builds

-----------------------------------------------------------------------------
(* One job at work. *)

\* A command of the job that creates a volume keeps what it was asked for, and
\* the job goes on until it is rolled back.
Goes_On(j, w) ==
    /\ w # NoJob /\ w.at # "none"
    /\ w.kind = j.kind /\ w.name = j.name /\ w.members = j.members
    /\ w.enc = j.enc /\ w.parity = j.parity /\ w.fs = j.fs
    /\ w.seen \in {j.seen, records}

\* A job of some kind is a job.
LEMMA NoVolume == \A j : j.kind \in Volume \cup {"reclaim"} => j # NoJob
BY DEF NoJob, Volume

\* What a command leaves of the job.
LEMMA PoolStep ==
    ASSUME TypeOK, OneJob, Building
    PROVE  /\ jobs["pool"] # NoJob /\ jobs'["reclaim"] = jobs["reclaim"]
           /\ \/ status' = status /\ Goes_On(jobs["pool"], jobs'["pool"])
              \/ /\ jobs'["pool"] = NoJob /\ status' = [status EXCEPT !["pool"] = "error"]
<1> DEFINE j == jobs["pool"]  w == jobs'["pool"]
<1>1. j \in Work /\ "pool" \in Services /\ jobs \in [Services -> Work]
      /\ "reclaim" \in Services
  BY DEF TypeOK, Services
<1>2. jobs'["reclaim"] = jobs["reclaim"]
  BY <1>1, PoolWork, WorkPut
<1>3. j # NoJob /\ j.kind \in Volume
  <2>1. CASE Fails
    <3>1. j.at # "none" /\ NoJob.at = "none"
      BY <2>1 DEF Fails, Job, NoJob
    <3> QED
      BY <3>1 DEF OneJob
  <2>2. CASE ~Fails
    <3>1. j.kind \in Volume
      BY <2>2
      DEF Building, Validate, CloseOld, Wipe, BuildArray, LuksFormat, LuksOpen, Mkfs,
          ReadRecords, RollbackClose, RollbackErase, RollbackEnds, At, Volume
    <3> QED
      BY <3>1 DEF NoJob, Volume
  <2> QED
    BY <2>1, <2>2
<1>4. SUFFICES \/ status' = status /\ Goes_On(j, w)
               \/ w = NoJob /\ status' = [status EXCEPT !["pool"] = "error"]
  BY <1>2, <1>3
<1>5. CASE Validate
  <2>1. /\ w.at # "none" /\ w.kind = j.kind /\ w.name = j.name /\ w.members = j.members
        /\ w.enc = j.enc /\ w.parity = j.parity /\ w.fs = j.fs
        /\ w.seen \in {j.seen, records}
    BY <1>1, <1>5 DEF Validate, Goes, Job, Work
  <2> QED
    BY <1>3, <1>5, <2>1, NoVolume DEF Validate, Goes_On
<1>6. CASE CloseOld
  <2>1. /\ w.at # "none" /\ w.kind = j.kind /\ w.name = j.name /\ w.members = j.members
        /\ w.enc = j.enc /\ w.parity = j.parity /\ w.fs = j.fs
        /\ w.seen \in {j.seen, records}
    BY <1>1, <1>6 DEF CloseOld, Job, Work
  <2> QED
    BY <1>3, <1>6, <2>1, NoVolume DEF CloseOld, Goes_On
<1>7. CASE Wipe
  <2>1. /\ w.at # "none" /\ w.kind = j.kind /\ w.name = j.name /\ w.members = j.members
        /\ w.enc = j.enc /\ w.parity = j.parity /\ w.fs = j.fs
        /\ w.seen \in {j.seen, records}
    BY <1>1, <1>7 DEF Wipe, AfterWipe, Job, Work
  <2> QED
    BY <1>3, <1>7, <2>1, NoVolume DEF Wipe, Goes_On
<1>8. CASE BuildArray
  <2>1. /\ w.at # "none" /\ w.kind = j.kind /\ w.name = j.name /\ w.members = j.members
        /\ w.enc = j.enc /\ w.parity = j.parity /\ w.fs = j.fs
        /\ w.seen \in {j.seen, records}
    BY <1>1, <1>8 DEF BuildArray, Goes, Job, Work
  <2> QED
    BY <1>3, <1>8, <2>1, NoVolume DEF BuildArray, Goes_On
<1>9. CASE LuksFormat
  <2>1. /\ w.at # "none" /\ w.kind = j.kind /\ w.name = j.name /\ w.members = j.members
        /\ w.enc = j.enc /\ w.parity = j.parity /\ w.fs = j.fs
        /\ w.seen \in {j.seen, records}
    BY <1>1, <1>9 DEF LuksFormat, Job, Work
  <2> QED
    BY <1>3, <1>9, <2>1, NoVolume DEF LuksFormat, Goes_On
<1>10. CASE LuksOpen
  <2>1. /\ w.at # "none" /\ w.kind = j.kind /\ w.name = j.name /\ w.members = j.members
        /\ w.enc = j.enc /\ w.parity = j.parity /\ w.fs = j.fs
        /\ w.seen \in {j.seen, records}
    BY <1>1, <1>10 DEF LuksOpen, Job, Work
  <2> QED
    BY <1>3, <1>10, <2>1, NoVolume DEF LuksOpen, Goes_On
<1>11. CASE Mkfs
  <2>1. /\ w.at # "none" /\ w.kind = j.kind /\ w.name = j.name /\ w.members = j.members
        /\ w.enc = j.enc /\ w.parity = j.parity /\ w.fs = j.fs
        /\ w.seen \in {j.seen, records}
    BY <1>1, <1>11 DEF Mkfs, Goes, Job, Work
  <2> QED
    BY <1>3, <1>11, <2>1, NoVolume DEF Mkfs, Goes_On
<1>12. CASE ReadRecords
  <2>1. /\ w.at # "none" /\ w.kind = j.kind /\ w.name = j.name /\ w.members = j.members
        /\ w.enc = j.enc /\ w.parity = j.parity /\ w.fs = j.fs
        /\ w.seen \in {j.seen, records}
    BY <1>1, <1>12 DEF ReadRecords, Job, Work
  <2> QED
    BY <1>3, <1>12, <2>1, NoVolume DEF ReadRecords, Goes_On
<1>13. CASE Fails
  <2>1. /\ w.at # "none" /\ w.kind = j.kind /\ w.name = j.name /\ w.members = j.members
        /\ w.enc = j.enc /\ w.parity = j.parity /\ w.fs = j.fs
        /\ w.seen \in {j.seen, records}
    BY <1>1, <1>13 DEF Fails, Goes, Job, Work
  <2> QED
    BY <1>3, <1>13, <2>1, NoVolume DEF Fails, Goes_On
<1>14. CASE RollbackClose
  <2>1. /\ w.at # "none" /\ w.kind = j.kind /\ w.name = j.name /\ w.members = j.members
        /\ w.enc = j.enc /\ w.parity = j.parity /\ w.fs = j.fs
        /\ w.seen \in {j.seen, records}
    BY <1>1, <1>14 DEF RollbackClose, At, Work
  <2> QED
    BY <1>3, <1>14, <2>1, NoVolume DEF RollbackClose, Goes_On
<1>15. CASE RollbackErase
  <2>1. /\ w.at # "none" /\ w.kind = j.kind /\ w.name = j.name /\ w.members = j.members
        /\ w.enc = j.enc /\ w.parity = j.parity /\ w.fs = j.fs
        /\ w.seen \in {j.seen, records}
    BY <1>1, <1>15 DEF RollbackErase, At, Work
  <2> QED
    BY <1>3, <1>15, <2>1, NoVolume DEF RollbackErase, Goes_On
<1>16. CASE RollbackEnds
  BY <1>1, <1>16 DEF RollbackEnds, Ends
<1> QED
  BY <1>5, <1>6, <1>7, <1>8, <1>9, <1>10, <1>11, <1>12, <1>13, <1>14, <1>15, <1>16
  DEF Building

\* The same of a reclaim.
LEMMA ReclaimStep ==
    ASSUME TypeOK, OneJob, Recheck \/ TearDown \/ Zap \/ GivesUp
    PROVE  LET j == jobs["reclaim"]
               w == jobs'["reclaim"]
           IN  /\ j # NoJob /\ jobs'["pool"] = jobs["pool"]
               /\ \/ /\ status' = status /\ w # NoJob /\ w.at # "none"
                     /\ w.kind = j.kind /\ w.members = j.members
                  \/ /\ w = NoJob
                     /\ \E how \in {"completed", "error"} :
                           status' = [status EXCEPT !["reclaim"] = how]
<1> DEFINE j == jobs["reclaim"]  w == jobs'["reclaim"]
<1>1. j \in Work /\ "pool" \in Services /\ jobs \in [Services -> Work]
      /\ "reclaim" \in Services
  BY DEF TypeOK, Services
<1>2. jobs'["pool"] = jobs["pool"]
  BY <1>1, ReclaimWork, WorkPut
<1>3. j # NoJob /\ j.kind = "reclaim"
  <2>1. CASE GivesUp
    <3>1. j.at # "none" /\ NoJob.at = "none"
      BY <2>1 DEF GivesUp, Job, NoJob
    <3> QED
      BY <3>1 DEF OneJob
  <2> QED
    BY <2>1, NoVolume DEF Recheck, TearDown, Zap, At
<1>4. CASE Recheck
  <2>1. w.at # "none" /\ w.kind = j.kind /\ w.members = j.members /\ status' = status
    BY <1>1, <1>4 DEF Recheck, Goes, Work
  <2> QED
    BY <1>2, <1>3, <2>1, NoVolume
<1>5. CASE TearDown
  <2>1. w.at # "none" /\ w.kind = j.kind /\ w.members = j.members /\ status' = status
    BY <1>1, <1>5 DEF TearDown, Job, Work
  <2> QED
    BY <1>2, <1>3, <2>1, NoVolume
<1>6. CASE Zap
  <2>1. PICK ds \in j.left :
           \/ Ends("reclaim", "completed")
           \/ jobs' = [jobs EXCEPT !["reclaim"].left = @ \ {ds}] /\ UNCHANGED status
    BY <1>6 DEF Zap, Job
  <2>2. CASE jobs' = [jobs EXCEPT !["reclaim"].left = @ \ {ds}] /\ UNCHANGED status
    <3>1. w.at = "wipe" /\ w.kind = j.kind /\ w.members = j.members /\ status' = status
      BY <1>1, <1>6, <2>2 DEF Work, Zap, At
    <3> QED
      BY <1>2, <1>3, <3>1, NoVolume
  <2> QED
    BY <1>1, <1>2, <1>3, <2>1, <2>2 DEF Ends
<1>7. CASE GivesUp
  BY <1>1, <1>2, <1>3, <1>7 DEF GivesUp, Ends
<1> QED
  BY <1>4, <1>5, <1>6, <1>7

\* One job at work, and its status says so.
LEMMA JobStep ==
    TypeOK /\ OneJob /\ GoingIsAtWork /\ [Next]_vars => OneJob' /\ GoingIsAtWork'
<1> SUFFICES ASSUME TypeOK, OneJob, GoingIsAtWork, [Next]_vars
             PROVE  OneJob' /\ GoingIsAtWork'
  OBVIOUS
<1>0. /\ Services = {"pool", "reclaim"} /\ jobs \in [Services -> Work]
      /\ status \in [Services -> {"idle", "going", "completed", "error"}]
  BY DEF TypeOK, Services
<1>1. CASE Request
  <2>1. Start
    BY <1>1 DEF Request
  <2>2. PICK s \in Services, w \in Work :
           /\ Idle
           /\ jobs' = [jobs EXCEPT ![s] = w]
           /\ status' = [status EXCEPT ![s] = "going"]
           /\ w.at = "validate" /\ w # NoJob
           /\ \/ s = "pool" /\ w.kind \in Volume /\ w.name \in Names
              \/ s = "reclaim" /\ w.kind = "reclaim"
    BY <2>1, StartWork
  <2>3. \A t \in Services : jobs[t] = NoJob
    BY <2>2 DEF Idle, GoingIsAtWork
  <2> QED
    BY <1>0, <2>2, <2>3 DEF OneJob, GoingIsAtWork
<1>2. CASE Append
  <2>1. jobs["pool"].at # "none" /\ NoJob.at = "none"
    BY <1>2 DEF Append, At, NoJob
  <2>2. jobs["pool"] # NoJob
    BY <2>1
  <2>3. /\ jobs'["pool"] = NoJob /\ jobs'["reclaim"] = jobs["reclaim"]
        /\ status'["pool"] = "completed" /\ status'["reclaim"] = status["reclaim"]
    BY <1>0, <1>2 DEF Append, Ends
  <2> QED
    BY <1>0, <2>2, <2>3 DEF OneJob, GoingIsAtWork
<1>3. CASE Building
  <2>1. jobs["pool"] # NoJob /\ jobs'["reclaim"] = jobs["reclaim"]
    BY <1>3, PoolStep
  <2>2. CASE status' = status /\ Goes_On(jobs["pool"], jobs'["pool"])
    BY <1>0, <2>1, <2>2 DEF Goes_On, OneJob, GoingIsAtWork
  <2>3. CASE jobs'["pool"] = NoJob /\ status' = [status EXCEPT !["pool"] = "error"]
    <3>1. status'["pool"] = "error" /\ status'["reclaim"] = status["reclaim"]
      BY <1>0, <2>3
    <3> QED
      BY <1>0, <2>1, <2>3, <3>1 DEF OneJob, GoingIsAtWork
  <2> QED
    BY <1>3, <2>2, <2>3, PoolStep
<1>4. CASE Reclaims
  BY <1>0, <1>4, ReclaimStep DEF Reclaims, OneJob, GoingIsAtWork
<1>5. CASE Restart
  <2>1. \A s \in Services : jobs'[s] = NoJob /\ status'[s] = "idle"
    BY <1>5 DEF Restart
  <2> QED
    BY <1>0, <2>1 DEF OneJob, GoingIsAtWork
<1>6. CASE UNCHANGED <<jobs, status>>
  BY <1>6 DEF OneJob, GoingIsAtWork
<1> QED
  BY <1>1, <1>2, <1>3, <1>4, <1>5, <1>6
  DEF Next, Builds, Ask, Destroy, Unrecord, RebuildStarts, RebuildEnds, Tick, Loaded,
      Save, vars

-----------------------------------------------------------------------------
(* Filesystems are handed out once. *)

\* A step that hands out nothing, adds nothing to what is known, and mounts
\* only what is known, keeps what is handed out apart.
LEMMA FreshKept ==
    ASSUME TypeOK, Fresh, made' = made,
           jobs'["pool"] # NoJob =>
               jobs["pool"] # NoJob /\ jobs'["pool"].fs = jobs["pool"].fs,
           Known' \subseteq Known,
           \A f \in mounted' : f \in mounted \/ \E r \in Known : f = r.fs
    PROVE  Fresh'
<1>1. \A f : Handed(f) => Handed(f)'
  BY DEF Handed
<1> QED
  BY <1>1 DEF Fresh

\* Every step keeps what is handed out apart.
LEMMA FreshStep == TypeOK /\ OneJob /\ Fresh /\ [Next]_vars => Fresh'
<1> SUFFICES ASSUME TypeOK, OneJob, Fresh, [Next]_vars PROVE Fresh'
  OBVIOUS
<1>0. /\ Services = {"pool", "reclaim"} /\ jobs \in [Services -> Work]
      /\ made \in Nat /\ NoJob.seen = {} /\ NoCall.seen = {}
  BY StorageAssumption DEF TypeOK, Services, NoJob, NoCall
<1>01. \A r \in Known : r.fs \in Nat
  <2>1. \A r \in Records : r.fs \in Nat
    BY StorageAssumption DEF Records, Volumes
  <2>2. Known \subseteq Records
    BY <1>0 DEF Known, TypeOK, Work
  <2> QED
    BY <2>1, <2>2
<1>1. CASE Request
  <2>1. Start /\ UNCHANGED <<mounted, records, call>> /\ page'.view = page.view
    BY <1>1 DEF Request, box, TypeOK
  <2>2. PICK s \in Services, w \in Work :
           /\ jobs' = [jobs EXCEPT ![s] = w] /\ w.seen = {}
           /\ \/ s = "pool" /\ made' = made + 1 /\ w.fs = made'
              \/ s = "reclaim" /\ UNCHANGED made
    BY <2>1, StartWork
  <2>3. CASE s = "pool" /\ made' = made + 1 /\ w.fs = made'
    <3>1. jobs'["pool"] = w
      BY <1>0, <2>2, <2>3
    <3>2. Known' \subseteq Known
      BY <2>1, <2>2, <3>1 DEF Known
    <3>3. \A f \in Nat : Handed(f) => Handed(f)'
      BY <1>0, <2>3 DEF Handed
    <3>4. \A f \in mounted : f \in Nat
      BY StorageAssumption DEF TypeOK, Volumes
    <3> QED
      BY <1>0, <1>01, <2>1, <2>3, <3>1, <3>2, <3>3, <3>4 DEF Fresh
  <2>4. CASE s = "reclaim" /\ UNCHANGED made
    <3>1. jobs'["pool"] = jobs["pool"]
      BY <1>0, <2>2, <2>4
    <3>2. Known' = Known
      BY <2>1, <3>1 DEF Known
    <3> QED
      BY <2>1, <2>4, <3>1, <3>2, FreshKept
  <2> QED
    BY <2>2, <2>3, <2>4
<1>2. CASE Append
  <2> DEFINE j == jobs["pool"]
  <2>0. PICK new : new = [name |-> j.name, fs |-> j.fs, members |-> j.members]
    OBVIOUS
  <2>1. j # NoJob /\ UNCHANGED <<mounted, made, call, page>>
    BY <1>2, NoVolume DEF Append, At, box
  <2>2. jobs'["pool"] = NoJob /\ records' = j.seen \cup {new}
    BY <1>0, <1>2, <2>0 DEF Append, Ends, Job
  <2>3. Known' \subseteq Known \cup {new}
    BY <1>0, <2>1, <2>2 DEF Known
  <2>4. \A f : Handed(f) => Handed(f)'
    BY <2>1, <2>2 DEF Handed
  <2>5. Handed(new.fs)'
    BY <1>0, <2>0, <2>1, <2>2 DEF Handed, Fresh
  <2> QED
    BY <2>1, <2>2, <2>3, <2>4, <2>5 DEF Fresh
<1>3. CASE Building
  <2>1. jobs'["pool"].seen \subseteq Known /\
        (jobs'["pool"] # NoJob =>
            jobs["pool"] # NoJob /\ jobs'["pool"].fs = jobs["pool"].fs)
    BY <1>0, <1>3, PoolStep DEF Goes_On, Known
  <2>2. UNCHANGED <<records, made, call, page>>
    BY <1>3, BuildingAside DEF Aside
  <2>3. mounted' = mounted
    BY <1>3, BuildingAside
  <2>4. Known' \subseteq Known
    BY <2>1, <2>2 DEF Known
  <2> QED
    BY <2>1, <2>2, <2>3, <2>4, FreshKept
<1>4. CASE Reclaims
  <2>1. jobs'["pool"] = jobs["pool"]
    BY <1>4, ReclaimStep DEF Reclaims
  <2>2. UNCHANGED <<records, made, call, page, mounted>>
    BY <1>4 DEF Reclaims, Recheck, TearDown, Zap, GivesUp, box
  <2>3. Known' = Known
    BY <2>1, <2>2 DEF Known
  <2> QED
    BY <2>1, <2>2, <2>3, FreshKept
<1>5. ASSUME NEW kind \in {"destroy", "forget"}, NEW n \in Names,
             NEW by \in {"page", "other"}, Ask(kind, n, by)
      PROVE  Fresh'
  <2>1. call'.seen = records /\ UNCHANGED <<records, made, page, mounted, jobs>>
    BY <1>5 DEF Ask, box
  <2>2. Known' \subseteq Known
    BY <2>1 DEF Known
  <2> QED
    BY <2>1, <2>2, FreshKept
<1>6. CASE Destroy
  <2>1. /\ call'.seen = call.seen /\ UNCHANGED <<records, made, page, jobs>>
        /\ mounted' \subseteq mounted
    BY <1>6 DEF Destroy, TypeOK
  <2>2. Known' \subseteq Known
    BY <2>1 DEF Known
  <2> QED
    BY <2>1, <2>2, FreshKept
<1>7. CASE Unrecord
  <2>1. /\ call'.seen = {} /\ records' \subseteq call.seen /\ page'.view = page.view
        /\ UNCHANGED <<made, jobs, mounted>>
    BY <1>0, <1>7 DEF Unrecord, TypeOK, box
  <2>2. Known' \subseteq Known
    BY <2>1 DEF Known
  <2> QED
    BY <2>1, <2>2, FreshKept
<1>8. CASE RebuildStarts
  <2>1. UNCHANGED <<records, made, page, mounted, jobs, call>>
    BY <1>8 DEF RebuildStarts, box
  <2>2. Known' = Known
    BY <2>1 DEF Known
  <2> QED
    BY <2>1, <2>2, FreshKept
<1>9. CASE RebuildEnds
  <2>1. UNCHANGED <<records, made, page, jobs, call>>
    BY <1>9 DEF RebuildEnds
  <2>2. Known' = Known
    BY <2>1 DEF Known
  <2>3. \A f \in mounted' : f \in mounted \/ \E r \in records : f = r.fs
    BY <1>9 DEF RebuildEnds
  <2>4. \A f \in mounted' : f \in mounted \/ \E r \in Known : f = r.fs
    BY <2>3 DEF Known
  <2> QED
    BY <2>1, <2>2, <2>4, FreshKept
<1>10. CASE Restart
  <2>1. /\ call'.seen = {} /\ jobs'["pool"] = NoJob /\ page'.view = page.view
        /\ UNCHANGED <<made, records, mounted>>
    BY <1>0, <1>10 DEF Restart, TypeOK, box
  <2>2. Known' \subseteq Known
    BY <1>0, <2>1 DEF Known
  <2> QED
    BY <2>1, <2>2, FreshKept
<1>11. CASE Tick
  <2>1. page'.view = page.view /\ UNCHANGED <<records, made, mounted, jobs, call>>
    BY <1>11 DEF Tick, TypeOK, box
  <2>2. Known' = Known
    BY <2>1 DEF Known
  <2> QED
    BY <2>1, <2>2, FreshKept
<1>12. CASE Loaded
  <2>1. page'.view \in {records, page.view} /\ UNCHANGED <<records, made, mounted, jobs, call>>
    BY <1>12 DEF Loaded, TypeOK, box
  <2>2. Known' \subseteq Known
    BY <2>1 DEF Known
  <2> QED
    BY <2>1, <2>2, FreshKept
<1>13. CASE Save
  <2>1. /\ records' = page.view /\ page'.view = page.view
        /\ UNCHANGED <<made, mounted, jobs, call>>
    BY <1>13 DEF Save, TypeOK, box
  <2>2. Known' \subseteq Known
    BY <2>1 DEF Known
  <2> QED
    BY <2>1, <2>2, FreshKept
<1>14. CASE UNCHANGED vars
  <2>1. UNCHANGED <<records, made, page, mounted, jobs, call>>
    BY <1>14 DEF vars, box
  <2>2. Known' = Known
    BY <2>1 DEF Known
  <2> QED
    BY <2>1, <2>2, FreshKept
<1> QED
  BY <1>1, <1>2, <1>3, <1>4, <1>5, <1>6, <1>7, <1>8, <1>9, <1>10, <1>11, <1>12,
     <1>13, <1>14
  DEF Next, Builds

-----------------------------------------------------------------------------
(* How far the job came. *)

\* Every step takes a job from one command to the next.
LEMMA ProgressStep == TypeOK /\ OneJob /\ Progress /\ [Next]_vars => Progress'
<1> SUFFICES ASSUME TypeOK, OneJob, Progress, [Next]_vars PROVE Progress'
  OBVIOUS
<1> DEFINE j == jobs["pool"]  w == jobs'["pool"]
<1>0. /\ Services = {"pool", "reclaim"} /\ jobs \in [Services -> Work]
      /\ j \in Work
  BY DEF TypeOK, Services
<1>1. CASE Request
  <2>1. Start
    BY <1>1 DEF Request
  <2>2. PICK s \in Services, v \in Work :
           /\ jobs' = [jobs EXCEPT ![s] = v]
           /\ v.at = "validate" /\ v.formatted = {} /\ v.opened = {}
    BY <2>1, StartWork
  <2>3. LayersDone(v)
    BY <2>2 DEF LayersDone
  <2> QED
    BY <1>0, <2>2, <2>3 DEF Progress
<1>2. CASE Append
  BY <1>0, <1>2 DEF Append, Ends, Progress
<1>3. CASE Building
  <2>1. j # NoJob
    BY <1>3, PoolStep
  <2>2. LayersDone(j)
    BY <2>1 DEF Progress
  <2>3. w # NoJob => w.enc = j.enc /\ Layers(w) = Layers(j)
    BY <1>3, PoolStep DEF Goes_On, Layers
  <2> SUFFICES ASSUME w # NoJob PROVE LayersDone(w)
    BY DEF Progress
  <2>4. CASE Validate
    <3>1. w.at \in {"wipe", "close"} /\ w.formatted = j.formatted /\ w.opened = j.opened
          /\ j.at = "validate"
      BY <1>0, <2>4 DEF Validate, Job, At, Goes, Work
    <3> QED
      BY <2>2, <2>3, <3>1 DEF LayersDone
  <2>5. CASE CloseOld
    <3>1. w.at = "wipe" /\ w.formatted = j.formatted /\ w.opened = j.opened
          /\ j.at = "close"
      BY <1>0, <2>5 DEF CloseOld, Job, At, Work
    <3> QED
      BY <2>2, <2>3, <3>1 DEF LayersDone
  <2>6. CASE Wipe
    <3>1. w.at \in {"wipe", AfterWipe(j)} /\ w.formatted = j.formatted
          /\ w.opened = j.opened /\ j.at = "wipe"
      BY <1>0, <2>6 DEF Wipe, Job, At, Work
    <3>2. w.at \in {"wipe", "array", IF j.enc THEN "format" ELSE "mkfs"}
      BY <3>1 DEF AfterWipe
    <3> QED
      BY <2>2, <2>3, <3>1, <3>2 DEF LayersDone
  <2>7. CASE BuildArray
    <3>1. w.at = (IF j.enc THEN "format" ELSE "mkfs") /\ w.formatted = j.formatted
          /\ w.opened = j.opened /\ j.at = "array"
      BY <1>0, <2>7 DEF BuildArray, Job, At, Goes, Work
    <3> QED
      BY <2>2, <2>3, <3>1 DEF LayersDone
  <2>8. CASE LuksFormat
    <3>1. PICK ds \in Layers(j) \ j.formatted :
             jobs' = [jobs EXCEPT !["pool"].at = "open", !["pool"].formatted = @ \cup {ds}]
      BY <2>8 DEF LuksFormat, Job
    <3>2. w.at = "open" /\ w.formatted = j.formatted \cup {ds} /\ w.opened = j.opened
          /\ j.at = "format"
      BY <1>0, <2>8, <3>1 DEF LuksFormat, At, Work
    <3>3. w.opened = w.formatted \ {ds} /\ ds \in w.formatted
      BY <2>2, <3>1, <3>2 DEF LayersDone
    <3> QED
      BY <2>2, <2>3, <3>1, <3>2, <3>3 DEF LayersDone
  <2>9. CASE LuksOpen
    <3>1. PICK ds \in j.formatted \ j.opened :
             jobs' = [jobs EXCEPT !["pool"].opened = @ \cup {ds},
                       !["pool"].at = IF j.formatted = Layers(j) THEN "mkfs" ELSE "format"]
      BY <2>9 DEF LuksOpen, Job
    <3>2. w.at = (IF j.formatted = Layers(j) THEN "mkfs" ELSE "format")
          /\ w.formatted = j.formatted /\ w.opened = j.opened \cup {ds} /\ j.at = "open"
      BY <1>0, <2>9, <3>1 DEF LuksOpen, At, Work
    <3>3. w.opened = w.formatted
      BY <2>2, <3>1, <3>2 DEF LayersDone
    <3>4. w.enc /\ Layers(w) = Layers(j) /\ w.formatted \subseteq Layers(w)
      BY <2>2, <2>3, <3>2 DEF LayersDone
    <3>5. CASE j.formatted = Layers(j)
      BY <3>2, <3>3, <3>4, <3>5 DEF LayersDone
    <3>6. CASE j.formatted # Layers(j)
      BY <3>2, <3>3, <3>4, <3>6 DEF LayersDone
    <3> QED
      BY <3>5, <3>6
  <2>10. CASE Mkfs
    <3>1. w.at = "read" /\ w.formatted = j.formatted /\ w.opened = j.opened /\ j.at = "mkfs"
      BY <1>0, <2>10 DEF Mkfs, Job, At, Goes, Work
    <3> QED
      BY <2>2, <2>3, <3>1 DEF LayersDone
  <2>11. CASE ReadRecords
    <3>1. w.at = "append" /\ w.formatted = j.formatted /\ w.opened = j.opened
          /\ j.at = "read"
      BY <1>0, <2>11 DEF ReadRecords, At, Work
    <3> QED
      BY <2>2, <2>3, <3>1 DEF LayersDone
  <2>12. CASE Fails
    <3>1. w.at = "rollback" /\ w.formatted = j.formatted /\ w.opened = j.opened
      BY <1>0, <2>12 DEF Fails, Goes, Work
    <3> QED
      BY <2>2, <2>3, <3>1 DEF LayersDone
  <2>13. CASE RollbackClose
    <3>1. PICK ds : jobs' = [jobs EXCEPT !["pool"].opened = @ \ {ds}]
      BY <2>13 DEF RollbackClose
    <3>2. w.at = "rollback" /\ w.formatted = j.formatted /\ w.opened = j.opened \ {ds}
      BY <1>0, <2>13, <3>1 DEF RollbackClose, At, Work
    <3> QED
      BY <2>2, <2>3, <3>2 DEF LayersDone
  <2>14. CASE RollbackErase
    <3>1. PICK ds : jobs' = [jobs EXCEPT !["pool"].formatted = @ \ {ds}]
      BY <2>14 DEF RollbackErase
    <3>2. /\ w.at = "rollback" /\ w.formatted = j.formatted \ {ds}
          /\ w.opened = j.opened /\ j.opened = {}
      BY <1>0, <2>14, <3>1 DEF RollbackErase, At, Job, Work
    <3> QED
      BY <2>2, <2>3, <3>2 DEF LayersDone
  <2>15. CASE RollbackEnds
    BY <1>0, <2>15 DEF RollbackEnds, Ends
  <2> QED
    BY <1>3, <2>4, <2>5, <2>6, <2>7, <2>8, <2>9, <2>10, <2>11, <2>12, <2>13, <2>14, <2>15
    DEF Building
<1>4. CASE Reclaims
  BY <1>4, ReclaimStep DEF Reclaims, Progress
<1>5. CASE Restart
  BY <1>0, <1>5 DEF Restart, Progress
<1>6. CASE UNCHANGED jobs
  BY <1>6 DEF Progress
<1> QED
  BY <1>1, <1>2, <1>3, <1>4, <1>5, <1>6
  DEF Next, Builds, Ask, Destroy, Unrecord, RebuildStarts, RebuildEnds, Tick, Loaded,
      Save, vars

-----------------------------------------------------------------------------
(* What the drives hold. *)

\* Layers of encryption cover the drives of the job, and no others.
LEMMA LayersCover == \A j : UNION Layers(j) = j.members
BY DEF Layers

\* Where there is no job, nothing is half built.
LEMMA NoPoolJob ==
    \A d : Built(NoJob, d) <=>
              ((content[d].luks \/ d \in open) => content[d].fs # 0 \/ d \in scarred)
BY DEF Built, NoJob

\* The same where a step ends the job.
LEMMA NoPoolJobAfter ==
    ASSUME jobs'["pool"] = NoJob
    PROVE  \A d : Built(jobs["pool"], d)' <=>
           ((content'[d].luks \/ d \in open') => content'[d].fs # 0 \/ d \in scarred')
BY DEF Built, NoJob

\* And where no reclaim runs, nothing is to be cleared.
LEMMA NoReclaimAfter ==
    ASSUME jobs'["reclaim"] = NoJob
    PROVE  \A d : Cleared(jobs["reclaim"], d)'
BY DEF Cleared, NoJob

\* The drives that are written, and the others.
LEMMA Erased ==
    ASSUME TypeOK, NEW ds, Erase(ds), NEW d \in Disks
    PROVE  content'[d] = IF d \in ds THEN Blank ELSE content[d]
BY DEF TypeOK, Erase, Put

\* The same of what is formatted or made.
LEMMA Filled ==
    ASSUME TypeOK, NEW ds, NEW fs, NEW luks, Fill(ds, fs, luks), NEW d \in Disks
    PROVE  IF d \in ds THEN content'[d].fs = fs /\ content'[d].luks = luks
                       ELSE content'[d] = content[d]
<1>1. content \in [Disks -> Drive]
  BY DEF TypeOK, Drive
<1>2. content'[d] = IF d \in ds THEN [content[d] EXCEPT !.fs = fs, !.luks = luks]
                                ELSE content[d]
  BY DEF Fill, Put
<1>3. content[d] \in Drive
  BY <1>1
<1> QED
  BY <1>2, <1>3 DEF Drive

\* What a job that creates a volume may rely on.
LEMMA PoolFacts ==
    ASSUME TypeOK, OneJob, Fresh, Progress, jobs["pool"] # NoJob
    PROVE  LET j == jobs["pool"] IN
           /\ LayersDone(j) /\ jobs["reclaim"] = NoJob
           /\ UNION j.formatted \subseteq j.members
           /\ UNION j.opened \subseteq UNION j.formatted
           /\ j.fs # 0
           /\ \A d \in Disks : content[d].fs \in {0, j.fs} => ~Mounted(d)
<1> DEFINE j == jobs["pool"]
<1>1. LayersDone(j) /\ jobs["reclaim"] = NoJob
  BY DEF Progress, OneJob, Services
<1>2. UNION j.formatted \subseteq j.members /\ UNION j.opened \subseteq UNION j.formatted
  BY <1>1, LayersCover DEF LayersDone
<1>3. /\ j.fs # 0
      /\ \A d \in Disks : content[d].fs \in {0, j.fs} => ~Mounted(d)
  BY StorageAssumption DEF Fresh, Handed, TypeOK, Volumes, Mounted
<1> QED
  BY <1>1, <1>2, <1>3

\* The commands of a job that creates a volume.
LEMMA BuildingDrives ==
    ASSUME TypeOK, OneJob, Fresh, Progress, Drives, Building, ~disturbed,
           NEW d \in Disks
    PROVE  Built(jobs["pool"], d)' /\ Cleared(jobs["reclaim"], d)'
<1> DEFINE j == jobs["pool"]  w == jobs'["pool"]
<1>0. /\ "pool" \in Services /\ jobs \in [Services -> Work] /\ j \in Work
  BY DEF TypeOK, Services
<1>1. jobs["pool"] # NoJob /\ jobs'["reclaim"] = jobs["reclaim"]
  BY PoolStep
<1>2. /\ LayersDone(j)
      /\ UNION j.formatted \subseteq j.members
      /\ UNION j.opened \subseteq UNION j.formatted
      /\ j.fs # 0
      /\ content[d].fs \in {0, j.fs} => ~Mounted(d)
      /\ Built(j, d)
  BY <1>1, PoolFacts DEF Drives
<1>3. Cleared(jobs["reclaim"], d)'
  BY <1>1, PoolFacts, NoReclaimAfter
<1>4. w # NoJob => w.members = j.members /\ w.fs = j.fs
  BY PoolStep DEF Goes_On
<1>5. CASE Validate /\ UNCHANGED scarred
  <2>1. /\ w.formatted = j.formatted /\ UNCHANGED <<content, open>> /\ w # NoJob
        /\ \/ w.at = "wipe" /\ w.left = {{e} : e \in j.members}
           \/ w.at = "close"
    <3>1. w.kind \in Volume
      BY <1>0, <1>5 DEF Validate, Job, At, Goes, Work
    <3> QED
      BY <1>0, <1>5, <3>1, NoVolume DEF Validate, Job, At, Goes, Work, box
  <2> QED
    BY <1>2, <1>3, <1>4, <1>5, <2>1 DEF Built
<1>6. CASE CloseOld /\ UNCHANGED scarred
  <2>1. /\ w.formatted = j.formatted /\ content' = content /\ open' \subseteq open
        /\ w.at = "wipe" /\ w.left = {j.members} /\ w # NoJob
    <3>1. w.kind \in Volume
      BY <1>0, <1>6 DEF CloseOld, Job, At, Work, Volume
    <3> QED
      BY <1>0, <1>6, <3>1, NoVolume DEF CloseOld, Closes, Job, Work
  <2> QED
    BY <1>2, <1>3, <1>4, <1>6, <2>1 DEF Built
<1>7. CASE Wipe
  <2>1. PICK ds \in j.left :
           /\ \A e \in ds : ~Busy(e)
           /\ Fill(ds, 0, FALSE) /\ scarred' = scarred \ ds
           /\ jobs' = [jobs EXCEPT !["pool"].left = @ \ {ds},
                       !["pool"].at = IF j.left = {ds} THEN AfterWipe(j) ELSE "wipe"]
    BY <1>7 DEF Wipe, Job
  <2>2. /\ w.formatted = j.formatted /\ w.opened = j.opened /\ w.left = j.left \ {ds}
        /\ w.at = (IF j.left = {ds} THEN AfterWipe(j) ELSE "wipe") /\ w.kind \in Volume
        /\ j.at = "wipe" /\ open' = open
    BY <1>0, <1>7, <2>1 DEF Wipe, At, Work
  <2>3. w # NoJob /\ j.formatted = {} /\ j.opened = {}
    BY <1>2, <2>2, NoVolume DEF LayersDone
  <2>4. AfterWipe(j) \in {"array", "format", "mkfs"}
    BY DEF AfterWipe
  <2>5. CASE d \in ds
    <3>1. content'[d].fs = 0 /\ ~content'[d].luks /\ d \notin open'
      BY <2>1, <2>2, <2>5, Filled DEF Busy
    <3> QED
      BY <1>3, <2>2, <2>3, <2>4, <3>1 DEF Built, AsBuilt
  <2>6. CASE d \notin ds
    <3>1. content'[d] = content[d]
      BY <2>1, <2>6, Filled
    <3>2. d \in UNION j.left => d \in UNION w.left /\ w.at = "wipe"
      BY <2>2, <2>6
    <3> QED
      BY <1>2, <1>3, <1>4, <2>1, <2>6, <2>2, <2>3, <2>4, <3>1, <3>2 DEF Built, AsBuilt
  <2> QED
    BY <2>5, <2>6
<1>8. CASE BuildArray /\ UNCHANGED scarred
  <2>1. /\ w.formatted = j.formatted /\ w.opened = j.opened /\ w.kind \in Volume
        /\ w.at = (IF j.enc THEN "format" ELSE "mkfs") /\ j.at = "array" /\ open' = open
    BY <1>0, <1>8 DEF BuildArray, Job, At, Goes, Work, Volume
  <2>2. content'[d].fs = content[d].fs /\ content'[d].luks = content[d].luks
    <3>1. content \in [Disks -> Drive]
      BY DEF TypeOK, Drive
    <3>2. content'[d] = IF d \in j.members THEN [content[d] EXCEPT !.array = j.members]
                                           ELSE content[d]
      BY <1>8 DEF BuildArray, Put, Job
    <3> QED
      BY <3>1, <3>2 DEF Drive
  <2>3. w # NoJob
    BY <2>1, NoVolume
  <2> QED
    BY <1>2, <1>3, <1>4, <1>8, <2>1, <2>2, <2>3 DEF Built, AsBuilt
<1>9. CASE LuksFormat /\ UNCHANGED scarred
  <2>1. PICK ds \in Layers(j) \ j.formatted :
           /\ Fill(ds, 0, TRUE)
           /\ jobs' = [jobs EXCEPT !["pool"].at = "open", !["pool"].formatted = @ \cup {ds}]
    BY <1>9 DEF LuksFormat, Job
  <2>2. /\ w.at = "open" /\ w.formatted = j.formatted \cup {ds} /\ w.opened = j.opened
        /\ j.at = "format" /\ open' = open /\ w.kind \in Volume
    BY <1>0, <1>9, <2>1 DEF LuksFormat, At, Work
  <2>3. ds \subseteq j.members /\ w # NoJob
    BY <2>1, <2>2, LayersCover, NoVolume
  <2>4. CASE d \in ds
    <3>1. content'[d].fs = 0 /\ content'[d].luks /\ d \in UNION w.formatted
      <4>1. content'[d].fs = 0 /\ content'[d].luks = TRUE
        BY <2>1, <2>4, Filled
      <4> QED
        BY <4>1, <2>2, <2>4
    <3> QED
      BY <1>2, <1>3, <1>4, <2>2, <2>3, <2>4, <3>1 DEF Built, AsBuilt
  <2>5. CASE d \notin ds
    <3>1. content'[d] = content[d] /\ (d \in UNION w.formatted <=> d \in UNION j.formatted)
      BY <2>1, <2>2, <2>5, Filled
    <3> QED
      BY <1>2, <1>3, <1>4, <1>9, <2>2, <2>3, <3>1 DEF Built, AsBuilt
  <2> QED
    BY <2>4, <2>5
<1>10. CASE LuksOpen /\ UNCHANGED scarred
  <2>1. PICK ds \in j.formatted \ j.opened :
           /\ open' = open \cup ds
           /\ jobs' = [jobs EXCEPT !["pool"].opened = @ \cup {ds},
                         !["pool"].at = IF j.formatted = Layers(j) THEN "mkfs" ELSE "format"]
    BY <1>10 DEF LuksOpen, Job
  <2>2. /\ w.at \in {"mkfs", "format"} /\ w.formatted = j.formatted
        /\ w.opened = j.opened \cup {ds} /\ j.at = "open"
        /\ content' = content /\ w.kind \in Volume
    BY <1>0, <1>10, <2>1 DEF LuksOpen, At, Work
  <2>3. /\ d \in UNION w.opened <=> d \in UNION j.opened \/ d \in ds
        /\ d \in ds => d \in UNION j.formatted
        /\ w # NoJob
    BY <2>1, <2>2, NoVolume
  <2> QED
    BY <1>2, <1>3, <1>4, <1>10, <2>1, <2>2, <2>3 DEF Built, AsBuilt
<1>11. CASE Mkfs /\ UNCHANGED scarred
  <2>1. /\ w.at = "read" /\ w.formatted = j.formatted /\ w.opened = j.opened
        /\ j.at = "mkfs" /\ open' = open /\ Fill(j.members, j.fs, j.enc)
        /\ w.kind \in Volume
    BY <1>0, <1>11 DEF Mkfs, Job, At, Goes, Work
  <2>2. w # NoJob
    BY <2>1, NoVolume
  <2>3. CASE d \in j.members
    <3>1. content'[d].fs = j.fs /\ content'[d].luks = j.enc
      BY <2>1, <2>3, Filled
    <3>2. j.enc <=> d \in UNION j.formatted
      BY <1>2, <2>1, <2>3, LayersCover DEF LayersDone
    <3> QED
      BY <1>2, <1>3, <1>4, <2>1, <2>2, <2>3, <3>1, <3>2 DEF Built, AsBuilt
  <2>4. CASE d \notin j.members
    <3>1. content'[d] = content[d]
      BY <2>1, <2>4, Filled
    <3> QED
      BY <1>2, <1>3, <1>4, <1>11, <2>1, <2>2, <2>4, <3>1 DEF Built
  <2> QED
    BY <2>3, <2>4
<1>12. CASE ReadRecords /\ UNCHANGED scarred
  <2>1. /\ w.at = "append" /\ w.formatted = j.formatted /\ w.opened = j.opened
        /\ j.at = "read" /\ UNCHANGED <<content, open>> /\ w.kind \in Volume
    BY <1>0, <1>12 DEF ReadRecords, At, Work, box
  <2> QED
    BY <1>2, <1>3, <1>4, <1>12, <2>1, NoVolume DEF Built, AsBuilt
<1>13. CASE Fails /\ UNCHANGED scarred
  <2>1. /\ w.at = "rollback" /\ w.formatted = j.formatted /\ w.opened = j.opened
        /\ j.at \notin {"none", "rollback"} /\ UNCHANGED <<content, open>> /\ w.kind = j.kind
    BY <1>0, <1>13 DEF Fails, Job, Goes, Work, box
  <2>2. w # NoJob
    BY <1>1, <2>1, NoVolume DEF OneJob
  <2>3. d \in UNION j.formatted => j.at \in {"format", "open", "mkfs", "read", "append"}
    <3>1. j.at \in Stages
      BY <1>0 DEF Work
    <3> QED
      BY <1>2, <2>1, <3>1 DEF LayersDone, Stages
  <2> QED
    BY <1>2, <1>3, <1>4, <1>13, <2>1, <2>2, <2>3 DEF Built, AsBuilt
<1>14. CASE RollbackClose
  <2>1. PICK ds \in j.opened :
           /\ Closes(ds) /\ scarred' = scarred \cup (ds \cap open')
           /\ jobs' = [jobs EXCEPT !["pool"].opened = @ \ {ds}]
    BY <1>14 DEF RollbackClose, Job
  <2>2. /\ w.at = "rollback" /\ w.formatted = j.formatted /\ w.opened = j.opened \ {ds}
        /\ j.at = "rollback" /\ content' = content /\ w.kind \in Volume
    BY <1>0, <1>14, <2>1 DEF RollbackClose, At, Work
  <2>3. w # NoJob
    BY <2>2, NoVolume
  <2>4. /\ d \in open' => d \in open
        /\ d \in scarred => d \in scarred'
        /\ d \in open' /\ d \in UNION j.opened => d \in UNION w.opened \/ d \in scarred'
    BY <2>1, <2>2 DEF Closes
  <2> QED
    BY <1>2, <1>3, <1>4, <2>2, <2>3, <2>4 DEF Built
<1>15. CASE RollbackErase
  <2>1. PICK ds \in j.formatted :
           /\ \/ (\A e \in ds : ~Busy(e)) /\ Fill(ds, 0, FALSE) /\ UNCHANGED scarred
              \/ (UNCHANGED content \/ Fill(ds, 0, TRUE)) /\ scarred' = scarred \cup ds
           /\ jobs' = [jobs EXCEPT !["pool"].formatted = @ \ {ds}]
    BY <1>15 DEF RollbackErase, Job
  <2>2. /\ w.at = "rollback" /\ w.formatted = j.formatted \ {ds} /\ w.opened = {}
        /\ j.at = "rollback" /\ j.opened = {} /\ open' = open /\ w.kind \in Volume
    BY <1>0, <1>15, <2>1 DEF RollbackErase, At, Job, Work
  <2>3. w # NoJob /\ (d \in UNION w.formatted => d \in UNION j.formatted)
        /\ (d \in scarred => d \in scarred')
    BY <2>1, <2>2, NoVolume
  <2>4. CASE d \in ds /\ d \notin scarred'
    <3>1. content'[d].fs = 0 /\ ~content'[d].luks /\ d \notin open'
      BY <2>1, <2>2, <2>4, Filled DEF Busy
    <3> QED
      BY <1>2, <1>3, <1>4, <2>2, <2>3, <3>1 DEF Built
  <2>5. CASE d \in ds /\ d \in scarred'
    <3>1. content'[d].fs \in {0, content[d].fs}
      BY <2>1, <2>5, Filled
    <3>2. content[d].fs \in {0, j.fs}
      BY <1>2, <2>1, <2>2, <2>5 DEF Built
    <3> QED
      BY <1>3, <1>4, <2>2, <2>3, <2>5, <3>1, <3>2 DEF Built
  <2>6. CASE d \notin ds
    <3>1. content'[d] = content[d]
      BY <2>1, <2>6, Filled
    <3>2. d \in UNION w.formatted <=> d \in UNION j.formatted
      BY <2>2, <2>6
    <3> QED
      BY <1>2, <1>3, <1>4, <2>2, <2>3, <3>1, <3>2 DEF Built
  <2> QED
    BY <2>4, <2>5, <2>6
<1>16. CASE RollbackEnds /\ UNCHANGED <<box, scarred>>
  <2>1. w = NoJob /\ j.at = "rollback" /\ j.formatted = {}
        /\ UNCHANGED <<content, open, scarred>>
    BY <1>0, <1>16 DEF RollbackEnds, Ends, Job, At, box
  <2>2. (content'[d].luks \/ d \in open') => content'[d].fs # 0 \/ d \in scarred'
    BY <1>2, <2>1 DEF Built
  <2> QED
    BY <1>3, <2>1, <2>2, NoPoolJobAfter
<1> QED
  BY <1>5, <1>6, <1>7, <1>8, <1>9, <1>10, <1>11, <1>12, <1>13, <1>14, <1>15, <1>16
  DEF Building

\* The commands of a reclaim.
LEMMA ReclaimDrives ==
    ASSUME TypeOK, OneJob, Drives, Recheck \/ TearDown \/ Zap \/ GivesUp, ~disturbed,
           NEW d \in Disks
    PROVE  Built(jobs["pool"], d)' /\ Cleared(jobs["reclaim"], d)'
<1> DEFINE j == jobs["reclaim"]  w == jobs'["reclaim"]
<1>0. /\ "reclaim" \in Services /\ jobs \in [Services -> Work] /\ j \in Work
  BY DEF TypeOK, Services
<1>1. j # NoJob /\ jobs'["pool"] = jobs["pool"] /\ jobs["pool"] = NoJob
  BY ReclaimStep DEF OneJob, Services
<1>2. /\ Cleared(j, d) /\ mounted' = mounted
      /\ (content[d].luks \/ d \in open) => content[d].fs # 0 \/ d \in scarred
  BY <1>1, NoPoolJob DEF Drives, Recheck, TearDown, Zap, GivesUp, box
<1>3. 0 \notin mounted
  BY StorageAssumption DEF TypeOK, Volumes
<1>4. CASE Recheck
  <2>1. /\ UNCHANGED <<content, open>> /\ w.at = "close" /\ w.members = j.members
        /\ w.left = j.left /\ scarred' = scarred
        /\ d \in j.members => ~Mounted(d) \/ d \in overlooked'
    BY <1>0, <1>4 DEF Recheck, Job, Goes, Work, box, Reclaimable
  <2> QED
    BY <1>1, <1>2, <2>1, NoPoolJobAfter DEF Cleared, Mounted
<1>5. CASE TearDown
  <2>1. /\ UNCHANGED <<content, scarred, overlooked>> /\ open' = open \ j.members
        /\ j.at = "close" /\ w.at = "wipe" /\ w.members = j.members
        /\ w.left = {{e} : e \in j.members}
    BY <1>0, <1>5 DEF TearDown, Job, At, Work
  <2>2. Mounted(d)' <=> Mounted(d)
    BY <1>2, <2>1 DEF Mounted
  <2>3. d \in j.members => (~Mounted(d) \/ d \in overlooked) /\ d \notin open'
    BY <1>2, <2>1 DEF Cleared
  <2>4. Cleared(jobs["reclaim"], d)'
    BY <2>1, <2>2, <2>3 DEF Cleared
  <2> QED
    BY <1>1, <1>2, <2>1, <2>4, NoPoolJobAfter
<1>6. CASE Zap
  <2>1. PICK ds \in j.left :
           /\ Erase(ds) /\ scarred' = scarred \ ds
           /\ IF j.left = {ds} THEN Ends("reclaim", "completed") /\ overlooked' = {}
              ELSE /\ jobs' = [jobs EXCEPT !["reclaim"].left = @ \ {ds}]
                   /\ UNCHANGED <<status, overlooked>>
    BY <1>6 DEF Zap, Job
  <2>2. j.at = "wipe" /\ open' = open
    BY <1>6 DEF Zap, At
  <2>3. d \in ds => d \in j.members
    BY <1>2, <2>1 DEF Cleared
  <2>4. /\ (content'[d].luks \/ d \in open') => content'[d].fs # 0 \/ d \in scarred'
        /\ d \in j.members => content'[d].fs \notin mounted' \/ d \in overlooked
    <3>1. CASE d \in ds
      <4>1. content'[d] = Blank
        BY <2>1, <3>1, Erased
      <4> QED
        BY <1>2, <1>3, <2>2, <2>3, <3>1, <4>1 DEF Cleared, Blank
    <3>2. CASE d \notin ds
      <4>1. content'[d] = content[d]
        BY <2>1, <3>2, Erased
      <4> QED
        BY <1>2, <2>1, <2>2, <3>2, <4>1 DEF Cleared, Mounted
    <3> QED
      BY <3>1, <3>2
  <2>5. CASE w = NoJob
    BY <1>1, <2>4, <2>5, NoPoolJobAfter, NoReclaimAfter
  <2>6. CASE jobs' = [jobs EXCEPT !["reclaim"].left = @ \ {ds}] /\ UNCHANGED overlooked
    <3>1. w.at = "wipe" /\ w.members = j.members /\ w.left = j.left \ {ds}
      BY <1>0, <2>2, <2>6 DEF Work
    <3>2. Cleared(jobs["reclaim"], d)'
      BY <1>2, <2>1, <2>2, <2>6, <2>4, <3>1 DEF Cleared, Mounted
    <3> QED
      BY <1>1, <2>4, <3>2, NoPoolJobAfter
  <2> QED
    BY <1>0, <2>1, <2>5, <2>6 DEF Ends
<1>7. CASE GivesUp
  <2>1. w = NoJob /\ UNCHANGED <<content, open, scarred>>
    BY <1>0, <1>7 DEF GivesUp, Ends, box
  <2> QED
    BY <1>1, <1>2, <2>1, NoPoolJobAfter, NoReclaimAfter
<1> QED
  BY <1>4, <1>5, <1>6, <1>7

\* A step that leaves the jobs alone, keeps a drive as it is and mounts
\* nothing that is on it.
LEMMA DriveKept ==
    ASSUME NEW d \in Disks, Built(jobs["pool"], d), Cleared(jobs["reclaim"], d),
           jobs' = jobs, content'[d] = content[d], d \in open' <=> d \in open,
           d \in scarred' <=> d \in scarred, overlooked' = overlooked,
           Mounted(d)' => Mounted(d)
    PROVE  Built(jobs["pool"], d)' /\ Cleared(jobs["reclaim"], d)'
BY DEF Built, AsBuilt, Cleared

\* What is on the drives of a job that nothing disturbed.
LEMMA DrivesStep ==
    TypeOK /\ GoingIsAtWork /\ OneJob /\ Fresh /\ Progress /\ Drives /\ [Next]_vars
    => Drives'
<1> SUFFICES ASSUME TypeOK, GoingIsAtWork, OneJob, Fresh, Progress, Drives, [Next]_vars,
                    ~disturbed', NEW d \in Disks
             PROVE  Built(jobs["pool"], d)' /\ Cleared(jobs["reclaim"], d)'
  BY DEF Drives
<1> DEFINE p == jobs["pool"]  q == jobs["reclaim"]
<1>0. /\ Services = {"pool", "reclaim"} /\ jobs \in [Services -> Work]
      /\ NoJob.members = {}
  BY DEF TypeOK, Services, NoJob
<1>1. ~disturbed
  BY BuildingAside
  DEF Next, Request, Builds, Append, Aside, Reclaims, Ask, Destroy, Unrecord,
         RebuildStarts, RebuildEnds, Restart, Tick, Loaded, Save, vars
<1>2. Built(p, d) /\ Cleared(q, d)
  BY <1>1 DEF Drives
<1>3. UNION p.formatted \subseteq p.members
  <2>1. CASE p = NoJob
    BY <2>1 DEF NoJob
  <2> QED
    BY <2>1, PoolFacts
<1>4. CASE Request
  <2>1. Start /\ UNCHANGED <<content, open, scarred>>
    BY <1>4 DEF Request, box
  <2>2. PICK s \in Services, w \in Work :
           /\ Idle /\ jobs' = [jobs EXCEPT ![s] = w]
           /\ w.at = "validate" /\ w.left = {} /\ w.formatted = {}
    BY <2>1, StartWork
  <2>3. \A t \in Services : jobs[t] = NoJob
    BY <2>2 DEF Idle, GoingIsAtWork
  <2>4. (content[d].luks \/ d \in open) => content[d].fs # 0 \/ d \in scarred
    BY <1>0, <1>2, <2>3, NoPoolJob
  <2>5. CASE s = "pool"
    <3>1. jobs'["pool"] = w /\ jobs'["reclaim"] = NoJob
      BY <1>0, <2>2, <2>3, <2>5
    <3> QED
      BY <2>1, <2>2, <2>4, <3>1, NoReclaimAfter DEF Built
  <2>6. CASE s = "reclaim"
    <3>1. jobs'["reclaim"] = w /\ jobs'["pool"] = NoJob
      BY <1>0, <2>2, <2>3, <2>6
    <3> QED
      BY <2>1, <2>2, <2>4, <3>1, NoPoolJobAfter DEF Cleared
  <2> QED
    BY <1>0, <2>5, <2>6
<1>5. CASE Append
  <2>1. /\ p # NoJob /\ p.at = "append" /\ UNCHANGED <<content, open, scarred>>
        /\ jobs'["pool"] = NoJob /\ jobs'["reclaim"] = jobs["reclaim"]
    BY <1>0, <1>5, NoVolume DEF Append, Ends, At, box
  <2>2. p.fs # 0 /\ jobs["reclaim"] = NoJob
    BY <2>1, PoolFacts
  <2>3. (content[d].luks \/ d \in open) => content[d].fs # 0 \/ d \in scarred
    BY <1>2, <1>3, <2>1, <2>2 DEF Built, AsBuilt
  <2> QED
    BY <2>1, <2>2, <2>3, NoPoolJobAfter, NoReclaimAfter
<1>6. CASE Building
  BY <1>1, <1>6, BuildingDrives
<1>7. CASE Reclaims
  BY <1>1, <1>7, ReclaimDrives DEF Reclaims
<1>8. CASE Destroy
  <2>1. PICK r \in Named(call.seen, call.name) :
           /\ mounted' = mounted \ {r.fs}
           /\ \E stuck \in SUBSET open :
                 /\ stuck \subseteq r.members /\ open' = open \ (r.members \ stuck)
                 /\ scarred' = (scarred \ r.members) \cup stuck
           /\ Erase(r.members)
           /\ disturbed' = (disturbed \/ AtWork(r.members))
    BY <1>8 DEF Destroy
  <2>2. jobs' = jobs /\ overlooked' = overlooked
    BY <1>8 DEF Destroy
  <2>3. ~AtWork(r.members)
    BY <2>1
  <2>4. CASE d \in r.members
    <3>1. d \notin p.members /\ d \notin q.members
      BY <1>0, <2>3, <2>4 DEF AtWork
    <3>2. content'[d] = Blank /\ (d \in open' => d \in scarred')
      BY <2>1, <2>4, Erased
    <3> QED
      BY <1>2, <1>3, <2>2, <3>1, <3>2 DEF Built, Cleared, Blank
  <2>5. CASE d \notin r.members
    <3>1. /\ content'[d] = content[d] /\ (d \in open' <=> d \in open)
          /\ d \in scarred' <=> d \in scarred
      BY <2>1, <2>5, Erased
    <3>2. Mounted(d)' => Mounted(d)
      BY <2>1, <3>1 DEF Mounted
    <3> QED
      BY <1>2, <2>2, <3>1, <3>2, DriveKept
  <2> QED
    BY <2>4, <2>5
<1>9. CASE RebuildEnds
  <2> DEFINE up == {e \in Disks : content[e].fs \in mounted'}
  <2>1. jobs' = jobs /\ content' = content /\ scarred' = scarred /\ overlooked' = overlooked
    BY <1>9 DEF RebuildEnds
  <2>2. CASE UNCHANGED <<mounted, open>>
    <3>1. Mounted(d)' => Mounted(d)
      BY <2>1, <2>2 DEF Mounted
    <3> QED
      BY <1>2, <2>1, <2>2, <3>1, DriveKept
  <2>3. CASE /\ open' = open \cup {e \in Disks : content[e].luks /\ content[e].fs \in mounted'}
             /\ disturbed' = (disturbed \/ AtWork(up))
    <3>1. ~AtWork(up)
      BY <2>3
    <3>2. CASE d \in up
      <4>1. d \notin p.members /\ d \notin q.members
        BY <1>0, <3>1, <3>2 DEF AtWork
      <4>2. content[d].fs # 0
        <5>1. mounted' \subseteq Volumes
          BY TypeStep DEF TypeOK
        <5> QED
          BY <3>2, <5>1, StorageAssumption DEF Volumes
      <4> QED
        BY <1>2, <1>3, <2>1, <4>1, <4>2 DEF Built, Cleared
    <3>3. CASE d \notin up
      <4>1. (d \in open' <=> d \in open) /\ ~Mounted(d)'
        BY <2>1, <2>3, <3>3 DEF Mounted
      <4> QED
        BY <1>2, <2>1, <4>1, DriveKept
    <3> QED
      BY <3>2, <3>3
  <2> QED
    BY <1>9, <2>2, <2>3 DEF RebuildEnds
<1>10. CASE Restart
  <2>1. /\ UNCHANGED <<content, open, scarred>> /\ jobs' = [s \in Services |-> NoJob]
        /\ disturbed' = (disturbed \/ AtWork(Disks))
    BY <1>10 DEF Restart, box
  <2>2. jobs'["pool"] = NoJob /\ jobs'["reclaim"] = NoJob
    BY <1>0, <2>1
  <2>3. d \notin p.members
    BY <1>0, <2>1 DEF AtWork
  <2>4. (content[d].luks \/ d \in open) => content[d].fs # 0 \/ d \in scarred
    BY <1>2, <1>3, <2>3 DEF Built
  <2> QED
    BY <2>1, <2>2, <2>4, NoPoolJobAfter, NoReclaimAfter
<1>11. CASE UNCHANGED <<content, open, mounted, jobs, scarred, overlooked>>
  <2>1. Mounted(d)' => Mounted(d)
    BY <1>11 DEF Mounted
  <2> QED
    BY <1>2, <1>11, <2>1, DriveKept
<1> QED
  BY <1>4, <1>5, <1>6, <1>7, <1>8, <1>9, <1>10, <1>11
  DEF Next, Builds, Ask, Unrecord, RebuildStarts, Tick, Loaded, Save, vars, box

-----------------------------------------------------------------------------
(* The theorems. *)

\* IInv holds at every state: what a job has done to its drives, and what is on
\* them, as long as nothing else reached for them.
THEOREM Invariance == Spec => []IInv
<1>1. Init => IInv
  <2> SUFFICES ASSUME Init PROVE IInv
    OBVIOUS
  <2>1. /\ \A s \in Services : jobs[s] = NoJob
        /\ jobs["pool"] = NoJob /\ jobs["reclaim"] = NoJob
    BY DEF Init, Services
  <2>2. TypeOK
    <3>1. NoJob \in Work
      BY StorageAssumption DEF NoJob, Work, Kinds, Stages
    <3>2. content \in [Disks -> [fs : 0 .. MaxVolumes, luks : BOOLEAN, array : SUBSET Disks]]
      BY StorageAssumption DEF Init, Blank
    <3>3. /\ jobs \in [Services -> Work]
          /\ status \in [Services -> {"idle", "going", "completed", "error"}]
      BY <3>1 DEF Init
    <3>4. call \in [kind : {"none", "destroy", "forget"}, at : {"none", "teardown", "write"},
                    name : Names \cup {"none"}, seen : SUBSET Records,
                    by : {"none", "page", "other"}]
      BY DEF Init, NoCall
    <3>5. page \in [at : {"idle", "poll", "load", "save"}, of : Services \cup {"none"},
                    view : SUBSET Records]
      BY DEF Init
    <3>6. /\ open \subseteq Disks /\ mounted \subseteq Volumes /\ records \subseteq Records
          /\ made \in 0 .. MaxVolumes /\ kept \subseteq Volumes /\ events \in 0 .. MaxEvents
          /\ scarred \subseteq Disks /\ overlooked \subseteq Disks
      BY StorageAssumption DEF Init
    <3>7. rebuild \in BOOLEAN /\ disturbed \in BOOLEAN
      BY DEF Init
    <3> QED
      BY <3>2, <3>3, <3>4, <3>5, <3>6, <3>7 DEF TypeOK
  <2>3. GoingIsAtWork /\ OneJob /\ Progress
    BY <2>1 DEF Init, GoingIsAtWork, OneJob, Progress, Services
  <2>4. Fresh
    <3>1. Known = {} /\ mounted = {}
      BY <2>1 DEF Init, Known, NoCall, NoJob
    <3> QED
      BY <2>1, <3>1 DEF Fresh
  <2>5. Drives
    <3>1. \A d \in Disks : ~content[d].luks /\ d \notin open
      BY DEF Init, Blank
    <3>2. \A d \in Disks : Built(NoJob, d)
      BY <3>1, NoPoolJob
    <3>3. \A d : Cleared(NoJob, d)
      BY DEF Cleared, NoJob
    <3> QED
      BY <2>1, <3>2, <3>3 DEF Drives
  <2> QED
    BY <2>2, <2>3, <2>4, <2>5 DEF IInv
<1>2. IInv /\ [Next]_vars => IInv'
  BY TypeStep, JobStep, FreshStep, ProgressStep, DrivesStep DEF IInv
<1> QED
  BY <1>1, <1>2, PTL DEF Spec

\* Every variable keeps its type.
THEOREM TypeCorrect == Spec => []TypeOK
<1>1. IInv => TypeOK
  BY DEF IInv
<1> QED
  BY <1>1, Invariance, PTL

\* A service says that it runs a job exactly when there is a thread that will
\* still report.
THEOREM GoingHasThread == Spec => []GoingIsAtWork
<1>1. IInv => GoingIsAtWork
  BY DEF IInv
<1> QED
  BY <1>1, Invariance, PTL

\* Between jobs no drive is left with a header or an open mapper and nothing in
\* it, at whatever command the last job failed, but for those that a clean-up
\* failed to clear.
THEOREM FailuresClean == Spec => []NoHalfBuilt
<1>1. IInv => NoHalfBuilt
  <2> SUFFICES ASSUME IInv, \A s \in Services : jobs[s] = NoJob, ~disturbed,
                      NEW d \in Disks
               PROVE  content[d].luks \/ d \in open => content[d].fs # 0 \/ d \in scarred
    BY DEF NoHalfBuilt
  <2>1. jobs["pool"] = NoJob /\ Built(jobs["pool"], d)
    BY DEF IInv, Drives, Services
  <2> QED
    BY <2>1, NoPoolJob
<1> QED
  BY <1>1, Invariance, PTL

\* No job changes a drive whose filesystem is mounted, unless it was disturbed or
\* the last check before a reclaim could not see the mount.
THEOREM JobsSpareMounted == Spec => MountedUntouched
<1> DEFINE A == \A d \in Disks : content'[d] # content[d] /\ jobs' # jobs =>
                    ~Mounted(d) \/ disturbed \/ d \in overlooked
<1>1. IInv /\ [Next]_vars => A
  <2> SUFFICES ASSUME IInv, [Next]_vars, NEW d \in Disks, content'[d] # content[d],
                      jobs' # jobs, Mounted(d), ~disturbed, d \notin overlooked
               PROVE  FALSE
    OBVIOUS
  <2> DEFINE j == jobs["pool"]
  <2>0. TypeOK /\ OneJob /\ Fresh /\ Progress /\ Built(j, d) /\ Cleared(jobs["reclaim"], d)
    BY DEF IInv, Drives
  <2>1. CASE Building
    <3>1. /\ j # NoJob /\ LayersDone(j) /\ UNION j.formatted \subseteq j.members
          /\ content[d].fs \notin {0, j.fs}
      BY <2>0, <2>1, PoolStep, PoolFacts
    <3>2. CASE Wipe
      <4>1. PICK ds : (\A e \in ds : ~Busy(e)) /\ Fill(ds, 0, FALSE)
        BY <3>2 DEF Wipe
      <4> QED
        BY <2>0, <4>1, Filled DEF Busy
    <3>3. CASE BuildArray
      <4>1. j.at = "array" /\ d \in j.members
        BY <3>3 DEF BuildArray, At, Put, Job
      <4> QED
        BY <2>0, <3>1, <4>1 DEF Built, AsBuilt
    <3>4. CASE LuksFormat
      <4>1. PICK ds \in Layers(j) : Fill(ds, 0, TRUE)
        BY <3>4 DEF LuksFormat, Job
      <4>2. d \in ds
        BY <2>0, <4>1, Filled
      <4>3. j.at = "format" /\ d \in j.members
        BY <3>4, <4>1, <4>2, LayersCover DEF LuksFormat, At
      <4> QED
        BY <2>0, <3>1, <4>3 DEF Built, AsBuilt
    <3>5. CASE Mkfs
      <4>1. j.at = "mkfs" /\ d \in j.members
        BY <3>5 DEF Mkfs, At, Fill, Put, Job
      <4> QED
        BY <2>0, <3>1, <4>1 DEF Built, AsBuilt
    <3>6. CASE RollbackErase
      <4>1. PICK ds \in j.formatted :
               Fill(ds, 0, FALSE) \/ UNCHANGED content \/ Fill(ds, 0, TRUE)
        BY <3>6 DEF RollbackErase, Job
      <4>2. j.at = "rollback" /\ d \in UNION j.formatted
        BY <2>0, <3>6, <4>1, Filled DEF RollbackErase, At
      <4> QED
        BY <2>0, <3>1, <4>2 DEF Built
    <3> QED
      BY <2>1, <3>2, <3>3, <3>4, <3>5, <3>6
      DEF Building, Validate, CloseOld, LuksOpen, ReadRecords, Fails, RollbackClose,
          RollbackEnds, box
  <2>2. CASE Zap
    <3>1. PICK ds \in jobs["reclaim"].left : Erase(ds)
      BY <2>2 DEF Zap, Job
    <3>2. d \in ds
      BY <2>0, <3>1, Erased
    <3> QED
      BY <2>0, <2>2, <3>1, <3>2 DEF Cleared, Zap, At
  <2> QED
    BY <2>1, <2>2
    DEF Next, Request, Builds, Append, Reclaims, Recheck, TearDown, GivesUp, Ask,
        Destroy, Unrecord, RebuildStarts, RebuildEnds, Restart, Tick, Loaded, Save,
        vars, box
<1>2. IInv /\ [Next]_vars => [A]_vars
  BY <1>1
<1> QED
  BY <1>2, Invariance, PTL DEF Spec, MountedUntouched

\* A volume is put on record when its filesystem is on all of its drives, with
\* the mappers open if it is encrypted, unless the job was disturbed.
THEOREM RecordsAreBuilt == Spec => RecordedWhenBuilt
<1> DEFINE A == \A r \in records' \ records :
                    r.fs = jobs["pool"].fs /\ ~disturbed =>
                        \A d \in r.members : /\ content[d].fs = r.fs
                                             /\ content[d].luks => d \in open
<1>1. IInv /\ [Next]_vars => A
  <2> SUFFICES ASSUME IInv, [Next]_vars, NEW r \in records' \ records,
                      r.fs = jobs["pool"].fs, ~disturbed, NEW d \in r.members
               PROVE  content[d].fs = r.fs /\ (content[d].luks => d \in open)
    OBVIOUS
  <2> DEFINE j == jobs["pool"]
  <2>0. TypeOK /\ OneJob /\ Fresh /\ Progress /\ TypeOK'
    BY TypeStep DEF IInv
  <2>1. r \notin Known
    <3>1. ASSUME r \in Known PROVE FALSE
      <4>1. r.fs # 0
        BY <2>0, StorageAssumption DEF TypeOK, Records, Volumes
      <4>2. j # NoJob
        BY <4>1 DEF NoJob
      <4>3. r.fs <= made /\ r.fs < made /\ r.fs = made
        BY <2>0, <3>1, <4>2 DEF Fresh, Handed
      <4> QED
        BY <2>0, <4>3, StorageAssumption DEF TypeOK
    <3> QED
      BY <3>1
  <2>2. Append
    BY <2>1, BuildingAside
    DEF Next, Request, Builds, Aside, Reclaims, Ask, Destroy, Unrecord, RebuildStarts,
        RebuildEnds, Restart, Tick, Loaded, Save, vars, Known
  <2>3. j.at = "append" /\ j # NoJob /\ r.members = j.members
    BY <2>1, <2>2, NoVolume DEF Append, At, Job, Known
  <2>4. d \in Disks /\ LayersDone(j)
    BY <2>0, <2>3, PoolFacts DEF TypeOK, Work, Services
  <2>5. AsBuilt(j, d)
    BY <2>3, <2>4 DEF IInv, Drives, Built
  <2> QED
    BY <2>3, <2>4, <2>5 DEF AsBuilt, LayersDone
<1>2. IInv /\ [Next]_vars => [A]_vars
  BY <1>1
<1> QED
  BY <1>2, Invariance, PTL DEF Spec, RecordedWhenBuilt
================================================================================
