------------------------------ MODULE StoragePool ------------------------------
(***************************************************************************)
(* The volumes of the Storage page: the background jobs that create,       *)
(* reformat and reclaim them (services/storage_pool.py,                    *)
(* services/storage_reclaim.py), the requests that destroy or forget one,  *)
(* and the page that starts a job, polls it and pushes the new list of     *)
(* volumes into the configuration (modules/storage-module.js).             *)
(*                                                                         *)
(* A job is a daemon thread of the admin API that runs one command after   *)
(* the other, any of which may fail; a command that fails has changed      *)
(* nothing.  What cleans up after one is not checked (_luks_close,         *)
(* _luks_erase), and a probe of the mounts that fails reads as nothing     *)
(* mounted (_run in resolvers/storage.py).  A restart of the API kills the *)
(* thread where it stands.  Destroying and forgetting run in a thread of   *)
(* their own.  Everyone reads the whole "storage" section of the           *)
(* configuration and writes it whole.                                      *)
(***************************************************************************)
EXTENDS Naturals, FiniteSets

CONSTANTS
    Disks,       \* drives, by id
    Names,       \* of volumes
    ParityMin,   \* drives of a parity volume (PROFILE_MIN_MEMBERS)
    MaxVolumes,  \* bound: jobs that create or reformat a volume
    MaxEvents    \* bound: rebuilds, restarts, reclaims, requests to destroy
                 \* or forget, requests of the page that fail

ASSUME StorageAssumption ==
    /\ MaxVolumes \in Nat \ {0} /\ MaxEvents \in Nat /\ ParityMin \in Nat \ {0}

VARIABLES
    content,   \* of a drive: filesystem (0 for none), LUKS header, md array
    open,      \* drives that an open LUKS mapper holds
    mounted,   \* filesystems
    records,   \* storage.pools in homefree-config.json
    jobs,      \* the thread of each service
    status,    \* _status of each service; _running while "going"
    made,      \* filesystems handed out, one for each job
    call,      \* a request to destroy or forget a volume
    rebuild,   \* is a rebuild running
    page,      \* what the Storage page waits for, and its list of volumes
    \* History: volumes whose creation was recorded and that nobody removed;
    \* was a job killed, or did a request or a rebuild reach for its drives?
    kept, disturbed,
    \* Drives that a clean-up which failed left as they were, and mounted drives
    \* that the reclaim at work took for free because a probe failed.
    scarred, overlooked,
    \* Bound.
    events

box   == <<content, open, mounted>>
vars  == <<box, records, jobs, status, made, call, rebuild, page, kept, disturbed,
           scarred, overlooked, events>>

-----------------------------------------------------------------------------
Services == {"pool", "reclaim"}
Volumes  == 1 .. MaxVolumes
Records  == [name : Names, fs : Volumes, members : SUBSET Disks]

Blank == [fs |-> 0, luks |-> FALSE, array |-> {}]
NoJob == [kind |-> "none", at |-> "none", name |-> "none", members |-> {},
          enc |-> FALSE, parity |-> FALSE, left |-> {}, formatted |-> {},
          opened |-> {}, fs |-> 0, seen |-> {}]
NoCall == [kind |-> "none", at |-> "none", name |-> "none", seen |-> {}, by |-> "none"]

\* What a job is, and the command it is at.
Kinds  == {"none", "create", "reformat", "reclaim"}
Stages == {"none", "validate", "close", "wipe", "array", "format", "open", "mkfs",
           "read", "append", "rollback"}
Work   == [kind : Kinds, at : Stages, name : Names \cup {"none"}, members : SUBSET Disks,
           enc : BOOLEAN, parity : BOOLEAN, left : SUBSET SUBSET Disks,
           formatted : SUBSET SUBSET Disks, opened : SUBSET SUBSET Disks,
           fs : 0 .. MaxVolumes, seen : SUBSET Records]

TypeOK ==
    /\ content \in [Disks -> [fs : 0 .. MaxVolumes, luks : BOOLEAN, array : SUBSET Disks]]
    /\ open \subseteq Disks /\ mounted \subseteq Volumes
    /\ records \subseteq Records
    /\ jobs \in [Services -> Work]
    /\ status \in [Services -> {"idle", "going", "completed", "error"}]
    /\ made \in 0 .. MaxVolumes
    /\ call \in [kind : {"none", "destroy", "forget"}, at : {"none", "teardown", "write"},
                 name : Names \cup {"none"}, seen : SUBSET Records,
                 by : {"none", "page", "other"}]
    /\ page \in [at : {"idle", "poll", "load", "save"}, of : Services \cup {"none"},
                 view : SUBSET Records]
    /\ rebuild \in BOOLEAN /\ disturbed \in BOOLEAN
    /\ kept \subseteq Volumes /\ events \in 0 .. MaxEvents
    /\ scarred \subseteq Disks /\ overlooked \subseteq Disks

\* No volume yet.
Init ==
    /\ content = [d \in Disks |-> Blank] /\ open = {} /\ mounted = {}
    /\ records = {} /\ made = 0
    /\ jobs = [s \in Services |-> NoJob] /\ status = [s \in Services |-> "idle"]
    /\ call = NoCall /\ rebuild = FALSE
    /\ page = [at |-> "idle", of |-> "none", view |-> {}]
    /\ kept = {} /\ disturbed = FALSE /\ scarred = {} /\ overlooked = {} /\ events = 0

Event == events < MaxEvents /\ events' = events + 1

-----------------------------------------------------------------------------
(* The drives. *)

Mounted(d) == content[d].fs \in mounted
Busy(d)    == Mounted(d) \/ d \in open

\* list_drives.  A volume on record that no rebuild has mounted yet does not
\* keep its drives from being picked again.  Mappers and arrays are read from
\* the kernel; what is mounted takes probes, and they are answered or not.
Eligible(d, answered) ==
    d \notin open /\ content[d].array = {} /\ (answered => ~Mounted(d))

\* A filesystem on several drives is mounted from one of them: that another is
\* part of it, only "btrfs filesystem show" tells.
Shared(d) == \E e \in Disks \ {d} : content[e].fs = content[d].fs

Something(d) == content[d] # Blank \/ d \in open
\* Mutant: a drive that is mounted may be wiped.
Reclaimable_InUse(d, answered) == Something(d)
Reclaimable(d, answered) == Something(d) /\ (Mounted(d) => ~answered /\ Shared(d))

\* _reclaim_groups: what is left of an array is wiped as a whole.
Group(d) == IF content[d].array = {} THEN {d}
            ELSE {e \in Disks : content[e].array = content[d].array}

\* Where LUKS goes: below btrfs each drive has its own, an array has one.
Layers(j) == IF j.parity THEN {j.members} ELSE {{d} : d \in j.members}

Put(ds, new(_)) == content' = [d \in Disks |-> IF d \in ds THEN new(content[d]) ELSE content[d]]
Erase(ds) == LET Nothing(c) == Blank IN Put(ds, Nothing)
Fill(ds, fs, luks) ==
    LET Filled(c) == [c EXCEPT !.fs = fs, !.luks = luks] IN Put(ds, Filled)

-----------------------------------------------------------------------------
(* start, start_reformat and start of the reclaim service: one job at a    *)
(* time over both services, and none while a rebuild runs.                 *)

Idle == \A s \in Services : status[s] # "going"

\* Mutant: reclaim does not ask for a running creation.
Launch_Alone(s, job) ==
    /\ status[s] # "going" /\ ~rebuild
    /\ jobs' = [jobs EXCEPT ![s] = job]
    /\ status' = [status EXCEPT ![s] = "going"]

Launch(s, job) ==
    /\ Idle /\ ~rebuild
    /\ jobs' = [jobs EXCEPT ![s] = job]
    /\ status' = [status EXCEPT ![s] = "going"]

Named(rs, n) == {r \in rs : r.name = n}

\* The request is validated first: the name must be new.
StartVolume(kind, n, ds, enc, parity) ==
    /\ made < MaxVolumes /\ made' = made + 1
    /\ ds # {} /\ Named(records, n) = {}
    /\ parity => Cardinality(ds) >= ParityMin
    /\ kind = "reformat" => parity /\ \A d \in ds : content[d].array = ds
    /\ Launch("pool", [NoJob EXCEPT !.kind = kind, !.at = "validate", !.name = n,
                          !.members = ds, !.enc = enc, !.parity = parity, !.fs = made'])

StartReclaim(d) ==
    /\ Event
    /\ \E answered \in BOOLEAN : \A e \in Group(d) : Reclaimable(e, answered)
    /\ Launch("reclaim", [NoJob EXCEPT !.kind = "reclaim", !.at = "validate",
                              !.members = Group(d)])
    /\ UNCHANGED made

Start ==
    \/ /\ \E kind \in {"create", "reformat"}, n \in Names, ds \in SUBSET Disks,
             enc \in BOOLEAN, parity \in BOOLEAN : StartVolume(kind, n, ds, enc, parity)
       /\ UNCHANGED events
    \/ \E d \in Disks : StartReclaim(d)

-----------------------------------------------------------------------------
(* _run_create and _run_reformat. *)

Aside == <<records, made, call, rebuild, page, kept, disturbed, overlooked, events>>

Job(s)        == jobs[s]
At(s, kinds, step) == jobs[s].kind \in kinds /\ jobs[s].at = step
Goes(s, step) == jobs' = [jobs EXCEPT ![s].at = step]
Volume        == {"create", "reformat"}
Ends(s, how)  == /\ jobs' = [jobs EXCEPT ![s] = NoJob]
                 /\ status' = [status EXCEPT ![s] = how]

Validate ==
    LET j == Job("pool") IN
    /\ At("pool", Volume, "validate")
    /\ \/ /\ j.kind = "create"
          /\ \E answered \in BOOLEAN : \A d \in j.members : Eligible(d, answered)
          /\ jobs' = [jobs EXCEPT !["pool"].at = "wipe",
                         !["pool"].left = {{d} : d \in j.members}]
       \/ /\ j.kind = "reformat" /\ \A d \in j.members : content[d].array = j.members
          /\ Goes("pool", "close")
    /\ UNCHANGED <<box, status>>

\* Mappers are closed, but for one below a mounted filesystem and one that the
\* command fails for.
Closes(ds) == \/ UNCHANGED open
              \/ (\A d \in ds : ~Mounted(d)) /\ open' = open \ ds

\* The mapper on the array.
CloseOld ==
    LET j == Job("pool") IN
    /\ At("pool", {"reformat"}, "close")
    /\ Closes(j.members)
    /\ jobs' = [jobs EXCEPT !["pool"].at = "wipe", !["pool"].left = {j.members}]
    /\ UNCHANGED <<content, mounted, status>>

AfterWipe(j) == IF j.parity /\ j.kind = "create" THEN "array"
                ELSE IF j.enc THEN "format" ELSE "mkfs"

\* wipefs refuses a device that is in use.
Wipe ==
    LET j == Job("pool") IN
    /\ At("pool", Volume, "wipe")
    /\ \E ds \in j.left :
        /\ \A d \in ds : ~Busy(d)
        /\ Fill(ds, 0, FALSE) /\ scarred' = scarred \ ds
        /\ jobs' = [jobs EXCEPT !["pool"].left = @ \ {ds},
                       !["pool"].at = IF j.left = {ds} THEN AfterWipe(j) ELSE "wipe"]
    /\ UNCHANGED <<open, mounted, status, Aside>>

BuildArray ==
    LET j == Job("pool")
        Joined(c) == [c EXCEPT !.array = j.members]
    IN  /\ At("pool", {"create"}, "array")
        /\ Put(j.members, Joined)
        /\ Goes("pool", IF j.enc THEN "format" ELSE "mkfs")
        /\ UNCHANGED <<open, mounted, status>>

LuksFormat ==
    LET j == Job("pool") IN
    /\ At("pool", Volume, "format")
    /\ \E ds \in Layers(j) \ j.formatted :
        /\ Fill(ds, 0, TRUE)
        /\ jobs' = [jobs EXCEPT !["pool"].at = "open", !["pool"].formatted = @ \cup {ds}]
    /\ UNCHANGED <<open, mounted, status>>

LuksOpen ==
    LET j == Job("pool") IN
    /\ At("pool", Volume, "open")
    /\ \E ds \in j.formatted \ j.opened :
        /\ open' = open \cup ds
        /\ jobs' = [jobs EXCEPT !["pool"].opened = @ \cup {ds},
                       !["pool"].at = IF j.formatted = Layers(j) THEN "mkfs" ELSE "format"]
    /\ UNCHANGED <<content, mounted, status>>

\* The filesystem is made; what follows only reads its UUID, and may fail.
Mkfs ==
    LET j == Job("pool") IN
    /\ At("pool", Volume, "mkfs")
    /\ Fill(j.members, j.fs, j.enc)
    /\ Goes("pool", "read")
    /\ UNCHANGED <<open, mounted, status>>

\* _append_pool reads the configuration,
ReadRecords ==
    /\ At("pool", Volume, "read")
    /\ jobs' = [jobs EXCEPT !["pool"].at = "append", !["pool"].seen = records]
    /\ UNCHANGED <<box, status>>

\* and writes what it read with the new volume.
Append ==
    LET j == Job("pool") IN
    /\ At("pool", Volume, "append")
    /\ records' = j.seen \cup {[name |-> j.name, fs |-> j.fs, members |-> j.members]}
    /\ kept' = kept \cup {j.fs}
    /\ Ends("pool", "completed")
    /\ UNCHANGED <<box, made, call, rebuild, page, disturbed, scarred, overlooked, events>>

\* A command fails, or finds a drive gone, ineligible or in use.
Fails ==
    /\ Job("pool").at \notin {"none", "rollback"}
    /\ Goes("pool", "rollback")
    /\ UNCHANGED <<box, status>>

\* The rollback.  First the mappers are closed, whatever becomes of it,
RollbackClose ==
    LET j == Job("pool") IN
    /\ At("pool", Volume, "rollback")
    /\ \E ds \in j.opened :
        /\ Closes(ds)
        /\ scarred' = scarred \cup (ds \cap open')
        /\ jobs' = [jobs EXCEPT !["pool"].opened = @ \ {ds}]
    /\ UNCHANGED <<content, mounted, status, Aside>>

\* then the headers erased: a device in use keeps its header, and so does one
\* that a command fails for, with or without the keys to what was below it.
RollbackErase ==
    LET j == Job("pool") IN
    /\ At("pool", Volume, "rollback") /\ j.opened = {}
    /\ \E ds \in j.formatted :
        /\ \/ (\A d \in ds : ~Busy(d)) /\ Fill(ds, 0, FALSE) /\ UNCHANGED scarred
           \/ (UNCHANGED content \/ Fill(ds, 0, TRUE)) /\ scarred' = scarred \cup ds
        /\ jobs' = [jobs EXCEPT !["pool"].formatted = @ \ {ds}]
    /\ UNCHANGED <<open, mounted, status, Aside>>

\* Mutant: the headers are left on the drives.
RollbackEnds_NoErase ==
    /\ At("pool", Volume, "rollback") /\ Job("pool").opened = {}
    /\ Ends("pool", "error")

\* Mutant: the failure is only logged.
RollbackEnds_Silent ==
    LET j == Job("pool") IN
    /\ At("pool", Volume, "rollback") /\ j.opened = {} /\ j.formatted = {}
    /\ jobs' = [jobs EXCEPT !["pool"] = NoJob]
    /\ UNCHANGED status

\* and the job reports its error, nothing more.  What was formatted without
\* encryption stays.
RollbackEnds ==
    LET j == Job("pool") IN
    /\ At("pool", Volume, "rollback") /\ j.opened = {} /\ j.formatted = {}
    /\ Ends("pool", "error")

Building ==
    \/ Wipe \/ RollbackClose \/ RollbackErase
    \/ /\ \/ Validate \/ CloseOld \/ BuildArray \/ LuksFormat \/ LuksOpen
          \/ Mkfs \/ ReadRecords \/ Fails
       /\ UNCHANGED <<scarred, Aside>>
    \/ RollbackEnds /\ UNCHANGED <<box, scarred, Aside>>

Builds == Append \/ Building

-----------------------------------------------------------------------------
(* StorageReclaimService._run. *)

\* The group is derived once more; nothing of it may be seen to be mounted.
Recheck ==
    LET j == Job("reclaim") IN
    /\ At("reclaim", {"reclaim"}, "validate")
    /\ \A d \in j.members : Group(d) = j.members
    /\ \E answered \in BOOLEAN :
        /\ \A d \in j.members : Reclaimable(d, answered)
        /\ overlooked' = IF answered THEN {} ELSE {d \in j.members : Mounted(d)}
    /\ Goes("reclaim", "close")
    /\ UNCHANGED <<box, status, scarred>>

\* Mappers are closed and arrays stopped, and here a failure counts: what is
\* below a mounted filesystem refuses.
TearDown ==
    LET j == Job("reclaim") IN
    /\ At("reclaim", {"reclaim"}, "close")
    /\ \A d \in j.members : Mounted(d) => d \notin open /\ content[d].array = {}
    /\ open' = open \ j.members
    /\ jobs' = [jobs EXCEPT !["reclaim"].at = "wipe",
                   !["reclaim"].left = {{d} : d \in j.members}]
    /\ UNCHANGED <<content, mounted, status, scarred, overlooked>>

\* sgdisk --zap-all does not ask whether the drive is in use.
Zap ==
    LET j == Job("reclaim") IN
    /\ At("reclaim", {"reclaim"}, "wipe")
    /\ \E ds \in j.left :
        /\ Erase(ds) /\ scarred' = scarred \ ds
        /\ IF j.left = {ds} THEN Ends("reclaim", "completed") /\ overlooked' = {}
           ELSE /\ jobs' = [jobs EXCEPT !["reclaim"].left = @ \ {ds}]
                /\ UNCHANGED <<status, overlooked>>
    /\ UNCHANGED <<open, mounted>>

\* Mutant: the outcome has a name that the page does not know.
GivesUp_Renamed ==
    /\ Job("reclaim").at # "none"
    /\ Ends("reclaim", "failed") /\ overlooked' = {}
    /\ UNCHANGED <<box, scarred>>

GivesUp ==
    /\ Job("reclaim").at # "none"
    /\ Ends("reclaim", "error") /\ overlooked' = {}
    /\ UNCHANGED <<box, scarred>>

Reclaims ==
    /\ Recheck \/ TearDown \/ Zap \/ GivesUp
    /\ UNCHANGED <<records, made, call, rebuild, page, kept, disturbed, events>>

-----------------------------------------------------------------------------
(* Requests that change the list of volumes in a thread of their own: they *)
(* ask neither for a running job nor for a rebuild.                        *)

Ask(kind, n, by) ==
    /\ call = NoCall /\ Event
    /\ Named(records, n) # {}
    /\ by = "page" => page.at = "idle"
    /\ call' = [kind |-> kind, at |-> IF kind = "destroy" THEN "teardown" ELSE "write",
                name |-> n, seen |-> records, by |-> by]
    /\ UNCHANGED <<box, records, jobs, status, made, rebuild, page, kept, disturbed,
                   scarred, overlooked>>

\* Do the drives ds belong to a job that is at work?
AtWork(ds) == \E s \in Services : jobs[s].members \cap ds # {}

\* destroy_pool: unmount, lazily if need be, close, stop and wipe; a mapper may
\* stay open, the drives are zapped all the same.
Destroy ==
    /\ call.at = "teardown"
    /\ \E r \in Named(call.seen, call.name), stuck \in SUBSET open :
        /\ stuck \subseteq r.members /\ \A d \in stuck : Group(d) \cap open \subseteq stuck
        /\ mounted' = mounted \ {r.fs}
        /\ open' = open \ (r.members \ stuck)
        /\ scarred' = (scarred \ r.members) \cup stuck
        /\ Erase(r.members)
        /\ disturbed' = (disturbed \/ AtWork(r.members))
    /\ call' = [call EXCEPT !.at = "write"]
    /\ UNCHANGED <<records, jobs, status, made, rebuild, page, kept, overlooked, events>>

\* The record goes, by writing the list that was read at the start.
Unrecord ==
    LET gone == Named(call.seen, call.name) IN
    /\ call.at = "write"
    /\ records' = call.seen \ gone
    /\ kept' = kept \ {r.fs : r \in gone}
    /\ call' = NoCall
    /\ page' = IF call.by = "page" THEN [page EXCEPT !.at = "load", !.of = "none"] ELSE page
    /\ UNCHANGED <<box, jobs, status, made, rebuild, disturbed, scarred, overlooked, events>>

-----------------------------------------------------------------------------
(* Rebuilds and restarts. *)

\* Apply does not ask for a running storage job.
RebuildStarts ==
    /\ ~rebuild /\ rebuild' = TRUE
    /\ Event
    /\ UNCHANGED <<box, records, jobs, status, made, call, page, kept, disturbed,
                   scarred, overlooked>>

\* A rebuild that succeeds mounts what is on record and complete.
RebuildEnds ==
    /\ rebuild /\ rebuild' = FALSE
    /\ \/ UNCHANGED <<mounted, open, disturbed>>
       \/ /\ mounted' = {r.fs : r \in {q \in records :
                                          \A d \in q.members : content[d].fs = q.fs}}
          /\ open' = open \cup {d \in Disks : content[d].luks /\ content[d].fs \in mounted'}
          /\ disturbed' = (disturbed \/ AtWork({d \in Disks : content[d].fs \in mounted'}))
    /\ UNCHANGED <<content, records, jobs, status, made, call, page, kept, scarred, overlooked,
                   events>>

\* The admin API restarts.
Restart ==
    /\ Event
    /\ jobs' = [s \in Services |-> NoJob] /\ status' = [s \in Services |-> "idle"]
    /\ call' = NoCall
    /\ disturbed' = (disturbed \/ AtWork(Disks)) /\ overlooked' = {}
    /\ page' = IF call.by = "page" THEN [page EXCEPT !.at = "idle"] ELSE page
    /\ UNCHANGED <<box, records, made, rebuild, kept, scarred>>

-----------------------------------------------------------------------------
(* The page. *)

\* _doCreate, _doReformat, _doReclaim; or another tab starts the job.
Request ==
    /\ Start
    /\ \/ UNCHANGED page
       \/ /\ page.at = "idle" /\ call.by # "page"
          /\ \E s \in Services : status'[s] # status[s]
                                 /\ page' = [page EXCEPT !.at = "poll", !.of = s]
    /\ UNCHANGED <<box, records, call, rebuild, kept, disturbed, scarred, overlooked>>

\* A tick of _pollStatus, _pollReformatStatus or _pollReclaim.
Tick ==
    /\ page.at = "poll"
    /\ \/ status[page.of] = "error" /\ page' = [page EXCEPT !.at = "idle"]
       \/ status[page.of] = "completed" /\ page' = [page EXCEPT !.at = "load"]
    /\ UNCHANGED <<box, records, jobs, status, made, call, rebuild, kept, disturbed,
                   scarred, overlooked, events>>

\* loadData keeps the list it has when a request fails; _emitPools pushes it
\* either way, but not after a reclaim.
Loaded ==
    /\ page.at = "load"
    /\ \E view \in {records, page.view} :
        /\ page' = [page EXCEPT !.view = view,
                       !.at = IF page.of = "reclaim" THEN "idle" ELSE "save"]
        /\ IF view = records THEN UNCHANGED events ELSE Event
    /\ UNCHANGED <<box, records, jobs, status, made, call, rebuild, kept, disturbed,
                   scarred, overlooked>>

\* The auto-save writes the storage section as the page has it.
Save ==
    /\ page.at = "save"
    /\ records' = page.view
    /\ page' = [page EXCEPT !.at = "idle"]
    /\ UNCHANGED <<box, jobs, status, made, call, rebuild, kept, disturbed, scarred, overlooked,
                   events>>

-----------------------------------------------------------------------------
Next ==
    \/ Request \/ Builds \/ Reclaims
    \/ \E kind \in {"destroy", "forget"}, n \in Names, by \in {"page", "other"} :
           Ask(kind, n, by)
    \/ Destroy \/ Unrecord
    \/ RebuildStarts \/ RebuildEnds \/ Restart
    \/ Tick \/ Loaded \/ Save

Spec == Init /\ [][Next]_vars

-----------------------------------------------------------------------------
(* RecordedWhenBuilt.  A volume is put on record when its filesystem is on *)
(* all of its drives, with the mappers open if it is encrypted, so that    *)
(* the next rebuild can mount it: unless the job was disturbed.            *)
RecordedWhenBuilt ==
    [][\A r \in records' \ records :
          r.fs = jobs["pool"].fs /\ ~disturbed =>
              \A d \in r.members : /\ content[d].fs = r.fs
                                   /\ content[d].luks => d \in open]_vars

(* MountedUntouched.  No job changes a drive whose filesystem is mounted,  *)
(* whatever the page saw when it asked: unless a rebuild mounted it while  *)
(* the job was at work, or the last check before a reclaim could not see   *)
(* that it was mounted.  A probe that fails when the job is asked for is   *)
(* not enough, and creating a volume is safe from both.                    *)
MountedUntouched ==
    [][\A d \in Disks : content'[d] # content[d] /\ jobs' # jobs =>
          ~Mounted(d) \/ disturbed \/ d \in overlooked]_vars

(* NoHalfBuilt.  Between jobs no drive is left with a LUKS header or an    *)
(* open mapper and nothing in it, at whatever command a job failed, so     *)
(* that the drives can be picked again: but for those where the clean-up   *)
(* itself failed, of which nobody is told, until they are wiped.           *)
NoHalfBuilt ==
    (\A s \in Services : jobs[s] = NoJob) /\ ~disturbed =>
        \A d \in Disks : content[d].luks \/ d \in open => content[d].fs # 0 \/ d \in scarred

(* GoingIsAtWork.  A service says that it runs a job exactly when there is *)
(* a thread that will still report, whichever way the last job ended: or   *)
(* else every later request is refused and a page polls forever.           *)
GoingIsAtWork == \A s \in Services : status[s] = "going" <=> jobs[s] # NoJob

(* CreatedStaysRecorded.  A volume whose creation was recorded stays on    *)
(* record until somebody removes it; the page claims to push "the new pool *)
(* list into the config flow so it shows as a pending change".             *)
CreatedStaysRecorded == \A f \in kept : \E r \in records : r.fs = f
=============================================================================
