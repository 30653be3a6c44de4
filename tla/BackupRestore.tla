--------------------------- MODULE BackupRestore ---------------------------
(***************************************************************************)
(* The life of the database file: boot with restore of a lost file         *)
(* (internal/restore), the setup screen's "restore from backup" and the    *)
(* restart it causes (internal/api/auth.go, cmd/feedla/main.go), the daily *)
(* snapshot with its local and remote generations (internal/maintenance,   *)
(* internal/remotebackup), process crashes and the loss of the volume.     *)
(*                                                                         *)
(* A file is the number of the last user commit in it.  Snapshots are      *)
(* named by the day in their file name.                                    *)
(***************************************************************************)
EXTENDS Integers, FiniteSets

CONSTANTS
    Request,      \* POST /auth/restore requests
    Generations,  \* FR_BACKUP_GENERATIONS, for both sides
    LastDay,      \* bound: days
    MaxCommit,    \* bound: user commits
    MaxFault      \* bound: crashes, lost volumes, failed writes

ASSUME BackupAssumption ==
    /\ Generations \in Nat \ {0} /\ LastDay \in Nat \ {0}
    /\ MaxCommit \in Nat \ {0} /\ MaxFault \in Nat

VARIABLES
    db,       \* FR_DB_PATH
    staged,   \* FR_DB_PATH.restore
    local,    \* day -> the snapshot of that day in FR_BACKUP_DIR
    remote,   \* day -> the object of that day in the bucket
    day,      \* today
    commits,  \* user commits so far
    faults,   \* faults so far
    phase,    \* where the serve command is
    pick,     \* the snapshot IfMissing is copying
    asked,    \* restoreCh of the present run holds a request
    maint,    \* the maintenance goroutine: [pc, stamp, data]
    req       \* request -> [pc, snap, data, current, mixed]

files == <<db, staged, local, remote>>
main == <<phase, pick, asked>>
vars == <<files, main, day, commits, faults, maint, req>>

Day == 1..LastDay
NoFile == -2
Torn == -1
Pending == 0   \* migrated and seeded, the admin still has the sentinel hash
Whole == 1..MaxCommit
File == {NoFile, Torn, Pending} \cup Whole

Snapshot == [source: {"local", "remote"}, day: Day]
NoSnap == [source |-> "none", day |-> 0]

Off == [pc |-> "off", stamp |-> 0, data |-> NoFile]
NoReq == [pc |-> "idle", snap |-> NoSnap, data |-> NoFile, current |-> TRUE, mixed |-> FALSE]

TypeOK ==
    /\ db \in File /\ staged \in File
    /\ local \in [Day -> File] /\ remote \in [Day -> File]
    /\ day \in Day /\ commits \in 0..MaxCommit /\ faults \in 0..MaxFault
    /\ phase \in {"down", "starting", "restoring", "running", "stopping", "restarting",
                 "promoting", "swapping"}
    /\ pick \in Snapshot \cup {NoSnap}
    /\ asked \in BOOLEAN
    /\ maint \in [pc: {"off", "start", "wait", "vacuum", "prune", "upload", "rprune"},
                  stamp: 0..LastDay, data: File]
    /\ req \in [Request -> [pc: {"idle", "checked", "chosen", "copying"},
                            snap: Snapshot \cup {NoSnap}, data: File,
                            current: BOOLEAN, mixed: BOOLEAN]]

\* A first start, a volume that was lost, or an instance that came up empty
\* and has been pointed at older backups since.  On day d the snapshot holds
\* commit d; it is on one side, on both, or on neither.
Init ==
    /\ db \in {NoFile, Pending} /\ staged = NoFile
    /\ commits \in 0..MaxCommit /\ commits =< LastDay
    /\ day = IF commits = 0 THEN 1 ELSE commits
    /\ \E l, r \in SUBSET (1..commits) :
          /\ local = [d \in Day |-> IF d \in l THEN d ELSE NoFile]
          /\ remote = [d \in Day |-> IF d \in r THEN d ELSE NoFile]
    /\ faults = 0 /\ phase = "down" /\ pick = NoSnap /\ asked = FALSE
    /\ maint = Off
    /\ req = [r \in Request |-> NoReq]

----------------------------------------------------------------------------
(* Finding and copying snapshots                                           *)

Stamps(side) == {d \in DOMAIN side : side[d] # NoFile}

Newest(side) == {d \in Stamps(side) : \A e \in Stamps(side) : e =< d}

\* The snapshot Latest finds, as a set of at most one; reached says whether
\* the bucket could be listed.
LatestMut(reached) ==
    IF Newest(local) # {} \/ ~reached
    THEN {[source |-> "local", day |-> d] : d \in Newest(local)}
    ELSE {[source |-> "remote", day |-> d] : d \in Newest(remote)}

Latest(reached) ==
    LET l == Newest(local)
        r == IF reached THEN Newest(remote) ELSE {}
    IN  IF r # {} /\ \A d \in l, e \in r : e > d
        THEN {[source |-> "remote", day |-> e] : e \in r}
        ELSE {[source |-> "local", day |-> d] : d \in l}

\* It fails, rather than find nothing, when only the bucket could tell.
LatestFailsMut(reached) == FALSE

LatestFails(reached) == ~reached /\ Newest(local) = {}

Content(snap) == IF snap.source = "local" THEN local[snap.day] ELSE remote[snap.day]

\* What the destination holds while it is being written: files are written
\* under another name and renamed.
DestWhileWritingMut(dest) == Torn

DestWhileWriting(dest) == dest

----------------------------------------------------------------------------
(* The serve command                                                       *)

\* At the top of runServe, in a new process or after a promotion.
Booting == phase \in {"down", "starting"}

\* IfMissing finds a snapshot and begins to copy it.
BootRestore(reached) ==
    /\ Booting /\ db = NoFile
    /\ \E s \in Latest(reached) : pick' = s
    /\ db' = DestWhileWriting(db)
    /\ phase' = "restoring"
    /\ UNCHANGED <<staged, local, remote, asked, day, commits, faults, maint, req>>

\* The rename, and store.Open.
BootRestored ==
    /\ phase = "restoring"
    /\ db' = Content(pick)
    /\ pick' = NoSnap
    /\ phase' = "starting"
    /\ UNCHANGED <<staged, local, remote, asked, day, commits, faults, maint, req>>

\* No snapshot anywhere: store.Open creates the file and migrates it.
BootFresh(reached) ==
    /\ Booting /\ db = NoFile
    /\ Latest(reached) = {} /\ ~LatestFails(reached)
    /\ db' = Pending
    /\ phase' = "starting"
    /\ UNCHANGED <<staged, local, remote, pick, asked, day, commits, faults, maint, req>>

\* Latest or the copy fails and so does the command.
BootFails ==
    /\ \/ Booting /\ db = NoFile /\ LatestFails(FALSE)
       \/ phase = "restoring"
    /\ faults < MaxFault
    /\ faults' = faults + 1
    /\ phase' = "down" /\ pick' = NoSnap
    /\ req' = [r \in Request |-> NoReq]
    /\ UNCHANGED <<files, asked, day, commits, maint>>

\* A new run, with a channel of its own: requests that are left over from
\* the run before keep theirs.
RunServe ==
    /\ Booting /\ db \notin {NoFile, Torn}
    /\ phase' = "running"
    /\ asked' = FALSE
    /\ maint' = [Off EXCEPT !.pc = "start"]
    /\ req' = [r \in Request |-> IF req[r].pc = "idle" THEN NoReq
                                 ELSE [req[r] EXCEPT !.current = FALSE]]
    /\ UNCHANGED <<files, pick, day, commits, faults>>

\* The select of runServe: a signal, or a restore request in restoreCh.
WindDown ==
    /\ phase = "running"
    /\ \/ phase' = "stopping"
       \/ asked /\ phase' = "restarting"
    /\ asked' = FALSE
    /\ UNCHANGED <<files, pick, day, commits, faults, maint, req>>

\* Both goroutines have reported; Shutdown gives requests ten seconds, the
\* copy of a snapshot may take five minutes.
Stopped ==
    /\ maint.pc = "wait"
    /\ \/ /\ phase = "stopping" /\ phase' = "down"
          /\ req' = [r \in Request |-> NoReq]
       \/ /\ phase = "restarting" /\ phase' = "promoting"
          /\ UNCHANGED req
    /\ maint' = Off
    /\ UNCHANGED <<files, pick, asked, day, commits, faults>>

\* PromoteStaged: remove, then rename, then runServe again.  The request was
\* sent after the file was staged, and nobody else takes it away.
PromoteRemove ==
    /\ phase = "promoting" /\ staged # NoFile
    /\ db' = NoFile
    /\ phase' = "swapping"
    /\ UNCHANGED <<staged, local, remote, pick, asked, day, commits, faults, maint, req>>

PromoteRename ==
    /\ phase = "swapping"
    /\ db' = staged /\ staged' = NoFile
    /\ phase' = "starting"
    /\ UNCHANGED <<local, remote, pick, asked, day, commits, faults, maint, req>>

Crash ==
    /\ phase # "down" /\ faults < MaxFault
    /\ faults' = faults + 1
    /\ phase' = "down" /\ pick' = NoSnap /\ asked' = FALSE
    /\ maint' = Off
    /\ req' = [r \in Request |-> NoReq]
    /\ UNCHANGED <<files, day, commits>>

\* A new machine: the data volume is gone, FR_BACKUP_DIR perhaps with it.
LoseVolume ==
    /\ phase = "down" /\ db # NoFile /\ faults < MaxFault
    /\ faults' = faults + 1
    /\ db' = NoFile /\ staged' = NoFile
    /\ local' \in {local, [d \in Day |-> NoFile]}
    /\ UNCHANGED <<remote, main, day, commits, maint, req>>

----------------------------------------------------------------------------
(* Requests                                                                *)

\* Until the store is closed: requests in flight outlive the listener.
Serving == phase \in {"running", "stopping", "restarting"}

\* handleAuthSetup: the UPDATE succeeds only on the sentinel hash.  Any other
\* user commit needs a session, and so an instance that is set up.
CompleteSetup ==
    /\ Serving /\ db = Pending /\ commits < MaxCommit
    /\ db' = commits + 1 /\ commits' = commits + 1
    /\ UNCHANGED <<staged, local, remote, main, day, faults, maint, req>>

UserCommit ==
    /\ Serving /\ db \in Whole /\ commits < MaxCommit
    /\ db' = commits + 1 /\ commits' = commits + 1
    /\ UNCHANGED <<staged, local, remote, main, day, faults, maint, req>>

\* handleAuthRestore checks that setup is pending ...
RestoreCheck(r) ==
    /\ Serving /\ db = Pending /\ req[r].pc = "idle"
    /\ req' = [req EXCEPT ![r].pc = "checked"]
    /\ UNCHANGED <<files, main, day, commits, faults, maint>>

\* ... then SetupRestore asks for the latest snapshot ...
RestoreLatest(r, reached) ==
    /\ req[r].pc = "checked"
    /\ IF Latest(reached) = {} THEN req' = [req EXCEPT ![r] = NoReq]
       ELSE \E s \in Latest(reached) :
              req' = [req EXCEPT ![r].pc = "chosen", ![r].snap = s]
    /\ UNCHANGED <<files, main, day, commits, faults, maint>>

\* ... opens it, which fails when it has been pruned, and creates
\* FR_DB_PATH.restore.tmp.  Two requests write to the same file.
RestoreCopy(r) ==
    /\ req[r].pc = "chosen"
    /\ LET others == {q \in Request \ {r} : req[q].pc = "copying"}
       IN  req' = IF Content(req[r].snap) = NoFile THEN [req EXCEPT ![r] = NoReq]
                  ELSE [q \in Request |->
                          IF q = r THEN [req[r] EXCEPT !.pc = "copying", !.snap = NoSnap,
                                                       !.data = Content(req[r].snap),
                                                       !.mixed = others # {}]
                          ELSE IF q \in others THEN [req[q] EXCEPT !.mixed = TRUE]
                          ELSE req[q]]
    /\ staged' = DestWhileWriting(staged)
    /\ UNCHANGED <<db, local, remote, main, day, commits, faults, maint>>

\* The rename into place and the send on the run's restoreCh.  A file two
\* requests have written to may have a hole where the other truncated it;
\* the second rename finds the name gone and its request fails.
RestoreStage(r) ==
    /\ req[r].pc = "copying"
    /\ \E data \in {req[r].data} \cup (IF req[r].mixed THEN {Torn} ELSE {}) :
          staged' = data
    /\ asked' = (asked \/ (req[r].current /\ phase = "running"))
    /\ req' = [q \in Request |->
                 IF q = r \/ (req[r].mixed /\ req[q].pc = "copying") THEN NoReq ELSE req[q]]
    /\ UNCHANGED <<db, local, remote, phase, pick, day, commits, faults, maint>>

\* The copy or the download fails: the temporary file is removed, and with it
\* the name any other copy was going to rename.
RestoreFails(r) ==
    /\ req[r].pc = "copying" /\ faults < MaxFault
    /\ faults' = faults + 1
    /\ req' = [q \in Request |->
                 IF q = r \/ (req[r].mixed /\ req[q].pc = "copying") THEN NoReq ELSE req[q]]
    /\ UNCHANGED <<files, main, day, commits, maint>>

----------------------------------------------------------------------------
(* Maintenance                                                             *)

NewDay ==
    /\ day < LastDay
    /\ day' = day + 1
    /\ UNCHANGED <<files, main, commits, faults, maint, req>>

At(pc) == maint.pc = pc
Goto(pc) == maint' = [maint EXCEPT !.pc = pc]
Back == maint' = [Off EXCEPT !.pc = "wait"]

\* Nothing is backed up while setup is pending.  A database that has been set
\* up stays so until the pass has ended, so the check and the snapshot need
\* not be told apart.
SkipsBackupMut == FALSE

SkipsBackup == db = Pending

Backup ==
    IF SkipsBackup THEN Back
    ELSE maint' = [maint EXCEPT !.pc = "vacuum", !.stamp = day]

\* Run: backupIfMissingToday, before the loop.
Startup ==
    /\ At("start")
    /\ IF local[day] # NoFile THEN Back ELSE Backup
    /\ UNCHANGED <<files, main, day, commits, faults, req>>

\* A tick that, like the start, leaves a snapshot of the day alone.
TickMut ==
    /\ At("wait") /\ local[day] = NoFile
    /\ Backup
    /\ UNCHANGED <<files, main, day, commits, faults, req>>

\* tick, whenever the ticker fires: the collections of FeedStore, then backup.
Tick ==
    /\ At("wait")
    /\ Backup
    /\ UNCHANGED <<files, main, day, commits, faults, req>>

\* BackupTo: VACUUM INTO a temporary file sees one state of the database,
\* and the rename replaces an earlier snapshot of the day.  When the OPML
\* export fails after it, nothing is pruned and nothing uploaded.
BeginVacuum ==
    /\ At("vacuum") /\ maint.data = NoFile
    /\ maint' = [maint EXCEPT !.data = db]
    /\ local' = [local EXCEPT ![maint.stamp] = DestWhileWriting(@)]
    /\ UNCHANGED <<db, staged, remote, main, day, commits, faults, req>>

EndVacuum ==
    /\ At("vacuum") /\ maint.data # NoFile
    /\ local' = [local EXCEPT ![maint.stamp] = maint.data]
    /\ Back \/ maint' = [maint EXCEPT !.pc = "prune", !.data = NoFile]
    /\ UNCHANGED <<db, staged, remote, main, day, commits, faults, req>>

VacuumFails ==
    /\ At("vacuum") /\ faults < MaxFault
    /\ faults' = faults + 1
    /\ Back
    /\ UNCHANGED <<files, main, day, commits, req>>

\* What is older than the Generations most recent snapshots of a side.
PruneTargetsMut(side) ==
    {d \in Stamps(side) : Cardinality({e \in Stamps(side) : e < d}) >= Generations}

PruneTargets(side) ==
    {d \in Stamps(side) : Cardinality({e \in Stamps(side) : e > d}) >= Generations}

Without(side, gone) == [d \in Day |-> IF d \in gone THEN NoFile ELSE side[d]]

\* Each removal may fail by itself.
PruneLocal ==
    /\ At("prune")
    /\ \E gone \in SUBSET PruneTargets(local) : local' = Without(local, gone)
    /\ Goto("upload")
    /\ UNCHANGED <<db, staged, remote, main, day, commits, faults, req>>

\* Client.Store reads the file under its name and puts it; a failure is
\* logged and ends the pass.
Upload ==
    /\ At("upload")
    /\ \/ /\ local[maint.stamp] # NoFile
          /\ remote' = [remote EXCEPT ![maint.stamp] = local[maint.stamp]]
          /\ Goto("rprune")
       \/ /\ Back
          /\ UNCHANGED remote
    /\ UNCHANGED <<db, staged, local, main, day, commits, faults, req>>

\* Deletes in the order of the keys and stops at the first error.
PruneRemote ==
    /\ At("rprune")
    /\ \E gone \in SUBSET PruneTargets(remote) :
          /\ \A d \in gone : \A e \in PruneTargets(remote) : e < d => e \in gone
          /\ remote' = Without(remote, gone)
    /\ Back
    /\ UNCHANGED <<db, staged, local, main, day, commits, faults, req>>

----------------------------------------------------------------------------

MainStep ==
    \/ \E reached \in BOOLEAN : BootRestore(reached) \/ BootFresh(reached)
    \/ BootRestored \/ RunServe \/ Stopped \/ PromoteRemove \/ PromoteRename

RestoreStep(r) ==
    \/ \E reached \in BOOLEAN : RestoreLatest(r, reached)
    \/ RestoreCopy(r) \/ RestoreStage(r)

MaintenanceStep ==
    \/ Startup \/ Tick \/ BeginVacuum \/ EndVacuum \/ PruneLocal \/ Upload \/ PruneRemote

FaultStep ==
    \/ Crash \/ LoseVolume \/ BootFails \/ VacuumFails
    \/ \E r \in Request : RestoreFails(r)

Next ==
    \/ MainStep \/ MaintenanceStep \/ FaultStep
    \/ \E r \in Request : RestoreCheck(r) \/ RestoreStep(r)
    \/ CompleteSetup \/ UserCommit \/ WindDown \/ NewDay

Spec == Init /\ [][Next]_vars

----------------------------------------------------------------------------

\* backup refuses to run while setup is pending: no snapshot of an instance
\* nobody has set up ever takes the place of a real one.
NoEmptySnapshots ==
    \A d \in Day : local[d] # Pending /\ remote[d] # Pending

\* Temporary files and renames, "so a failed/canceled fetch never leaves a
\* truncated file": whatever crashes or fails in between, the database, the
\* staged file and every snapshot are whole.
NothingTorn ==
    /\ db # Torn /\ staged # Torn
    /\ \A d \in Day : local[d] # Torn /\ remote[d] # Torn

\* An instance comes up empty only if there was no snapshot on either side:
\* an unreachable bucket stops the boot instead.
NoFreshStart ==
    [][db = NoFile /\ db' = Pending => Stamps(local) \cup Stamps(remote) = {}]_vars

\* Pruning and failed passes never cost the newest snapshot of a side; only
\* a lost volume does.
NewestKept ==
    [][phase # "down" =>
          /\ \A d \in Newest(local) : \E e \in Newest(local') : e >= d
          /\ \A d \in Newest(remote) : \E e \in Newest(remote') : e >= d]_vars
====
