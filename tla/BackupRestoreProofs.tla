------------------------ MODULE BackupRestoreProofs ------------------------
(***************************************************************************)
(* For any requests, days, generations and faults: no snapshot is ever one *)
(* of an instance nobody has set up, with at most one restore request no   *)
(* file is ever torn, an instance comes up empty only without snapshots,   *)
(* no pass costs the newest snapshot, and later snapshots hold later data. *)
(***************************************************************************)
EXTENDS BackupHistory, FiniteSetTheorems, WellFoundedInduction, TLAPS

\* At most one restore request.
Single == \A q, r \in Request : q = r

\* What a copy may hold: never a database that is not set up, and a torn one
\* only when two requests have shared the temporary file.
Good == {NoFile} \cup Whole \cup (IF Single THEN {} ELSE {Torn})

FilesInv ==
    /\ db \in Good \cup {Pending} /\ staged \in Good
    /\ local \in [Day -> Good] /\ remote \in [Day -> Good]
    /\ day \in Day /\ commits \in 0..MaxCommit

MaintRecord ==
    [pc: {"off", "start", "wait", "vacuum", "prune", "upload", "rprune"},
     stamp: 0..LastDay, data: Good]

\* The goroutine runs exactly while the store is open, so nothing replaces
\* the database under it: what was set up when it checked still is.
MaintInv ==
    /\ maint \in MaintRecord
    /\ phase \in {"down", "starting", "restoring", "promoting", "swapping"} <=> maint.pc = "off"
    /\ maint.pc = "vacuum" => db # Pending
    /\ maint.pc \in {"vacuum", "prune", "upload", "rprune"} => maint.stamp \in Day

RequestRecord ==
    [pc: {"idle", "checked", "chosen", "copying"}, snap: Snapshot \cup {NoSnap},
     data: Good, current: BOOLEAN, mixed: BOOLEAN]

RequestInv ==
    /\ req \in [Request -> RequestRecord]
    /\ \A r \in Request : req[r].pc = "chosen" => req[r].snap \in Snapshot
    /\ Single => \A r \in Request : ~req[r].mixed

MainInv ==
    /\ phase \in {"down", "starting", "restoring", "running", "stopping", "restarting",
                  "promoting", "swapping"}
    /\ pick \in Snapshot \cup {NoSnap}
    /\ phase = "restoring" => pick \in Snapshot
    /\ asked \in BOOLEAN /\ faults \in 0..MaxFault

\* The inductive invariant.
BackupInv == FilesInv /\ MaintInv /\ RequestInv /\ MainInv

----------------------------------------------------------------------------

\* No number of a commit is one of the marks.
LEMMA Marks ==
    /\ Pending \notin Good /\ NoFile \in Good
    /\ Whole \subseteq Good
    /\ Single => Torn \notin Good
    /\ ~Single => Torn \in Good
    /\ NoFile # Pending /\ Torn # Pending
    /\ Day \subseteq 0..LastDay
BY BackupAssumption DEF Good, Pending, NoFile, Torn, Whole, Day

\* What Latest finds is a snapshot.
LEMMA LatestIsSnapshot ==
    ASSUME FilesInv, NEW reached \in BOOLEAN
    PROVE  Latest(reached) \subseteq Snapshot
<1>1. Newest(local) \subseteq Day /\ Newest(remote) \subseteq Day
  BY DEF FilesInv, Newest, Stamps
<1> QED
  BY <1>1 DEF Latest, Snapshot

\* Every snapshot, if there is one, is good.
LEMMA ContentIsGood ==
    ASSUME FilesInv, NEW s \in Snapshot
    PROVE  Content(s) \in Good
BY DEF FilesInv, Content, Snapshot

\* The records a goroutine and a request are reset to are of their types.
LEMMA Records ==
    /\ \A p \in {"off", "start", "wait"} :
          /\ [Off EXCEPT !.pc = p] \in MaintRecord
          /\ [Off EXCEPT !.pc = p].pc = p
    /\ Off \in MaintRecord /\ Off.pc = "off"
    /\ NoReq \in RequestRecord /\ NoReq.pc = "idle" /\ ~NoReq.mixed
BY Marks, BackupAssumption DEF Off, NoReq, MaintRecord, RequestRecord

\* A commit that is within the bound makes a whole file.
LEMMA CommitIsWhole ==
    ASSUME FilesInv, commits < MaxCommit
    PROVE  commits + 1 \in Whole /\ commits + 1 # Pending /\ commits + 1 \in 0..MaxCommit
BY BackupAssumption DEF FilesInv, Whole, Pending

\* Every way of starting out, with or without older snapshots.
LEMMA InitInv == Init => BackupInv
<1> SUFFICES ASSUME Init PROVE BackupInv
  OBVIOUS
<1>1. FilesInv
  <2>1. commits \in 0..MaxCommit /\ day \in Day /\ 1..commits \subseteq Whole
    BY BackupAssumption DEF Init, Day, Whole
  <2>2. local \in [Day -> Good] /\ remote \in [Day -> Good]
    BY <2>1, Marks DEF Init
  <2> QED
    BY <2>1, <2>2, Marks DEF Init, FilesInv
<1>2. MaintInv
  BY Records DEF Init, MaintInv
<1>3. RequestInv
  BY Records DEF Init, RequestInv
<1>4. MainInv
  <2>1. asked \in BOOLEAN
    BY DEF Init
  <2>2. faults \in 0..MaxFault
    BY BackupAssumption DEF Init
  <2> QED
    BY <2>1, <2>2 DEF Init, MainInv
<1> QED
  BY <1>1, <1>2, <1>3, <1>4 DEF BackupInv

\* One step per action, one leaf per part of the invariant.
LEMMA NextInv == BackupInv /\ [Next]_vars => BackupInv'
<1> SUFFICES ASSUME BackupInv, [Next]_vars PROVE BackupInv'
  OBVIOUS
<1> USE Marks
<1>1. ASSUME NEW reached \in BOOLEAN, BootRestore(reached) PROVE BackupInv'
  <2>1. FilesInv'
    BY <1>1 DEF BootRestore, BackupInv, FilesInv, DestWhileWriting, files, main
  <2>2. MaintInv'
    BY <1>1 DEF BootRestore, BackupInv, MaintInv, Booting, files, main
  <2>3. RequestInv'
    BY <1>1 DEF BootRestore, BackupInv, RequestInv, files, main
  <2>4. MainInv'
    BY <1>1, LatestIsSnapshot DEF BootRestore, BackupInv, MainInv, FilesInv, files, main
  <2> QED
    BY <2>1, <2>2, <2>3, <2>4 DEF BackupInv
<1>2. ASSUME NEW reached \in BOOLEAN, BootFresh(reached) PROVE BackupInv'
  <2>1. FilesInv'
    BY <1>2 DEF BootFresh, BackupInv, FilesInv, files, main
  <2>2. MaintInv'
    BY <1>2 DEF BootFresh, BackupInv, MaintInv, Booting, files, main
  <2>3. RequestInv'
    BY <1>2 DEF BootFresh, BackupInv, RequestInv, files, main
  <2>4. MainInv'
    BY <1>2 DEF BootFresh, BackupInv, MainInv, files, main
  <2> QED
    BY <2>1, <2>2, <2>3, <2>4 DEF BackupInv
<1>3. ASSUME BootRestored PROVE BackupInv'
  <2>1. FilesInv'
    BY <1>3, ContentIsGood DEF BootRestored, BackupInv, FilesInv, MainInv, files, main
  <2>2. MaintInv'
    BY <1>3 DEF BootRestored, BackupInv, MaintInv, files, main
  <2>3. RequestInv'
    BY <1>3 DEF BootRestored, BackupInv, RequestInv, files, main
  <2>4. MainInv'
    BY <1>3 DEF BootRestored, BackupInv, MainInv, files, main
  <2> QED
    BY <2>1, <2>2, <2>3, <2>4 DEF BackupInv
<1>4. ASSUME RunServe PROVE BackupInv'
  <2>1. FilesInv'
    BY <1>4 DEF RunServe, BackupInv, FilesInv, files, main
  <2>2. MaintInv'
    BY <1>4, Records DEF RunServe, BackupInv, MaintInv, Booting, files, main
  <2>3. RequestInv'
    BY <1>4, Records DEF RunServe, BackupInv, RequestInv, RequestRecord, files, main
  <2>4. MainInv'
    BY <1>4 DEF RunServe, BackupInv, MainInv, files, main
  <2> QED
    BY <2>1, <2>2, <2>3, <2>4 DEF BackupInv
<1>5. ASSUME Stopped PROVE BackupInv'
  <2>1. FilesInv'
    BY <1>5 DEF Stopped, BackupInv, FilesInv, files, main
  <2>2. MaintInv'
    BY <1>5, Records DEF Stopped, BackupInv, MaintInv, files, main
  <2>3. RequestInv'
    BY <1>5, Records DEF Stopped, BackupInv, RequestInv, files, main
  <2>4. MainInv'
    BY <1>5 DEF Stopped, BackupInv, MainInv, files, main
  <2> QED
    BY <2>1, <2>2, <2>3, <2>4 DEF BackupInv
<1>6. ASSUME PromoteRemove PROVE BackupInv'
  <2>1. FilesInv'
    BY <1>6 DEF PromoteRemove, BackupInv, FilesInv, files, main
  <2>2. MaintInv'
    BY <1>6 DEF PromoteRemove, BackupInv, MaintInv, files, main
  <2>3. RequestInv'
    BY <1>6 DEF PromoteRemove, BackupInv, RequestInv, files, main
  <2>4. MainInv'
    BY <1>6 DEF PromoteRemove, BackupInv, MainInv, files, main
  <2> QED
    BY <2>1, <2>2, <2>3, <2>4 DEF BackupInv
<1>7. ASSUME PromoteRename PROVE BackupInv'
  <2>1. FilesInv'
    BY <1>7 DEF PromoteRename, BackupInv, FilesInv, files, main
  <2>2. MaintInv'
    BY <1>7 DEF PromoteRename, BackupInv, MaintInv, files, main
  <2>3. RequestInv'
    BY <1>7 DEF PromoteRename, BackupInv, RequestInv, files, main
  <2>4. MainInv'
    BY <1>7 DEF PromoteRename, BackupInv, MainInv, files, main
  <2> QED
    BY <2>1, <2>2, <2>3, <2>4 DEF BackupInv
<1>8. ASSUME Startup PROVE BackupInv'
  <2>1. FilesInv'
    BY <1>8 DEF Startup, BackupInv, FilesInv, files, main
  <2>2. MaintInv'
    BY <1>8, Records DEF Startup, BackupInv, MaintInv, At, Back, Backup, SkipsBackup, FilesInv, MaintRecord, files, main
  <2>3. RequestInv'
    BY <1>8 DEF Startup, BackupInv, RequestInv, files, main
  <2>4. MainInv'
    BY <1>8 DEF Startup, BackupInv, MainInv, files, main
  <2> QED
    BY <2>1, <2>2, <2>3, <2>4 DEF BackupInv
<1>9. ASSUME Tick PROVE BackupInv'
  <2>1. FilesInv'
    BY <1>9 DEF Tick, BackupInv, FilesInv, files, main
  <2>2. MaintInv'
    BY <1>9, Records DEF Tick, BackupInv, MaintInv, At, Back, Backup, SkipsBackup, FilesInv, MaintRecord, files, main
  <2>3. RequestInv'
    BY <1>9 DEF Tick, BackupInv, RequestInv, files, main
  <2>4. MainInv'
    BY <1>9 DEF Tick, BackupInv, MainInv, files, main
  <2> QED
    BY <2>1, <2>2, <2>3, <2>4 DEF BackupInv
<1>10. ASSUME BeginVacuum PROVE BackupInv'
  <2>1. FilesInv'
    BY <1>10 DEF BeginVacuum, BackupInv, FilesInv, DestWhileWriting, files, main
  <2>2. MaintInv'
    BY <1>10 DEF BeginVacuum, BackupInv, MaintInv, At, FilesInv, MaintRecord, files, main
  <2>3. RequestInv'
    BY <1>10 DEF BeginVacuum, BackupInv, RequestInv, files, main
  <2>4. MainInv'
    BY <1>10 DEF BeginVacuum, BackupInv, MainInv, files, main
  <2> QED
    BY <2>1, <2>2, <2>3, <2>4 DEF BackupInv
<1>11. ASSUME EndVacuum PROVE BackupInv'
  <2>1. FilesInv'
    BY <1>11 DEF EndVacuum, BackupInv, FilesInv, At, MaintInv, MaintRecord, files, main
  <2>2. MaintInv'
    BY <1>11, Records DEF EndVacuum, BackupInv, MaintInv, At, Back, MaintRecord, files, main
  <2>3. RequestInv'
    BY <1>11 DEF EndVacuum, BackupInv, RequestInv, files, main
  <2>4. MainInv'
    BY <1>11 DEF EndVacuum, BackupInv, MainInv, files, main
  <2> QED
    BY <2>1, <2>2, <2>3, <2>4 DEF BackupInv
<1>12. ASSUME PruneLocal PROVE BackupInv'
  <2>1. FilesInv'
    BY <1>12 DEF PruneLocal, BackupInv, FilesInv, Without, files, main
  <2>2. MaintInv'
    BY <1>12 DEF PruneLocal, BackupInv, MaintInv, At, Goto, MaintRecord, files, main
  <2>3. RequestInv'
    BY <1>12 DEF PruneLocal, BackupInv, RequestInv, files, main
  <2>4. MainInv'
    BY <1>12 DEF PruneLocal, BackupInv, MainInv, files, main
  <2> QED
    BY <2>1, <2>2, <2>3, <2>4 DEF BackupInv
<1>13. ASSUME Upload PROVE BackupInv'
  <2>1. FilesInv'
    BY <1>13 DEF Upload, BackupInv, FilesInv, At, MaintInv, files, main
  <2>2. MaintInv'
    BY <1>13, Records DEF Upload, BackupInv, MaintInv, At, Goto, Back, MaintRecord, files, main
  <2>3. RequestInv'
    BY <1>13 DEF Upload, BackupInv, RequestInv, files, main
  <2>4. MainInv'
    BY <1>13 DEF Upload, BackupInv, MainInv, files, main
  <2> QED
    BY <2>1, <2>2, <2>3, <2>4 DEF BackupInv
<1>14. ASSUME PruneRemote PROVE BackupInv'
  <2>1. FilesInv'
    BY <1>14 DEF PruneRemote, BackupInv, FilesInv, Without, files, main
  <2>2. MaintInv'
    BY <1>14, Records DEF PruneRemote, BackupInv, MaintInv, At, Back, files, main
  <2>3. RequestInv'
    BY <1>14 DEF PruneRemote, BackupInv, RequestInv, files, main
  <2>4. MainInv'
    BY <1>14 DEF PruneRemote, BackupInv, MainInv, files, main
  <2> QED
    BY <2>1, <2>2, <2>3, <2>4 DEF BackupInv
<1>15. ASSUME Crash PROVE BackupInv'
  <2>1. FilesInv'
    BY <1>15 DEF Crash, BackupInv, FilesInv, files, main
  <2>2. MaintInv'
    BY <1>15, Records DEF Crash, BackupInv, MaintInv, files, main
  <2>3. RequestInv'
    BY <1>15, Records DEF Crash, BackupInv, RequestInv, files, main
  <2>4. MainInv'
    <3>1. asked' \in BOOLEAN
      BY <1>15 DEF Crash
    <3>2. faults' \in 0..MaxFault
      BY <1>15, BackupAssumption DEF Crash, BackupInv, MainInv
    <3> QED
      BY <1>15, <3>1, <3>2 DEF Crash, MainInv
  <2> QED
    BY <2>1, <2>2, <2>3, <2>4 DEF BackupInv
<1>16. ASSUME LoseVolume PROVE BackupInv'
  <2>1. FilesInv'
    BY <1>16 DEF LoseVolume, BackupInv, FilesInv, files, main
  <2>2. MaintInv'
    BY <1>16 DEF LoseVolume, BackupInv, MaintInv, files, main
  <2>3. RequestInv'
    BY <1>16 DEF LoseVolume, BackupInv, RequestInv, files, main
  <2>4. MainInv'
    BY <1>16, BackupAssumption DEF LoseVolume, BackupInv, MainInv, files, main
  <2> QED
    BY <2>1, <2>2, <2>3, <2>4 DEF BackupInv
<1>17. ASSUME BootFails PROVE BackupInv'
  <2>1. FilesInv'
    BY <1>17 DEF BootFails, BackupInv, FilesInv, files, main
  <2>2. MaintInv'
    BY <1>17 DEF BootFails, BackupInv, MaintInv, Booting, files, main
  <2>3. RequestInv'
    BY <1>17, Records DEF BootFails, BackupInv, RequestInv, files, main
  <2>4. MainInv'
    BY <1>17, BackupAssumption DEF BootFails, BackupInv, MainInv, files, main
  <2> QED
    BY <2>1, <2>2, <2>3, <2>4 DEF BackupInv
<1>18. ASSUME VacuumFails PROVE BackupInv'
  <2>1. FilesInv'
    BY <1>18 DEF VacuumFails, BackupInv, FilesInv, files, main
  <2>2. MaintInv'
    BY <1>18, Records DEF VacuumFails, BackupInv, MaintInv, At, Back, files, main
  <2>3. RequestInv'
    BY <1>18 DEF VacuumFails, BackupInv, RequestInv, files, main
  <2>4. MainInv'
    BY <1>18, BackupAssumption DEF VacuumFails, BackupInv, MainInv, files, main
  <2> QED
    BY <2>1, <2>2, <2>3, <2>4 DEF BackupInv
<1>19. ASSUME NEW r \in Request, RestoreFails(r) PROVE BackupInv'
  <2>1. FilesInv'
    BY <1>19 DEF RestoreFails, BackupInv, FilesInv, files, main
  <2>2. MaintInv'
    BY <1>19 DEF RestoreFails, BackupInv, MaintInv, files, main
  <2>3. RequestInv'
    BY <1>19, Records DEF RestoreFails, BackupInv, RequestInv, files, main
  <2>4. MainInv'
    BY <1>19, BackupAssumption DEF RestoreFails, BackupInv, MainInv, files, main
  <2> QED
    BY <2>1, <2>2, <2>3, <2>4 DEF BackupInv
<1>20. ASSUME NEW r \in Request, RestoreCheck(r) PROVE BackupInv'
  <2>1. FilesInv'
    BY <1>20 DEF RestoreCheck, BackupInv, FilesInv, files, main
  <2>2. MaintInv'
    BY <1>20 DEF RestoreCheck, BackupInv, MaintInv, files, main
  <2>3. RequestInv'
    BY <1>20 DEF RestoreCheck, BackupInv, RequestInv, RequestRecord, files, main
  <2>4. MainInv'
    BY <1>20 DEF RestoreCheck, BackupInv, MainInv, files, main
  <2> QED
    BY <2>1, <2>2, <2>3, <2>4 DEF BackupInv
<1>21. ASSUME NEW r \in Request, NEW reached \in BOOLEAN, RestoreLatest(r, reached)
      PROVE BackupInv'
  <2>1. FilesInv'
    BY <1>21 DEF RestoreLatest, BackupInv, FilesInv, files, main
  <2>2. MaintInv'
    BY <1>21 DEF RestoreLatest, BackupInv, MaintInv, files, main
  <2>3. RequestInv'
    BY <1>21, Records, LatestIsSnapshot DEF RestoreLatest, BackupInv, RequestInv, RequestRecord, files, main
  <2>4. MainInv'
    BY <1>21 DEF RestoreLatest, BackupInv, MainInv, files, main
  <2> QED
    BY <2>1, <2>2, <2>3, <2>4 DEF BackupInv
<1>22. ASSUME NEW r \in Request, RestoreCopy(r) PROVE BackupInv'
  <2>1. FilesInv'
    BY <1>22 DEF RestoreCopy, BackupInv, FilesInv, DestWhileWriting, files, main
  <2>2. MaintInv'
    BY <1>22 DEF RestoreCopy, BackupInv, MaintInv, files, main
  <2>3. RequestInv'
    <3>1. CASE Content(req[r].snap) = NoFile
      BY <1>22, <3>1, Records DEF RestoreCopy, BackupInv, RequestInv
    <3>2. CASE Content(req[r].snap) # NoFile
      <4> DEFINE others == {q \in Request \ {r} : req[q].pc = "copying"}
                 opened == [req[r] EXCEPT !.pc = "copying", !.snap = NoSnap,
                                          !.data = Content(req[r].snap),
                                          !.mixed = others # {}]
      <4>1. req' = [q \in Request |->
                      IF q = r THEN opened
                      ELSE IF q \in others THEN [req[q] EXCEPT !.mixed = TRUE]
                      ELSE req[q]]
        BY <1>22, <3>2 DEF RestoreCopy
      <4>2. Content(req[r].snap) \in Good
        BY <1>22, ContentIsGood DEF RestoreCopy, BackupInv, RequestInv
      <4>3. /\ opened \in RequestRecord /\ opened.pc = "copying"
            /\ opened.mixed = (others # {})
        BY <4>2 DEF BackupInv, RequestInv, RequestRecord
      <4>4. \A q \in Request : LET x == [req[q] EXCEPT !.mixed = TRUE]
                               IN  /\ x \in RequestRecord /\ x.pc = req[q].pc
                                   /\ x.snap = req[q].snap
        BY DEF BackupInv, RequestInv, RequestRecord
      <4>5. req' \in [Request -> RequestRecord]
        BY <4>1, <4>3, <4>4 DEF BackupInv, RequestInv
      <4>6. \A q \in Request : req'[q].pc = "chosen" => req'[q].snap \in Snapshot
        BY <4>1, <4>3, <4>4 DEF BackupInv, RequestInv
      <4>7. Single => \A q \in Request : ~req'[q].mixed
        <5> SUFFICES ASSUME Single, NEW q \in Request PROVE ~req'[q].mixed
          OBVIOUS
        <5>1. others = {} /\ q = r
          BY DEF Single
        <5> QED
          BY <4>1, <4>3, <5>1
      <4> QED
        BY <4>5, <4>6, <4>7 DEF RequestInv
    <3> QED
      BY <3>1, <3>2
  <2>4. MainInv'
    BY <1>22 DEF RestoreCopy, BackupInv, MainInv, files, main
  <2> QED
    BY <2>1, <2>2, <2>3, <2>4 DEF BackupInv
<1>23. ASSUME NEW r \in Request, RestoreStage(r) PROVE BackupInv'
  <2>1. FilesInv'
    BY <1>23 DEF RestoreStage, BackupInv, FilesInv, RequestInv, RequestRecord, files, main
  <2>2. MaintInv'
    BY <1>23 DEF RestoreStage, BackupInv, MaintInv, files, main
  <2>3. RequestInv'
    BY <1>23, Records DEF RestoreStage, BackupInv, RequestInv, files, main
  <2>4. MainInv'
    BY <1>23 DEF RestoreStage, BackupInv, MainInv, files, main
  <2> QED
    BY <2>1, <2>2, <2>3, <2>4 DEF BackupInv
<1>24. ASSUME CompleteSetup PROVE BackupInv'
  <2>1. FilesInv'
    BY <1>24, CommitIsWhole DEF CompleteSetup, BackupInv, FilesInv, files, main
  <2>2. MaintInv'
    BY <1>24, CommitIsWhole DEF CompleteSetup, BackupInv, MaintInv, Serving, files, main
  <2>3. RequestInv'
    BY <1>24 DEF CompleteSetup, BackupInv, RequestInv, files, main
  <2>4. MainInv'
    BY <1>24 DEF CompleteSetup, BackupInv, MainInv, files, main
  <2> QED
    BY <2>1, <2>2, <2>3, <2>4 DEF BackupInv
<1>25. ASSUME UserCommit PROVE BackupInv'
  <2>1. FilesInv'
    BY <1>25, CommitIsWhole DEF UserCommit, BackupInv, FilesInv, files, main
  <2>2. MaintInv'
    BY <1>25, CommitIsWhole DEF UserCommit, BackupInv, MaintInv, Serving, files, main
  <2>3. RequestInv'
    BY <1>25 DEF UserCommit, BackupInv, RequestInv, files, main
  <2>4. MainInv'
    BY <1>25 DEF UserCommit, BackupInv, MainInv, files, main
  <2> QED
    BY <2>1, <2>2, <2>3, <2>4 DEF BackupInv
<1>26. ASSUME WindDown PROVE BackupInv'
  <2>1. FilesInv'
    BY <1>26 DEF WindDown, BackupInv, FilesInv, files, main
  <2>2. MaintInv'
    BY <1>26 DEF WindDown, BackupInv, MaintInv, files, main
  <2>3. RequestInv'
    BY <1>26 DEF WindDown, BackupInv, RequestInv, files, main
  <2>4. MainInv'
    BY <1>26 DEF WindDown, BackupInv, MainInv, files, main
  <2> QED
    BY <2>1, <2>2, <2>3, <2>4 DEF BackupInv
<1>27. ASSUME NewDay PROVE BackupInv'
  <2>1. FilesInv'
    BY <1>27, BackupAssumption DEF NewDay, BackupInv, FilesInv, Day, files, main
  <2>2. MaintInv'
    BY <1>27 DEF NewDay, BackupInv, MaintInv, files, main
  <2>3. RequestInv'
    BY <1>27 DEF NewDay, BackupInv, RequestInv, files, main
  <2>4. MainInv'
    BY <1>27 DEF NewDay, BackupInv, MainInv, files, main
  <2> QED
    BY <2>1, <2>2, <2>3, <2>4 DEF BackupInv
<1>28. CASE UNCHANGED vars
  BY <1>28 DEF vars, files, main, BackupInv, FilesInv, MaintInv, RequestInv, MainInv
<1> QED
  BY <1>1, <1>2, <1>3, <1>4, <1>5, <1>6, <1>7, <1>8, <1>9, <1>10, <1>11, <1>12, <1>13, <1>14, <1>15, <1>16, <1>17, <1>18, <1>19, <1>20, <1>21, <1>22, <1>23, <1>24, <1>25, <1>26, <1>27, <1>28
     DEF Next, MainStep, MaintenanceStep, FaultStep, RestoreStep

\* The inductive invariant holds after every step of boot, requests,
\* maintenance and faults.
THEOREM BackupSound == Spec => []BackupInv
BY InitInv, NextInv, PTL DEF Spec

\* Type correctness of the whole life cycle.
THEOREM BackupTypes == Spec => []TypeOK
<1>1. Good \subseteq File /\ Pending \in File
  BY DEF Good, File
<1>2. BackupInv => TypeOK
  BY <1>1 DEF BackupInv, FilesInv, MaintInv, RequestInv, MainInv, MaintRecord,
              RequestRecord, TypeOK
<1> QED
  BY <1>2, BackupSound, PTL

\* backup's refusal to run before setup is complete is enough, whatever
\* crashes, restores and restarts come in between: no snapshot on either side
\* is one of an empty instance.
THEOREM NoEmptySnapshotsEver == Spec => []NoEmptySnapshots
<1>1. BackupInv => NoEmptySnapshots
  BY Marks DEF BackupInv, FilesInv, NoEmptySnapshots
<1> QED
  BY <1>1, BackupSound, PTL

\* With one restore request at a time temporary files and renames are enough:
\* no crash or failure ever leaves a torn database, staged file or snapshot.
THEOREM OneRestoreNothingTorn == Single => (Spec => []NothingTorn)
<1> SUFFICES ASSUME Single PROVE Spec => []NothingTorn
  OBVIOUS
<1>1. BackupInv => NothingTorn
  BY Marks DEF BackupInv, FilesInv, NothingTorn, Torn, Pending
<1> QED
  BY <1>1, BackupSound, PTL

----------------------------------------------------------------------------
(* The newest snapshot                                                     *)

\* A nonempty set of days has a last one.
LEMMA LastOfDays ==
    ASSUME NEW T, T \subseteq Day, T # {}
    PROVE  \E x \in T : \A y \in T : y =< x
<1> DEFINE R == {ss \in Nat \X Nat : ss[1] < ss[2]}
           left == {LastDay - d : d \in T}
<1>1. IsWellFoundedOn(R, Nat)
  BY NatLessThanWellFounded DEF OpToRel
<1>2. \A x, y \in Nat : y < x => <<y, x>> \in R
  OBVIOUS
<1>3. left \subseteq Nat /\ left # {}
  <2>1. \A d \in T : LastDay - d \in Nat
    BY BackupAssumption DEF Day
  <2>2. PICK d \in T : TRUE
    OBVIOUS
  <2>3. LastDay - d \in left
    OBVIOUS
  <2>4. QED
    BY <2>1, <2>3
<1> HIDE DEF R
<1>4. PICK m \in left : \A y \in left : ~(<<y, m>> \in R)
  BY <1>1, <1>3, WFMin, Zenon
<1>5. \A y \in left : ~(y < m)
  BY <1>2, <1>3, <1>4, Zenon
<1>6. PICK x \in T : m = LastDay - x
  OBVIOUS
<1>7. \A y \in T : ~(LastDay - y < LastDay - x)
  BY <1>5, <1>6
<1>8. \A y \in T : y =< x
  BY <1>7, BackupAssumption DEF Day
<1>9. QED
  BY <1>8

\* Every snapshot of a side is at most as new as its newest.
LEMMA NewestExists ==
    ASSUME NEW side, DOMAIN side = Day, NEW d \in Stamps(side)
    PROVE  \E e \in Newest(side) : e >= d
<1>1. Stamps(side) \subseteq Day /\ Stamps(side) # {}
  BY DEF Stamps
<1>2. PICK e \in Stamps(side) : \A y \in Stamps(side) : y =< e
  BY <1>1, LastOfDays
<1>3. e \in Newest(side)
  BY <1>2 DEF Newest
<1>4. e >= d
  BY <1>1, <1>2, BackupAssumption DEF Day
<1>5. QED
  BY <1>3, <1>4

\* An empty Latest that has not failed means there are no snapshots at all.
LEMMA NothingFound ==
    ASSUME FilesInv, NEW reached \in BOOLEAN,
           Latest(reached) = {}, ~LatestFails(reached)
    PROVE  Stamps(local) \cup Stamps(remote) = {}
<1>1. DOMAIN local = Day /\ DOMAIN remote = Day
  BY DEF FilesInv
<1>2. Newest(local) = {} => reached
  BY DEF LatestFails
<1>3. Newest(local) = {} /\ Newest(remote) = {}
  BY <1>2 DEF Latest
<1>4. \A d \in Stamps(local) : \E e \in Newest(local) : e >= d
  BY <1>1, NewestExists
<1>5. \A d \in Stamps(remote) : \E e \in Newest(remote) : e >= d
  BY <1>1, NewestExists
<1>6. QED
  BY <1>3, <1>4, <1>5

\* A file that was not there becomes an empty database in one way only.
LEMMA FreshStep ==
    ASSUME BackupInv, [Next]_vars, db = NoFile, db' = Pending
    PROVE  Stamps(local) \cup Stamps(remote) = {}
<1> USE Marks
<1>1. ASSUME NEW reached \in BOOLEAN, BootFresh(reached)
      PROVE  Stamps(local) \cup Stamps(remote) = {}
  BY <1>1, NothingFound DEF BootFresh, BackupInv
<1>2. ~BootRestored
  BY ContentIsGood DEF BootRestored, BackupInv, MainInv
<1>3. ~PromoteRename
  BY DEF PromoteRename, BackupInv, FilesInv
<1>4. db' # db /\ db' # NoFile
  OBVIOUS
<1>5. ~CompleteSetup /\ ~UserCommit
  BY DEF CompleteSetup, UserCommit, Whole, NoFile, Pending
<1>6. QED
  BY <1>1, <1>2, <1>3, <1>4, <1>5
     DEF Next, MainStep, MaintenanceStep, FaultStep, RestoreStep, vars, files,
         BootRestore, DestWhileWriting, RunServe, Stopped, PromoteRemove, Startup, Tick,
         BeginVacuum, EndVacuum, PruneLocal, Upload, PruneRemote, Crash, LoseVolume,
         BootFails, VacuumFails, RestoreFails, RestoreCheck, RestoreLatest, RestoreCopy,
         RestoreStage, WindDown, NewDay

\* IfMissing never takes "I could not look" for "there is nothing".
THEOREM FreshOnlyWithoutSnapshots == Spec => NoFreshStart
<1>1. BackupInv /\ [Next]_vars
        => [db = NoFile /\ db' = Pending => Stamps(local) \cup Stamps(remote) = {}]_vars
  BY FreshStep
<1> QED
  BY <1>1, BackupSound, PTL DEF Spec, NoFreshStart

\* The newest snapshot of a side survives a step that keeps it as a snapshot.
LEMMA NewestOnward ==
    ASSUME NEW side, NEW after, DOMAIN side = Day, DOMAIN after = Day,
           \A d \in Newest(side) : after[d] # NoFile
    PROVE  \A d \in Newest(side) : \E e \in Newest(after) : e >= d
<1>1. \A d \in Newest(side) : d \in Stamps(after)
  BY DEF Stamps, Newest
<1>2. QED
  BY <1>1, NewestExists

\* The newest snapshot is not among what pruning may remove.
LEMMA NewestNotPruned ==
    ASSUME NEW side, DOMAIN side = Day, NEW gone \in SUBSET PruneTargets(side)
    PROVE  \A d \in Newest(side) : Without(side, gone)[d] # NoFile
<1> SUFFICES ASSUME NEW d \in Newest(side) PROVE Without(side, gone)[d] # NoFile
  OBVIOUS
<1>1. d \in Day /\ side[d] # NoFile
  BY DEF Newest, Stamps
<1>2. {e \in Stamps(side) : e > d} = {}
  BY <1>1, BackupAssumption DEF Newest, Stamps, Day
<1>3. Cardinality({e \in Stamps(side) : e > d}) = 0
  BY <1>2, FS_EmptySet
<1>4. d \notin PruneTargets(side)
  BY <1>3, BackupAssumption DEF PruneTargets
<1>5. QED
  BY <1>1, <1>4 DEF Without

\* Every step outside "down" keeps the newest of both sides.
LEMMA KeepStep ==
    ASSUME BackupInv, [Next]_vars, phase # "down"
    PROVE  /\ \A d \in Newest(local) : \E e \in Newest(local') : e >= d
           /\ \A d \in Newest(remote) : \E e \in Newest(remote') : e >= d
<1>1. DOMAIN local = Day /\ DOMAIN remote = Day
  BY DEF BackupInv, FilesInv
<1>2. BackupInv'
  BY NextInv
<1>3. DOMAIN local' = Day /\ DOMAIN remote' = Day
  BY <1>2 DEF BackupInv, FilesInv
<1>4. \A d \in Newest(local) : d \in Day /\ local[d] # NoFile
  BY <1>1 DEF Newest, Stamps
<1>5. \A d \in Newest(remote) : d \in Day /\ remote[d] # NoFile
  BY <1>1 DEF Newest, Stamps
<1>6. CASE PruneLocal
  BY <1>1, <1>3, <1>5, <1>6, NewestNotPruned, NewestOnward DEF PruneLocal
<1>7. CASE PruneRemote
  BY <1>1, <1>3, <1>4, <1>7, NewestNotPruned, NewestOnward DEF PruneRemote
<1>8. CASE EndVacuum
  <2>1. \A d \in Day : local'[d] = local[d] \/ local'[d] # NoFile
    BY <1>1, <1>8 DEF EndVacuum
  <2>2. remote' = remote
    BY <1>8 DEF EndVacuum
  <2>3. QED
    BY <1>1, <1>3, <1>4, <1>5, <2>1, <2>2, NewestOnward
<1>9. CASE Upload
  <2>1. \A d \in Day : remote'[d] = remote[d] \/ remote'[d] # NoFile
    BY <1>1, <1>9 DEF Upload
  <2>2. local' = local
    BY <1>9 DEF Upload
  <2>3. QED
    BY <1>1, <1>3, <1>4, <1>5, <2>1, <2>2, NewestOnward
<1>10. CASE local' = local /\ remote' = remote
  BY <1>1, <1>3, <1>4, <1>5, <1>10, NewestOnward
<1>11. BeginVacuum => local' = local /\ remote' = remote
  BY DEF BeginVacuum, DestWhileWriting, BackupInv, FilesInv
<1>12. QED
  BY <1>6, <1>7, <1>8, <1>9, <1>10, <1>11
     DEF Next, MainStep, MaintenanceStep, FaultStep, RestoreStep, vars, files,
         BootRestore, BootFresh, BootRestored, RunServe, Stopped, PromoteRemove,
         PromoteRename, Startup, Tick, Crash, LoseVolume, BootFails, VacuumFails,
         RestoreFails, RestoreCheck, RestoreLatest, RestoreCopy, RestoreStage,
         CompleteSetup, UserCommit, WindDown, NewDay

\* Whatever Generations is, no pass, failed or not, costs a side its newest
\* snapshot.
THEOREM NewestIsKept == Spec => NewestKept
<1>1. BackupInv /\ [Next]_vars
        => [phase # "down" =>
              /\ \A d \in Newest(local) : \E e \in Newest(local') : e >= d
              /\ \A d \in Newest(remote) : \E e \in Newest(remote') : e >= d]_vars
  BY KeepStep
<1> QED
  BY <1>1, BackupSound, PTL DEF Spec, NewestKept

----------------------------------------------------------------------------
(* Later snapshots hold later data                                         *)

\* No snapshot of the two sides holds a commit after x.
Covers(l, r, x) ==
    \A d \in Day : /\ l[d] \in Whole => l[d] =< x
                   /\ r[d] \in Whole => r[d] =< x

Tops(l, r, x) == x \in Whole => Covers(l, r, x)

\* No snapshot is from after day n.
StampedBy(l, r, n) == \A d \in Day : l[d] # NoFile \/ r[d] # NoFile => d =< n

Ordered(l, r) ==
    \A d, e \in Day : d < e =>
        \A a \in {l[d], r[d]} \cap Whole, b \in {l[e], r[e]} \cap Whole : a =< b

\* The object of a day is an earlier upload of the file of that day.
Mirrors(l, r) ==
    \A d \in Day : l[d] \in Whole /\ r[d] \in Whole => r[d] =< l[d]

InPass == maint.pc \in {"vacuum", "prune", "upload", "rprune"}

StampsInv ==
    /\ StampedBy(local, remote, day)
    /\ InPass => maint.stamp =< day /\ StampedBy(local, remote, maint.stamp)

CommitsInv ==
    /\ Covers(local, remote, commits)
    /\ db =< commits /\ staged =< commits
    /\ \A r \in Request : req[r].data =< commits

\* A pass runs on a database that is set up and does not go back meanwhile.
PassInv ==
    /\ Serving => db \in Whole \cup {Pending}
    /\ InPass => db \in Whole
    /\ maint.pc # "vacuum" => maint.data = NoFile
    /\ maint.data # NoFile => maint.data \in Whole /\ maint.data =< db
    /\ phase # "restoring" => pick = NoSnap

\* While setup is pending and while a staged file is swapped in, what has
\* been staged, copied or chosen may still become the database.
Replaceable == db = Pending \/ phase = "swapping"

\* What is or may become the database is at least as new as every snapshot.
NewestInv ==
    /\ Ordered(local, remote) /\ Mirrors(local, remote)
    /\ Tops(local, remote, db) /\ Tops(local, remote, maint.data)
    /\ phase = "restoring" => Tops(local, remote, Content(pick))
    /\ Replaceable =>
         /\ Tops(local, remote, staged)
         /\ \A r \in Request :
              /\ req[r].pc = "chosen" => Tops(local, remote, Content(req[r].snap))
              /\ req[r].pc = "copying" => Tops(local, remote, req[r].data)

\* The inductive invariant.
OrderInv ==
    BackupInv /\ StampsInv /\ CommitsInv /\ PassInv /\ (~behind => NewestInv)

\* Files and commits are integers.
LEMMA Numbers ==
    /\ \A x \in Good : x \in Int
    /\ \A x \in Whole : x \in Int
    /\ \A x \in Day : x \in Int
BY BackupAssumption DEF Good, Whole, Day, NoFile, Torn

\* Removing snapshots of either side keeps the order of the others.
LEMMA FewerSnapshots ==
    ASSUME NEW l, NEW r, NEW l2, NEW r2,
           \A d \in Day : l2[d] \in {l[d], NoFile} /\ r2[d] \in {r[d], NoFile}
    PROVE  /\ Ordered(l, r) => Ordered(l2, r2)
           /\ Mirrors(l, r) => Mirrors(l2, r2)
           /\ \A x : Covers(l, r, x) => Covers(l2, r2, x)
           /\ \A x : Tops(l, r, x) => Tops(l2, r2, x)
           /\ \A x : StampedBy(l, r, x) => StampedBy(l2, r2, x)
<1>1. NoFile \notin Whole
  BY BackupAssumption DEF NoFile, Whole
<1>2. QED
  BY <1>1 DEF Ordered, Mirrors, Covers, Tops, StampedBy

\* A snapshot that is at least as new as all others may take the last day.
LEMMA NewSnapshot ==
    ASSUME NEW l \in [Day -> Good], NEW r \in [Day -> Good], NEW s \in Day,
           NEW c \in Whole, Covers(l, r, c), StampedBy(l, r, s)
    PROVE  LET l2 == [l EXCEPT ![s] = c]
           IN  /\ Ordered(l, r) => Ordered(l2, r)
               /\ Mirrors(l, r) => Mirrors(l2, r)
               /\ \A x \in Int : c =< x /\ Covers(l, r, x) => Covers(l2, r, x)
<1> DEFINE l2 == [l EXCEPT ![s] = c]
<1>1. \A d \in Day : l2[d] = IF d = s THEN c ELSE l[d]
  OBVIOUS
<1> HIDE DEF l2
<1>2. \A x \in Int : c =< x /\ Covers(l, r, x) => Covers(l2, r, x)
  BY <1>1 DEF Covers
<1>3. Mirrors(l, r) => Mirrors(l2, r)
  BY <1>1 DEF Mirrors, Covers
<1>4. ASSUME Ordered(l, r) PROVE Ordered(l2, r)
  <2> SUFFICES ASSUME NEW d \in Day, NEW e \in Day, d < e,
                      NEW a \in {l2[d], r[d]} \cap Whole, NEW b \in {l2[e], r[e]} \cap Whole
               PROVE  a =< b
    BY DEF Ordered
  <2>1. NoFile \notin Whole /\ d \in Int /\ e \in Int /\ s \in Int
    BY BackupAssumption DEF NoFile, Whole, Day
  <2>2. r[e] \in Whole => e =< s
    BY <2>1 DEF StampedBy
  <2>3. l[e] \in Whole => e =< s
    BY <2>1 DEF StampedBy
  <2>4. d # s
    BY <1>1, <2>1, <2>2, <2>3
  <2>5. CASE e = s /\ b = c
    BY <1>1, <2>4, <2>5 DEF Covers
  <2>6. CASE ~(e = s /\ b = c)
    BY <1>1, <1>4, <2>4, <2>6 DEF Ordered
  <2>7. QED
    BY <2>5, <2>6
<1>5. QED
  BY <1>2, <1>3, <1>4 DEF l2

\* Uploading the file of a day brings nothing new.
LEMMA UploadedSnapshot ==
    ASSUME NEW l \in [Day -> Good], NEW r \in [Day -> Good], NEW s \in Day,
           l[s] # NoFile
    PROVE  LET r2 == [r EXCEPT ![s] = l[s]]
           IN  /\ Ordered(l, r) => Ordered(l, r2)
               /\ Mirrors(l, r) => Mirrors(l, r2)
               /\ \A x : Covers(l, r, x) => Covers(l, r2, x)
               /\ \A x : Tops(l, r, x) => Tops(l, r2, x)
               /\ \A x : StampedBy(l, r, x) => StampedBy(l, r2, x)
<1> DEFINE r2 == [r EXCEPT ![s] = l[s]]
<1>1. \A d \in Day : r2[d] = IF d = s THEN l[d] ELSE r[d]
  OBVIOUS
<1> HIDE DEF r2
<1>2. \A x : Covers(l, r, x) => Covers(l, r2, x)
  BY <1>1 DEF Covers
<1>3. \A x : Tops(l, r, x) => Tops(l, r2, x)
  BY <1>2 DEF Tops
<1>4. \A x : StampedBy(l, r, x) => StampedBy(l, r2, x)
  BY <1>1 DEF StampedBy
<1>5. Mirrors(l, r) => Mirrors(l, r2)
  BY <1>1, Numbers DEF Mirrors
<1>6. Ordered(l, r) => Ordered(l, r2)
  BY <1>1 DEF Ordered
<1>7. QED
  BY <1>2, <1>3, <1>4, <1>5, <1>6 DEF r2

\* The snapshot Latest finds with the bucket in reach holds the latest data.
LEMMA LatestTops ==
    ASSUME FilesInv, Ordered(local, remote), Mirrors(local, remote),
           NEW s \in Latest(TRUE)
    PROVE  Tops(local, remote, Content(s))
<1> SUFFICES ASSUME Content(s) \in Whole PROVE Covers(local, remote, Content(s))
  BY DEF Tops
<1>1. NoFile \notin Whole
  BY BackupAssumption DEF NoFile, Whole
<1>2. \A d \in Day : local[d] \in Whole => d \in Stamps(local)
  BY <1>1 DEF Stamps, FilesInv
<1>3. \A d \in Day : remote[d] \in Whole => d \in Stamps(remote)
  BY <1>1 DEF Stamps, FilesInv
<1>4. DOMAIN local = Day /\ DOMAIN remote = Day
  BY DEF FilesInv
<1>5. CASE \E e \in Newest(remote) :
             /\ s = [source |-> "remote", day |-> e]
             /\ \A d \in Newest(local) : e > d
  <2>1. PICK e \in Newest(remote) :
             /\ s = [source |-> "remote", day |-> e]
             /\ \A d \in Newest(local) : e > d
    BY <1>5
  <2>2. e \in Day /\ Content(s) = remote[e]
    BY <1>4, <2>1 DEF Content, Newest, Stamps
  <2>3. \A d \in Stamps(remote) : d =< e
    BY DEF Newest
  <2>4. \A d \in Stamps(local) : d < e
    <3>1. \A d \in Stamps(local) : \E x \in Newest(local) : x >= d
      BY <1>4, NewestExists
    <3>2. \A x \in Newest(local) : x \in Int
      BY <1>4, Numbers DEF Newest, Stamps
    <3>3. \A x \in Stamps(local) : x \in Int
      BY <1>4, Numbers DEF Stamps
    <3>4. QED
      BY <2>1, <2>2, <3>1, <3>2, <3>3, Numbers
  <2>5. ASSUME NEW d \in Day
        PROVE  /\ local[d] \in Whole => local[d] =< remote[e]
               /\ remote[d] \in Whole => remote[d] =< remote[e]
    <3>1. local[d] \in Whole => d < e
      BY <1>2, <2>4
    <3>2. remote[d] \in Whole => d < e \/ d = e
      BY <1>3, <2>2, <2>3, Numbers
    <3>3. QED
      BY <2>2, <3>1, <3>2, Numbers DEF Ordered
  <2>6. QED
    BY <2>2, <2>5 DEF Covers
<1>6. CASE \E e \in Newest(local) :
             /\ s = [source |-> "local", day |-> e]
             /\ \A x \in Newest(remote) : ~(x > e)
  <2>1. PICK e \in Newest(local) :
             /\ s = [source |-> "local", day |-> e]
             /\ \A x \in Newest(remote) : ~(x > e)
    BY <1>6
  <2>2. e \in Day /\ Content(s) = local[e]
    BY <1>4, <2>1 DEF Content, Newest, Stamps
  <2>3. \A d \in Stamps(local) : d =< e
    BY DEF Newest
  <2>4. \A d \in Stamps(remote) : d =< e
    <3>1. \A d \in Stamps(remote) : \E x \in Newest(remote) : x >= d
      BY <1>4, NewestExists
    <3>2. \A x \in Newest(remote) : x \in Int
      BY <1>4, Numbers DEF Newest, Stamps
    <3>3. \A x \in Stamps(remote) : x \in Int
      BY <1>4, Numbers DEF Stamps
    <3>4. QED
      BY <2>1, <2>2, <3>1, <3>2, <3>3, Numbers
  <2>5. ASSUME NEW d \in Day
        PROVE  /\ local[d] \in Whole => local[d] =< local[e]
               /\ remote[d] \in Whole => remote[d] =< local[e]
    <3>1. local[d] \in Whole => d < e \/ d = e
      BY <1>2, <2>2, <2>3, Numbers
    <3>2. remote[d] \in Whole => d < e \/ d = e
      BY <1>3, <2>2, <2>4, Numbers
    <3>3. QED
      BY <2>2, <3>1, <3>2, Numbers DEF Ordered, Mirrors
  <2>6. QED
    BY <2>2, <2>5 DEF Covers
<1>7. \A a, b \in Newest(remote) : a = b
  BY <1>4, Numbers DEF Newest, Stamps
<1>8. \A a, b \in Newest(local) : a = b
  BY <1>4, Numbers DEF Newest, Stamps
<1>9. QED
  BY <1>5, <1>6, <1>7, <1>8 DEF Latest

\* A later day bounds the stamps too.
LEMMA StampedLater ==
    ASSUME NEW l, NEW r, NEW n \in Int, NEW m \in Int, n =< m, StampedBy(l, r, n)
    PROVE  StampedBy(l, r, m)
BY Numbers DEF StampedBy

\* A new snapshot of day s.
LEMMA NewStamp ==
    ASSUME NEW l \in [Day -> Good], NEW r, NEW s \in Day, NEW c, StampedBy(l, r, s)
    PROVE  StampedBy([l EXCEPT ![s] = c], r, s)
BY Numbers DEF StampedBy

\* Passes stamp what they write with the day they began on.
LEMMA NextStamps ==
    ASSUME BackupInv, StampsInv, Next
    PROVE  StampsInv'
<1>1. /\ day \in Int /\ day + 1 \in Int /\ day =< day /\ day =< day + 1
      /\ local \in [Day -> Good] /\ remote \in [Day -> Good]
  BY Numbers DEF BackupInv, FilesInv
<1>2. InPass => maint.stamp \in Day /\ maint.stamp \in Int
  BY Numbers DEF BackupInv, MaintInv, InPass
<1>3. maint \in MaintRecord
  BY DEF BackupInv, MaintInv
<1>4. ASSUME local' = local, remote' = remote, day' \in {day, day + 1},
             maint' = maint \/ maint'.pc \in {"off", "start", "wait"}
      PROVE  StampsInv'
  <2>1. StampedBy(local, remote, day')
    BY <1>1, <1>4, StampedLater DEF StampsInv
  <2>2. CASE maint' = maint
    BY <1>1, <1>2, <1>4, <2>1, <2>2 DEF StampsInv, InPass
  <2>3. CASE maint'.pc \in {"off", "start", "wait"}
    BY <1>4, <2>1, <2>3 DEF StampsInv, InPass
  <2>4. QED
    BY <1>4, <2>2, <2>3
<1>5. CASE Startup \/ Tick
  <2>1. local' = local /\ remote' = remote /\ day' = day
    BY <1>5 DEF Startup, Tick, files
  <2>2. CASE maint'.pc = "wait"
    BY <1>4, <2>1, <2>2
  <2>3. CASE maint' = [maint EXCEPT !.pc = "vacuum", !.stamp = day]
    <3>1. maint'.stamp = day
      BY <1>3, <2>3 DEF MaintRecord
    <3>2. QED
      BY <1>1, <2>1, <3>1 DEF StampsInv
  <2>4. QED
    BY <1>5, <2>2, <2>3, Records DEF Startup, Tick, Backup, Back
<1>6. CASE BeginVacuum
  <2>1. local' = local /\ remote' = remote /\ day' = day
    BY <1>1, <1>6 DEF BeginVacuum, DestWhileWriting
  <2>2. maint'.stamp = maint.stamp /\ InPass
    BY <1>3, <1>6 DEF BeginVacuum, MaintRecord, InPass, At
  <2>3. QED
    BY <2>1, <2>2 DEF StampsInv
<1>7. CASE EndVacuum
  <2>1. /\ local' = [local EXCEPT ![maint.stamp] = maint.data]
        /\ remote' = remote /\ day' = day /\ InPass
    BY <1>7 DEF EndVacuum, InPass, At
  <2>2. StampedBy(local', remote', maint.stamp) /\ maint.stamp =< day
    BY <1>1, <1>2, <2>1, NewStamp DEF StampsInv
  <2>3. maint'.stamp = maint.stamp \/ maint'.pc = "wait"
    BY <1>3, <1>7, Records DEF EndVacuum, Back, MaintRecord
  <2>4. StampedBy(local', remote', day)
    BY <1>1, <1>2, <2>1, <2>2, StampedLater
  <2>5. QED
    BY <2>1, <2>2, <2>3, <2>4 DEF StampsInv, InPass
<1>8. CASE PruneLocal \/ PruneRemote \/ LoseVolume
  <2>1. \A d \in Day : local'[d] \in {local[d], NoFile} /\ remote'[d] \in {remote[d], NoFile}
    BY <1>8 DEF PruneLocal, PruneRemote, LoseVolume, Without
  <2>2. day' = day /\ StampedBy(local', remote', day)
    BY <1>8, <2>1, FewerSnapshots DEF StampsInv, PruneLocal, PruneRemote, LoseVolume
  <2>3. InPass => StampedBy(local', remote', maint.stamp)
    BY <2>1, FewerSnapshots DEF StampsInv
  <2>4. \/ maint' = maint
        \/ maint'.pc = "wait"
        \/ maint'.stamp = maint.stamp /\ InPass
    BY <1>3, <1>8, Records
       DEF PruneLocal, PruneRemote, LoseVolume, Goto, Back, MaintRecord, At, InPass
  <2>5. QED
    BY <2>2, <2>3, <2>4 DEF StampsInv, InPass
<1>9. CASE Upload
  <2>1. CASE remote' = remote
    BY <1>3, <1>4, <1>9, <2>1, Records DEF Upload, Back, Goto, MaintRecord, At, InPass, StampsInv
  <2>2. CASE /\ local[maint.stamp] # NoFile
             /\ remote' = [remote EXCEPT ![maint.stamp] = local[maint.stamp]]
             /\ Goto("rprune")
    <3>1. InPass /\ local' = local /\ day' = day
      BY <1>9 DEF Upload, InPass, At
    <3>2. \A x : StampedBy(local, remote, x) => StampedBy(local, remote', x)
      <4>1. maint.stamp \in Day
        BY <1>2, <3>1
      <4>2. QED
        BY <1>1, <2>2, <4>1, UploadedSnapshot
    <3>3. maint'.stamp = maint.stamp
      BY <1>3, <2>2 DEF Goto, MaintRecord
    <3>4. QED
      BY <3>1, <3>2, <3>3 DEF StampsInv
  <2>3. QED
    BY <1>9, <2>1, <2>2 DEF Upload
<1>10. CASE VacuumFails \/ Crash \/ Stopped \/ RunServe
  <2>1. maint'.pc \in {"off", "start", "wait"}
    BY <1>10, Records DEF VacuumFails, Crash, Stopped, RunServe, Back
  <2>2. QED
    BY <1>4, <1>10, <2>1 DEF VacuumFails, Crash, Stopped, RunServe, files
<1>11. QED
  BY <1>4, <1>5, <1>6, <1>7, <1>8, <1>9, <1>10
     DEF Next, MainStep, MaintenanceStep, FaultStep, RestoreStep, files, main,
         BootRestore, BootFresh, BootRestored, PromoteRemove, PromoteRename, BootFails,
         RestoreFails, RestoreCheck, RestoreLatest, RestoreCopy, RestoreStage,
         CompleteSetup, UserCommit, WindDown, NewDay

\* No file anywhere holds a commit that was not made.
LEMMA NextCommits ==
    ASSUME BackupInv, CommitsInv, PassInv, Next
    PROVE  CommitsInv'
<1>1. /\ commits \in Nat /\ NoFile =< commits /\ Torn =< commits /\ Pending =< commits
      /\ local \in [Day -> Good] /\ remote \in [Day -> Good]
      /\ db \in Int /\ staged \in Int /\ \A r \in Request : req[r].data \in Int
      /\ req \in [Request -> RequestRecord]
  BY Numbers, BackupAssumption
     DEF BackupInv, FilesInv, RequestInv, RequestRecord, NoFile, Torn, Pending
<1>2. \A x \in Good : \A d \in Day : local[d] = x \/ remote[d] = x => x =< commits
  BY <1>1 DEF CommitsInv, Covers, Good
<1>3. \A s \in Snapshot : Content(s) =< commits
  BY <1>1, <1>2, ContentIsGood DEF Content, Snapshot, BackupInv
<1>4. NoReq.data = NoFile
  BY DEF NoReq
<1>5. ASSUME Covers(local', remote', commits), commits' = commits,
             db' =< commits, staged' =< commits,
             \A r \in Request : req'[r].data =< commits
      PROVE  CommitsInv'
  BY <1>5 DEF CommitsInv
<1>6. /\ Covers(local, remote, commits)
      /\ db =< commits /\ staged =< commits
      /\ \A r \in Request : req[r].data =< commits
  BY DEF CommitsInv
<1>7. CASE UserCommit \/ CompleteSetup
  <2>1. /\ commits' = commits + 1 /\ db' = commits + 1
        /\ local' = local /\ remote' = remote /\ staged' = staged /\ req' = req
    BY <1>7 DEF UserCommit, CompleteSetup
  <2>2. Covers(local, remote, commits + 1)
    BY <1>1, <1>6, Numbers DEF Covers
  <2>3. QED
    BY <1>1, <1>6, <2>1, <2>2 DEF CommitsInv
<1>8. CASE PruneLocal \/ PruneRemote \/ LoseVolume
  <2>1. \A d \in Day : local'[d] \in {local[d], NoFile} /\ remote'[d] \in {remote[d], NoFile}
    BY <1>8 DEF PruneLocal, PruneRemote, LoseVolume, Without
  <2>2. Covers(local', remote', commits)
    BY <1>6, <2>1, FewerSnapshots
  <2>3. QED
    BY <1>1, <1>5, <1>6, <1>8, <2>2 DEF PruneLocal, PruneRemote, LoseVolume
<1>9. CASE EndVacuum
  <2>1. /\ local' = [local EXCEPT ![maint.stamp] = maint.data]
        /\ remote' = remote /\ maint.data \in Whole /\ maint.data =< db
    BY <1>9 DEF EndVacuum, PassInv
  <2>2. Covers(local', remote', commits)
    BY <1>1, <1>6, <2>1, Numbers DEF Covers
  <2>3. QED
    BY <1>5, <1>6, <1>9, <2>2 DEF EndVacuum
<1>10. CASE Upload
  <2>1. Covers(local', remote', commits)
    <3>1. maint.stamp \in Day
      BY <1>10 DEF Upload, BackupInv, MaintInv, At
    <3>2. QED
      BY <1>1, <1>6, <1>10, <3>1, UploadedSnapshot DEF Upload
  <2>2. QED
    BY <1>5, <1>6, <1>10, <2>1 DEF Upload
<1>11. CASE BeginVacuum
  <2>1. local' = local
    BY <1>1, <1>11 DEF BeginVacuum, DestWhileWriting
  <2>2. QED
    BY <1>5, <1>6, <1>11, <2>1 DEF BeginVacuum
<1>12. ASSUME NEW r \in Request, RestoreCopy(r) PROVE CommitsInv'
  <2>1. Content(req[r].snap) =< commits
    BY <1>3, <1>12 DEF RestoreCopy, BackupInv, RequestInv
  <2>2. \A q \in Request : req'[q].data \in {req[q].data, NoFile, Content(req[r].snap)}
    BY <1>1, <1>4, <1>12 DEF RestoreCopy, RequestRecord
  <2>3. QED
    BY <1>1, <1>5, <1>6, <1>12, <2>1, <2>2 DEF RestoreCopy, DestWhileWriting
<1>13. ASSUME NEW r \in Request, RestoreStage(r) PROVE CommitsInv'
  <2>1. staged' =< commits
    BY <1>1, <1>6, <1>13 DEF RestoreStage
  <2>2. \A q \in Request : req'[q].data \in {req[q].data, NoFile}
    BY <1>4, <1>13 DEF RestoreStage
  <2>3. QED
    BY <1>1, <1>5, <1>6, <1>13, <2>1, <2>2 DEF RestoreStage
<1>14. ASSUME NEW r \in Request, RestoreFails(r) PROVE CommitsInv'
  <2>1. \A q \in Request : req'[q].data \in {req[q].data, NoFile}
    BY <1>4, <1>14 DEF RestoreFails
  <2>2. QED
    BY <1>1, <1>5, <1>6, <1>14, <2>1 DEF RestoreFails, files
<1>15. ASSUME NEW r \in Request,
              RestoreCheck(r) \/ \E reached \in BOOLEAN : RestoreLatest(r, reached)
       PROVE  CommitsInv'
  <2>1. \A q \in Request : req'[q].data \in {req[q].data, NoFile}
    BY <1>1, <1>4, <1>15 DEF RestoreCheck, RestoreLatest, RequestRecord
  <2>2. QED
    BY <1>1, <1>5, <1>6, <1>15, <2>1 DEF RestoreCheck, RestoreLatest, files
<1>16. CASE Crash \/ BootFails \/ Stopped \/ RunServe
  <2>1. \A q \in Request : req'[q].data \in {req[q].data, NoFile}
    BY <1>1, <1>4, <1>16 DEF Crash, BootFails, Stopped, RunServe, RequestRecord
  <2>2. QED
    BY <1>1, <1>5, <1>6, <1>16, <2>1 DEF Crash, BootFails, Stopped, RunServe, files
<1>17. CASE BootRestored
  <2>1. Content(pick) =< commits
    BY <1>3, <1>17 DEF BootRestored, BackupInv, MainInv
  <2>2. QED
    BY <1>5, <1>6, <1>17, <2>1 DEF BootRestored
<1>18. CASE PromoteRemove \/ PromoteRename \/ \E reached \in BOOLEAN : BootFresh(reached) \/ BootRestore(reached)
  BY <1>1, <1>5, <1>6, <1>18
     DEF PromoteRemove, PromoteRename, BootFresh, BootRestore, DestWhileWriting
<1>19. CASE Startup \/ Tick \/ VacuumFails \/ WindDown \/ NewDay
  BY <1>5, <1>6, <1>19 DEF Startup, Tick, VacuumFails, WindDown, NewDay, files
<1>20. QED
  BY <1>7, <1>8, <1>9, <1>10, <1>11, <1>12, <1>13, <1>14, <1>15, <1>16, <1>17, <1>18, <1>19
     DEF Next, MainStep, MaintenanceStep, FaultStep, RestoreStep

\* While the store is open only commits change the database.
LEMMA NextPass ==
    ASSUME BackupInv, CommitsInv, PassInv, Next
    PROVE  PassInv'
<1>1. /\ maint \in MaintRecord
      /\ Serving <=> maint.pc # "off"
      /\ InPass => Serving
  BY DEF BackupInv, MaintInv, MainInv, Serving, InPass
<1>2. /\ NoFile \notin Whole /\ db \in Int /\ commits \in Nat /\ Pending \notin Whole
      /\ db =< commits /\ maint.data \in Int
  BY Numbers, BackupAssumption
     DEF BackupInv, FilesInv, MaintInv, MaintRecord, CommitsInv, NoFile, Pending, Whole
<1>3. /\ Off.data = NoFile /\ Off.pc = "off"
      /\ \A p \in {"off", "start", "wait"} :
            [Off EXCEPT !.pc = p].data = NoFile /\ [Off EXCEPT !.pc = p].pc = p
  BY DEF Off
<1>4. ASSUME db' = db, maint' = maint, phase' # "restoring" => pick' = NoSnap,
             phase' = phase \/ {phase, phase'} \subseteq {"running", "stopping", "restarting"}
      PROVE  PassInv'
  BY <1>4 DEF PassInv, Serving, InPass
<1>5. ASSUME db' = db, phase' = phase, pick' = pick,
             maint'.pc \in {"off", "start", "wait"}, maint'.data = NoFile
      PROVE  PassInv'
  BY <1>5 DEF PassInv, Serving, InPass
<1>6. CASE UserCommit \/ CompleteSetup
  <2>1. /\ db' = commits + 1 /\ commits < MaxCommit
        /\ maint' = maint /\ phase' = phase /\ pick' = pick
    BY <1>6 DEF UserCommit, CompleteSetup, main
  <2>2. db' \in Whole
    BY <2>1, CommitIsWhole DEF BackupInv
  <2>3. maint.data # NoFile => maint.data =< db'
    BY <1>2, <2>1 DEF PassInv
  <2>4. QED
    BY <2>1, <2>2, <2>3 DEF PassInv, InPass
<1>7. CASE Startup \/ Tick
  <2>1. db' = db /\ phase' = phase /\ pick' = pick /\ Serving /\ maint.data = NoFile
    BY <1>1, <1>7 DEF Startup, Tick, files, main, At, PassInv
  <2>2. CASE maint' = [Off EXCEPT !.pc = "wait"]
    BY <1>3, <1>5, <2>1, <2>2
  <2>3. CASE db # Pending /\ maint' = [maint EXCEPT !.pc = "vacuum", !.stamp = day]
    <3>1. maint'.pc = "vacuum" /\ maint'.data = NoFile
      BY <1>1, <2>1, <2>3 DEF MaintRecord
    <3>2. QED
      BY <2>1, <2>3, <3>1 DEF PassInv, Serving
  <2>4. QED
    BY <1>7, <2>2, <2>3 DEF Startup, Tick, Backup, Back, SkipsBackup
<1>8. CASE BeginVacuum
  <2>1. db' = db /\ phase' = phase /\ pick' = pick /\ db \in Whole
    BY <1>8 DEF BeginVacuum, main, At, PassInv, InPass
  <2>2. maint'.pc = "vacuum" /\ maint'.data = db
    BY <1>1, <1>8 DEF BeginVacuum, MaintRecord, At
  <2>3. QED
    BY <1>2, <2>1, <2>2 DEF PassInv
<1>9. CASE EndVacuum
  <2>1. db' = db /\ phase' = phase /\ pick' = pick /\ db \in Whole
    BY <1>9 DEF EndVacuum, main, At, PassInv, InPass
  <2>2. maint'.pc \in {"prune", "wait"} /\ maint'.data = NoFile
    BY <1>1, <1>3, <1>9 DEF EndVacuum, MaintRecord, Back
  <2>3. QED
    BY <2>1, <2>2 DEF PassInv
<1>10. CASE PruneLocal \/ Upload \/ PruneRemote
  <2>1. db' = db /\ phase' = phase /\ pick' = pick /\ db \in Whole
    BY <1>10 DEF PruneLocal, Upload, PruneRemote, main, At, PassInv, InPass
  <2>2. maint.data = NoFile
    BY <1>10 DEF PruneLocal, Upload, PruneRemote, At, PassInv
  <2>3. maint'.pc \in {"upload", "rprune", "wait"} /\ maint'.data = NoFile
    BY <1>1, <1>3, <1>10, <2>2 DEF PruneLocal, Upload, PruneRemote, MaintRecord, Back, Goto
  <2>4. QED
    BY <2>1, <2>3 DEF PassInv
<1>11. CASE VacuumFails
  BY <1>3, <1>5, <1>11 DEF VacuumFails, Back, files, main
<1>12. CASE Stopped \/ Crash
  <2>1. maint' = Off /\ phase' \in {"down", "promoting"} /\ pick' = NoSnap
    BY <1>12 DEF Stopped, Crash, PassInv
  <2>2. QED
    BY <1>3, <2>1 DEF PassInv, Serving, InPass
<1>13. CASE RunServe
  <2>1. /\ maint'.pc = "start" /\ maint'.data = NoFile
        /\ pick' = NoSnap /\ phase' = "running" /\ db' = db
    BY <1>3, <1>13 DEF RunServe, Booting, PassInv, files
  <2>2. db \in Whole \cup {Pending}
    BY <1>13 DEF RunServe, BackupInv, FilesInv, Good
  <2>3. QED
    BY <2>1, <2>2 DEF PassInv, InPass
<1>14. CASE \E reached \in BOOLEAN : BootRestore(reached) \/ BootFresh(reached)
  <2>1. ~Serving /\ ~Serving' /\ maint' = maint /\ (phase' # "restoring" => pick' = NoSnap)
    BY <1>14 DEF BootRestore, BootFresh, Booting, Serving, PassInv
  <2>2. QED
    BY <1>1, <2>1 DEF PassInv, InPass
<1>15. CASE BootRestored \/ PromoteRemove \/ PromoteRename \/ BootFails \/ LoseVolume
  <2>1. ~Serving /\ ~Serving' /\ maint' = maint /\ (phase' # "restoring" => pick' = NoSnap)
    BY <1>15 DEF BootRestored, PromoteRemove, PromoteRename, BootFails, LoseVolume,
                 Booting, Serving, PassInv, main
  <2>2. QED
    BY <1>1, <2>1 DEF PassInv, InPass
<1>16. QED
  BY <1>4, <1>6, <1>7, <1>8, <1>9, <1>10, <1>11, <1>12, <1>13, <1>14, <1>15
     DEF Next, MainStep, MaintenanceStep, FaultStep, RestoreStep, files, main, PassInv,
         RestoreFails, RestoreCheck, RestoreLatest, RestoreCopy, RestoreStage, WindDown, NewDay

\* A step of the history that leaves behind unset.
NotBehind ==
    /\ ChosenNow \subseteq Latest(TRUE)
    /\ PromoteRemove => db = Pending

\* Steps that leave the snapshots alone: what the database, a pass, a boot or
\* a request holds afterwards has to be as new as they are.
LEMMA SameSnapshots ==
    ASSUME NewestInv, local' = local, remote' = remote,
           Tops(local, remote, db'), Tops(local, remote, maint'.data),
           phase' = "restoring" => Tops(local, remote, Content(pick')),
           Replaceable' =>
             /\ Tops(local, remote, staged')
             /\ \A r \in Request :
                  /\ req'[r].pc = "chosen" => Tops(local, remote, Content(req'[r].snap))
                  /\ req'[r].pc = "copying" => Tops(local, remote, req'[r].data)
    PROVE  NewestInv'
<1>1. Content(pick)' = Content(pick')
  BY DEF Content
<1>2. \A r \in Request : Content(req[r].snap)' = Content(req'[r].snap)
  BY DEF Content
<1>3. QED
  BY <1>1, <1>2 DEF NewestInv

\* What is not a whole file tops everything.
LEMMA MarksTop ==
    \A l, r : /\ Tops(l, r, NoFile) /\ Tops(l, r, Torn) /\ Tops(l, r, Pending)
BY BackupAssumption DEF Tops, Whole, NoFile, Torn, Pending

\* Boot: the copy IfMissing makes is of the newest data there is.
LEMMA NewestAfterBoot ==
    ASSUME BackupInv, PassInv, NewestInv, NotBehind, MainStep
    PROVE  NewestInv'
<1> USE Marks
<1>1. NoReq.pc = "idle" /\ Off.data = NoFile /\ [Off EXCEPT !.pc = "start"].data = NoFile
  BY DEF NoReq, Off
<1>2. /\ Tops(local, remote, db) /\ Tops(local, remote, maint.data)
      /\ req \in [Request -> RequestRecord]
  BY DEF NewestInv, BackupInv, RequestInv
<1>3. ASSUME NEW reached \in BOOLEAN, BootRestore(reached) PROVE NewestInv'
  <2>1. pick = NoSnap /\ pick' \in Latest(reached)
    BY <1>3 DEF BootRestore, PassInv, Booting
  <2>2. pick' # NoSnap
    <3>1. pick' \in Snapshot
      BY <2>1, LatestIsSnapshot DEF BackupInv
    <3>2. NoSnap.source \notin {"local", "remote"}
      BY DEF NoSnap
    <3>3. QED
      BY <3>1, <3>2 DEF Snapshot
  <2>3. pick' \in Latest(TRUE)
    BY <2>1, <2>2 DEF NotBehind, ChosenNow
  <2>4. Tops(local, remote, Content(pick'))
    BY <2>3, LatestTops DEF BackupInv, NewestInv
  <2>5. QED
    BY <1>2, <1>3, <2>4, SameSnapshots DEF BootRestore, DestWhileWriting, Replaceable
<1>4. ASSUME NEW reached \in BOOLEAN, BootFresh(reached) PROVE NewestInv'
  <2>1. Stamps(local) \cup Stamps(remote) = {}
    BY <1>4, NothingFound DEF BootFresh, BackupInv
  <2>2. \A d \in Day : local[d] = NoFile /\ remote[d] = NoFile
    BY <2>1 DEF Stamps, BackupInv, FilesInv
  <2>3. NoFile \notin Whole
    BY BackupAssumption DEF NoFile, Whole
  <2>4. \A x : Tops(local, remote, x)
    BY <2>2, <2>3 DEF Tops, Covers
  <2>5. QED
    BY <1>4, <2>4, SameSnapshots DEF BootFresh
<1>5. CASE BootRestored
  <2>1. Tops(local, remote, Content(pick))
    BY <1>5 DEF BootRestored, NewestInv
  <2>2. Content(pick) # Pending
    BY <1>5, ContentIsGood DEF BootRestored, BackupInv, MainInv
  <2>3. QED
    BY <1>2, <1>5, <2>1, <2>2, SameSnapshots DEF BootRestored, Replaceable
<1>6. CASE RunServe
  <2>1. \A r \in Request :
          /\ req'[r].pc = "chosen" => req[r].pc = "chosen" /\ req'[r].snap = req[r].snap
          /\ req'[r].pc = "copying" => req[r].pc = "copying" /\ req'[r].data = req[r].data
    BY <1>1, <1>2, <1>6 DEF RunServe, RequestRecord
  <2>2. Replaceable' => Replaceable
    BY <1>6 DEF RunServe, Replaceable, files
  <2>3. maint'.data = NoFile
    BY <1>1, <1>6 DEF RunServe
  <2>4. QED
    BY <1>2, <1>6, <2>1, <2>2, <2>3, MarksTop, SameSnapshots DEF RunServe, NewestInv, files
<1>7. CASE Stopped
  <2>1. \A r \in Request :
          /\ req'[r].pc = "chosen" => req[r].pc = "chosen" /\ req'[r].snap = req[r].snap
          /\ req'[r].pc = "copying" => req[r].pc = "copying" /\ req'[r].data = req[r].data
    BY <1>1, <1>2, <1>7 DEF Stopped, RequestRecord
  <2>2. Replaceable' => Replaceable
    BY <1>7 DEF Stopped, Replaceable, files
  <2>3. maint'.data = NoFile /\ phase' # "restoring"
    BY <1>1, <1>7 DEF Stopped
  <2>4. QED
    BY <1>2, <1>7, <2>1, <2>2, <2>3, MarksTop, SameSnapshots DEF Stopped, NewestInv, files
<1>8. CASE PromoteRemove
  <2>1. Replaceable
    BY <1>8 DEF NotBehind, Replaceable
  <2>2. QED
    BY <1>2, <1>8, <2>1, MarksTop, SameSnapshots DEF PromoteRemove, NewestInv
<1>9. CASE PromoteRename
  <2>1. Replaceable /\ staged # Pending
    BY <1>9 DEF PromoteRename, Replaceable, BackupInv, FilesInv
  <2>2. ~Replaceable'
    BY <1>9, <2>1 DEF PromoteRename, Replaceable
  <2>3. QED
    BY <1>2, <1>9, <2>1, <2>2, SameSnapshots DEF PromoteRename, NewestInv
<1>10. QED
  BY <1>3, <1>4, <1>5, <1>6, <1>7, <1>8, <1>9 DEF MainStep

\* Requests: what "restore from backup" chooses is the newest data there is.
LEMMA NewestAfterRequest ==
    ASSUME BackupInv, NewestInv, NotBehind, NEW r \in Request,
           RestoreCheck(r) \/ RestoreStep(r) \/ RestoreFails(r)
    PROVE  NewestInv'
<1>1. NoReq.pc = "idle"
  BY DEF NoReq
<1>2. /\ Tops(local, remote, db) /\ Tops(local, remote, maint.data)
      /\ req \in [Request -> RequestRecord]
  BY DEF NewestInv, BackupInv, RequestInv
<1>3. ASSUME local' = local, remote' = remote, db' = db, phase' = phase, pick' = pick,
             maint' = maint,
             Replaceable =>
               /\ Tops(local, remote, staged')
               /\ \A q \in Request :
                    /\ req'[q].pc = "chosen" => Tops(local, remote, Content(req'[q].snap))
                    /\ req'[q].pc = "copying" => Tops(local, remote, req'[q].data)
      PROVE  NewestInv'
  BY <1>2, <1>3, SameSnapshots DEF NewestInv, Replaceable
<1>4. ASSUME local' = local, remote' = remote, db' = db, phase' = phase, pick' = pick,
             maint' = maint, staged' = staged,
             \A q \in Request :
               /\ req'[q].pc = "chosen" => req[q].pc = "chosen" /\ req'[q].snap = req[q].snap
               /\ req'[q].pc = "copying" => req[q].pc = "copying" /\ req'[q].data = req[q].data
      PROVE  NewestInv'
  BY <1>3, <1>4 DEF NewestInv
<1>5. CASE RestoreCheck(r)
  BY <1>2, <1>4, <1>5 DEF RestoreCheck, RequestRecord, files, main
<1>6. CASE RestoreFails(r)
  BY <1>1, <1>4, <1>6 DEF RestoreFails, files, main
<1>7. ASSUME NEW reached \in BOOLEAN, RestoreLatest(r, reached) PROVE NewestInv'
  <2>1. /\ local' = local /\ remote' = remote /\ db' = db /\ phase' = phase
        /\ pick' = pick /\ maint' = maint /\ staged' = staged
    BY <1>7 DEF RestoreLatest, files, main
  <2>2. CASE req' = [req EXCEPT ![r] = NoReq]
    BY <1>1, <1>2, <1>4, <2>1, <2>2
  <2>3. CASE \E s \in Latest(reached) : req' = [req EXCEPT ![r].pc = "chosen", ![r].snap = s]
    <3>1. /\ req'[r].pc = "chosen"
          /\ \A q \in Request \ {r} : req'[q] = req[q]
      BY <1>2, <2>3 DEF RequestRecord
    <3>2. req'[r].snap \in ChosenNow
      BY <1>7, <3>1 DEF RestoreLatest, ChosenNow
    <3>3. Tops(local, remote, Content(req'[r].snap))
      BY <3>2, LatestTops DEF NotBehind, BackupInv, NewestInv
    <3>4. QED
      BY <1>3, <2>1, <3>1, <3>3 DEF NewestInv
  <2>4. QED
    BY <1>7, <2>2, <2>3 DEF RestoreLatest
<1>8. CASE RestoreCopy(r)
  <2>1. /\ local' = local /\ remote' = remote /\ db' = db /\ phase' = phase
        /\ pick' = pick /\ maint' = maint /\ staged' = staged
    BY <1>8 DEF RestoreCopy, main, DestWhileWriting
  <2>2. CASE req' = [req EXCEPT ![r] = NoReq]
    BY <1>1, <1>2, <1>4, <2>1, <2>2
  <2>3. CASE req' # [req EXCEPT ![r] = NoReq]
    <3>1. /\ req'[r].pc = "copying" /\ req'[r].data = Content(req[r].snap)
          /\ \A q \in Request \ {r} : /\ req'[q].pc = req[q].pc
                                       /\ req'[q].snap = req[q].snap
                                       /\ req'[q].data = req[q].data
      BY <1>2, <1>8, <2>3 DEF RestoreCopy, RequestRecord
    <3>2. req[r].pc = "chosen"
      BY <1>8 DEF RestoreCopy
    <3>3. QED
      BY <1>3, <2>1, <3>1, <3>2 DEF NewestInv
  <2>4. QED
    BY <2>2, <2>3
<1>9. CASE RestoreStage(r)
  <2>1. /\ local' = local /\ remote' = remote /\ db' = db /\ phase' = phase
        /\ pick' = pick /\ maint' = maint /\ staged' \in {req[r].data, Torn}
        /\ req[r].pc = "copying"
    BY <1>9 DEF RestoreStage
  <2>2. \A q \in Request : req'[q] = req[q] \/ req'[q].pc = "idle"
    BY <1>1, <1>9 DEF RestoreStage
  <2>3. QED
    BY <1>3, <2>1, <2>2, MarksTop DEF NewestInv
<1>10. QED
  BY <1>5, <1>6, <1>7, <1>8, <1>9 DEF RestoreStep

\* Maintenance: a pass writes the database of a moment, which tops them all.
LEMMA NewestAfterPass ==
    ASSUME BackupInv, StampsInv, PassInv, NewestInv, MaintenanceStep \/ VacuumFails
    PROVE  NewestInv'
<1>1. /\ maint \in MaintRecord
      /\ local \in [Day -> Good] /\ remote \in [Day -> Good]
  BY DEF BackupInv, MaintInv, FilesInv
<1>2. InPass => /\ maint.stamp \in Day /\ db \in Whole
                /\ phase \notin {"restoring", "swapping"} /\ ~Replaceable
  BY Marks DEF BackupInv, MaintInv, PassInv, InPass, Replaceable
<1>3. /\ Off.data = NoFile
      /\ \A p \in {"off", "start", "wait"} : [Off EXCEPT !.pc = p].data = NoFile
  BY DEF Off
<1>4. ASSUME local' = local, remote' = remote, db' = db, phase' = phase, pick' = pick,
             staged' = staged, req' = req, Tops(local, remote, maint'.data)
      PROVE  NewestInv'
  BY <1>4, SameSnapshots DEF NewestInv, Replaceable
<1>5. CASE Startup \/ Tick \/ VacuumFails
  <2>1. maint'.data \in {maint.data, NoFile}
    BY <1>1, <1>3, <1>5 DEF Startup, Tick, VacuumFails, Backup, Back, MaintRecord
  <2>2. QED
    BY <1>4, <1>5, <2>1, MarksTop DEF Startup, Tick, VacuumFails, files, main, NewestInv
<1>6. CASE BeginVacuum
  <2>1. maint'.data = db /\ local' = local
    BY <1>1, <1>6 DEF BeginVacuum, DestWhileWriting, MaintRecord
  <2>2. QED
    BY <1>4, <1>6, <2>1 DEF BeginVacuum, main, NewestInv
<1>7. ASSUME InPass, db' = db, phase' = phase, Ordered(local', remote'), Mirrors(local', remote'),
             Tops(local', remote', db), Tops(local', remote', maint'.data)
      PROVE  NewestInv'
  BY <1>2, <1>7 DEF NewestInv, Replaceable
<1>8. CASE EndVacuum
  <2>1. /\ InPass /\ maint.data \in Whole /\ maint.data =< db
        /\ local' = [local EXCEPT ![maint.stamp] = maint.data]
        /\ remote' = remote /\ db' = db /\ phase' = phase
    BY <1>8 DEF EndVacuum, PassInv, InPass, At, main
  <2>2. Covers(local, remote, maint.data) /\ Covers(local, remote, db)
    BY <1>2, <2>1 DEF NewestInv, Tops
  <2>3. StampedBy(local, remote, maint.stamp) /\ maint.stamp \in Day /\ db \in Int
    BY <1>2, <2>1, Numbers DEF StampsInv
  <2>4. Ordered(local', remote') /\ Mirrors(local', remote') /\ Covers(local', remote', db)
    <3>1. /\ Ordered(local, remote) => Ordered(local', remote)
          /\ Mirrors(local, remote) => Mirrors(local', remote)
          /\ \A x \in Int : maint.data =< x /\ Covers(local, remote, x)
                             => Covers(local', remote, x)
      BY <1>1, <2>1, <2>2, <2>3, NewSnapshot
    <3>2. QED
      BY <2>1, <2>2, <2>3, <3>1 DEF NewestInv
  <2>5. maint'.data = NoFile
    BY <1>1, <1>3, <1>8 DEF EndVacuum, Back, MaintRecord
  <2>6. QED
    BY <1>7, <2>1, <2>4, <2>5, MarksTop DEF Tops
<1>9. CASE PruneLocal \/ PruneRemote
  <2>1. \A d \in Day : local'[d] \in {local[d], NoFile} /\ remote'[d] \in {remote[d], NoFile}
    BY <1>9 DEF PruneLocal, PruneRemote, Without
  <2>2. InPass /\ db' = db /\ phase' = phase /\ maint'.data \in {maint.data, NoFile}
    BY <1>1, <1>3, <1>9
       DEF PruneLocal, PruneRemote, InPass, At, main, Goto, Back, MaintRecord
  <2>3. /\ Ordered(local', remote') /\ Mirrors(local', remote')
        /\ Tops(local', remote', db) /\ Tops(local', remote', maint.data)
    BY <2>1, FewerSnapshots DEF NewestInv
  <2>4. QED
    BY <1>7, <2>2, <2>3, MarksTop
<1>10. CASE Upload
  <2>1. InPass /\ db' = db /\ phase' = phase /\ maint'.data \in {maint.data, NoFile}
    BY <1>1, <1>3, <1>10 DEF Upload, InPass, At, main, Goto, Back, MaintRecord
  <2>2. CASE remote' = remote
    BY <1>4, <1>10, <2>1, <2>2, MarksTop DEF Upload, main, NewestInv
  <2>3. CASE /\ local[maint.stamp] # NoFile
             /\ remote' = [remote EXCEPT ![maint.stamp] = local[maint.stamp]]
    <3>1. maint.stamp \in Day /\ local' = local
      BY <1>2, <1>10, <2>1 DEF Upload
    <3>2. /\ Ordered(local, remote) => Ordered(local, remote')
          /\ Mirrors(local, remote) => Mirrors(local, remote')
          /\ \A x : Tops(local, remote, x) => Tops(local, remote', x)
      BY <1>1, <2>3, <3>1, UploadedSnapshot
    <3>3. /\ Ordered(local', remote') /\ Mirrors(local', remote')
          /\ Tops(local', remote', db) /\ Tops(local', remote', maint.data)
      BY <3>1, <3>2 DEF NewestInv
    <3>4. QED
      BY <1>7, <2>1, <3>3, MarksTop
  <2>4. QED
    BY <1>10, <2>2, <2>3 DEF Upload
<1>11. QED
  BY <1>5, <1>6, <1>8, <1>9, <1>10 DEF MaintenanceStep

\* Crashes, lost volumes, signals, commits and the passing of days.
LEMMA NewestAfterOthers ==
    ASSUME BackupInv, CommitsInv, PassInv, NewestInv,
           Crash \/ LoseVolume \/ BootFails \/ CompleteSetup \/ UserCommit \/ WindDown \/ NewDay
    PROVE  NewestInv'
<1>1. NoReq.pc = "idle" /\ Off.data = NoFile
  BY DEF NoReq, Off
<1>2. Tops(local, remote, db) /\ Tops(local, remote, maint.data)
  BY DEF NewestInv
<1>3. CASE Crash \/ BootFails
  <2>1. /\ local' = local /\ remote' = remote /\ db' = db /\ staged' = staged
        /\ phase' = "down" /\ maint'.data \in {maint.data, NoFile}
    BY <1>1, <1>3 DEF Crash, BootFails, files
  <2>2. \A r \in Request : req'[r].pc = "idle"
    BY <1>1, <1>3 DEF Crash, BootFails
  <2>3. QED
    BY <1>2, <2>1, <2>2, MarksTop, SameSnapshots DEF NewestInv, Replaceable
<1>4. CASE LoseVolume
  <2>1. \A d \in Day : local'[d] \in {local[d], NoFile} /\ remote'[d] \in {remote[d], NoFile}
    BY <1>4 DEF LoseVolume
  <2>2. /\ Ordered(local', remote') /\ Mirrors(local', remote')
        /\ Tops(local', remote', maint.data)
    BY <2>1, FewerSnapshots DEF NewestInv
  <2>3. phase' = "down" /\ db' = NoFile /\ maint' = maint /\ ~Replaceable'
    BY <1>4, Marks DEF LoseVolume, Replaceable, main
  <2>4. QED
    BY <2>2, <2>3, MarksTop DEF NewestInv
<1>5. CASE CompleteSetup \/ UserCommit
  <2>1. /\ local' = local /\ remote' = remote /\ db' = commits + 1 /\ maint' = maint
        /\ phase' = phase /\ Serving /\ commits < MaxCommit
    BY <1>5 DEF CompleteSetup, UserCommit, main
  <2>2. db' # Pending /\ commits \in Int
    BY <2>1, CommitIsWhole DEF BackupInv, FilesInv
  <2>3. Covers(local, remote, commits + 1)
    BY <2>2, Numbers DEF CommitsInv, Covers
  <2>4. ~Replaceable' /\ phase' # "restoring"
    BY <2>1, <2>2 DEF Replaceable, Serving
  <2>5. QED
    BY <1>2, <2>1, <2>3, <2>4, SameSnapshots DEF Tops
<1>6. CASE WindDown \/ NewDay
  <2>1. /\ local' = local /\ remote' = remote /\ db' = db /\ staged' = staged
        /\ maint' = maint /\ req' = req /\ pick' = pick
        /\ phase' = phase \/ phase' \in {"stopping", "restarting"}
    BY <1>6 DEF WindDown, NewDay, files, main
  <2>2. QED
    BY <1>2, <2>1, SameSnapshots DEF NewestInv, Replaceable
<1>7. QED
  BY <1>3, <1>4, <1>5, <1>6

\* The first state, whatever snapshots it is given.
LEMMA InitOrder == HInit => OrderInv
<1> SUFFICES ASSUME HInit PROVE OrderInv
  OBVIOUS
<1>1. Init /\ BackupInv /\ commits \in Nat /\ day \in Int
  BY InitInv, Numbers DEF HInit, BackupInv, FilesInv
<1>2. /\ NoFile \notin Whole /\ NoFile =< commits /\ Pending =< commits
      /\ NoReq.data = NoFile /\ NoReq.pc = "idle" /\ Off.data = NoFile /\ Off.pc = "off"
      /\ Pending \notin Whole
  BY <1>1, BackupAssumption DEF NoFile, Pending, Whole, NoReq, Off
<1>3. \A d \in Day : /\ local[d] = NoFile \/ (local[d] = d /\ d =< commits)
                     /\ remote[d] = NoFile \/ (remote[d] = d /\ d =< commits)
  BY <1>1, BackupAssumption DEF Init, Day
<1>4. commits =< day
  BY <1>1 DEF Init
<1>5. StampsInv
  BY <1>1, <1>2, <1>3, <1>4, Numbers DEF StampsInv, StampedBy, InPass, Init
<1>6. CommitsInv
  BY <1>1, <1>2, <1>3, Numbers DEF CommitsInv, Covers, Init
<1>7. PassInv
  BY <1>1, <1>2 DEF PassInv, Serving, InPass, Init
<1>8. Ordered(local, remote) /\ Mirrors(local, remote)
  BY <1>2, <1>3, Numbers DEF Ordered, Mirrors
<1>9. NewestInv
  BY <1>1, <1>2, <1>8, MarksTop DEF NewestInv, Init
<1>10. QED
  BY <1>1, <1>5, <1>6, <1>7, <1>9 DEF OrderInv

\* Every step of the history.
LEMMA NextOrder == OrderInv /\ [HNext]_hvars => OrderInv'
<1> SUFFICES ASSUME OrderInv, [HNext]_hvars PROVE OrderInv'
  OBVIOUS
<1>1. CASE HNext
  <2>1. Next /\ BackupInv /\ StampsInv /\ CommitsInv /\ PassInv
    BY <1>1 DEF HNext, OrderInv
  <2>2. BackupInv' /\ StampsInv' /\ CommitsInv' /\ PassInv'
    BY <2>1, NextInv, NextStamps, NextCommits, NextPass
  <2>3. ASSUME ~behind' PROVE NewestInv'
    <3>1. NewestInv /\ NotBehind
      BY <1>1, <2>3 DEF HNext, OrderInv, NotBehind
    <3>2. QED
      BY <2>1, <3>1, NewestAfterBoot, NewestAfterRequest, NewestAfterPass, NewestAfterOthers
         DEF Next, FaultStep
  <2>4. QED
    BY <2>2, <2>3 DEF OrderInv
<1>2. CASE UNCHANGED hvars
  <2>1. UNCHANGED vars /\ behind' = behind
    BY <1>2 DEF hvars
  <2>2. BackupInv'
    BY <2>1, NextInv DEF OrderInv
  <2>3. StampsInv' /\ CommitsInv' /\ PassInv'
    BY <2>1 DEF vars, files, main, OrderInv, StampsInv, CommitsInv, PassInv, InPass, Serving
  <2>4. NewestInv => NewestInv'
    BY <2>1 DEF vars, files, main, NewestInv, Replaceable, Content
  <2>5. QED
    BY <2>1, <2>2, <2>3, <2>4 DEF OrderInv
<1>3. QED
  BY <1>1, <1>2

\* As long as no restore went back behind what existed, a later name is later
\* data, through any number of lost volumes, restores and failed passes.
THEOREM LaterIsNewer == HSpec => []SnapshotsInOrder
<1>1. OrderInv => SnapshotsInOrder
  BY DEF OrderInv, NewestInv, Ordered, SnapshotsInOrder
<1>2. QED
  BY <1>1, InitOrder, NextOrder, PTL DEF HSpec
====
