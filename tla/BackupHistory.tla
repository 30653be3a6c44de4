--------------------------- MODULE BackupHistory ---------------------------
(***************************************************************************)
(* BackupRestore with what an operator would remember: whether a restore   *)
(* ever went back behind what existed.                                     *)
(***************************************************************************)
EXTENDS BackupRestore

VARIABLE
    behind   \* a snapshot was chosen while the bucket held a newer one, or
             \* a database that had been set up was replaced

hvars == <<vars, behind>>

HInit == Init /\ behind = FALSE

\* The snapshots this step has settled on.
ChosenNow ==
    ({pick'} \ {pick, NoSnap})
        \cup {req'[r].snap : r \in {q \in Request : req[q].pc = "checked" /\ req'[q].pc = "chosen"}}

HNext ==
    /\ Next
    /\ behind' = \/ behind
                 \/ ~(ChosenNow \subseteq Latest(TRUE))
                 \/ PromoteRemove /\ db # Pending

HSpec == HInit /\ [][HNext]_hvars

\* Nothing is assumed of users, faults and signals.
HFairSpec == HSpec /\ WF_hvars(MaintenanceStep /\ HNext)

----------------------------------------------------------------------------

\* Later snapshots hold later data, across both sides, lost volumes and
\* restores, as long as no restore had to fall back behind the bucket and
\* none overtook a setup: "newest name" is then "newest data".
SnapshotsInOrder ==
    ~behind => \A d, e \in Day : d < e =>
        \A a \in {local[d], remote[d]} \cap Whole, b \in {local[e], remote[e]} \cap Whole : a =< b

\* A server that stays up has every commit in a local snapshot eventually.
CommitsAreBackedUp ==
    \A c \in Whole : (phase = "running" /\ db = c)
                        ~> (phase # "running" \/ \E d \in Day : local[d] >= c)
====
