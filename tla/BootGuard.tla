----------------------------- MODULE BootGuard -----------------------------
(***************************************************************************)
(* The database file across restarts: restores of a backup archive         *)
(* (services/system_service.go), the snapshot and rollback around schema   *)
(* migrations (services/system_migration_guard.go and                      *)
(* cmd/api/migrations_guard.go), and the boot that runs both before it     *)
(* serves (cmd/api/main.go).  The process may end between any two steps.   *)
(*                                                                         *)
(* A complete file is a record: data numbers what the blog holds, done are *)
(* the migrations it records, and begun those that have written statements *)
(* but no record.  A build declares the migrations 1..build.  Snapshots    *)
(* are named by the boot that took them, which is also their age.          *)
(***************************************************************************)
EXTENDS Naturals, FiniteSets

CONSTANTS
    Last,       \* migrations that the newest build declares
    KeepCount,  \* MIGRATION_BACKUP_KEEP
    MaxBoots,   \* bound: boots
    MaxWrites,  \* bound: changes of the blog's data
    Empty,      \* a file without a table
    Torn,       \* a file that is not a database any more
    NoFile

Steps == 1..Last

Content == [data : 0..(MaxWrites + 1), done : SUBSET Steps, begun : SUBSET Steps]

(* What schema.sql makes of an empty file.                                 *)
Fresh == [data |-> 0, done |-> {}, begun |-> {}]

ASSUME BootGuardAssumption ==
    /\ {Last, KeepCount, MaxBoots, MaxWrites} \subseteq Nat
    /\ Empty # Torn /\ Torn # NoFile /\ NoFile # Empty
    /\ {Empty, Torn, NoFile} \cap Content = {}

Boots == 1..MaxBoots

VARIABLES
    pc,        \* where the process stands; "off" when there is none
    boot,      \* number of this boot
    build,     \* the build it runs
    db,        \* point.db together with its own WAL
    wal,       \* whose WAL lies beside it: "none", its "own" or "foreign"
    archives,  \* contents of the backup archives
    pending,   \* backups/pending_restore: the archive it names
    target,    \* the archive that this boot restores
    snaps,     \* snaps[b]: the snapshot of boot b
    marker,    \* migrations/restore_pending: the snapshot it names, or 0
    next,      \* the migration that Run has come to
    failed,    \* a migration has failed in this boot
    wanted,    \* history: the data that the blog must show
    base,      \* history: the file last served or restored
    cut,       \* history: the restore of an archive ended midway
    forsaken,  \* history: migrations were left unfinished and not rolled back
    taken,     \* history: snapshots begun since base was served
    stuck,     \* history: a marker could not be removed
    restored   \* history: this boot ended with a rollback

files == <<db, wal, archives, pending, snaps, marker>>
run == <<target, next, failed>>
history == <<wanted, base, cut, forsaken, taken, stuck, restored>>
vars == <<pc, boot, build, files, run, history>>

BootSteps ==
    {"pending", "extract", "copy", "copying", "sweep", "resume", "open", "guard",
     "prune", "snapshot", "vacuum", "migrate", "step", "close", "mark", "stage",
     "unlink", "swap", "unmark"}

TypeOK ==
    /\ pc \in BootSteps \cup {"off", "serving"}
    /\ boot \in 0..MaxBoots
    /\ build \in 0..Last
    /\ db \in Content \cup {Empty, Torn}
    /\ wal \in {"none", "own", "foreign"}
    /\ archives \subseteq Content
    /\ pending \in Content \cup {NoFile}
    /\ target \in Content \cup {NoFile}
    /\ snaps \in [Boots -> Content \cup {Torn, NoFile}]
    /\ marker \in 0..boot
    /\ pc \in {"stage", "unlink", "swap"} => snaps[marker] \in Content
    /\ next \in 1..(Last + 1)
    /\ failed \in BOOLEAN
    /\ wanted \in 0..(MaxWrites + 1)
    /\ base \in Content
    /\ cut \in BOOLEAN
    /\ forsaken \in BOOLEAN
    /\ taken \in 0..MaxBoots
    /\ stuck \in BOOLEAN
    /\ restored \in BOOLEAN

Init ==
    /\ pc = "off"
    /\ boot = 0
    /\ build = 0
    /\ db = [data |-> 1, done |-> {}, begun |-> {}]
    /\ wal = "none"
    /\ archives = {}
    /\ pending = NoFile
    /\ target = NoFile
    /\ snaps = [b \in Boots |-> NoFile]
    /\ marker = 0
    /\ next = 1
    /\ failed = FALSE
    /\ wanted = 1
    /\ base = db
    /\ cut = FALSE
    /\ forsaken = FALSE
    /\ taken = 0
    /\ stuck = FALSE
    /\ restored = FALSE

Goto(l) == pc' = l /\ UNCHANGED <<boot, build>>

(* From here on content c is what an upgrade must not lose.                *)
Settle(c) ==
    /\ base' = c
    /\ taken' = IF c.begun = {} THEN 0 ELSE taken

-----------------------------------------------------------------------------
(* main: any build may be started, a newer one or the previous one.        *)
Start ==
    /\ pc = "off"
    /\ boot < MaxBoots
    /\ pc' = "pending"
    /\ boot' = boot + 1
    /\ build' \in 0..Last
    /\ next' = 1
    /\ failed' = FALSE
    /\ target' = NoFile
    /\ restored' = FALSE
    /\ UNCHANGED <<files, wanted, base, cut, forsaken, taken, stuck>>

(* The process is killed, crashes, or meets an error that ends the boot    *)
(* with os.Exit; nothing that is deferred runs.                            *)
Dies ==
    /\ pc # "off"
    /\ Goto("off")
    /\ cut' = (cut \/ pc \in {"copy", "copying"} \/ (pc = "sweep" /\ wal = "foreign"))
    /\ forsaken' = (forsaken \/ (pc \in {"migrate", "step", "close", "mark"} /\ db # base))
    /\ UNCHANGED <<files, run, wanted, base, taken, stuck, restored>>

-----------------------------------------------------------------------------
(* ApplyPendingRestore.                                                    *)

(* The marker is consumed before the archive is extracted; an error of the *)
(* removal is ignored.                                                     *)
ReadPending ==
    /\ pc = "pending"
    /\ target' = pending
    /\ Goto(IF pending = NoFile THEN "resume" ELSE "extract")
    /\ \/ pending' = NoFile /\ UNCHANGED stuck
       \/ pending # NoFile /\ stuck' = TRUE /\ UNCHANGED pending
    /\ UNCHANGED <<db, wal, archives, snaps, marker, next, failed>>
    /\ UNCHANGED <<wanted, base, cut, forsaken, taken, restored>>

(* The archive is gone or unreadable before its last entry, the database:  *)
(* the boot goes on with the files it has.                                 *)
ExtractFails ==
    /\ pc = "extract"
    /\ Goto("resume")
    /\ UNCHANGED <<files, run, history>>

(* A WAL beside a file that is replaced belongs to the file that was there.*)
Orphan == IF wal = "own" THEN "foreign" ELSE wal

(* extractTarGz creates point.db, which empties the one in place.          *)
Truncate ==
    /\ pc = "extract"
    /\ target \in archives
    /\ db' = Empty
    /\ wal' = Orphan
    /\ Goto("copy")
    /\ UNCHANGED <<archives, pending, snaps, marker, run, history>>

CopyPart ==
    /\ pc = "copy"
    /\ db' = Torn
    /\ Goto("copying")
    /\ UNCHANGED <<wal, archives, pending, snaps, marker, run, history>>

(* The error is logged and the boot goes on.                               *)
CopyFails ==
    /\ pc \in {"copy", "copying"}
    /\ Goto("resume")
    /\ cut' = TRUE
    /\ UNCHANGED <<files, run, wanted, base, forsaken, taken, stuck, restored>>

CopyRest ==
    /\ pc = "copying"
    /\ db' = target
    /\ wanted' = target.data
    /\ Settle(target)
    /\ forsaken' = (target.begun # {})
    /\ cut' = FALSE
    /\ Goto("sweep")
    /\ UNCHANGED <<wal, archives, pending, snaps, marker, run, stuck, restored>>

(* Mutant: the WAL of the database before the restore is left beside it.   *)
SweepNothing ==
    /\ pc = "sweep"
    /\ Goto("resume")
    /\ UNCHANGED <<files, run, history>>

(* removeDBSidecars.                                                       *)
Sweep ==
    /\ pc = "sweep"
    /\ wal' = "none"
    /\ Goto("resume")
    /\ UNCHANGED <<db, archives, pending, snaps, marker, run, history>>

-----------------------------------------------------------------------------
(* RestoreDBSnapshot, entered by a boot that finds its marker or by the    *)
(* one whose migrations failed.                                            *)

Resume ==
    /\ pc = "resume"
    /\ \/ marker = 0 /\ Goto("open")
       \/ marker # 0 /\ snaps[marker] # NoFile /\ Goto("stage")
    /\ UNCHANGED <<files, run, history>>

(* The snapshot is copied to a file of its own.                            *)
Stage ==
    /\ pc = "stage"
    /\ Goto("unlink")
    /\ UNCHANGED <<files, run, history>>

(* A file that loses its own WAL loses what was only there.                *)
Unlink ==
    /\ pc = "unlink"
    /\ wal' = "none"
    /\ db' = IF wal = "own" /\ db # Empty THEN Torn ELSE db
    /\ Goto("swap")
    /\ UNCHANGED <<archives, pending, snaps, marker, run, history>>

Swap ==
    /\ pc = "swap"
    /\ db' = snaps[marker]
    /\ wal' = Orphan
    /\ Goto("unmark")
    /\ UNCHANGED <<archives, pending, snaps, marker, run, history>>

(* An error of the removal is ignored.  After a failed migration the boot  *)
(* ends here.                                                              *)
Unmark ==
    /\ pc = "unmark"
    /\ wal' = "none"
    /\ \/ marker' = 0 /\ UNCHANGED stuck
       \/ stuck' = TRUE /\ UNCHANGED marker
    /\ Goto(IF failed THEN "off" ELSE "open")
    /\ restored' = failed
    /\ UNCHANGED <<db, archives, pending, snaps, run, wanted, base, cut, forsaken, taken>>

-----------------------------------------------------------------------------
(* NewRepository: an empty file is initialised, and its WAL is not read.   *)
(* A torn file, or a WAL of another file, may pass its checks.             *)
Open ==
    /\ pc = "open"
    /\ db' = IF db = Empty THEN Fresh ELSE IF wal = "foreign" THEN Torn ELSE db
    /\ wal' = "own"
    /\ Goto("guard")
    /\ UNCHANGED <<archives, pending, snaps, marker, run, history>>

Pending == IF db \in Content THEN 1..build \ db.done ELSE {}

Serve ==
    /\ Goto("serving")
    /\ \/ db \in Content /\ Settle(db) /\ forsaken' = (forsaken /\ db.begun # {})
       \/ db = Torn /\ UNCHANGED <<base, forsaken, taken>>
    /\ UNCHANGED <<files, run, wanted, cut, stuck, restored>>

(* runMigrationsGuarded: no snapshot when nothing is pending, and one when *)
(* that cannot be told.                                                    *)
Unneeded ==
    /\ pc = "guard"
    /\ Pending = {}
    /\ Serve

Guard ==
    /\ pc = "guard"
    /\ Goto("prune")
    /\ UNCHANGED <<files, run, history>>

(* Mutant: sorted the other way, so that the oldest are kept.              *)
KeptOldest(n) ==
    [b \in Boots |->
        IF Cardinality({c \in Boots : c < b /\ snaps[c] # NoFile}) < n
        THEN snaps[b] ELSE NoFile]

(* The snapshots that remain when the n newest are kept.                   *)
Kept(n) ==
    [b \in Boots |->
        IF Cardinality({c \in Boots : c > b /\ snaps[c] # NoFile}) < n
        THEN snaps[b] ELSE NoFile]

(* SnapshotForMigrations: prune first, then write.  An error of the prune  *)
(* is only logged.                                                         *)
Prune ==
    /\ pc = "prune"
    /\ snaps' \in {snaps} \cup (IF KeepCount > 0 THEN {Kept(KeepCount - 1)} ELSE {})
    /\ Goto("snapshot")
    /\ UNCHANGED <<db, wal, archives, pending, marker, run, history>>

Snapshot ==
    /\ pc = "snapshot"
    /\ snaps' = [snaps EXCEPT ![boot] = Torn]
    /\ taken' = taken + 1
    /\ Goto("vacuum")
    /\ UNCHANGED <<db, wal, archives, pending, marker, run>>
    /\ UNCHANGED <<wanted, base, cut, forsaken, stuck, restored>>

(* VACUUM INTO copies a consistent database.                               *)
Vacuum ==
    /\ pc = "vacuum"
    /\ db \in Content
    /\ snaps' = [snaps EXCEPT ![boot] = db]
    /\ Goto("migrate")
    /\ UNCHANGED <<db, wal, archives, pending, marker, run, history>>

(* The server refuses to start, and its half-written snapshot is removed.  *)
VacuumFails ==
    /\ pc = "vacuum"
    /\ snaps' = [snaps EXCEPT ![boot] = NoFile]
    /\ Goto("off")
    /\ UNCHANGED <<db, wal, archives, pending, marker, run, history>>

-----------------------------------------------------------------------------
(* migrations.Run: every migration is tried, whatever became of the ones   *)
(* before it.                                                              *)
Todo == {s \in Pending : s >= next}

(* The statements of a migration, outside any transaction.                 *)
Begin ==
    /\ pc = "migrate"
    /\ next' \in {s \in Todo : \A t \in Todo : s <= t}
    /\ db' = [db EXCEPT !.begun = @ \cup {next'}]
    /\ Goto("step")
    /\ UNCHANGED <<wal, archives, pending, snaps, marker, target, failed, history>>

(* The row of migration_history.                                           *)
Recorded ==
    /\ pc = "step"
    /\ db' = [db EXCEPT !.begun = @ \ {next}, !.done = @ \cup {next}]
    /\ next' = next + 1
    /\ Goto("migrate")
    /\ UNCHANGED <<wal, archives, pending, snaps, marker, target, failed, history>>

StepFails ==
    /\ pc = "step"
    /\ failed' = TRUE
    /\ next' = next + 1
    /\ Goto("migrate")
    /\ UNCHANGED <<files, target, history>>

RunEnds ==
    /\ pc = "migrate"
    /\ Todo = {}
    /\ IF failed THEN Goto("close") /\ UNCHANGED <<files, run, history>> ELSE Serve

(* repo.Close, whose error is only logged.                                 *)
Close ==
    /\ pc = "close"
    /\ wal' \in {"none", wal}
    /\ Goto("mark")
    /\ UNCHANGED <<db, archives, pending, snaps, marker, run, history>>

(* Mutant: any snapshot of the directory is restored, whole or not.        *)
MarkAny ==
    /\ pc = "mark"
    /\ marker' \in {b \in Boots : snaps[b] # NoFile}
    /\ Goto("stage")
    /\ UNCHANGED <<db, wal, archives, pending, snaps, run, history>>

(* Mutant: any complete snapshot of the directory is restored.             *)
MarkComplete ==
    /\ pc = "mark"
    /\ marker' \in {b \in Boots : snaps[b] \in Content}
    /\ Goto("stage")
    /\ UNCHANGED <<db, wal, archives, pending, snaps, run, history>>

(* RestoreDBSnapshot writes its marker before it touches the database.     *)
Mark ==
    /\ pc = "mark"
    /\ marker' = boot
    /\ Goto("stage")
    /\ UNCHANGED <<db, wal, archives, pending, snaps, run, history>>

-----------------------------------------------------------------------------
(* While the server runs.                                                  *)

Write ==
    /\ pc = "serving"
    /\ db \in Content
    /\ wanted <= MaxWrites
    /\ db' = [db EXCEPT !.data = wanted + 1]
    /\ wanted' = wanted + 1
    /\ base' = db'
    /\ cut' = FALSE
    /\ Goto("serving")
    /\ UNCHANGED <<wal, archives, pending, snaps, marker, run, forsaken, taken, stuck, restored>>

(* CreateBackup.                                                           *)
Backup ==
    /\ pc = "serving"
    /\ db \in Content
    /\ archives' = archives \cup {db}
    /\ Goto("serving")
    /\ UNCHANGED <<db, wal, pending, snaps, marker, run, history>>

(* RotateBackups and DeleteBackup.                                         *)
DeleteBackup ==
    /\ pc = "serving"
    /\ \E c \in archives : archives' = archives \ {c}
    /\ Goto("serving")
    /\ UNCHANGED <<db, wal, pending, snaps, marker, run, history>>

ScheduleRestore ==
    /\ pc = "serving"
    /\ pending' \in archives
    /\ Goto("serving")
    /\ UNCHANGED <<db, wal, archives, snaps, marker, run, history>>

(* A clean stop closes the database; a re-exec for a restart does not.     *)
Stop ==
    /\ pc = "serving"
    /\ wal' \in {"none", wal}
    /\ Goto("off")
    /\ UNCHANGED <<db, archives, pending, snaps, marker, run, history>>

-----------------------------------------------------------------------------
Next ==
    \/ Start \/ Dies
    \/ ReadPending \/ ExtractFails \/ Truncate \/ CopyPart \/ CopyFails \/ CopyRest \/ Sweep
    \/ Resume \/ Stage \/ Unlink \/ Swap \/ Unmark
    \/ Open \/ Unneeded \/ Guard \/ Prune \/ Snapshot \/ Vacuum \/ VacuumFails
    \/ Begin \/ Recorded \/ StepFails \/ RunEnds \/ Close \/ Mark
    \/ Write \/ Backup \/ DeleteBackup \/ ScheduleRestore \/ Stop

Spec == Init /\ [][Next]_vars

-----------------------------------------------------------------------------
(* The server never opens anything but the data it last showed or the      *)
(* archive it was told to restore: not a stale snapshot, not an empty      *)
(* database, not a file under another file's WAL, and not a schema between *)
(* two builds.  It may after a restore of an archive that ended midway, a  *)
(* marker that could not be removed, or migrations nobody rolled back.     *)
ServedIsWanted ==
    pc = "serving" =>
        \/ cut
        \/ stuck
        \/ /\ db \in Content
           /\ wal # "foreign"
           /\ db.data = wanted
           /\ db.begun = {} \/ forsaken

(* After a rollback the database is exactly the one before the upgrade,    *)
(* across boots, unless an attempt in between was left without a rollback. *)
RolledBackExactly ==
    restored => cut \/ stuck \/ forsaken \/ db = base

(* As complete as what was last served.                                    *)
Good(c) ==
    /\ c \in Content
    /\ c.data = wanted
    /\ c.begun \subseteq base.begun

(* Wherever the process ends, the blog is still whole in some file: the    *)
(* database, a snapshot or an archive.  Migrations left unfinished lose it *)
(* only after KeepCount snapshots of what they left.                       *)
CopySurvives ==
    \/ cut
    \/ stuck
    \/ pc \in {"copy", "copying"} /\ target \in archives
    \/ forsaken /\ KeepCount > 0 /\ taken >= KeepCount
    \/ Good(db) /\ wal # "foreign"
    \/ \E b \in Boots : Good(snaps[b])
    \/ \E c \in archives : Good(c)

=============================================================================
