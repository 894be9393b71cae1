-------------------------- MODULE BootGuardProofs --------------------------
(***************************************************************************)
(* Proofs about BootGuard for every number of boots, migrations, writes    *)
(* and kept snapshots: its types, what the server may open, what a         *)
(* rollback leaves, and that the blog survives.                            *)
(*                                                                         *)
(* None of them is inductive, because what will be served lies in a        *)
(* different file at each step: in point.db, in the snapshot of this boot  *)
(* once migrations begin, and in the snapshot that the marker names from   *)
(* Mark to Unmark, whatever crashes come between.  Trusted and Unchanged   *)
(* say so for all three.  Held says where a whole copy is when none is     *)
(* served: in the database until it is upgraded or rolled back, then in a  *)
(* snapshot with fewer than taken behind it, which pruning leaves alone.   *)
(***************************************************************************)
EXTENDS BootGuard, FiniteSetTheorems, TLAPS

Early == {"pending", "extract", "copy", "copying", "sweep", "resume"}
Upgrading == {"migrate", "step", "close", "mark"}
Restoring == {"stage", "unlink", "swap", "unmark"}
Ahead == Early \cup {"open", "guard", "prune", "snapshot"}

(* Where the boot stands.                                                  *)
Order ==
    /\ pc # "off" => boot # 0
    /\ pc # "off" /\ ~failed => marker < boot
    /\ failed => pc \in Upgrading \cup Restoring \cup {"off"}
    /\ pc \in {"close", "mark"} => failed
    /\ pc = "step" => next \in Steps
    /\ pc \in Upgrading => db \in Content /\ snaps[boot] \in Content
    /\ marker # 0 => snaps[marker] # Torn
    /\ pc \in Restoring => marker # 0 /\ snaps[marker] \in Content
    /\ pc = "unmark" => db = snaps[marker]
    /\ taken <= boot
    /\ pc \in Ahead \/ (pc \in Restoring /\ ~failed) => taken < boot
    /\ pc \in {"extract", "copy", "copying", "sweep"} => target \in Content
    /\ restored => pc = "off" /\ db \in Content /\ (marker = 0 \/ stuck)

(* When markers are there.                                                 *)
Markers ==
    /\ marker # 0 => pc \in {"off", "pending", "resume"} \cup Restoring
    /\ pending # NoFile => pc \in {"off", "pending", "serving"} /\ marker = 0
    /\ marker # 0 => snaps[marker] \in Content

(* A WAL of another file is only there while an archive is extracted.      *)
OwnWal ==
    /\ pc \in {"swap", "unmark"} => wal = "none"
    /\ pc \in {"guard", "prune", "snapshot", "vacuum", "migrate", "step", "close", "serving"}
          => wal = "own"
    /\ ~cut /\ wal = "foreign" => pc \in {"copy", "copying", "sweep"}

(* No file is in the middle of a migration but the one being migrated.     *)
Clean(c) == c.begun = {} \/ forsaken

Finished ==
    /\ Clean(base)
    /\ db \in Content /\ pc \notin Upgrading /\ marker = 0 => Clean(db)
    /\ pc = "migrate" /\ ~failed => Clean(db)
    /\ pc = "step" /\ ~failed => forsaken \/ db.begun \subseteq {next}
    /\ pc \in Upgrading => Clean(snaps[boot])
    /\ marker # 0 => Clean(snaps[marker])

(* The data the blog must show is in the file that will be served.         *)
Trusted ==
    /\ db \notin Content => pc \in {"copy", "copying"} \/ marker # 0
    /\ db \in Content /\ marker = 0 => db.data = wanted
    /\ pc \in Upgrading => snaps[boot].data = wanted
    /\ marker # 0 => snaps[marker].data = wanted

(* So is the very file that was served last.                               *)
Unchanged ==
    /\ db \in Content /\ pc \notin Upgrading /\ marker = 0 => db = base
    /\ pc \in Upgrading => snaps[boot] = base
    /\ marker # 0 => snaps[marker] = base

FileTypes ==
    /\ db \in Content \cup {Empty, Torn}
    /\ wal \in {"none", "own", "foreign"}
    /\ archives \subseteq Content
    /\ pending \in Content \cup {NoFile}
    /\ snaps \in [Boots -> Content \cup {Torn, NoFile}]
    /\ marker \in 0..boot
    /\ pc \in {"stage", "unlink", "swap"} => snaps[marker] \in Content

RunTypes ==
    /\ pc \in BootSteps \cup {"off", "serving"}
    /\ boot \in 0..MaxBoots
    /\ build \in 0..Last
    /\ target \in Content \cup {NoFile}
    /\ next \in 1..(Last + 1)
    /\ failed \in BOOLEAN

HistoryTypes ==
    /\ wanted \in 0..(MaxWrites + 1)
    /\ base \in Content
    /\ cut \in BOOLEAN
    /\ forsaken \in BOOLEAN
    /\ stuck \in BOOLEAN
    /\ restored \in BOOLEAN
    /\ taken \in 0..MaxBoots

IInv ==
    /\ FileTypes
    /\ RunTypes
    /\ HistoryTypes
    /\ Order
    /\ OwnWal
    /\ ~stuck => Markers
    /\ ~stuck => Finished
    /\ ~stuck /\ ~cut => Trusted
    /\ ~stuck /\ ~cut /\ ~forsaken => Unchanged

(* A snapshot that holds the blog, with less of them behind it than were   *)
(* begun since: pruning keeps it as long as fewer than KeepCount were.     *)
Later(b) == {c \in Boots : c > b /\ snaps[c] # NoFile}
Saved(b) == Good(snaps[b]) /\ Cardinality(Later(b)) < taken

(* What the boot has of its own.                                           *)
Fresher ==
    /\ \A b \in Boots : b > boot => snaps[b] = NoFile
    /\ pc \in Ahead \/ (pc \in Restoring /\ ~failed) =>
          \A b \in Boots : b = boot => snaps[b] = NoFile
    /\ pc = "vacuum" => taken > 0 /\ \A b \in Boots : b = boot => snaps[b] = Torn
    /\ pc \in {"copy", "copying"} => target \in archives

(* In the database only as long as it is neither upgraded nor rolled back. *)
InPlace ==
    \/ pc \in {"copy", "copying"}
    \/ pc = "sweep" /\ Good(db) /\ db \in archives
    \/ Good(db) /\ wal # "foreign" /\ pc \notin Upgrading \cup Restoring /\ marker = 0

(* Where the blog is whole.                                                *)
Held ==
    \/ cut \/ stuck
    \/ forsaken /\ KeepCount > 0 /\ taken >= KeepCount
    \/ InPlace
    \/ \E b \in Boots : Saved(b)

CInv == Fresher /\ Held

-----------------------------------------------------------------------------
(* The constants, one fact each.                                           *)
LEMMA Constants ==
    /\ Last \in Nat /\ KeepCount \in Nat /\ MaxBoots \in Nat /\ MaxWrites \in Nat
    /\ Empty # Torn /\ Torn # NoFile /\ NoFile # Empty
    /\ Empty \notin Content /\ Torn \notin Content /\ NoFile \notin Content
BY BootGuardAssumption

(* What the statements of the program make of a complete file.             *)
LEMMA Records ==
    /\ Fresh \in Content /\ Fresh.begun = {}
    /\ \A c \in Content :
        /\ c.data \in 0..(MaxWrites + 1)
        /\ c.done \subseteq Steps
        /\ c.begun \subseteq Steps
    /\ \A c \in Content, d \in 0..(MaxWrites + 1) :
        /\ [c EXCEPT !.data = d] \in Content
        /\ [c EXCEPT !.data = d].data = d
        /\ [c EXCEPT !.data = d].begun = c.begun
    /\ \A c \in Content, s \in Steps :
        /\ [c EXCEPT !.begun = @ \cup {s}] \in Content
        /\ [c EXCEPT !.begun = @ \cup {s}].data = c.data
        /\ [c EXCEPT !.begun = @ \cup {s}].begun = c.begun \cup {s}
        /\ [c EXCEPT !.begun = @ \ {s}, !.done = @ \cup {s}] \in Content
        /\ [c EXCEPT !.begun = @ \ {s}, !.done = @ \cup {s}].data = c.data
        /\ [c EXCEPT !.begun = @ \ {s}, !.done = @ \cup {s}].begun = c.begun \ {s}
<1> DEFINE D == 0..(MaxWrites + 1)
<1> USE Constants DEF Content
<1>1. Fresh \in Content /\ Fresh.begun = {} BY DEF Fresh
<1>2. ASSUME NEW c \in Content
      PROVE  c.data \in D /\ c.done \subseteq Steps /\ c.begun \subseteq Steps
  OBVIOUS
<1>3. ASSUME NEW c \in Content, NEW d \in D
      PROVE  /\ [c EXCEPT !.data = d] \in Content
             /\ [c EXCEPT !.data = d].data = d
             /\ [c EXCEPT !.data = d].begun = c.begun
  OBVIOUS
<1>4. ASSUME NEW c \in Content, NEW s \in Steps
      PROVE  /\ [c EXCEPT !.begun = @ \cup {s}] \in Content
             /\ [c EXCEPT !.begun = @ \cup {s}].data = c.data
             /\ [c EXCEPT !.begun = @ \cup {s}].begun = c.begun \cup {s}
  <2>1. c.begun \cup {s} \in SUBSET Steps OBVIOUS
  <2> QED BY <2>1
<1>5. ASSUME NEW c \in Content, NEW s \in Steps
      PROVE  /\ [c EXCEPT !.begun = @ \ {s}, !.done = @ \cup {s}] \in Content
             /\ [c EXCEPT !.begun = @ \ {s}, !.done = @ \cup {s}].data = c.data
             /\ [c EXCEPT !.begun = @ \ {s}, !.done = @ \cup {s}].begun = c.begun \ {s}
  <2>1. c.begun \ {s} \in SUBSET Steps /\ c.done \cup {s} \in SUBSET Steps OBVIOUS
  <2> QED BY <2>1
<1> QED BY <1>1, <1>2, <1>3, <1>4, <1>5

(* Pruning leaves a snapshot as it is or removes it.                       *)
LEMMA Pruned ==
    ASSUME FileTypes, NEW n
    PROVE  /\ Kept(n) \in [Boots -> Content \cup {Torn, NoFile}]
           /\ \A b \in Boots : Kept(n)[b] \in {snaps[b], NoFile}
BY DEF FileTypes, Kept

-----------------------------------------------------------------------------
USE Constants DEF Boots, BootSteps, Early, Upgrading, Restoring, Ahead, Goto, files, run, history

(* A new boot: its number is above every snapshot's.                       *)
LEMMA StartKeeps ==
    ASSUME IInv, Start
    PROVE  IInv'
<1> USE DEF IInv, Start
<1>1. boot' \in 0..MaxBoots /\ next' \in 1..(Last + 1)
  BY DEF RunTypes
<1>2. FileTypes'
  BY <1>1 DEF FileTypes, RunTypes, Order
<1>3. RunTypes'
  BY <1>1 DEF FileTypes, RunTypes, Order
<1>4. HistoryTypes'
  BY <1>1 DEF FileTypes, RunTypes, HistoryTypes, Order
<1>5. Order'
  BY <1>1 DEF FileTypes, RunTypes, HistoryTypes, Order
<1>6. OwnWal'
  BY <1>1 DEF FileTypes, Order, OwnWal
<1>7. ~stuck' => Markers'
  BY <1>1 DEF FileTypes, Order, Markers
<1>8. ~stuck' => Finished'
  BY <1>1 DEF FileTypes, RunTypes, HistoryTypes, Order, Markers, Finished, Clean
<1>9. ~stuck' /\ ~cut' => Trusted'
  BY <1>1 DEF FileTypes, HistoryTypes, Order, OwnWal, Markers, Trusted
<1>10. ~stuck' /\ ~cut' /\ ~forsaken' => Unchanged'
  BY <1>1 DEF FileTypes, HistoryTypes, Order, Markers, Finished, Clean, Trusted, Unchanged
<1> QED BY <1>2, <1>3, <1>4, <1>5, <1>6, <1>7, <1>8, <1>9, <1>10

(* The process ends: what a file held it holds.                            *)
LEMMA DiesKeeps ==
    ASSUME IInv, Dies
    PROVE  IInv'
<1> USE DEF IInv, Dies
<1>1. FileTypes'
  BY DEF FileTypes, RunTypes, Order
<1>2. RunTypes'
  BY DEF FileTypes, RunTypes, Order
<1>3. HistoryTypes'
  BY DEF FileTypes, RunTypes, HistoryTypes, Order
<1>4. Order'
  BY DEF FileTypes, RunTypes, HistoryTypes, Order
<1>5. OwnWal'
  BY DEF FileTypes, Order, OwnWal
<1>6. ~stuck' => Markers'
  BY DEF FileTypes, Order, Markers
<1>7. ~stuck' => Finished'
  BY DEF FileTypes, RunTypes, HistoryTypes, Order, Markers, Finished, Clean
<1>8. ~stuck' /\ ~cut' => Trusted'
  BY DEF FileTypes, HistoryTypes, Order, OwnWal, Markers, Trusted
<1>9. ~stuck' /\ ~cut' /\ ~forsaken' => Unchanged'
  BY DEF FileTypes, HistoryTypes, Order, Markers, Finished, Clean, Trusted, Unchanged
<1> QED BY <1>1, <1>2, <1>3, <1>4, <1>5, <1>6, <1>7, <1>8, <1>9

(* The marker of a restore is gone, or stuck.                              *)
LEMMA ReadPendingKeeps ==
    ASSUME IInv, ReadPending
    PROVE  IInv'
<1> USE DEF IInv, ReadPending
<1>1. FileTypes'
  BY DEF FileTypes, RunTypes, Order
<1>2. RunTypes'
  BY DEF FileTypes, RunTypes, Order
<1>3. HistoryTypes'
  BY DEF FileTypes, RunTypes, HistoryTypes, Order
<1>4. Order'
  BY DEF FileTypes, RunTypes, HistoryTypes, Order
<1>5. OwnWal'
  BY DEF FileTypes, Order, OwnWal
<1>6. ~stuck' => Markers'
  BY DEF FileTypes, Order, Markers
<1>7. ~stuck' => Finished'
  BY DEF FileTypes, RunTypes, HistoryTypes, Order, Markers, Finished, Clean
<1>8. ~stuck' /\ ~cut' => Trusted'
  BY DEF FileTypes, HistoryTypes, Order, OwnWal, Markers, Trusted
<1>9. ~stuck' /\ ~cut' /\ ~forsaken' => Unchanged'
  BY DEF FileTypes, HistoryTypes, Order, Markers, Finished, Clean, Trusted, Unchanged
<1> QED BY <1>1, <1>2, <1>3, <1>4, <1>5, <1>6, <1>7, <1>8, <1>9

(* An archive is being extracted, and the boot has no other marker.        *)
LEMMA ExtractionKeeps ==
    ASSUME IInv, ExtractFails \/ Truncate \/ CopyPart \/ CopyFails \/ Sweep
    PROVE  IInv'
<1> USE DEF IInv, FileTypes, RunTypes, HistoryTypes, Order, OwnWal, Markers, Finished, Clean,
            Trusted, Unchanged, Orphan
<1>1. CASE ExtractFails
  BY <1>1 DEF ExtractFails
<1>2. CASE Truncate
  BY <1>2 DEF Truncate
<1>3. CASE CopyPart
  BY <1>3 DEF CopyPart
<1>4. CASE CopyFails
  BY <1>4 DEF CopyFails
<1>5. CASE Sweep
  BY <1>5 DEF Sweep
<1> QED BY <1>1, <1>2, <1>3, <1>4, <1>5

(* The archive is in place: it is what will be served.                     *)
LEMMA CopyRestKeeps ==
    ASSUME IInv, CopyRest
    PROVE  IInv'
<1> USE DEF IInv, CopyRest, Settle
<1>1. target \in Content
  BY DEF Order
<1>2. wanted' \in 0..(MaxWrites + 1) /\ base' \in Content /\ db' \in Content
  BY <1>1, Records
<1>3. taken' \in 0..MaxBoots
  BY DEF HistoryTypes
<1>4. FileTypes'
  BY <1>1, <1>2, <1>3 DEF FileTypes, RunTypes, Order
<1>5. RunTypes'
  BY <1>1, <1>2, <1>3 DEF FileTypes, RunTypes, Order
<1>6. HistoryTypes'
  BY <1>1, <1>2, <1>3 DEF FileTypes, RunTypes, HistoryTypes, Order
<1>7. Order'
  BY <1>1, <1>2, <1>3 DEF FileTypes, RunTypes, HistoryTypes, Order
<1>8. OwnWal'
  BY <1>1, <1>2, <1>3 DEF FileTypes, Order, OwnWal
<1>9. ~stuck' => Markers'
  BY <1>1, <1>2, <1>3 DEF FileTypes, Order, Markers
<1>10. ~stuck' => Finished'
  BY <1>1, <1>2, <1>3 DEF FileTypes, RunTypes, HistoryTypes, Order, Markers, Finished, Clean
<1>11. ~stuck' /\ ~cut' => Trusted'
  BY <1>1, <1>2, <1>3 DEF FileTypes, HistoryTypes, Order, OwnWal, Markers, Trusted
<1>12. ~stuck' /\ ~cut' /\ ~forsaken' => Unchanged'
  BY <1>1, <1>2, <1>3
     DEF FileTypes, HistoryTypes, Order, Markers, Finished, Clean, Trusted, Unchanged
<1> QED BY <1>4, <1>5, <1>6, <1>7, <1>8, <1>9, <1>10, <1>11, <1>12

(* The snapshot that the marker names replaces the database.               *)
LEMMA RollbackKeeps ==
    ASSUME IInv, Resume \/ Stage \/ Unlink \/ Swap \/ Close \/ Mark
    PROVE  IInv'
<1> USE DEF IInv, FileTypes, RunTypes, HistoryTypes, Order, OwnWal, Markers, Finished, Clean,
            Trusted, Unchanged, Orphan
<1>1. CASE Resume
  BY <1>1 DEF Resume
<1>2. CASE Stage
  BY <1>2 DEF Stage
<1>3. CASE Unlink
  BY <1>3 DEF Unlink
<1>4. CASE Swap
  BY <1>4 DEF Swap
<1>5. CASE Close
  BY <1>5 DEF Close
<1>6. CASE Mark
  BY <1>6 DEF Mark
<1> QED BY <1>1, <1>2, <1>3, <1>4, <1>5, <1>6

(* The snapshot is in place when its marker goes.                          *)
LEMMA UnmarkKeeps ==
    ASSUME IInv, Unmark
    PROVE  IInv'
<1> USE DEF IInv, Unmark
<1>1. FileTypes'
  BY DEF FileTypes, RunTypes, Order
<1>2. RunTypes'
  BY DEF FileTypes, RunTypes, Order
<1>3. HistoryTypes'
  BY DEF FileTypes, RunTypes, HistoryTypes, Order
<1>4. Order'
  BY DEF FileTypes, RunTypes, HistoryTypes, Order
<1>5. OwnWal'
  BY DEF FileTypes, Order, OwnWal
<1>6. ~stuck' => Markers'
  BY DEF FileTypes, Order, Markers
<1>7. ~stuck' => Finished'
  BY DEF FileTypes, RunTypes, HistoryTypes, Order, Markers, Finished, Clean
<1>8. ~stuck' /\ ~cut' => Trusted'
  BY DEF FileTypes, HistoryTypes, Order, OwnWal, Markers, Trusted
<1>9. ~stuck' /\ ~cut' /\ ~forsaken' => Unchanged'
  BY DEF FileTypes, HistoryTypes, Order, Markers, Finished, Clean, Trusted, Unchanged
<1> QED BY <1>1, <1>2, <1>3, <1>4, <1>5, <1>6, <1>7, <1>8, <1>9

(* Only an empty file is initialised, and that cannot be the wanted one.   *)
LEMMA OpenKeeps ==
    ASSUME IInv, Open
    PROVE  IInv'
<1> USE DEF IInv, Open
<1>1. Fresh \in Content /\ Fresh.begun = {}
  BY Records
<1>2. db' \in Content \cup {Torn}
  BY <1>1 DEF FileTypes
<1>3. FileTypes'
  BY <1>1, <1>2 DEF FileTypes, RunTypes, Order
<1>4. RunTypes'
  BY <1>1, <1>2 DEF FileTypes, RunTypes, Order
<1>5. HistoryTypes'
  BY <1>1, <1>2 DEF FileTypes, RunTypes, HistoryTypes, Order
<1>6. Order'
  BY <1>1, <1>2 DEF FileTypes, RunTypes, HistoryTypes, Order
<1>7. OwnWal'
  BY <1>1, <1>2 DEF FileTypes, Order, OwnWal
<1>8. ~stuck' => Markers'
  BY <1>1, <1>2 DEF FileTypes, Order, Markers
<1>9. ~stuck' => Finished'
  BY <1>1, <1>2 DEF FileTypes, RunTypes, HistoryTypes, Order, Markers, Finished, Clean
<1>10. ~stuck' /\ ~cut' => Trusted'
  BY <1>1, <1>2 DEF FileTypes, HistoryTypes, Order, OwnWal, Markers, Trusted
<1>11. ~stuck' /\ ~cut' /\ ~forsaken' => Unchanged'
  BY <1>1, <1>2 DEF FileTypes, HistoryTypes, Order, Markers, Finished, Clean, Trusted, Unchanged
<1> QED BY <1>3, <1>4, <1>5, <1>6, <1>7, <1>8, <1>9, <1>10, <1>11

(* The snapshot of this boot is of the database as it was found.           *)
LEMMA SnapshotKeeps ==
    ASSUME IInv, Unneeded \/ Guard \/ Snapshot \/ Vacuum \/ VacuumFails
    PROVE  IInv'
<1> USE DEF IInv, FileTypes, RunTypes, HistoryTypes, Order, OwnWal, Markers, Finished, Clean,
            Trusted, Unchanged, Serve, Settle
<1>1. CASE Unneeded
  BY <1>1 DEF Unneeded
<1>2. CASE Guard
  BY <1>2 DEF Guard
<1>3. CASE Snapshot
  BY <1>3 DEF Snapshot
<1>4. CASE Vacuum
  BY <1>4 DEF Vacuum
<1>5. CASE VacuumFails
  BY <1>5 DEF VacuumFails
<1> QED BY <1>1, <1>2, <1>3, <1>4, <1>5

(* No marker names a snapshot that is pruned.                              *)
LEMMA PruneKeeps ==
    ASSUME IInv, Prune
    PROVE  IInv'
<1> USE DEF IInv, Prune
<1>1. snaps' \in [Boots -> Content \cup {Torn, NoFile}]
  BY Pruned DEF FileTypes
<1>2. \A b \in Boots : snaps'[b] \in {snaps[b], NoFile}
  BY Pruned DEF FileTypes
<1>3. FileTypes'
  BY <1>1, <1>2 DEF FileTypes, RunTypes, Order
<1>4. RunTypes'
  BY <1>1, <1>2 DEF FileTypes, RunTypes, Order
<1>5. HistoryTypes'
  BY <1>1, <1>2 DEF FileTypes, RunTypes, HistoryTypes, Order
<1>6. Order'
  BY <1>1, <1>2 DEF FileTypes, RunTypes, HistoryTypes, Order
<1>7. OwnWal'
  BY <1>1, <1>2 DEF FileTypes, Order, OwnWal
<1>8. ~stuck' => Markers'
  BY <1>1, <1>2 DEF FileTypes, Order, Markers
<1>9. ~stuck' => Finished'
  BY <1>1, <1>2 DEF FileTypes, RunTypes, HistoryTypes, Order, Markers, Finished, Clean
<1>10. ~stuck' /\ ~cut' => Trusted'
  BY <1>1, <1>2 DEF FileTypes, HistoryTypes, Order, OwnWal, Markers, Trusted
<1>11. ~stuck' /\ ~cut' /\ ~forsaken' => Unchanged'
  BY <1>1, <1>2 DEF FileTypes, HistoryTypes, Order, Markers, Finished, Clean, Trusted, Unchanged
<1> QED BY <1>3, <1>4, <1>5, <1>6, <1>7, <1>8, <1>9, <1>10, <1>11

(* A migration changes the database, not its snapshot.                     *)
LEMMA BeginKeeps ==
    ASSUME IInv, Begin
    PROVE  IInv'
<1> USE DEF IInv, Begin, Todo, Pending, Steps
<1>1. db \in Content /\ next' \in Steps
  BY DEF Order, RunTypes
<1>2. db' \in Content /\ db'.data = db.data /\ db'.begun = db.begun \cup {next'}
  BY <1>1, Records
<1>3. FileTypes'
  BY <1>1, <1>2 DEF FileTypes, RunTypes, Order
<1>4. RunTypes'
  BY <1>1, <1>2 DEF FileTypes, RunTypes, Order
<1>5. HistoryTypes'
  BY <1>1, <1>2 DEF FileTypes, RunTypes, HistoryTypes, Order
<1>6. Order'
  BY <1>1, <1>2 DEF FileTypes, RunTypes, HistoryTypes, Order
<1>7. OwnWal'
  BY <1>1, <1>2 DEF FileTypes, Order, OwnWal
<1>8. ~stuck' => Markers'
  BY <1>1, <1>2 DEF FileTypes, Order, Markers
<1>9. ~stuck' => Finished'
  BY <1>1, <1>2 DEF FileTypes, RunTypes, HistoryTypes, Order, Markers, Finished, Clean
<1>10. ~stuck' /\ ~cut' => Trusted'
  BY <1>1, <1>2 DEF FileTypes, HistoryTypes, Order, OwnWal, Markers, Trusted
<1>11. ~stuck' /\ ~cut' /\ ~forsaken' => Unchanged'
  BY <1>1, <1>2 DEF FileTypes, HistoryTypes, Order, Markers, Finished, Clean, Trusted, Unchanged
<1> QED BY <1>3, <1>4, <1>5, <1>6, <1>7, <1>8, <1>9, <1>10, <1>11

(* Only the migration that was recorded is not begun any more.             *)
LEMMA RecordedKeeps ==
    ASSUME IInv, Recorded
    PROVE  IInv'
<1> USE DEF IInv, Recorded, Steps
<1>1. db \in Content /\ next \in Steps
  BY DEF Order
<1>2. db' \in Content /\ db'.data = db.data /\ db'.begun = db.begun \ {next}
  BY <1>1, Records
<1>3. FileTypes'
  BY <1>1, <1>2 DEF FileTypes, RunTypes, Order
<1>4. RunTypes'
  BY <1>1, <1>2 DEF FileTypes, RunTypes, Order
<1>5. HistoryTypes'
  BY <1>1, <1>2 DEF FileTypes, RunTypes, HistoryTypes, Order
<1>6. Order'
  BY <1>1, <1>2 DEF FileTypes, RunTypes, HistoryTypes, Order
<1>7. OwnWal'
  BY <1>1, <1>2 DEF FileTypes, Order, OwnWal
<1>8. ~stuck' => Markers'
  BY <1>1, <1>2 DEF FileTypes, Order, Markers
<1>9. ~stuck' => Finished'
  BY <1>1, <1>2 DEF FileTypes, RunTypes, HistoryTypes, Order, Markers, Finished, Clean
<1>10. ~stuck' /\ ~cut' => Trusted'
  BY <1>1, <1>2 DEF FileTypes, HistoryTypes, Order, OwnWal, Markers, Trusted
<1>11. ~stuck' /\ ~cut' /\ ~forsaken' => Unchanged'
  BY <1>1, <1>2 DEF FileTypes, HistoryTypes, Order, Markers, Finished, Clean, Trusted, Unchanged
<1> QED BY <1>3, <1>4, <1>5, <1>6, <1>7, <1>8, <1>9, <1>10, <1>11

(* A migration fails, or the last one has been tried.                      *)
LEMMA MigrationsKeep ==
    ASSUME IInv, StepFails \/ RunEnds
    PROVE  IInv'
<1> USE DEF IInv, FileTypes, RunTypes, HistoryTypes, Order, OwnWal, Markers, Finished, Clean,
            Trusted, Unchanged, Serve, Settle, Todo, Pending, Steps
<1>1. CASE StepFails
  BY <1>1 DEF StepFails
<1>2. CASE RunEnds
  BY <1>2 DEF RunEnds
<1> QED BY <1>1, <1>2

(* What the server writes is what it must show.                            *)
LEMMA WriteKeeps ==
    ASSUME IInv, Write
    PROVE  IInv'
<1> USE DEF IInv, Write
<1>1. wanted' \in 0..(MaxWrites + 1)
  BY DEF HistoryTypes
<1>2. db' \in Content /\ db'.data = wanted' /\ db'.begun = db.begun
  BY <1>1, Records
<1>3. FileTypes'
  BY <1>1, <1>2 DEF FileTypes, RunTypes, Order
<1>4. RunTypes'
  BY <1>1, <1>2 DEF FileTypes, RunTypes, Order
<1>5. HistoryTypes'
  BY <1>1, <1>2 DEF FileTypes, RunTypes, HistoryTypes, Order
<1>6. Order'
  BY <1>1, <1>2 DEF FileTypes, RunTypes, HistoryTypes, Order
<1>7. OwnWal'
  BY <1>1, <1>2 DEF FileTypes, Order, OwnWal
<1>8. ~stuck' => Markers'
  BY <1>1, <1>2 DEF FileTypes, Order, Markers
<1>9. ~stuck' => Finished'
  BY <1>1, <1>2 DEF FileTypes, RunTypes, HistoryTypes, Order, Markers, Finished, Clean
<1>10. ~stuck' /\ ~cut' => Trusted'
  BY <1>1, <1>2 DEF FileTypes, HistoryTypes, Order, OwnWal, Markers, Trusted
<1>11. ~stuck' /\ ~cut' /\ ~forsaken' => Unchanged'
  BY <1>1, <1>2 DEF FileTypes, HistoryTypes, Order, Markers, Finished, Clean, Trusted, Unchanged
<1> QED BY <1>3, <1>4, <1>5, <1>6, <1>7, <1>8, <1>9, <1>10, <1>11

(* The server keeps archives; the database is as it was.                   *)
LEMMA ServingKeeps ==
    ASSUME IInv, Backup \/ DeleteBackup \/ ScheduleRestore \/ Stop
    PROVE  IInv'
<1> USE DEF IInv, FileTypes, RunTypes, HistoryTypes, Order, OwnWal, Markers, Finished, Clean,
            Trusted, Unchanged
<1>1. CASE Backup
  BY <1>1 DEF Backup
<1>2. CASE DeleteBackup
  BY <1>2 DEF DeleteBackup
<1>3. CASE ScheduleRestore
  BY <1>3 DEF ScheduleRestore
<1>4. CASE Stop
  BY <1>4 DEF Stop
<1> QED BY <1>1, <1>2, <1>3, <1>4

-----------------------------------------------------------------------------
(* The invariant holds of the first boot, and no step ends it.             *)
LEMMA Starts == Init => IInv
<1> SUFFICES ASSUME Init PROVE IInv
  OBVIOUS
<1> DEFINE first == [data |-> 1, done |-> {}, begun |-> {}]
<1>1. /\ 1 \in 0..(MaxWrites + 1) /\ 1 \in 1..(Last + 1)
      /\ 0 \in 0..MaxBoots /\ 0 \in 0..Last
  OBVIOUS
<1>2. first \in Content /\ first.data = 1 /\ first.begun = {}
  BY <1>1 DEF Content
<1>3. FileTypes
  BY <1>2 DEF Init, FileTypes
<1>4. RunTypes
  BY <1>1 DEF Init, RunTypes
<1>5. db = first /\ base = first /\ wanted = 1 /\ pc = "off" /\ marker = 0
  BY DEF Init
<1>6. HistoryTypes
  BY <1>1, <1>2, <1>5 DEF Init, HistoryTypes
<1> HIDE DEF first
<1>7. Order /\ OwnWal /\ Markers
  BY DEF Init, Order, OwnWal, Markers
<1>8. Finished /\ Trusted /\ Unchanged
  BY <1>2, <1>5 DEF Finished, Clean, Trusted, Unchanged
<1> QED BY <1>3, <1>4, <1>6, <1>7, <1>8 DEF IInv

LEMMA Stutters == IInv /\ UNCHANGED vars => IInv'
BY DEF vars, IInv, FileTypes, RunTypes, HistoryTypes, Order, OwnWal, Markers, Finished, Clean,
       Trusted, Unchanged

LEMMA Inductive == IInv /\ [Next]_vars => IInv'
BY Stutters, StartKeeps, DiesKeeps, ReadPendingKeeps, ExtractionKeeps, CopyRestKeeps,
   RollbackKeeps, UnmarkKeeps, OpenKeeps, SnapshotKeeps, PruneKeeps, BeginKeeps, RecordedKeeps,
   MigrationsKeep, WriteKeeps, ServingKeeps DEF Next

LEMMA Invariance == Spec => []IInv
BY Starts, Inductive, PTL DEF Spec

(* Types: in particular a rollback always has a complete snapshot to put in
   place, also when another boot than the one that took it goes on with it
   (RestoreDBSnapshot).                                                    *)
THEOREM TypeCorrect == Spec => []TypeOK
<1>1. IInv => TypeOK
  BY DEF IInv, TypeOK, FileTypes, RunTypes, HistoryTypes
<1> QED BY <1>1, Invariance, PTL

(* Whatever boots, builds, crashes and restores came before, main serves   *)
(* the data last shown or restored, under its own WAL, with no migration   *)
(* half done: the excuses of ServedIsWanted are the only ones.             *)
THEOREM ServesWhatIsWanted == Spec => []ServedIsWanted
<1>1. IInv => ServedIsWanted
  BY DEF IInv, ServedIsWanted, Markers, Finished, Clean, Trusted, OwnWal, Order
<1> QED BY <1>1, Invariance, PTL

(* A boot whose migrations failed leaves the very file that was served     *)
(* before the upgrade (runMigrationsGuarded, RestoreDBSnapshot).           *)
THEOREM RollbackIsExact == Spec => []RolledBackExactly
<1>1. IInv => RolledBackExactly
  BY DEF IInv, RolledBackExactly, Order, Markers, Unchanged
<1> QED BY <1>1, Invariance, PTL

-----------------------------------------------------------------------------
(* The blog is whole in some file.                                         *)

LEMMA FresherInductive ==
    ASSUME IInv, Fresher, [Next]_vars
    PROVE  Fresher'
<1> USE DEF IInv, FileTypes, RunTypes, HistoryTypes, Order, Fresher, Goto, Serve, Settle
<1>1. CASE UNCHANGED vars
  BY <1>1 DEF vars, files, run, history
<1>2. CASE Start
  BY <1>2 DEF Start, files
<1>3. CASE Dies \/ ReadPending \/ ExtractFails \/ Truncate \/ CopyPart \/ CopyFails \/ CopyRest
  BY <1>3 DEF Dies, ReadPending, ExtractFails, Truncate, CopyPart, CopyFails, CopyRest, files, run,
              history
<1>4. CASE Sweep \/ Resume \/ Stage \/ Unlink \/ Swap \/ Unmark \/ Close \/ Mark
  BY <1>4 DEF Sweep, Resume, Stage, Unlink, Swap, Unmark, Close, Mark, files, run, history
<1>5. CASE Open \/ Unneeded \/ Guard
  BY <1>5 DEF Open, Unneeded, Guard, files, run, history
<1>6. CASE Prune
  BY <1>6 DEF Prune, Kept, run, history
<1>7. CASE Snapshot \/ Vacuum \/ VacuumFails
  BY <1>7 DEF Snapshot, Vacuum, VacuumFails, run, history
<1>8. CASE Begin \/ Recorded \/ StepFails \/ RunEnds
  BY <1>8 DEF Begin, Recorded, StepFails, RunEnds, files, run, history
<1>9. CASE Write \/ Backup \/ DeleteBackup \/ ScheduleRestore \/ Stop
  BY <1>9 DEF Write, Backup, DeleteBackup, ScheduleRestore, Stop, files, run, history
<1> QED BY <1>1, <1>2, <1>3, <1>4, <1>5, <1>6, <1>7, <1>8, <1>9 DEF Next

LEMMA LaterIsFinite ==
    ASSUME NEW b
    PROVE  IsFiniteSet(Later(b)) /\ Cardinality(Later(b)) \in Nat
<1>1. IsFiniteSet(Boots)
  BY Constants, FS_Interval DEF Boots
<1>2. Later(b) \subseteq Boots
  BY DEF Later
<1>3. IsFiniteSet(Later(b))
  BY <1>1, <1>2, FS_Subset
<1> QED BY <1>3, FS_CardinalityType

(* Fewer snapshots behind one that is left as it was.                      *)
LEMMA StillSaved ==
    ASSUME HistoryTypes, UNCHANGED <<taken, wanted, base>>, NEW b \in Boots, Saved(b),
           snaps'[b] = snaps[b],
           \A c \in Boots : c > b /\ snaps'[c] # NoFile => snaps[c] # NoFile
    PROVE  Saved(b)'
<1>1. Good(snaps[b])'
  BY DEF Saved, Good
<1>2. Later(b)' \subseteq Later(b)
  BY DEF Later
<1>3. IsFiniteSet(Later(b)) /\ Cardinality(Later(b)) \in Nat
  BY LaterIsFinite
<1>4. Cardinality(Later(b)') <= Cardinality(Later(b)) /\ Cardinality(Later(b)') \in Nat
  <2>1. IsFiniteSet(Later(b)') /\ Cardinality(Later(b)') <= Cardinality(Later(b))
    BY <1>2, <1>3, FS_Subset
  <2> QED BY <2>1, FS_CardinalityType
<1>5. Cardinality(Later(b)) < taken /\ taken \in Nat /\ taken' = taken
  BY DEF Saved, HistoryTypes
<1>6. Cardinality(Later(b)') < taken'
  BY <1>3, <1>4, <1>5
<1> QED BY <1>1, <1>6 DEF Saved

(* A step that is not about snapshots and what was last served.            *)
LEMMA StillHeld ==
    ASSUME IInv, Held, UNCHANGED <<snaps, taken, wanted, base>>,
           cut => cut', stuck => stuck', forsaken => forsaken', InPlace => Held'
    PROVE  Held'
<1>1. CASE \E b \in Boots : Saved(b)
  BY <1>1, StillSaved DEF IInv, Held
<1> QED BY <1>1 DEF Held

(* What a served file is good for.                                         *)
LEMMA ServedIsHeld ==
    ASSUME IInv, pc \in {"guard", "migrate"}, ~failed, Serve
    PROVE  Held'
<1>1. pc' = "serving" /\ UNCHANGED <<db, wal, marker, wanted, cut, stuck>>
  BY DEF Serve, Goto, files
<1>2. SUFFICES ASSUME ~cut, ~stuck PROVE InPlace'
  BY <1>1 DEF Held
<1>3. wal = "own" /\ marker = 0 /\ db \in Content /\ db.data = wanted
  BY <1>2 DEF IInv, OwnWal, Markers, Trusted
<1>4. base' = db
  BY <1>3, Constants DEF Serve, Settle
<1> QED BY <1>1, <1>3, <1>4 DEF InPlace, Good, Upgrading, Restoring

(* Restores.                                                               *)
LEMMA RestoreHolds ==
    ASSUME IInv, CInv, ReadPending \/ ExtractFails \/ Truncate \/ CopyPart \/ CopyFails
                          \/ CopyRest \/ Sweep
    PROVE  Held'
<1> USE DEF CInv, Goto, files, run, history
<1>1. CASE ReadPending
  <2>1. InPlace => InPlace'
    BY <1>1 DEF ReadPending, InPlace, Good, Upgrading, Restoring
  <2> QED BY <1>1, <2>1, StillHeld DEF ReadPending, Held
<1>2. CASE ExtractFails
  <2>1. InPlace => InPlace'
    BY <1>2 DEF ExtractFails, InPlace, Good, Upgrading, Restoring
  <2> QED BY <1>2, <2>1, StillHeld DEF ExtractFails, Held
<1>3. CASE Truncate \/ CopyPart
  BY <1>3 DEF Truncate, CopyPart, Held, InPlace
<1>4. CASE CopyFails
  BY <1>4 DEF CopyFails, Held
<1>5. CASE CopyRest
  <2>1. target \in archives /\ target \in Content
    BY <1>5 DEF CopyRest, Fresher, IInv, FileTypes
  <2>2. Good(db)' /\ db' \in archives' /\ pc' = "sweep"
    BY <1>5, <2>1 DEF CopyRest, Settle, Good
  <2> QED BY <2>2 DEF Held, InPlace
<1>6. CASE Sweep
  <2>1. ~stuck => marker = 0
    BY <1>6 DEF Sweep, IInv, Markers, Restoring
  <2>2. ~stuck /\ InPlace => InPlace'
    BY <1>6, <2>1 DEF Sweep, InPlace, Good, Upgrading, Restoring
  <2>3. UNCHANGED <<snaps, taken, wanted, base, cut, stuck, forsaken>>
    BY <1>6 DEF Sweep
  <2> QED BY <2>2, <2>3, StillHeld DEF Held
<1> QED BY <1>1, <1>2, <1>3, <1>4, <1>5, <1>6

(* Rollbacks: they take the blog from a snapshot and leave that there.     *)
LEMMA RollbackHolds ==
    ASSUME IInv, CInv, Resume \/ Stage \/ Unlink \/ Swap \/ Unmark \/ Close \/ Mark
    PROVE  Held'
<1> USE DEF CInv, Goto, files, run, history
<1>1. UNCHANGED <<snaps, taken, wanted, base, cut, forsaken>> /\ (stuck => stuck')
  BY DEF Resume, Stage, Unlink, Swap, Unmark, Close, Mark
<1>2. InPlace => InPlace'
  BY DEF Resume, Stage, Unlink, Swap, Unmark, Close, Mark, InPlace, Good, Upgrading, Restoring
<1> QED BY <1>1, <1>2, StillHeld DEF Held

(* Migrations: the database is not counted on.                             *)
LEMMA MigrationHolds ==
    ASSUME IInv, CInv, Begin \/ Recorded \/ StepFails \/ RunEnds
    PROVE  Held'
<1> USE DEF CInv, Goto, files, run, history
<1>1. CASE RunEnds /\ ~failed
  BY <1>1, ServedIsHeld DEF RunEnds
<1>2. CASE Begin \/ Recorded \/ StepFails \/ (RunEnds /\ failed)
  <2>1. UNCHANGED <<snaps, taken, wanted, base, cut, stuck, forsaken>>
    BY <1>2 DEF Begin, Recorded, StepFails, RunEnds
  <2>2. ~InPlace
    BY <1>2 DEF Begin, Recorded, StepFails, RunEnds, InPlace, Upgrading
  <2> QED BY <2>1, <2>2, StillHeld
<1> QED BY <1>1, <1>2

(* A boot before its migrations.                                           *)
LEMMA OpenHolds ==
    ASSUME IInv, CInv, Start \/ Open \/ Unneeded \/ Guard
    PROVE  Held'
<1> USE DEF CInv, Goto, files, run, history
<1>1. CASE Unneeded
  BY <1>1, ServedIsHeld DEF Unneeded, IInv, Order, Upgrading, Restoring
<1>2. CASE Start \/ Guard
  <2>1. UNCHANGED <<snaps, taken, wanted, base, cut, stuck, forsaken>>
    BY <1>2 DEF Start, Guard
  <2>2. InPlace => InPlace'
    BY <1>2 DEF Start, Guard, InPlace, Good, Upgrading, Restoring
  <2> QED BY <2>1, <2>2, StillHeld DEF Held
<1>3. CASE Open
  <2>1. UNCHANGED <<snaps, taken, wanted, base, cut, stuck, forsaken>>
    BY <1>3 DEF Open
  <2>2. InPlace => InPlace'
    BY <1>3, Constants DEF Open, InPlace, Good, Upgrading, Restoring
  <2> QED BY <2>1, <2>2, StillHeld DEF Held
<1> QED BY <1>1, <1>2, <1>3

(* Pruning leaves a saved snapshot as long as fewer than KeepCount were    *)
(* begun, and before migrations were forsaken the database is good.        *)
LEMMA PruneHolds ==
    ASSUME IInv, CInv, Prune
    PROVE  Held'
<1>1. /\ pc = "prune" /\ pc' = "snapshot"
      /\ UNCHANGED <<db, wal, marker, taken, wanted, base, cut, stuck, forsaken>>
      /\ snaps' = snaps \/ (KeepCount > 0 /\ snaps' = Kept(KeepCount - 1))
  BY DEF Prune, Goto, run, history
<1>2. SUFFICES ASSUME ~cut, ~stuck, ~(forsaken /\ KeepCount > 0 /\ taken >= KeepCount)
               PROVE  InPlace' \/ \E b \in Boots : Saved(b)'
  BY <1>1 DEF Held
<1>3. CASE ~forsaken \/ InPlace
  <2>1. wal = "own" /\ marker = 0 /\ db \in Content
    BY <1>1, <1>2 DEF IInv, OwnWal, Markers, Trusted, Restoring
  <2>2. Good(db)
    BY <1>1, <1>2, <1>3, <2>1 DEF IInv, Trusted, Unchanged, Upgrading, Good, InPlace
  <2> QED BY <1>1, <2>1, <2>2 DEF InPlace, Good, Upgrading, Restoring
<1>4. CASE forsaken /\ ~InPlace
  <2>1. PICK b \in Boots : Saved(b)
    BY <1>2, <1>4 DEF CInv, Held
  <2>2. Cardinality(Later(b)) \in Nat /\ Cardinality(Later(b)) < taken /\ taken \in Nat
    BY <2>1, LaterIsFinite DEF Saved, IInv, HistoryTypes
  <2>3. /\ snaps'[b] = snaps[b]
        /\ \A c \in Boots : snaps'[c] # NoFile => snaps[c] # NoFile
    <3>1. CASE snaps' = snaps
      BY <3>1
    <3>2. CASE KeepCount > 0 /\ snaps' = Kept(KeepCount - 1)
      <4>1. Cardinality(Later(b)) < KeepCount - 1
        BY <1>2, <1>4, <2>2, <3>2, Constants
      <4>2. Kept(KeepCount - 1)[b] = snaps[b]
        BY <4>1 DEF Kept, Later
      <4> QED BY <3>2, <4>2 DEF Kept
    <3> QED BY <1>1, <3>1, <3>2
  <2>4. Saved(b)'
    BY <1>1, <2>1, <2>3, StillSaved DEF IInv
  <2> QED BY <2>4
<1> QED BY <1>3, <1>4

LEMMA SnapshotHolds ==
    ASSUME IInv, CInv, Snapshot
    PROVE  Held'
<1>1. /\ pc = "snapshot" /\ pc' = "vacuum" /\ snaps' = [snaps EXCEPT ![boot] = Torn]
      /\ taken' = taken + 1 /\ taken \in Nat
      /\ UNCHANGED <<db, wal, marker, wanted, base, cut, stuck, forsaken>>
  BY DEF Snapshot, Goto, run, IInv, HistoryTypes
<1>2. CASE InPlace
  <2>1. InPlace'
    BY <1>1, <1>2 DEF InPlace, Good, Upgrading, Restoring
  <2> QED BY <2>1 DEF Held
<1>3. ASSUME NEW b \in Boots, Saved(b)
      PROVE  Saved(b)'
  <2>1. b # boot
    BY <1>1, <1>3, Constants DEF Saved, Good, CInv, Fresher, Ahead
  <2>2. Good(snaps[b])'
    BY <1>1, <1>3, <2>1 DEF Saved, Good, IInv, FileTypes
  <2>3. Later(b)' \subseteq Later(b) \cup {boot}
    BY <1>1 DEF Later, IInv, FileTypes
  <2>4. /\ IsFiniteSet(Later(b)) /\ Cardinality(Later(b)) \in Nat
        /\ Cardinality(Later(b)) < taken
    BY <1>3, LaterIsFinite DEF Saved
  <2>5. /\ IsFiniteSet(Later(b) \cup {boot})
        /\ Cardinality(Later(b) \cup {boot}) <= Cardinality(Later(b)) + 1
    BY <2>4, FS_AddElement
  <2>6. IsFiniteSet(Later(b)') /\ Cardinality(Later(b)') <= Cardinality(Later(b) \cup {boot})
    BY <2>3, <2>5, FS_Subset
  <2>7. Cardinality(Later(b)') \in Nat /\ Cardinality(Later(b) \cup {boot}) \in Nat
    BY <2>5, <2>6, FS_CardinalityType
  <2>8. Cardinality(Later(b)') < taken'
    BY <1>1, <2>4, <2>5, <2>6, <2>7
  <2> QED BY <2>2, <2>8 DEF Saved
<1>4. taken >= KeepCount => taken' >= KeepCount
  BY <1>1, Constants
<1> QED BY <1>1, <1>2, <1>3, <1>4 DEF CInv, Held

(* The new snapshot is as good as the database.                            *)
LEMMA VacuumHolds ==
    ASSUME IInv, CInv, Vacuum
    PROVE  Held'
<1>1. /\ pc = "vacuum" /\ db \in Content /\ snaps' = [snaps EXCEPT ![boot] = db]
      /\ UNCHANGED <<boot, taken, wanted, base, cut, stuck, forsaken>>
  BY DEF Vacuum, Goto, history
<1>2. boot \in Boots /\ snaps[boot] = Torn /\ taken > 0 /\ taken \in Nat
  BY <1>1, Constants DEF IInv, RunTypes, HistoryTypes, Order, CInv, Fresher, Boots
<1>3. CASE InPlace
  <2>1. Good(snaps[boot])'
    BY <1>1, <1>2, <1>3 DEF InPlace, Good, IInv, FileTypes
  <2>2. Later(boot)' = {}
    <3>1. \A c \in Boots : c > boot => c # boot /\ snaps[c] = NoFile
      BY <1>2 DEF CInv, Fresher, Boots
    <3>2. \A c \in Boots : c > boot => snaps'[c] = NoFile
      BY <1>1, <3>1 DEF IInv, FileTypes
    <3> QED BY <1>1, <3>2 DEF Later
  <2>3. Cardinality(Later(boot)') < taken'
    BY <1>1, <1>2, <2>2, FS_EmptySet
  <2>4. Saved(boot)'
    BY <2>1, <2>3 DEF Saved
  <2> QED BY <1>1, <1>2, <2>4 DEF Held
<1>4. ASSUME NEW b \in Boots, Saved(b)
      PROVE  Saved(b)'
  <2>1. b # boot
    BY <1>2, <1>4, Constants DEF Saved, Good
  <2>2. /\ snaps'[b] = snaps[b]
        /\ \A c \in Boots : snaps'[c] # NoFile => snaps[c] # NoFile
    BY <1>1, <1>2, <2>1, Constants DEF IInv, FileTypes
  <2> QED BY <1>1, <1>4, <2>2, StillSaved DEF IInv
<1> QED BY <1>1, <1>3, <1>4 DEF CInv, Held

LEMMA VacuumFailsHolds ==
    ASSUME IInv, CInv, VacuumFails
    PROVE  Held'
<1>1. /\ pc = "vacuum" /\ pc' = "off" /\ snaps' = [snaps EXCEPT ![boot] = NoFile]
      /\ UNCHANGED <<db, wal, marker, taken, wanted, base, cut, stuck, forsaken>>
  BY DEF VacuumFails, Goto, history, run
<1>2. boot \in Boots /\ snaps[boot] = Torn
  BY <1>1, Constants DEF IInv, RunTypes, Order, CInv, Fresher, Boots
<1>3. CASE InPlace
  <2>1. InPlace'
    BY <1>1, <1>3 DEF InPlace, Good, Upgrading, Restoring
  <2> QED BY <2>1 DEF Held
<1>4. ASSUME NEW b \in Boots, Saved(b)
      PROVE  Saved(b)'
  <2>1. b # boot
    BY <1>2, <1>4, Constants DEF Saved, Good
  <2>2. /\ snaps'[b] = snaps[b]
        /\ \A c \in Boots : snaps'[c] # NoFile => snaps[c] # NoFile
    BY <1>1, <1>2, <2>1, Constants DEF IInv, FileTypes
  <2> QED BY <1>1, <1>4, <2>2, StillSaved DEF IInv
<1> QED BY <1>1, <1>3, <1>4 DEF CInv, Held

(* The server, and the end of the process at any point.                    *)
LEMMA ServingHolds ==
    ASSUME IInv, CInv, Write \/ Backup \/ DeleteBackup \/ ScheduleRestore \/ Stop
    PROVE  Held'
<1> USE DEF CInv, Goto, files, run, history
<1>1. CASE Write
  <2>1. db' \in Content /\ db'.data = wanted' /\ base' = db'
    <3>1. wanted + 1 \in 0..(MaxWrites + 1)
      BY <1>1 DEF Write, IInv, HistoryTypes
    <3> QED BY <1>1, <3>1, Records DEF Write
  <2>2. pc' = "serving" /\ wal' = "own" /\ marker' = marker /\ stuck' = stuck
    BY <1>1 DEF Write, IInv, OwnWal
  <2>3. ~stuck => marker = 0
    BY <1>1 DEF Write, IInv, Markers, Restoring
  <2>4. Good(db)'
    BY <2>1 DEF Good
  <2> QED BY <2>2, <2>3, <2>4 DEF Held, InPlace, Upgrading, Restoring
<1>2. CASE Backup \/ DeleteBackup \/ ScheduleRestore \/ Stop
  <2>1. UNCHANGED <<snaps, taken, wanted, base, cut, stuck, forsaken>>
    BY <1>2 DEF Backup, DeleteBackup, ScheduleRestore, Stop
  <2>2. InPlace => InPlace'
    BY <1>2 DEF Backup, DeleteBackup, ScheduleRestore, Stop, InPlace, Good, Upgrading, Restoring
  <2> QED BY <2>1, <2>2, StillHeld DEF Held
<1> QED BY <1>1, <1>2

LEMMA DiesHolds ==
    ASSUME IInv, CInv, Dies
    PROVE  Held'
<1>1. /\ pc' = "off" /\ UNCHANGED <<db, wal, marker, snaps, taken, wanted, base, stuck>>
      /\ (cut => cut') /\ (forsaken => forsaken')
  BY DEF Dies, Goto, files
<1>2. pc \in {"copy", "copying"} \/ (pc = "sweep" /\ wal = "foreign") => cut'
  BY DEF Dies
<1>3. pc = "sweep" /\ ~stuck => marker = 0
  BY DEF IInv, Markers, Restoring
<1>4. InPlace => Held'
  BY <1>1, <1>2, <1>3 DEF InPlace, Held, Good, Upgrading, Restoring
<1> QED BY <1>1, <1>4, StillHeld DEF CInv

LEMMA CInvInductive ==
    ASSUME IInv, CInv, [Next]_vars
    PROVE  CInv'
<1>1. Fresher'
  BY FresherInductive DEF CInv
<1>2. CASE UNCHANGED vars
  <2>1. /\ UNCHANGED <<snaps, taken, wanted, base, cut, stuck, forsaken>>
        /\ UNCHANGED <<pc, db, wal, marker, archives>>
    BY <1>2 DEF vars, files, run, history
  <2>2. InPlace => InPlace'
    BY <2>1 DEF InPlace, Good
  <2>3. Held'
    BY <2>1, <2>2, StillHeld DEF CInv, Held
  <2> QED BY <1>1, <2>3 DEF CInv
<1>3. CASE Next
  <2>1. Held'
    BY <1>3, RestoreHolds, RollbackHolds, MigrationHolds, OpenHolds, PruneHolds, SnapshotHolds,
       VacuumHolds, VacuumFailsHolds, ServingHolds, DiesHolds DEF Next
  <2> QED BY <1>1, <2>1 DEF CInv
<1> QED BY <1>2, <1>3

LEMMA CInvStarts == Init => CInv
<1> SUFFICES ASSUME Init PROVE CInv
  OBVIOUS
<1>1. Fresher
  BY DEF Init, Fresher
<1>2. db \in Content
  BY Starts DEF IInv, FileTypes, HistoryTypes, Init
<1>3. InPlace
  BY <1>2 DEF Init, InPlace, Good, Upgrading, Restoring
<1> QED BY <1>1, <1>3 DEF CInv, Held

(* Wherever the process ends, in restores, migrations, rollbacks or        *)
(* prunes, the blog is whole in the database, a snapshot or an archive,    *)
(* for every number of kept snapshots (ApplyPendingRestore,                *)
(* SnapshotForMigrations, RestoreDBSnapshot).                              *)
THEOREM BlogSurvives == Spec => []CopySurvives
<1>1. IInv /\ CInv => CopySurvives
  BY DEF CInv, Fresher, Held, InPlace, Saved, CopySurvives
<1>2. IInv /\ CInv /\ [Next]_vars => (IInv /\ CInv)'
  BY Inductive, CInvInductive
<1> QED BY <1>1, <1>2, Starts, CInvStarts, PTL DEF Spec

=============================================================================
