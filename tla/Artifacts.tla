------------------------------- MODULE Artifacts -------------------------------
(***************************************************************************)
(* What one instance's disk is made from and saved to: images (internal/   *)
(* service/virtualis.go, image_download.go), snapshots (recovery.go,       *)
(* snapshot_restore.go) and backups (backup.go, backup_restore.go), their  *)
(* files on the master (internal/storage/storage.go) and the purge that    *)
(* removes them (trash.go).                                                *)
(*                                                                         *)
(* The operations of the instance exclude each other by its fence          *)
(* (OperationFence): op is the one that has it.  Uploads, downloads and    *)
(* deletions of images know no fence.  Each statement, call to the node    *)
(* and use of a file is a step, and each may fail.                         *)
(*                                                                         *)
(* The node is another program.  A call is carried out, refused, or given  *)
(* up by the master.  A snapshot call that was given up has been carried   *)
(* out, never will be, or is still to come (late); a call that replaces    *)
(* the disk has been carried out, has not been, or was interrupted.  The   *)
(* node refuses to create a snapshot under a name it has.                  *)
(***************************************************************************)
EXTENDS Naturals, FiniteSets

CONSTANTS
    Name,     \* of snapshots
    Backup,   \* ids of backups, each given once
    Image,    \* ids of images, each given once
    File,     \* names of files, drawn at random and never again
    None,
    Fresh,    \* content of a disk or a file: as made from a whole image
    Part,     \* content of a disk or a file that was not written to its end
    NoDisk,
    MaxWrite  \* bound: states the guest's own work brings its disk into

ASSUME ArtifactsAssumption ==
    /\ None \notin File \cup Image \cup Backup \cup Name
    /\ Fresh \notin Nat /\ Part \notin Nat \cup {Fresh} /\ NoDisk \notin Nat \cup {Fresh, Part}
    /\ IsFiniteSet(File)
    /\ MaxWrite \in Nat

VARIABLES
    row,      \* the instance's row: whether it is there, and its image
    running,  \* whether the guest runs
    disk,     \* the guest's disk on the node
    snaps,    \* the snapshots on the node
    written,  \* states the guest's work has brought about
    late,     \* snapshot calls that were given up and are still to come
    snapRow,  \* rows of snapshots by name; disk: history, what was taken
    backup,   \* rows of backups; saved: history, what was exported
    image,    \* rows of images
    files,    \* the master's storage
    drawn,    \* names of files drawn so far
    op,       \* the operation of the instance
    save,     \* uploads and downloads of images
    drop,     \* deletions of images
    revived,  \* history: images whose row was written back after its deletion
    doubted,  \* history: snapshots a call for which was given up
    ending    \* history: backups whose deletion has begun

guest == <<running, disk, snaps, written, late>>
rows == <<row, snapRow, backup, image>>
store == <<files, drawn>>
images == <<save, drop>>
history == <<revived, doubted, ending>>
vars == <<guest, rows, store, op, images, history>>

\* Contents of a disk: fresh from an image, or what the guest made of it.
Disk == 1..MaxWrite \cup {Fresh, Part, NoDisk}
Taken == [Name -> Disk]
Untaken == [n \in Name |-> NoDisk]
Archive == [disk : Disk, snaps : Taken]
Content == Archive \cup {Fresh, Part, None}

\* What a file has tells an archive from an image and from half of either.
ASSUME ContentAssumption == Archive \cap {Fresh, Part, None} = {} /\ None \notin {Fresh, Part}

NoSnapshot == [status |-> "none", disk |-> NoDisk]
NoBackup == [status |-> "none", file |-> None, rows |-> Untaken, saved |-> None]
NoImage == [status |-> "none", file |-> None]
ImageRow == [status : {"none", "downloading", "available", "error", "deleted"}, file : File \cup {None}]

Stopping == {"snapshot_restore", "backup_create", "backup_restore"}
Op == [kind : Stopping \cup {"idle", "kept", "create", "reinstall", "snapshot_create", "snapshot_delete",
                             "backup_delete", "purge"},
       step : {"none", "insert", "choose", "open", "call", "store", "drop", "save", "record", "again", "list", "files"},
       name : Name \cup {None}, of : Backup \cup {None}, image : Image \cup {None}, read : ImageRow,
       file : File \cup {None}, data : Content, list : SUBSET File]
Idle == [kind |-> "idle", step |-> "none", name |-> None, of |-> None, image |-> None, read |-> NoImage,
         file |-> None, data |-> None, list |-> {}]
Kept == [Idle EXCEPT !.kind = "kept"]
Still == [step |-> "none", file |-> None]

TypeOK ==
    /\ row \in [there : {"absent", "present", "gone"}, image : Image \cup {None}]
    /\ running \in BOOLEAN /\ disk \in Disk /\ snaps \in Taken
    /\ written \in 0..MaxWrite
    /\ late \subseteq {"create", "delete"} \X Name
    /\ snapRow \in [Name -> [status : {"none", "creating", "available", "error"}, disk : Disk]]
    /\ backup \in [Backup -> [status : {"none", "creating", "available", "error", "deleted"},
                              file : File \cup {None}, rows : Taken, saved : Archive \cup {None}]]
    /\ image \in [Image -> ImageRow]
    /\ files \in [File -> Content] /\ drawn \subseteq File
    /\ op \in Op
    /\ save \in [Image -> [step : {"none", "up", "insert", "down", "update", "fail"}, file : File \cup {None}]]
    /\ drop \in [Image -> [step : {"none", "row", "file"}, file : File \cup {None}]]
    /\ revived \subseteq Image /\ doubted \subseteq Name /\ ending \subseteq Backup

Init ==
    /\ row = [there |-> "absent", image |-> None]
    /\ running = FALSE /\ disk = NoDisk /\ snaps = Untaken /\ written = 0 /\ late = {}
    /\ snapRow = [n \in Name |-> NoSnapshot]
    /\ backup = [b \in Backup |-> NoBackup]
    /\ image = [g \in Image |-> NoImage]
    /\ files = [f \in File |-> None] /\ drawn = {}
    /\ op = Idle
    /\ save = [g \in Image |-> Still] /\ drop = [g \in Image |-> Still]
    /\ revived = {} /\ doubted = {} /\ ending = {}

At(kind, step) == op.kind = kind /\ op.step = step
Goes(step) == op' = [op EXCEPT !.step = step]
Ends == op' = Idle
Retains == op' = Kept

\* Store.Open: the bytes of a file, if it is there.
Readable(f) == f # None /\ files[f] # None

\* ListSnapshots, and which of them a backup remembers.
Listed == [n \in Name |-> IF snapRow[n].status = "available" THEN snapRow[n].disk ELSE NoDisk]

\* The lookups by id that operations on a snapshot and a backup begin with.
SnapshotFound(n) == snapRow[n] # NoSnapshot
BackupFound(b) == backup[b].status \notin {"none", "deleted"}

\* OpenBackup reads the whole file and compares it with the size and checksum of
\* its row before anything is done with it: what was saved, to its end.
OpenBackup(b) == backup[b].status = "available" /\ Readable(backup[b].file)

-----------------------------------------------------------------------------
(* Images *)

\* SaveNamed begins a file of a new name.
Draws(f) == f \notin drawn /\ drawn' = drawn \cup {f}

\* UploadImage, or the goroutine of DownloadImage after its row is there.
BeginUpload(g, f) ==
    /\ image[g] = NoImage /\ save[g].step = "none"
    /\ Draws(f)
    /\ files' = [files EXCEPT ![f] = Part]
    /\ save' = [save EXCEPT ![g] = [step |-> "up", file |-> f]]
    /\ UNCHANGED <<guest, rows, op, drop, history>>

\* Slip: the row of a download names the file from the beginning.
BeginDownloadNamed(g, f) ==
    /\ image[g] = NoImage /\ save[g].step = "none"
    /\ Draws(f)
    /\ files' = [files EXCEPT ![f] = Part]
    /\ image' = [image EXCEPT ![g] = [status |-> "downloading", file |-> f]]
    /\ save' = [save EXCEPT ![g] = [step |-> "down", file |-> f]]
    /\ UNCHANGED <<guest, row, snapRow, backup, op, drop, history>>

BeginDownload(g, f) ==
    /\ image[g] = NoImage /\ save[g].step = "none"
    /\ Draws(f)
    /\ files' = [files EXCEPT ![f] = Part]
    /\ image' = [image EXCEPT ![g] = [status |-> "downloading", file |-> None]]
    /\ save' = [save EXCEPT ![g] = [step |-> "down", file |-> f]]
    /\ UNCHANGED <<guest, row, snapRow, backup, op, drop, history>>

\* SaveNamed ends: the whole file, or none.
SaveEnds(g, saved, failed) ==
    /\ \/ /\ files' = [files EXCEPT ![save[g].file] = Fresh]
          /\ save' = [save EXCEPT ![g].step = saved]
       \/ /\ files' = [files EXCEPT ![save[g].file] = None]
          /\ save' = [save EXCEPT ![g] = failed]
    /\ UNCHANGED <<guest, rows, drawn, op, drop, history>>

\* UploadImage: a request whose file could not be saved leaves no row.
SaveUpload(g) == save[g].step = "up" /\ SaveEnds(g, "insert", Still)

\* downloadTo: the answer of the server, from its status to its last byte.
DownloadTo(g) == save[g].step = "down" /\ SaveEnds(g, "update", [step |-> "fail", file |-> None])

\* UploadImage inserts the row, or removes the file again.
InsertImage(g) ==
    LET s == save[g] IN
    /\ s.step = "insert"
    /\ \/ image' = [image EXCEPT ![g] = [status |-> "available", file |-> s.file]] /\ UNCHANGED files
       \/ files' = [files EXCEPT ![s.file] = None] /\ UNCHANGED image
    /\ save' = [save EXCEPT ![g] = Still]
    /\ UNCHANGED <<guest, row, snapRow, backup, drawn, op, drop, history>>

\* runImageDownload: one update for status and path, by the id: a row deleted
\* meanwhile is no error, and the file stays behind.
FinishDownload(g) ==
    LET s == save[g] IN
    /\ s.step = "update"
    /\ \/ /\ image' = IF image[g].status = "deleted" THEN image
                      ELSE [image EXCEPT ![g] = [status |-> "available", file |-> s.file]]
          /\ save' = [save EXCEPT ![g] = Still]
       \/ save' = [save EXCEPT ![g] = [step |-> "fail", file |-> None]] /\ UNCHANGED image
    /\ UNCHANGED <<guest, row, snapRow, backup, store, op, drop, history>>

\* failImageDownload; its own failure is ignored.
FailDownload(g) ==
    /\ save[g].step = "fail"
    /\ \/ /\ image[g].status # "deleted"
          /\ image' = [image EXCEPT ![g].status = "error"]
       \/ UNCHANGED image
    /\ save' = [save EXCEPT ![g] = Still]
    /\ UNCHANGED <<guest, row, snapRow, backup, store, op, drop, history>>

\* DeleteImage counts the instances that refer to it and reads the row ...
DeleteImage(g) ==
    /\ drop[g] = Still
    /\ image[g].status \notin {"none", "deleted"}
    /\ row.image # g
    /\ drop' = [drop EXCEPT ![g] = [step |-> "row", file |-> image[g].file]]
    /\ UNCHANGED <<guest, rows, store, op, save, history>>

\* ... deletes it ...
DeleteImageRow(g) ==
    /\ drop[g].step = "row"
    /\ \/ /\ image' = [image EXCEPT ![g] = [status |-> "deleted", file |-> None]]
          /\ drop' = [drop EXCEPT ![g].step = "file"]
       \/ drop' = [drop EXCEPT ![g] = Still] /\ UNCHANGED image
    /\ UNCHANGED <<guest, row, snapRow, backup, store, op, save, history>>

\* ... and removes the file that row named.
DeleteImageFile(g) ==
    /\ drop[g].step = "file"
    /\ \/ files' = [f \in File |-> IF f = drop[g].file THEN None ELSE files[f]]
       \/ UNCHANGED files
    /\ drop' = [drop EXCEPT ![g] = Still]
    /\ UNCHANGED <<guest, rows, drawn, op, save, history>>

-----------------------------------------------------------------------------
(* The guest *)

\* Starting it takes the fence.
GuestStarts ==
    /\ op = Idle /\ row.there = "present"
    /\ ~running /\ disk \notin {NoDisk, Part}
    /\ running' = TRUE
    /\ UNCHANGED <<disk, snaps, written, late, rows, store, op, images, history>>

GuestStops ==
    /\ running /\ running' = FALSE
    /\ UNCHANGED <<disk, snaps, written, late, rows, store, op, images, history>>

GuestWrites ==
    /\ running /\ written < MaxWrite
    /\ written' = written + 1 /\ disk' = written'
    /\ UNCHANGED <<running, snaps, late, rows, store, op, images, history>>

-----------------------------------------------------------------------------
(* Operations: beginning and what many share *)

\* Slip: recoveryInstance that does not ask the node whether the guest is
\* stopped.
BeginsRunning(kind, step, n, b) ==
    /\ op = Idle /\ row.there = "present"
    /\ disk # NoDisk \/ kind \notin Stopping
    /\ op' = [Idle EXCEPT !.kind = kind, !.step = step, !.name = n, !.of = b, !.image = row.image,
                          !.read = IF row.image = None THEN NoImage ELSE image[row.image]]

\* The fence, GetInstance with the row of its image, and recoveryInstance.
Begins(kind, step, n, b) ==
    /\ op = Idle /\ row.there = "present"
    /\ kind \in Stopping => ~running /\ disk # NoDisk
    /\ op' = [Idle EXCEPT !.kind = kind, !.step = step, !.name = n, !.of = b, !.image = row.image,
                          !.read = IF row.image = None THEN NoImage ELSE image[row.image]]

\* An update of the instance saves the image it was loaded with as well: a row
\* that was deleted meanwhile comes back.
WritesBack ==
    LET lost == /\ op.kind # "create" /\ op.image # None
                /\ op.read.status \notin {"none", "deleted"}
                /\ image[op.image].status = "deleted"
    IN  /\ image' = IF lost THEN [image EXCEPT ![op.image] = op.read] ELSE image
        /\ revived' = IF lost THEN revived \cup {op.image} ELSE revived

\* A statement before the call to the node fails.
FailsBeforeCall ==
    /\ \/ op.step = "call" /\ op.kind \in Stopping \cup {"snapshot_delete", "purge"}
       \/ op.step \in {"insert", "choose", "open"}
    /\ Ends
    /\ UNCHANGED <<guest, rows, store, images, history>>

-----------------------------------------------------------------------------
(* Creating and reinstalling *)

\* CreateInstance reads an image that must be available ...
ChooseImage(g) ==
    /\ op = Idle /\ row.there = "absent"
    /\ image[g].status = "available"
    /\ op' = [Idle EXCEPT !.kind = "create", !.step = "insert", !.image = g, !.read = image[g]]
    /\ UNCHANGED <<guest, rows, store, images, history>>

\* ... and inserts the row, already fenced, in a transaction that does not look
\* at the image again.
InsertInstance ==
    /\ At("create", "insert")
    /\ row' = [there |-> "present", image |-> op.image]
    /\ Goes("open")
    /\ UNCHANGED <<guest, snapRow, backup, image, store, images, history>>

\* PowerInstance reads the selected image under the fence, whatever its status,
\* and writes its id into the instance.
Reinstall ==
    /\ Begins("reinstall", "choose", None, None)
    /\ UNCHANGED <<guest, rows, store, images, history>>

SelectImage(g) ==
    /\ At("reinstall", "choose")
    /\ image[g].status \notin {"none", "deleted"}
    /\ row' = [row EXCEPT !.image = g]
    /\ op' = [op EXCEPT !.step = "open", !.image = g, !.read = image[g]]
    /\ UNCHANGED <<guest, snapRow, backup, image, store, images, history>>

\* Without an id it is the image the instance was loaded with.
KeepImage ==
    /\ At("reinstall", "choose")
    /\ Goes("open")
    /\ UNCHANGED <<guest, rows, store, images, history>>

\* openImage: a row that names no file gives no reader; a named file that is
\* not there ends the operation, or gives none either if its original name is
\* not known.  The second file of a split image is left out.
OpenImage ==
    LET f == op.read.file IN
    /\ op.step = "open"
    /\ \/ op' = [op EXCEPT !.step = "call", !.data = IF f = None THEN None ELSE files[f]]
       \/ f # None /\ ~Readable(f) /\ Ends
    /\ UNCHANGED <<guest, rows, store, images, history>>

-----------------------------------------------------------------------------
(* Calls that replace the disk, and what is stored after them *)

Replacing == {"create", "reinstall", "snapshot_restore", "backup_restore"}
Given == CASE op.kind = "snapshot_restore" -> snaps[op.name]
           [] op.kind = "backup_restore" -> IF op.data = Part THEN Part ELSE op.data.disk
           [] OTHER -> IF op.data = None THEN NoDisk ELSE op.data

\* The node needs something to make the disk from.
ReplaceDisk ==
    /\ op.step = "call" /\ op.kind \in Replacing /\ Given # NoDisk
    /\ disk' = Given
    /\ CASE op.kind = "backup_restore" -> snaps' = IF op.data = Part THEN Untaken ELSE op.data.snaps
         [] op.kind = "reinstall" -> snaps' \in {snaps, Untaken}
         [] OTHER -> UNCHANGED snaps
    /\ running' = FALSE
    /\ Goes("store")
    /\ UNCHANGED <<written, late, rows, store, images, history>>

\* Refused, given up or cut off: only a create releases its fence.  What it left
\* of a disk is not counted as one.
ReplaceFails ==
    /\ op.step = "call" /\ op.kind \in Replacing
    /\ disk' \in {disk} \cup IF Given = NoDisk THEN {} ELSE IF op.kind = "create" THEN {Given} \ {Part} ELSE {Given, Part}
    /\ running' = (running /\ disk' = disk)
    /\ IF op.kind = "create" THEN Ends ELSE Retains
    /\ IF op.kind = "reinstall" THEN WritesBack ELSE UNCHANGED <<image, revived>>
    /\ UNCHANGED <<snaps, written, late, row, snapRow, backup, store, images, doubted, ending>>

\* The rows of the backup's snapshots replace those of the instance.
Restored(b) == [n \in Name |-> IF backup[b].rows[n] = NoDisk THEN NoSnapshot
                               ELSE [status |-> "available", disk |-> backup[b].rows[n]]]

\* Slip: a restored backup leaves the rows of the snapshots alone.
StoreDiskOnly ==
    /\ op.step = "store" /\ op.kind \in Replacing
    /\ WritesBack
    /\ Ends
    /\ UNCHANGED <<guest, row, snapRow, backup, store, images, doubted, ending>>

StoreDisk ==
    /\ op.step = "store" /\ op.kind \in Replacing
    /\ WritesBack
    /\ snapRow' = IF op.kind = "backup_restore" THEN Restored(op.of) ELSE snapRow
    /\ Ends
    /\ UNCHANGED <<guest, row, backup, store, images, doubted, ending>>

\* The verification of the guest or the statements fail.
StoreDiskFails ==
    /\ op.step = "store" /\ op.kind \in Replacing
    /\ IF op.kind \in Stopping THEN Retains ELSE Ends
    /\ UNCHANGED <<guest, rows, store, images, history>>

-----------------------------------------------------------------------------
(* Snapshots *)

CreateSnapshot(n) ==
    /\ ~SnapshotFound(n)
    /\ Begins("snapshot_create", "call", n, None)
    /\ snapRow' = [snapRow EXCEPT ![n].status = "creating"]
    /\ UNCHANGED <<guest, row, backup, image, store, images, history>>

RestoreSnapshot(n) ==
    /\ snapRow[n].status = "available"
    /\ Begins("snapshot_restore", "call", n, None)
    /\ UNCHANGED <<guest, rows, store, images, history>>

DeleteSnapshot(n) ==
    /\ SnapshotFound(n)
    /\ Begins("snapshot_delete", "call", n, None)
    /\ UNCHANGED <<guest, rows, store, images, history>>

\* What a snapshot call does on the node, which takes none of a disk that is
\* being replaced.
Carried(what, n) ==
    IF what = "delete" THEN [snaps EXCEPT ![n] = NoDisk]
    ELSE IF snaps[n] = NoDisk /\ disk # Part THEN [snaps EXCEPT ![n] = disk] ELSE snaps

SnapshotTaken ==
    LET n == op.name IN
    /\ At("snapshot_create", "call") /\ disk # NoDisk /\ snaps[n] = NoDisk
    /\ snaps' = Carried("create", n)
    /\ snapRow' = [snapRow EXCEPT ![n].disk = disk]
    /\ Goes("store")
    /\ UNCHANGED <<running, disk, written, late, row, backup, image, store, images, history>>

SnapshotRemoved ==
    /\ At("snapshot_delete", "call")
    /\ snaps' = Carried("delete", op.name)
    /\ Goes("drop")
    /\ UNCHANGED <<running, disk, written, late, rows, store, images, history>>

SnapshotCallFails ==
    LET n == op.name
        what == IF op.kind = "snapshot_create" THEN "create" ELSE "delete"
    IN  /\ op.step = "call" /\ op.kind \in {"snapshot_create", "snapshot_delete"}
        /\ \/ UNCHANGED <<snaps, late, doubted>>
           \/ snaps' = Carried(what, n) /\ doubted' = doubted \cup {n} /\ UNCHANGED late
           \/ late' = late \cup {<<what, n>>} /\ doubted' = doubted \cup {n} /\ UNCHANGED snaps
        /\ snapRow' \in {snapRow} \cup {[snapRow EXCEPT ![n].status = "error"] : w \in {what} \cap {"create"}}
        /\ Ends
        /\ UNCHANGED <<running, disk, written, row, backup, image, store, images, revived, ending>>

\* The last statement of CreateSnapshot and of DeleteSnapshot; if it fails the
\* row stays as it is.
StoreSnapshot ==
    LET n == op.name IN
    /\ \/ /\ At("snapshot_create", "store")
          /\ snapRow' \in {snapRow, [snapRow EXCEPT ![n].status = "available"]}
       \/ /\ At("snapshot_delete", "drop")
          /\ snapRow' \in {snapRow, [snapRow EXCEPT ![n] = NoSnapshot]}
    /\ Ends
    /\ UNCHANGED <<guest, row, backup, image, store, images, history>>

\* A call that was given up is carried out after all.
NodeLate ==
    \E c \in late :
        /\ snaps' = Carried(c[1], c[2])
        /\ late' = late \ {c}
        /\ UNCHANGED <<running, disk, written, rows, store, op, images, history>>

-----------------------------------------------------------------------------
(* Backups *)

\* The row is inserted with the snapshots there are.
CreateBackup(b) ==
    /\ backup[b] = NoBackup
    /\ Begins("backup_create", "call", None, b)
    /\ backup' = [backup EXCEPT ![b].status = "creating", ![b].rows = Listed]
    /\ UNCHANGED <<guest, row, snapRow, image, store, images, history>>

\* Slip: a status nobody knows.
FailBackupUnknown == /\ backup' \in {backup, [backup EXCEPT ![op.of].status = "failed"]}
                     /\ Ends

\* failBackup; its own failure leaves the row creating.
FailBackup == /\ backup' \in {backup, [backup EXCEPT ![op.of].status = "error"]}
              /\ Ends

\* The node begins to stream, and SaveNamed a file.
Export(f) ==
    /\ At("backup_create", "call")
    /\ Draws(f)
    /\ files' = [files EXCEPT ![f] = Part]
    /\ op' = [op EXCEPT !.step = "save", !.file = f, !.data = [disk |-> disk, snaps |-> snaps]]
    /\ UNCHANGED <<guest, rows, images, history>>

ExportFails ==
    /\ At("backup_create", "call")
    /\ FailBackup
    /\ UNCHANGED <<guest, row, snapRow, image, store, images, history>>

\* The stream is whole if the disk is still what it was.
SaveArchive ==
    /\ At("backup_create", "save")
    /\ files' = [files EXCEPT ![op.file] = IF disk = op.data.disk THEN op.data ELSE Part]
    /\ Goes("record")
    /\ UNCHANGED <<guest, rows, drawn, images, history>>

\* SaveNamed fails and removes the file, or a truncated stream was saved and the
\* file is removed, or not.
SaveArchiveFails ==
    /\ At("backup_create", "save")
    /\ files' \in {files, [files EXCEPT ![op.file] = None]}
    /\ FailBackup
    /\ UNCHANGED <<guest, row, snapRow, image, drawn, images, history>>

Recorded(status) == [backup EXCEPT ![op.of].status = status, ![op.of].file = op.file, ![op.of].saved = op.data]

\* The row names the file; else a second update is to name it.
RecordBackup ==
    /\ At("backup_create", "record")
    /\ \/ backup' = Recorded("available") /\ Ends
       \/ Goes("again") /\ UNCHANGED backup
    /\ UNCHANGED <<guest, row, snapRow, image, store, images, history>>

RecordAgain ==
    /\ At("backup_create", "again")
    /\ \/ backup' = Recorded("error") /\ Ends
       \/ Retains /\ UNCHANGED backup
    /\ UNCHANGED <<guest, row, snapRow, image, store, images, history>>

\* The file is opened and compared before the node is asked to import it.
RestoreBackup(b) ==
    LET f == backup[b].file IN
    /\ OpenBackup(b)
    /\ op = Idle /\ row.there = "present" /\ ~running /\ disk # NoDisk
    /\ op' = [Idle EXCEPT !.kind = "backup_restore", !.step = "call", !.of = b, !.image = row.image,
                          !.read = IF row.image = None THEN NoImage ELSE image[row.image], !.data = files[f]]
    /\ UNCHANGED <<guest, rows, store, images, history>>

DeleteBackup(b) ==
    /\ BackupFound(b)
    /\ op = Idle /\ row.there = "present"
    /\ op' = [Idle EXCEPT !.kind = "backup_delete", !.step = "files", !.of = b, !.list = {backup[b].file} \ {None}]
    /\ UNCHANGED <<guest, rows, store, images, history>>

\* A file after the other; the first that cannot be removed ends the operation.
RemoveFile(f) ==
    /\ op.step = "files" /\ f \in op.list
    /\ \/ /\ files' = [files EXCEPT ![f] = None]
          /\ op' = [op EXCEPT !.list = @ \ {f}]
          /\ ending' = ending \cup {b \in Backup : backup[b].file = f}
       \/ Ends /\ UNCHANGED <<files, ending>>
    /\ UNCHANGED <<guest, rows, drawn, images, revived, doubted>>

DropBackup ==
    /\ At("backup_delete", "files") /\ op.list = {}
    /\ backup' \in {backup, [backup EXCEPT ![op.of].status = "deleted"]}
    /\ Ends
    /\ UNCHANGED <<guest, row, snapRow, image, store, images, history>>

-----------------------------------------------------------------------------
(* Purging *)

PurgeInstance ==
    /\ Begins("purge", "call", None, None)
    /\ UNCHANGED <<guest, rows, store, images, history>>

\* The guest goes; an error ends the operation, whatever the node has done.
PurgeCall ==
    /\ At("purge", "call")
    /\ \/ Goes("list") /\ disk' = NoDisk
       \/ Ends /\ disk' \in {disk, NoDisk}
    /\ IF disk' = NoDisk THEN snaps' = Untaken /\ running' = FALSE ELSE UNCHANGED <<snaps, running>>
    /\ UNCHANGED <<written, late, rows, store, images, history>>

\* Slip: only the backups one can restore are looked for.
PurgeListAvailable ==
    /\ At("purge", "list")
    /\ WritesBack
    /\ op' = [op EXCEPT !.step = "files",
                        !.list = {backup[b].file : b \in {c \in Backup : backup[c].status = "available"}} \ {None}]
    /\ UNCHANGED <<guest, row, snapRow, backup, store, images, doubted, ending>>

\* The status is written and the backups are read, or one of both fails.
PurgeList ==
    /\ At("purge", "list")
    /\ \/ /\ WritesBack
          /\ op' = [op EXCEPT !.step = "files",
                 !.list = {backup[b].file : b \in {c \in Backup : backup[c].status # "deleted"}} \ {None}]
       \/ Ends /\ UNCHANGED <<image, revived>>
    /\ UNCHANGED <<guest, row, snapRow, backup, store, images, doubted, ending>>

\* One transaction for the rows, the fence among them; or it fails.
PurgeRows ==
    /\ At("purge", "files") /\ op.list = {}
    /\ \/ /\ row' = [there |-> "gone", image |-> None]
          /\ snapRow' = [n \in Name |-> NoSnapshot]
          /\ backup' = [b \in Backup |-> IF backup[b] = NoBackup THEN NoBackup
                                           ELSE [backup[b] EXCEPT !.status = "deleted"]]
       \/ UNCHANGED <<row, snapRow, backup>>
    /\ Ends
    /\ UNCHANGED <<guest, image, store, images, history>>

-----------------------------------------------------------------------------
(* Restarts and recovery by hand *)

\* The master dies: an operation leaves its fence, or nothing if its row is not
\* there yet; uploads, downloads and deletions leave what they have done.
Crash ==
    /\ op \notin {Idle, Kept} \/ images # <<[g \in Image |-> Still], [g \in Image |-> Still]>>
    /\ op' = IF op.kind = "idle" \/ op.step = "insert" THEN Idle ELSE Kept
    /\ save' = [g \in Image |-> Still] /\ drop' = [g \in Image |-> Still]
    /\ UNCHANGED <<guest, rows, store, history>>

\* An operator verifies the guest, repairs it if need be, and clears the fence.
OperatorClears ==
    /\ op = Kept
    /\ op' = Idle
    /\ disk' = IF disk = Part THEN Fresh ELSE disk
    /\ doubted' = Name
    /\ UNCHANGED <<running, snaps, written, late, rows, store, images, revived, ending>>

-----------------------------------------------------------------------------
Next ==
    \/ \E g \in Image, f \in File : BeginUpload(g, f) \/ BeginDownload(g, f)
    \/ \E g \in Image : \/ SaveUpload(g) \/ DownloadTo(g) \/ InsertImage(g)
                        \/ FinishDownload(g) \/ FailDownload(g)
                        \/ DeleteImage(g) \/ DeleteImageRow(g) \/ DeleteImageFile(g)
                        \/ ChooseImage(g) \/ SelectImage(g)
    \/ GuestStarts \/ GuestStops \/ GuestWrites
    \/ FailsBeforeCall
    \/ InsertInstance \/ Reinstall \/ KeepImage \/ OpenImage
    \/ ReplaceDisk \/ ReplaceFails \/ StoreDisk \/ StoreDiskFails
    \/ \E n \in Name : CreateSnapshot(n) \/ RestoreSnapshot(n) \/ DeleteSnapshot(n)
    \/ SnapshotTaken \/ SnapshotRemoved \/ SnapshotCallFails \/ StoreSnapshot \/ NodeLate
    \/ \E b \in Backup : CreateBackup(b) \/ RestoreBackup(b) \/ DeleteBackup(b)
    \/ \E f \in File : Export(f) \/ RemoveFile(f)
    \/ ExportFails \/ SaveArchive \/ SaveArchiveFails \/ RecordBackup \/ RecordAgain \/ DropBackup
    \/ PurgeInstance \/ PurgeCall \/ PurgeList \/ PurgeRows
    \/ Crash \/ OperatorClears

Spec == Init /\ [][Next]_vars

-----------------------------------------------------------------------------
(* Properties *)

\* What a row offers is in the store, whole: an available backup has the very
\* archive that was exported unless its deletion has begun, and an available
\* image its whole file unless its deleted row was written back.
AvailableHasFile ==
    /\ \A b \in Backup \ ending :
           backup[b].status = "available" => /\ backup[b].file # None
                                             /\ files[backup[b].file] = backup[b].saved
    /\ \A g \in Image \ revived :
           image[g].status = "available" => image[g].file # None /\ files[image[g].file] = Fresh

\* A half-written disk is fenced: no operation that replaces a disk ends and
\* lets others at it before it is whole, whether its source was incomplete or
\* the call was cut off.
HalfWrittenIsFenced == disk = Part => op # Idle

\* A snapshot on the node under the name of an available row is the one that row
\* was written for, through reinstalls, restores of snapshots and restores of
\* backups, which bring their own; unless a call for it was given up, or an
\* operator has recovered the instance.
SnapshotsAreTheRows ==
    op = Idle => \A n \in Name \ doubted :
        snapRow[n].status = "available" => snaps[n] \in {NoDisk, snapRow[n].disk}

\* A purged instance leaves no file of a backup behind that a row ever named.
PurgeLeavesNothing ==
    row.there = "gone" => \A b \in Backup : backup[b].file # None => files[backup[b].file] = None

=============================================================================
