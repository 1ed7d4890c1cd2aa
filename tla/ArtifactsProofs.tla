---------------------------- MODULE ArtifactsProofs ----------------------------
(***************************************************************************)
(* Proofs about Artifacts, for any number of snapshots, backups, images    *)
(* and files: what an available row offers is in the store, a half-written *)
(* disk is fenced, the snapshots on the node are those of the rows, and a  *)
(* purge leaves no file of a backup behind.                                *)
(*                                                                         *)
(* The argument is about who owns a file.  Every name is drawn once, by an *)
(* upload, a download or a backup, and from then on only that image or     *)
(* backup names it - although an operation, a deletion and the row itself  *)
(* may all remember it.  So a step that writes or removes a file spoils    *)
(* nothing for another owner, and what is left to say is what each owner   *)
(* knows of its own files.                                                 *)
(***************************************************************************)
EXTENDS Artifacts, TLAPS

Kinds == Stopping \cup {"idle", "kept", "create", "reinstall", "snapshot_create", "snapshot_delete",
                        "backup_delete", "purge"}
Steps == {"none", "insert", "choose", "open", "call", "store", "drop", "save", "record", "again", "list", "files"}

\* The steps of an operation, by its kind, and what it knows in them.
OpInv ==
    /\ op.kind = "idle" => op = Idle
    /\ op.kind = "kept" => op = Kept
    /\ op.kind = "create" => op.step \in {"insert", "open", "call", "store"}
    /\ op.kind = "reinstall" => op.step \in {"choose", "open", "call", "store"}
    /\ op.kind = "snapshot_create" => op.step \in {"call", "store"}
    /\ op.kind = "snapshot_delete" => op.step \in {"call", "drop"}
    /\ op.kind \in {"snapshot_restore", "backup_restore"} => op.step \in {"call", "store"}
    /\ op.kind = "backup_create" => op.step \in {"call", "save", "record", "again"}
    /\ op.kind = "backup_delete" => op.step = "files"
    /\ op.kind = "purge" => op.step \in {"call", "list", "files"}
    /\ op.kind \in {"snapshot_create", "snapshot_restore", "snapshot_delete"} => op.name \in Name
    /\ op.kind \in {"backup_create", "backup_restore", "backup_delete"} => op.of \in Backup
    /\ op.image = None => op.read.file = None
    /\ op.kind \in {"create", "reinstall"} /\ op.step = "call" => op.data \in {None, Fresh}
    /\ op.kind \in Stopping => ~running
    /\ op.kind # "backup_create" \/ op.step = "call" => op.file = None
    /\ op.kind = "backup_create" /\ op.step \in {"save", "record", "again"} => op.file # None
    /\ op.step # "files" => op.list = {}

\* The files an image names, the one that is being saved for it, and those of a
\* backup: its row, the operation and the deletion may all remember one.
NamedBy(g) == ({image[g].file, drop[g].file} \cup IF op.image = g THEN {op.read.file} ELSE {}) \ {None}
SavedBy(g) == {save[g].file} \ {None}
HeldBy(b) == ({backup[b].file} \cup IF op.of = b THEN {op.file} ELSE {}) \ {None}

\* They have been drawn, and nobody else has them.
OwnInv ==
    /\ \A g \in Image : NamedBy(g) \cup SavedBy(g) \subseteq drawn /\ NamedBy(g) \cap SavedBy(g) = {}
    /\ \A b \in Backup : HeldBy(b) \subseteq drawn
    /\ \A g, h \in Image : g # h => (NamedBy(g) \cup SavedBy(g)) \cap (NamedBy(h) \cup SavedBy(h)) = {}
    /\ \A b, c \in Backup : b # c => HeldBy(b) \cap HeldBy(c) = {}
    /\ \A g \in Image, b \in Backup : (NamedBy(g) \cup SavedBy(g)) \cap HeldBy(b) = {}
    /\ \A f \in op.list : \E b \in Backup : backup[b].file = f

\* What an image names is whole or gone; how far its upload, its download and
\* its deletion have come shows in its row, unless the row was written back.
ImageOK(g) ==
    /\ \A f \in NamedBy(g) : files[f] \in {Fresh, None}
    /\ save[g].step \in {"up", "insert", "down", "update"} => save[g].file # None
    /\ save[g].step \in {"insert", "update"} => files[save[g].file] = Fresh
    /\ save[g].step \in {"up", "insert"} => image[g] = NoImage
    /\ save[g].step \in {"down", "update"} => image[g].status \in {"downloading", "deleted"} \/ g \in revived
    /\ save[g].step = "fail" => image[g].status # "none"
    /\ drop[g].step = "row" => image[g].status # "none"
    /\ drop[g].step = "file" => image[g].status = "deleted" \/ g \in revived
    /\ image[g].status = "none" => image[g].file = None /\ g \notin revived
    /\ image[g].status = "available" /\ g \notin revived => image[g].file # None /\ files[image[g].file] = Fresh
ImageInv == \A g \in Image : ImageOK(g)

\* Only an operation that keeps its fence leaves half a disk.
DiskInv ==
    /\ disk = Part => op = Kept
    /\ \A n \in Name : snaps[n] # Part

\* An archive that was exported from a whole disk.
Whole(a) == a \in Archive /\ a.disk # Part /\ \A n \in Name : a.snaps[n] # Part

\* What a backup's row offers is what was exported, until its deletion begins.
BackupOK(b) ==
    /\ backup[b].saved # None => Whole(backup[b].saved)
    /\ backup[b].status = "available" /\ b \notin ending =>
           backup[b].file # None /\ files[backup[b].file] = backup[b].saved
    /\ b \in ending => backup[b].file # None /\ files[backup[b].file] = None

Exporting ==
    /\ op.kind = "backup_create" => /\ backup[op.of].status = "creating"
                                    /\ backup[op.of].file = None /\ backup[op.of].saved = None
    /\ At("backup_create", "save") => Whole(op.data) /\ op.data.disk = disk
    /\ op.kind = "backup_create" /\ op.step \in {"record", "again"} => Whole(op.data) /\ files[op.file] = op.data
Importing == op.kind = "backup_restore" => Whole(op.data) /\ op.data = backup[op.of].saved

BackupInv == (\A b \in Backup : BackupOK(b)) /\ Exporting /\ Importing

\* The row of a snapshot, and what a backup remembers of it, is of the snapshot
\* on the node, or in the archive; only an import that is not stored yet is ahead
\* of the rows.
Agrees(s, d) == d # NoDisk => s \in {NoDisk, d}
RowAgrees(n) == snapRow[n].status = "available" => snaps[n] \in {NoDisk, snapRow[n].disk}

SnapOK(n) ==
    /\ op # Kept /\ ~At("backup_restore", "store") => RowAgrees(n)
    /\ At("backup_restore", "store") => snaps[n] = op.data.snaps[n]
    /\ At("snapshot_create", "store") /\ op.name = n => snaps[n] \in {NoDisk, snapRow[n].disk}
    /\ \A b \in Backup : backup[b].saved # None => Agrees(backup[b].saved.snaps[n], backup[b].rows[n])
    /\ At("backup_create", "call") => Agrees(snaps[n], backup[op.of].rows[n])
    /\ op.kind = "backup_create" /\ op.step \in {"save", "record", "again"}
           => Agrees(op.data.snaps[n], backup[op.of].rows[n])
SnapInv == (\A c \in late : c[2] \in doubted) /\ \A n \in Name \ doubted : SnapOK(n)

\* A deleted backup has no file, and one that is being deleted, none that is
\* not on the list.
Removed(b) == backup[b].file # None => files[backup[b].file] = None

PurgeInv ==
    /\ \A b \in Backup : backup[b].status = "deleted" => Removed(b)
    /\ op.step = "files" => \A b \in Backup :
           op.kind = "purge" \/ op.of = b => Removed(b) \/ backup[b].file \in op.list
    /\ row.there = "gone" => op = Idle /\ \A b \in Backup : Removed(b)

ArtifactsInv == TypeOK /\ OpInv /\ OwnInv /\ ImageInv /\ DiskInv /\ BackupInv /\ SnapInv /\ PurgeInv

-----------------------------------------------------------------------------
(* Operations as records *)

LEMMA OpForms ==
    /\ Idle \in Op /\ Kept \in Op /\ Idle # Kept
    /\ Idle.kind = "idle" /\ Idle.step = "none" /\ Idle.name = None /\ Idle.of = None /\ Idle.image = None
    /\ Idle.read = NoImage /\ Idle.file = None /\ Idle.data = None /\ Idle.list = {}
    /\ Kept.kind = "kept" /\ Kept.step = "none" /\ Kept.name = None /\ Kept.of = None /\ Kept.image = None
    /\ Kept.read = NoImage /\ Kept.file = None /\ Kept.data = None /\ Kept.list = {}
    /\ NoImage \in ImageRow /\ NoImage.status = "none" /\ NoImage.file = None
  BY DEF Idle, Kept, Op, NoImage, ImageRow, Content

LEMMA OpFields ==
    ASSUME NEW o \in Op
    PROVE  /\ o.kind \in Kinds /\ o.step \in Steps /\ o.name \in Name \cup {None} /\ o.of \in Backup \cup {None}
           /\ o.image \in Image \cup {None} /\ o.read \in ImageRow /\ o.file \in File \cup {None}
           /\ o.data \in Content /\ o.list \in SUBSET File
  BY DEF Op, Kinds, Steps

LEMMA GoesFields ==
    ASSUME op \in Op, NEW s \in Steps, Goes(s)
    PROVE  /\ op' \in Op /\ op'.step = s /\ op'.kind = op.kind /\ op'.name = op.name /\ op'.of = op.of
           /\ op'.image = op.image /\ op'.read = op.read /\ op'.file = op.file /\ op'.data = op.data
           /\ op'.list = op.list
  BY DEF Op, Goes, Steps

\* A new operation, with the image it read.
LEMMA NewFields ==
    ASSUME NEW k \in Kinds, NEW s \in Steps, NEW n \in Name \cup {None}, NEW b \in Backup \cup {None},
           NEW g \in Image \cup {None}, NEW r \in ImageRow, NEW d \in Content, NEW l \in SUBSET File, NEW o,
           o = [kind |-> k, step |-> s, name |-> n, of |-> b, image |-> g, read |-> r,
                file |-> None, data |-> d, list |-> l]
    PROVE  /\ o \in Op /\ o.kind = k /\ o.step = s /\ o.name = n /\ o.of = b /\ o.image = g /\ o.read = r
           /\ o.file = None /\ o.data = d /\ o.list = l
  BY DEF Op, Kinds, Steps

LEMMA BeginsFields ==
    ASSUME TypeOK, NEW k \in Kinds, NEW s \in Steps, NEW n \in Name \cup {None}, NEW b \in Backup \cup {None},
           Begins(k, s, n, b)
    PROVE  /\ op' \in Op /\ op'.kind = k /\ op'.step = s /\ op'.name = n /\ op'.of = b /\ op'.image = row.image
           /\ op'.read = (IF row.image = None THEN NoImage ELSE image[row.image])
           /\ op'.file = None /\ op'.data = None /\ op'.list = {}
           /\ op'.image = None => op'.read.file = None
  <1> DEFINE r == IF row.image = None THEN NoImage ELSE image[row.image]
  <1>1. row.image \in Image \cup {None} /\ r \in ImageRow
    BY OpForms DEF TypeOK
  <1>2. op' = [kind |-> k, step |-> s, name |-> n, of |-> b, image |-> row.image, read |-> r,
               file |-> None, data |-> None, list |-> {}]
    BY DEF Begins, Idle
  <1> HIDE DEF r
  <1>4. None \in Content /\ {} \in SUBSET File
    BY DEF Content
  <1>3. /\ op' \in Op /\ op'.kind = k /\ op'.step = s /\ op'.name = n /\ op'.of = b /\ op'.image = row.image
        /\ op'.read = r /\ op'.file = None /\ op'.data = None /\ op'.list = {}
    BY <1>1, <1>2, <1>4, NewFields, SMT
  <1> QED
    BY <1>3, OpForms DEF r

-----------------------------------------------------------------------------
(* Files and their owners *)

\* Names that are only forgotten make no conflict.
LEMMA OwnShrinks ==
    ASSUME OwnInv, drawn \subseteq drawn',
           \A g \in Image : NamedBy(g)' \subseteq NamedBy(g) /\ SavedBy(g)' \subseteq SavedBy(g),
           \A b \in Backup : HeldBy(b)' \subseteq HeldBy(b),
           \A f \in op'.list : \E b \in Backup : backup'[b].file = f
    PROVE  OwnInv'
  <1> DEFINE N(g) == NamedBy(g) \cup SavedBy(g)
  <1>0. \A g \in Image : N(g)' \subseteq N(g)
    OBVIOUS
  <1>1. \A g \in Image : N(g)' \subseteq drawn' /\ NamedBy(g)' \cap SavedBy(g)' = {}
    BY DEF OwnInv
  <1>2. \A b \in Backup : HeldBy(b)' \subseteq drawn'
    BY DEF OwnInv
  <1>3. \A g, h \in Image : g # h => N(g)' \cap N(h)' = {}
    BY <1>0 DEF OwnInv
  <1>4. \A b, c \in Backup : b # c => HeldBy(b)' \cap HeldBy(c)' = {}
    BY DEF OwnInv
  <1>5. \A g \in Image, b \in Backup : N(g)' \cap HeldBy(b)' = {}
    BY <1>0 DEF OwnInv
  <1> QED
    BY <1>1, <1>2, <1>3, <1>4, <1>5 DEF OwnInv

\* What an operation knows of an image is what it knew, or what it reads.
Remembers ==
    \/ op'.image = None
    \/ op'.image = op.image /\ op'.read = op.read
    \/ op'.image \in Image /\ op'.read = image[op'.image]

LEMMA NamesKept ==
    ASSUME NEW g \in Image, None \notin Image, UNCHANGED <<image, drop>>, Remembers
    PROVE  NamedBy(g)' \subseteq NamedBy(g)
  BY DEF NamedBy, Remembers

\* Files of images are left alone by who has a backup's file.
ImageFilesKept == \A g \in Image : \A f \in NamedBy(g) \cup SavedBy(g) : files'[f] = files[f]
HeldFilesKept == \A b \in Backup : \A f \in HeldBy(b) : files'[f] = files[f]

LEMMA HeldFileChanged ==
    ASSUME TypeOK, OwnInv, NEW b \in Backup, NEW x \in HeldBy(b), NEW v, files' = [files EXCEPT ![x] = v]
    PROVE  /\ ImageFilesKept
           /\ \A c \in Backup \ {b} : \A f \in HeldBy(c) : files'[f] = files[f]
  <1>1. \A f \in drawn : f # x => files'[f] = files[f]
    BY DEF TypeOK
  <1>2. ASSUME NEW g \in Image, NEW f \in NamedBy(g) \cup SavedBy(g) PROVE files'[f] = files[f]
    <2>1. f \in drawn /\ f \notin HeldBy(b)
      BY <1>2 DEF OwnInv
    <2> QED
      BY <1>1, <2>1
  <1>3. ASSUME NEW c \in Backup \ {b}, NEW f \in HeldBy(c) PROVE files'[f] = files[f]
    <2>1. f \in drawn /\ f \notin HeldBy(b)
      BY <1>3 DEF OwnInv
    <2> QED
      BY <1>1, <2>1
  <1> QED
    BY <1>2, <1>3 DEF ImageFilesKept

-----------------------------------------------------------------------------
(* What leaves a part of the invariant alone *)

LEMMA ImageFrame ==
    ASSUME ImageInv, None \notin Image, UNCHANGED <<image, save, drop, revived>>, Remembers, ImageFilesKept
    PROVE  ImageInv'
  <1> SUFFICES ASSUME NEW g \in Image PROVE ImageOK(g)'
    BY DEF ImageInv
  <1>1. ImageOK(g) /\ NamedBy(g)' \subseteq NamedBy(g)
    BY NamesKept DEF ImageInv
  <1>2. \A f \in NamedBy(g) \cup SavedBy(g) : files'[f] = files[f]
    BY DEF ImageFilesKept
  <1>3. \A f \in NamedBy(g)' : files'[f] \in {Fresh, None}
    BY <1>1, <1>2 DEF ImageOK
  <1>4. save[g].step \in {"insert", "update"} => files'[save[g].file] = Fresh
    BY <1>1, <1>2 DEF ImageOK, SavedBy
  <1>5. image[g].status = "available" /\ g \notin revived => image[g].file # None /\ files'[image[g].file] = Fresh
    BY <1>1, <1>2 DEF ImageOK, NamedBy
  <1> QED
    BY <1>1, <1>3, <1>4, <1>5 DEF ImageOK

LEMMA DiskFrame ==
    ASSUME DiskInv, UNCHANGED <<disk, snaps>>, op' = op \/ op # Kept \/ op' = Kept
    PROVE  DiskInv'
  BY DEF DiskInv

LEMMA BackupFrame ==
    ASSUME BackupInv, OpInv, UNCHANGED <<backup, ending>>, HeldFilesKept,
           \/ op'.kind \notin {"backup_create", "backup_restore"}
           \/ op' = op /\ (op.kind \in Stopping => disk' = disk)
           \/ /\ op'.kind = "backup_restore" /\ op.kind = "backup_restore"
              /\ op'.data = op.data /\ op'.of = op.of
    PROVE  BackupInv'
  <1>1. ASSUME NEW b \in Backup PROVE BackupOK(b)'
    <2>1. BackupOK(b)
      BY DEF BackupInv
    <2>2. backup[b].file # None => files'[backup[b].file] = files[backup[b].file]
      BY DEF HeldFilesKept, HeldBy
    <2> QED
      BY <2>1, <2>2 DEF BackupOK, Whole
  <1>2. Exporting'
    <2>1. CASE op' = op /\ (op.kind \in Stopping => disk' = disk)
      <3>1. op.kind = "backup_create" => op.of \in Backup /\ disk' = disk
        BY <2>1 DEF OpInv, Stopping
      <3>2. op.kind = "backup_create" /\ op.step \in {"record", "again"} => files'[op.file] = files[op.file]
        BY <3>1 DEF HeldFilesKept, HeldBy, OpInv
      <3> QED
        BY <2>1, <3>1, <3>2 DEF Exporting, BackupInv, At, Whole
    <2>2. CASE op'.kind # "backup_create"
      BY <2>2 DEF Exporting, At
    <2> QED
      BY <2>1, <2>2
  <1>3. Importing'
    BY DEF Importing, BackupInv, Whole
  <1> QED
    BY <1>1, <1>2, <1>3 DEF BackupInv

LEMMA SnapFrame ==
    ASSUME SnapInv, UNCHANGED <<snapRow, snaps, backup>>, late' \subseteq late, doubted \subseteq doubted',
           \/ op' = op
           \/ /\ op'.kind # "backup_create"
              /\ op'.kind \in {"backup_restore", "snapshot_create"} => op'.step # "store"
              /\ op' = Kept \/ (op # Kept /\ ~At("backup_restore", "store"))
    PROVE  SnapInv'
  <1>1. \A c \in late' : c[2] \in doubted'
    BY DEF SnapInv
  <1>2. ASSUME NEW n \in Name \ doubted' PROVE SnapOK(n)'
    <2>1. SnapOK(n)
      BY DEF SnapInv
    <2>2. CASE op' = op
      BY <2>1, <2>2 DEF SnapOK, At, RowAgrees, Agrees
    <2>3. CASE op' # op
      BY <2>1, <2>3 DEF SnapOK, At, RowAgrees, Agrees
    <2> QED
      BY <2>2, <2>3
  <1> QED
    BY <1>1, <1>2 DEF SnapInv

LEMMA PurgeFrame ==
    ASSUME PurgeInv, UNCHANGED backup, HeldFilesKept, op' = op \/ op'.step # "files",
           row'.there = "gone" => row.there = "gone" /\ op' = op
    PROVE  PurgeInv'
  <1>1. \A b \in Backup : Removed(b) => Removed(b)'
    BY DEF Removed, HeldFilesKept, HeldBy
  <1> QED
    BY <1>1 DEF PurgeInv

-----------------------------------------------------------------------------
(* Images *)

\* A step for one image, with its own files or one just drawn.
LEMMA ImageStep ==
    ASSUME ArtifactsInv, NEW g \in Image, UNCHANGED <<guest, row, snapRow, backup, op, history>>, TypeOK',
           \A h \in Image \ {g} : image'[h] = image[h] /\ save'[h] = save[h] /\ drop'[h] = drop[h],
           drawn \subseteq drawn',
           \A f \in drawn \ (NamedBy(g) \cup SavedBy(g)) : files'[f] = files[f],
           NamedBy(g)' \cup SavedBy(g)' \subseteq NamedBy(g) \cup SavedBy(g) \cup (drawn' \ drawn),
           NamedBy(g)' \cap SavedBy(g)' = {},
           ImageOK(g)'
    PROVE  ArtifactsInv'
  <1> DEFINE N(h) == NamedBy(h) \cup SavedBy(h)
  <1> USE DEF ArtifactsInv
  <1>1. ASSUME NEW h \in Image, h # g PROVE NamedBy(h)' = NamedBy(h) /\ SavedBy(h)' = SavedBy(h)
    BY <1>1 DEF NamedBy, SavedBy
  <1>2. \A b \in Backup : HeldBy(b)' = HeldBy(b)
    BY DEF HeldBy
  <1>3. OwnInv'
    <2>1. \A h \in Image : N(h)' \subseteq drawn' /\ NamedBy(h)' \cap SavedBy(h)' = {}
      BY <1>1 DEF OwnInv
    <2>2. \A b \in Backup : HeldBy(b)' \subseteq drawn'
      BY <1>2 DEF OwnInv
    <2>3. \A h \in Image : h # g => N(g)' \cap N(h)' = {}
      BY <1>1 DEF OwnInv
    <2>4. \A h, k \in Image : h # k => N(h)' \cap N(k)' = {}
      BY <1>1, <2>3 DEF OwnInv
    <2>5. \A b, c \in Backup : b # c => HeldBy(b)' \cap HeldBy(c)' = {}
      BY <1>2 DEF OwnInv
    <2>6. \A h \in Image, b \in Backup : N(h)' \cap HeldBy(b)' = {}
      BY <1>1, <1>2 DEF OwnInv
    <2>7. \A f \in op'.list : \E b \in Backup : backup'[b].file = f
      BY DEF OwnInv
    <2> QED
      BY <2>1, <2>2, <2>4, <2>5, <2>6, <2>7 DEF OwnInv
  <1>4. ASSUME NEW h \in Image, h # g PROVE ImageOK(h)'
    <2>1. ImageOK(h) /\ NamedBy(h)' = NamedBy(h)
      BY <1>1, <1>4 DEF ImageInv
    <2>2. \A f \in N(h) : files'[f] = files[f]
      BY <1>4 DEF OwnInv
    <2>3. \A f \in NamedBy(h)' : files'[f] \in {Fresh, None}
      BY <2>1, <2>2 DEF ImageOK
    <2>4. save[h].step \in {"insert", "update"} => files'[save[h].file] = Fresh
      BY <2>1, <2>2 DEF ImageOK, SavedBy
    <2>5. image[h].status = "available" /\ h \notin revived => image[h].file # None /\ files'[image[h].file] = Fresh
      BY <2>1, <2>2 DEF ImageOK, NamedBy
    <2> QED
      BY <1>4, <2>1, <2>3, <2>4, <2>5 DEF ImageOK, history
  <1>5. ImageInv'
    BY <1>4 DEF ImageInv
  <1>6. HeldFilesKept
    BY DEF HeldFilesKept, OwnInv
  <1>7. OpInv' /\ DiskInv'
    BY DEF OpInv, DiskInv, guest
  <1>8. BackupInv'
    BY <1>6, BackupFrame DEF guest, history
  <1>9. SnapInv'
    BY SnapFrame DEF guest, history
  <1>10. PurgeInv'
    BY <1>6, PurgeFrame
  <1> QED
    BY <1>3, <1>5, <1>7, <1>8, <1>9, <1>10

\* A file that was just drawn is nobody's.
LEMMA BeginSaveStep ==
    ASSUME ArtifactsInv, NEW g \in Image, NEW f \in File, BeginUpload(g, f) \/ BeginDownload(g, f)
    PROVE  ArtifactsInv'
  <1> USE DEF ArtifactsInv
  <1>1. /\ f \notin drawn /\ drawn' = drawn \cup {f} /\ files' = [files EXCEPT ![f] = Part]
        /\ UNCHANGED <<guest, row, snapRow, backup, op, history, drop>>
        /\ image[g] = NoImage
    BY DEF BeginUpload, BeginDownload, Draws, rows
  <1>2. \/ save' = [save EXCEPT ![g] = [step |-> "up", file |-> f]] /\ image' = image
        \/ /\ save' = [save EXCEPT ![g] = [step |-> "down", file |-> f]]
           /\ image' = [image EXCEPT ![g] = [status |-> "downloading", file |-> None]]
    BY DEF BeginUpload, BeginDownload, rows
  <1>3. TypeOK'
    <2>1. files' \in [File -> Content] /\ drawn' \subseteq File
      BY <1>1 DEF TypeOK, Content
    <2>2. image' \in [Image -> ImageRow]
      BY <1>2 DEF TypeOK, ImageRow
    <2>3. save' \in [Image -> [step : {"none", "up", "insert", "down", "update", "fail"}, file : File \cup {None}]]
      BY <1>2 DEF TypeOK
    <2> QED
      BY <1>1, <2>1, <2>2, <2>3 DEF TypeOK, guest, history
  <1>4. \A h \in Image \ {g} : image'[h] = image[h] /\ save'[h] = save[h] /\ drop'[h] = drop[h]
    BY <1>1, <1>2 DEF TypeOK
  <1>5. /\ save'[g].file = f /\ image'[g].file = None /\ image[g].file = None /\ f # None
        /\ \/ save'[g].step = "up" /\ image'[g] = NoImage
           \/ save'[g].step = "down" /\ image'[g].status = "downloading"
    <2>1. f # None /\ image[g].file = None
      BY <1>1, ArtifactsAssumption DEF NoImage
    <2> QED
      BY <1>1, <1>2, <2>1 DEF TypeOK
  <1>6. NamedBy(g)' = NamedBy(g) /\ SavedBy(g)' = {f}
    BY <1>1, <1>5 DEF NamedBy, SavedBy
  <1>7. f \notin NamedBy(g) /\ \A x \in drawn : files'[x] = files[x]
    BY <1>1 DEF OwnInv, TypeOK
  <1>8. ImageOK(g) /\ NamedBy(g) \subseteq drawn
    BY DEF ImageInv, OwnInv
  <1>9. ImageOK(g)'
    <2>1. \A x \in NamedBy(g)' : files'[x] \in {Fresh, None}
      BY <1>6, <1>7, <1>8 DEF ImageOK
    <2> QED
      BY <1>1, <1>5, <1>8, <2>1 DEF ImageOK, NoImage, history
  <1> QED
    BY <1>1, <1>3, <1>4, <1>6, <1>7, <1>9, ImageStep

\* SaveNamed ends.
LEMMA SaveEndsStep ==
    ASSUME ArtifactsInv, NEW g \in Image, SaveUpload(g) \/ DownloadTo(g) PROVE ArtifactsInv'
  <1> USE DEF ArtifactsInv
  <1> DEFINE x == save[g].file
  <1>1. UNCHANGED <<guest, row, snapRow, backup, op, history, drop, image, drawn>>
    BY DEF SaveUpload, DownloadTo, SaveEnds, rows
  <1>2. /\ save[g].step = "up" \/ save[g].step = "down"
        /\ \/ /\ files' = [files EXCEPT ![x] = Fresh]
              /\ save' = [save EXCEPT ![g].step = IF save[g].step = "up" THEN "insert" ELSE "update"]
           \/ /\ files' = [files EXCEPT ![x] = None]
              /\ save' = [save EXCEPT ![g] = IF save[g].step = "up" THEN Still ELSE [step |-> "fail", file |-> None]]
    BY DEF SaveUpload, DownloadTo, SaveEnds
  <1>3. ImageOK(g) /\ x # None /\ x \in File /\ SavedBy(g) = {x}
    BY <1>2 DEF ImageInv, ImageOK, TypeOK, SavedBy
  <1>4. TypeOK'
    BY <1>1, <1>2, <1>3 DEF TypeOK, Content, guest, history, Still
  <1>5. \A h \in Image \ {g} : image'[h] = image[h] /\ save'[h] = save[h] /\ drop'[h] = drop[h]
    BY <1>1, <1>2 DEF TypeOK
  <1>6. \/ /\ save'[g].file = x /\ files'[x] = Fresh
           /\ save'[g].step = IF save[g].step = "up" THEN "insert" ELSE "update"
        \/ /\ save'[g].file = None
           /\ save'[g].step = IF save[g].step = "up" THEN "none" ELSE "fail"
    BY <1>2, <1>3 DEF TypeOK, Still
  <1>7. NamedBy(g)' = NamedBy(g) /\ SavedBy(g)' \subseteq {x} /\ x \notin NamedBy(g) /\ NamedBy(g) \subseteq drawn
    BY <1>1, <1>3, <1>6 DEF NamedBy, SavedBy, OwnInv
  <1>8. \A y \in drawn : y # x => files'[y] = files[y]
    BY <1>2 DEF TypeOK
  <1>9. ImageOK(g)'
    <2>1. \A y \in NamedBy(g)' : files'[y] \in {Fresh, None}
      BY <1>3, <1>7, <1>8 DEF ImageOK
    <2>2. image[g].status = "available" /\ g \notin revived =>
              image[g].file # None /\ files'[image[g].file] = Fresh
      BY <1>3, <1>7, <1>8 DEF ImageOK, NamedBy
    <2>3. save[g].step = "down" => image[g].status # "none"
      BY <1>3 DEF ImageOK
    <2> QED
      BY <1>1, <1>2, <1>3, <1>6, <2>1, <2>2, <2>3 DEF ImageOK, history
  <1> QED
    BY <1>1, <1>3, <1>4, <1>5, <1>7, <1>8, <1>9, ImageStep

LEMMA InsertImageStep ==
    ASSUME ArtifactsInv, NEW g \in Image, InsertImage(g) PROVE ArtifactsInv'
  <1> USE DEF ArtifactsInv
  <1> DEFINE x == save[g].file
  <1>1. /\ UNCHANGED <<guest, row, snapRow, backup, op, history, drop, drawn>>
        /\ save' = [save EXCEPT ![g] = Still] /\ save[g].step = "insert"
    BY DEF InsertImage
  <1>2. \/ image' = [image EXCEPT ![g] = [status |-> "available", file |-> x]] /\ files' = files
        \/ files' = [files EXCEPT ![x] = None] /\ image' = image
    BY DEF InsertImage
  <1>3. ImageOK(g) /\ x # None /\ x \in File /\ SavedBy(g) = {x} /\ files[x] = Fresh /\ image[g] = NoImage
    BY <1>1 DEF ImageInv, ImageOK, TypeOK, SavedBy
  <1>4. TypeOK'
    <2>1. files' \in [File -> Content]
      BY <1>2 DEF TypeOK, Content
    <2>2. image' \in [Image -> ImageRow]
      BY <1>2 DEF TypeOK, ImageRow
    <2> QED
      BY <1>1, <2>1, <2>2 DEF TypeOK, guest, history, Still
  <1>5. \A h \in Image \ {g} : image'[h] = image[h] /\ save'[h] = save[h] /\ drop'[h] = drop[h]
    BY <1>1, <1>2 DEF TypeOK
  <1>6. /\ save'[g].file = None /\ save'[g].step = "none"
        /\ \/ image'[g].status = "available" /\ image'[g].file = x /\ files' = files
           \/ image'[g] = NoImage
    BY <1>1, <1>2, <1>3 DEF TypeOK, Still
  <1>7. /\ NamedBy(g)' \subseteq NamedBy(g) \cup {x} /\ SavedBy(g)' = {}
        /\ x \notin NamedBy(g) /\ NamedBy(g) \subseteq drawn
        /\ image'[g] = NoImage => NamedBy(g)' = NamedBy(g)
    BY <1>1, <1>3, <1>6 DEF NamedBy, SavedBy, OwnInv
  <1>8. \A y \in drawn : y # x => files'[y] = files[y]
    BY <1>2 DEF TypeOK
  <1>9. ImageOK(g)'
    <2>1. \A y \in NamedBy(g)' : files'[y] \in {Fresh, None}
      BY <1>3, <1>6, <1>7, <1>8 DEF ImageOK
    <2>2. g \notin revived /\ drop[g].step \notin {"row", "file"}
      BY <1>3 DEF ImageOK, NoImage
    <2>3. NoImage.status = "none" /\ NoImage.file = None
      BY DEF NoImage
    <2>4. \/ image'[g].status = "available" /\ image'[g].file # None /\ files'[image'[g].file] = Fresh
          \/ image'[g].status = "none" /\ image'[g].file = None
      BY <1>3, <1>6, <2>3
    <2>5. revived' = revived /\ drop' = drop
      BY <1>1 DEF history
    <2> QED
      BY <1>6, <2>1, <2>2, <2>4, <2>5 DEF ImageOK
  <1> QED
    BY <1>1, <1>3, <1>4, <1>5, <1>7, <1>8, <1>9, ImageStep

LEMMA FinishDownloadStep ==
    ASSUME ArtifactsInv, NEW g \in Image, FinishDownload(g) PROVE ArtifactsInv'
  <1> USE DEF ArtifactsInv
  <1> DEFINE x == save[g].file
  <1>1. UNCHANGED <<guest, row, snapRow, backup, op, history, drop, drawn, files>> /\ save[g].step = "update"
    BY DEF FinishDownload, store
  <1>2. \/ /\ save' = [save EXCEPT ![g] = Still]
           /\ image[g].status # "deleted"
           /\ image' = [image EXCEPT ![g] = [status |-> "available", file |-> x]]
        \/ /\ save' \in {[save EXCEPT ![g] = Still], [save EXCEPT ![g] = [step |-> "fail", file |-> None]]}
           /\ image' = image
    BY DEF FinishDownload
  <1>3. ImageOK(g) /\ x # None /\ x \in File /\ SavedBy(g) = {x} /\ files[x] = Fresh /\ image[g].status # "none"
    BY <1>1 DEF ImageInv, ImageOK, TypeOK, SavedBy
  <1>4. TypeOK'
    <2>1. [status |-> "available", file |-> x] \in ImageRow /\ image \in [Image -> ImageRow]
      BY <1>3 DEF TypeOK, ImageRow
    <2>2. image' \in [Image -> ImageRow]
      BY <1>2, <2>1
    <2>3. save' \in [Image -> [step : {"none", "up", "insert", "down", "update", "fail"}, file : File \cup {None}]]
      BY <1>2 DEF TypeOK, Still
    <2> QED
      BY <1>1, <2>2, <2>3 DEF TypeOK, guest, history
  <1>5. \A h \in Image \ {g} : image'[h] = image[h] /\ save'[h] = save[h] /\ drop'[h] = drop[h]
    BY <1>1, <1>2 DEF TypeOK
  <1>6. /\ save'[g].file = None /\ save'[g].step \in {"none", "fail"}
        /\ \/ image'[g].status = "available" /\ image'[g].file = x /\ image[g].status # "deleted"
           \/ image'[g] = image[g]
    BY <1>1, <1>2, <1>3 DEF TypeOK, Still
  <1>7. /\ NamedBy(g)' \subseteq NamedBy(g) \cup {x} /\ SavedBy(g)' = {}
        /\ x \notin NamedBy(g) /\ NamedBy(g) \subseteq drawn
    BY <1>1, <1>3, <1>6 DEF NamedBy, SavedBy, OwnInv
  <1>8. ImageOK(g)'
    <2>1. \A y \in NamedBy(g)' : files'[y] \in {Fresh, None}
      BY <1>1, <1>3, <1>7 DEF ImageOK
    <2>2. CASE image'[g] = image[g]
      BY <1>1, <1>3, <1>6, <2>1, <2>2 DEF ImageOK, history
    <2>3. CASE /\ image'[g].status = "available" /\ image'[g].file = x /\ image[g].status # "deleted"
      BY <1>1, <1>3, <1>6, <2>1, <2>3 DEF ImageOK, history
    <2> QED
      BY <1>6, <2>2, <2>3
  <1> QED
    BY <1>1, <1>3, <1>4, <1>5, <1>7, <1>8, ImageStep

LEMMA FailDownloadStep ==
    ASSUME ArtifactsInv, NEW g \in Image, FailDownload(g) PROVE ArtifactsInv'
  <1> USE DEF ArtifactsInv
  <1>1. /\ UNCHANGED <<guest, row, snapRow, backup, op, history, drop, drawn, files>>
        /\ save[g].step = "fail" /\ save' = [save EXCEPT ![g] = Still]
    BY DEF FailDownload, store
  <1>2. image' = image \/ (image[g].status # "deleted" /\ image' = [image EXCEPT ![g].status = "error"])
    BY DEF FailDownload
  <1>3. ImageOK(g) /\ image[g].status # "none" /\ image[g] \in ImageRow
    BY <1>1 DEF ImageInv, ImageOK, TypeOK
  <1>4. TypeOK'
    <2>1. [image[g] EXCEPT !.status = "error"] \in ImageRow
      BY <1>3 DEF ImageRow
    <2>2. image' \in [Image -> ImageRow]
      BY <1>2, <2>1 DEF TypeOK
    <2> QED
      BY <1>1, <2>2 DEF TypeOK, guest, history, Still
  <1>5. \A h \in Image \ {g} : image'[h] = image[h] /\ save'[h] = save[h] /\ drop'[h] = drop[h]
    BY <1>1, <1>2 DEF TypeOK
  <1>6. /\ save'[g].file = None /\ save'[g].step = "none" /\ image'[g].file = image[g].file
        /\ \/ image'[g].status = image[g].status
           \/ image'[g].status = "error" /\ image[g].status # "deleted"
    BY <1>1, <1>2, <1>3 DEF TypeOK, Still, ImageRow
  <1>7. NamedBy(g)' = NamedBy(g) /\ SavedBy(g)' = {}
    BY <1>1, <1>6 DEF NamedBy, SavedBy
  <1>8. ImageOK(g)'
    BY <1>1, <1>3, <1>6, <1>7 DEF ImageOK, history
  <1> QED
    BY <1>1, <1>4, <1>5, <1>7, <1>8, ImageStep

LEMMA DeleteImageStep ==
    ASSUME ArtifactsInv, NEW g \in Image, DeleteImage(g) PROVE ArtifactsInv'
  <1> USE DEF ArtifactsInv
  <1>1. /\ UNCHANGED <<guest, row, snapRow, backup, op, history, image, save, drawn, files>>
        /\ image[g].status \notin {"none", "deleted"}
        /\ drop' = [drop EXCEPT ![g] = [step |-> "row", file |-> image[g].file]]
    BY DEF DeleteImage, store, rows
  <1>2. ImageOK(g) /\ image[g].file \in File \cup {None}
    BY DEF ImageInv, TypeOK, ImageRow
  <1>3. TypeOK'
    BY <1>1, <1>2 DEF TypeOK, guest, history
  <1>4. \A h \in Image \ {g} : image'[h] = image[h] /\ save'[h] = save[h] /\ drop'[h] = drop[h]
    BY <1>1 DEF TypeOK
  <1>5. drop'[g].step = "row" /\ drop'[g].file = image[g].file
    BY <1>1 DEF TypeOK
  <1>6. NamedBy(g)' \subseteq NamedBy(g) /\ SavedBy(g)' = SavedBy(g) /\ NamedBy(g) \cap SavedBy(g) = {}
    BY <1>1, <1>5 DEF NamedBy, SavedBy, OwnInv
  <1>7. ImageOK(g)'
    BY <1>1, <1>2, <1>5, <1>6 DEF ImageOK, history
  <1> QED
    BY <1>1, <1>3, <1>4, <1>6, <1>7, ImageStep

LEMMA DeleteImageRowStep ==
    ASSUME ArtifactsInv, NEW g \in Image, DeleteImageRow(g) PROVE ArtifactsInv'
  <1> USE DEF ArtifactsInv
  <1>1. UNCHANGED <<guest, row, snapRow, backup, op, history, save, drawn, files>> /\ drop[g].step = "row"
    BY DEF DeleteImageRow, store
  <1>2. \/ /\ image' = [image EXCEPT ![g] = [status |-> "deleted", file |-> None]]
           /\ drop' = [drop EXCEPT ![g].step = "file"]
        \/ drop' = [drop EXCEPT ![g] = Still] /\ image' = image
    BY DEF DeleteImageRow
  <1>3. ImageOK(g) /\ image[g].status # "none"
    BY <1>1 DEF ImageInv, ImageOK
  <1>4. TypeOK'
    <2>1. image' \in [Image -> ImageRow]
      BY <1>2 DEF TypeOK, ImageRow
    <2>2. drop' \in [Image -> [step : {"none", "row", "file"}, file : File \cup {None}]]
      BY <1>2 DEF TypeOK, Still
    <2> QED
      BY <1>1, <2>1, <2>2 DEF TypeOK, guest, history
  <1>5. \A h \in Image \ {g} : image'[h] = image[h] /\ save'[h] = save[h] /\ drop'[h] = drop[h]
    BY <1>1, <1>2 DEF TypeOK
  <1>6. \/ /\ image'[g].status = "deleted" /\ image'[g].file = None
           /\ drop'[g].step = "file" /\ drop'[g].file = drop[g].file
        \/ image'[g] = image[g] /\ drop'[g].step = "none" /\ drop'[g].file = None
    BY <1>2 DEF TypeOK, Still
  <1>7. NamedBy(g)' \subseteq NamedBy(g) /\ SavedBy(g)' = SavedBy(g) /\ NamedBy(g) \cap SavedBy(g) = {}
    BY <1>1, <1>6 DEF NamedBy, SavedBy, OwnInv
  <1>8. save[g].step \notin {"up", "insert"}
    BY <1>3 DEF ImageOK, NoImage
  <1>9. ImageOK(g)'
    <2>1. CASE image'[g] = image[g]
      BY <1>1, <1>3, <1>6, <1>7, <2>1 DEF ImageOK, history
    <2>2. CASE image'[g] # image[g]
      BY <1>1, <1>3, <1>6, <1>7, <1>8, <2>2 DEF ImageOK, history
    <2> QED
      BY <2>1, <2>2
  <1> QED
    BY <1>1, <1>4, <1>5, <1>7, <1>9, ImageStep

LEMMA DeleteImageFileStep ==
    ASSUME ArtifactsInv, NEW g \in Image, DeleteImageFile(g) PROVE ArtifactsInv'
  <1> USE DEF ArtifactsInv
  <1> DEFINE x == drop[g].file
  <1>1. /\ UNCHANGED <<guest, row, snapRow, backup, op, history, image, save, drawn>>
        /\ drop[g].step = "file" /\ drop' = [drop EXCEPT ![g] = Still]
    BY DEF DeleteImageFile, rows
  <1>2. files' = [f \in File |-> IF f = x THEN None ELSE files[f]] \/ files' = files
    BY DEF DeleteImageFile
  <1>3. ImageOK(g) /\ (image[g].status = "deleted" \/ g \in revived)
    BY <1>1 DEF ImageInv, ImageOK
  <1>4. TypeOK'
    <2>1. files' \in [File -> Content]
      BY <1>2 DEF TypeOK, Content
    <2> QED
      BY <1>1, <2>1 DEF TypeOK, guest, history, Still
  <1>5. \A h \in Image \ {g} : image'[h] = image[h] /\ save'[h] = save[h] /\ drop'[h] = drop[h]
    BY <1>1 DEF TypeOK
  <1>6. drop'[g].step = "none" /\ drop'[g].file = None
    BY <1>1 DEF TypeOK, Still
  <1>7. /\ NamedBy(g)' \subseteq NamedBy(g) /\ SavedBy(g)' = SavedBy(g) /\ NamedBy(g) \cap SavedBy(g) = {}
        /\ NamedBy(g) \cup SavedBy(g) \subseteq drawn
    BY <1>1, <1>6 DEF NamedBy, SavedBy, OwnInv
  <1>8. \A y \in drawn : (y # x => files'[y] = files[y]) /\ files'[y] \in {files[y], None}
    BY <1>2 DEF TypeOK
  <1>9. x # None => x \in NamedBy(g)
    BY DEF NamedBy
  <1>10. None \notin drawn
    BY ArtifactsAssumption DEF TypeOK
  <1>11. ImageOK(g)'
    <2>1. \A y \in NamedBy(g)' : files'[y] \in {Fresh, None}
      <3>1. \A y \in NamedBy(g) : y \in drawn /\ files[y] \in {Fresh, None}
        BY <1>3, <1>7 DEF ImageOK
      <3>2. \A y \in NamedBy(g) : files'[y] \in {Fresh, None}
        BY <1>8, <3>1
      <3> QED
        BY <1>7, <3>2
    <2>2. save[g].step \in {"insert", "update"} => files'[save[g].file] = Fresh
      <3>1. ASSUME save[g].step \in {"insert", "update"} PROVE save[g].file \in SavedBy(g)
        BY <1>3, <3>1 DEF ImageOK, SavedBy
      <3>2. ASSUME save[g].step \in {"insert", "update"} PROVE save[g].file \in drawn /\ save[g].file # x
        BY <1>7, <1>9, <1>10, <3>1, <3>2
      <3> QED
        BY <1>3, <1>8, <3>2 DEF ImageOK
    <2> QED
      BY <1>1, <1>3, <1>6, <2>1, <2>2 DEF ImageOK, history
  <1>12. \A y \in drawn \ (NamedBy(g) \cup SavedBy(g)) : files'[y] = files[y]
    BY <1>8, <1>9, <1>10
  <1> QED
    BY <1>1, <1>4, <1>5, <1>7, <1>11, <1>12, ImageStep

-----------------------------------------------------------------------------
(* Steps of the instance that leave the images and all files alone *)

LEMMA OperationFrame ==
    ASSUME ArtifactsInv, UNCHANGED <<image, store, images, revived>>, Remembers,
           \A b \in Backup : HeldBy(b)' \subseteq HeldBy(b),
           \A f \in op'.list : \E b \in Backup : backup'[b].file = f
    PROVE  OwnInv' /\ ImageInv' /\ HeldFilesKept
  <1> USE ArtifactsAssumption DEF ArtifactsInv, store, images
  <1>1. ImageFilesKept /\ HeldFilesKept
    BY DEF ImageFilesKept, HeldFilesKept
  <1>2. ImageInv'
    BY <1>1, ImageFrame
  <1>3. \A g \in Image : NamedBy(g)' \subseteq NamedBy(g) /\ SavedBy(g)' \subseteq SavedBy(g)
    BY NamesKept DEF SavedBy
  <1>4. OwnInv'
    BY <1>3, OwnShrinks
  <1> QED
    BY <1>1, <1>2, <1>4

LEMMA RestInv == ASSUME op' \in {Idle, Kept} PROVE OpInv' /\ op' \in Op
  BY OpForms DEF OpInv, Stopping

LEMMA Busy == ASSUME ArtifactsInv, op # Idle PROVE row.there # "gone"
  BY DEF ArtifactsInv, PurgeInv

\* Steps that change nothing but what the operation knows, and the instance's
\* row.
LEMMA QuietStep ==
    ASSUME ArtifactsInv, UNCHANGED <<guest, snapRow, backup, image, store, images, history>>,
           row' \in [there : {"absent", "present"}, image : Image \cup {None}],
           op' \in Op, OpInv', Remembers,
           op'.kind \notin {"backup_create", "backup_restore"},
           op'.kind = "snapshot_create" => op'.step # "store",
           op'.step # "files",
           op' = Kept \/ (op # Kept /\ ~At("backup_restore", "store"))
    PROVE  ArtifactsInv'
  <1> USE DEF ArtifactsInv
  <1>1. TypeOK'
    BY DEF TypeOK, guest, store, images, history
  <1>2. op'.list = {} /\ op'.file = None
    BY DEF OpInv
  <1>3. \A b \in Backup : HeldBy(b)' \subseteq HeldBy(b)
    BY <1>2 DEF HeldBy
  <1>4. OwnInv' /\ ImageInv' /\ HeldFilesKept
    BY <1>2, <1>3, OperationFrame DEF history
  <1>5. DiskInv'
    BY DiskFrame DEF guest
  <1>6. BackupInv'
    BY <1>4, BackupFrame DEF history
  <1>7. SnapInv'
    BY SnapFrame DEF guest, history
  <1>8. PurgeInv'
    BY <1>4, PurgeFrame
  <1> QED
    BY <1>1, <1>4, <1>5, <1>6, <1>7, <1>8

LEMMA FailsBeforeCallStep == ASSUME ArtifactsInv, FailsBeforeCall PROVE ArtifactsInv'
  <1> USE DEF ArtifactsInv
  <1>1. /\ op' = Idle /\ UNCHANGED <<guest, rows, store, images, history>>
        /\ op.step \notin {"none", "store"}
    BY DEF FailsBeforeCall, Ends
  <1>2. op # Idle /\ op # Kept /\ ~At("backup_restore", "store")
    BY <1>1, OpForms DEF At
  <1>3. row.there # "gone"
    BY <1>2, Busy
  <1>4. row' \in [there : {"absent", "present"}, image : Image \cup {None}]
    BY <1>1, <1>3 DEF TypeOK, rows
  <1> QED
    BY <1>1, <1>2, <1>4, OpForms, RestInv, QuietStep DEF rows, Remembers

LEMMA StoreDiskFailsStep == ASSUME ArtifactsInv, StoreDiskFails PROVE ArtifactsInv'
  <1> USE DEF ArtifactsInv
  <1>1. /\ op' = (IF op.kind \in Stopping THEN Kept ELSE Idle)
        /\ op.step = "store" /\ UNCHANGED <<guest, rows, store, images, history>>
    BY DEF StoreDiskFails, Ends, Retains
  <1>2. op # Idle /\ op # Kept /\ (op' = Kept \/ ~At("backup_restore", "store"))
    BY <1>1, OpForms DEF At, Stopping
  <1>3. row.there # "gone"
    BY <1>2, Busy
  <1>4. row' \in [there : {"absent", "present"}, image : Image \cup {None}]
    BY <1>1, <1>3 DEF TypeOK, rows
  <1>5. op'.image = None /\ op'.kind \in {"idle", "kept"} /\ op'.step = "none" /\ op' \in {Idle, Kept}
    BY <1>1, OpForms
  <1> QED
    BY <1>1, <1>2, <1>4, <1>5, RestInv, QuietStep DEF rows, Remembers

\* Operations that begin with what they read.
LEMMA BeginQuietStep ==
    ASSUME ArtifactsInv, UNCHANGED <<guest, rows, store, images, history>>,
           NEW k \in {"reinstall", "snapshot_restore", "snapshot_delete", "purge"},
           NEW s \in {"choose", "call"}, k = "reinstall" <=> s = "choose",
           NEW n \in Name \cup {None}, k \in {"snapshot_restore", "snapshot_delete"} => n \in Name,
           Begins(k, s, n, None)
    PROVE  ArtifactsInv'
  <1> USE DEF ArtifactsInv
  <1>1. k \in Kinds /\ s \in Steps
    BY DEF Kinds, Steps, Stopping
  <1>2. /\ op' \in Op /\ op'.kind = k /\ op'.step = s /\ op'.name = n /\ op'.of = None /\ op'.image = row.image
        /\ op'.read = (IF row.image = None THEN NoImage ELSE image[row.image])
        /\ op'.file = None /\ op'.data = None /\ op'.list = {}
        /\ op'.image = None => op'.read.file = None
    BY <1>1, BeginsFields
  <1>3. op = Idle /\ row.there = "present" /\ (k \in Stopping => ~running)
    BY DEF Begins
  <1>4. OpInv'
    BY <1>2, <1>3 DEF OpInv, guest, Stopping
  <1>5. Remembers
    BY <1>2 DEF Remembers, TypeOK
  <1>6. row' \in [there : {"absent", "present"}, image : Image \cup {None}]
    BY <1>3 DEF TypeOK, rows
  <1> QED
    BY <1>2, <1>3, <1>4, <1>5, <1>6, OpForms, QuietStep DEF rows, At

LEMMA ChooseImageStep == ASSUME ArtifactsInv, NEW g \in Image, ChooseImage(g) PROVE ArtifactsInv'
  <1> USE DEF ArtifactsInv
  <1>1. op = Idle /\ row.there = "absent" /\ UNCHANGED <<guest, rows, store, images, history>>
    BY DEF ChooseImage
  <1>2. op' = [kind |-> "create", step |-> "insert", name |-> None, of |-> None, image |-> g, read |-> image[g],
               file |-> None, data |-> None, list |-> {}]
    BY DEF ChooseImage, Idle
  <1>3. image[g] \in ImageRow /\ None \in Content /\ "create" \in Kinds /\ "insert" \in Steps /\ g # None
    BY ArtifactsAssumption DEF TypeOK, Content, Kinds, Steps
  <1>4. /\ op' \in Op /\ op'.kind = "create" /\ op'.step = "insert" /\ op'.image = g /\ op'.read = image[g]
        /\ op'.file = None /\ op'.list = {}
    BY <1>2, <1>3, NewFields, SMT
  <1>5. OpInv'
    BY <1>3, <1>4 DEF OpInv, Stopping
  <1>6. row' \in [there : {"absent", "present"}, image : Image \cup {None}]
    BY <1>1 DEF TypeOK, rows
  <1> QED
    BY <1>1, <1>4, <1>5, <1>6, OpForms, QuietStep DEF rows, At, Remembers

LEMMA InsertInstanceStep == ASSUME ArtifactsInv, InsertInstance PROVE ArtifactsInv'
  <1> USE DEF ArtifactsInv
  <1>1. /\ op.kind = "create" /\ Goes("open") /\ row' = [there |-> "present", image |-> op.image]
        /\ UNCHANGED <<guest, snapRow, backup, image, store, images, history>>
    BY DEF InsertInstance, At
  <1>2. op \in Op /\ "open" \in Steps
    BY DEF TypeOK, Steps
  <1>3. /\ op' \in Op /\ op'.step = "open" /\ op'.kind = "create" /\ op'.image = op.image /\ op'.read = op.read
        /\ op'.file = op.file
    BY <1>1, <1>2, GoesFields
  <1>4. op.list = {} /\ op'.list = {}
    BY <1>1, <1>2, GoesFields DEF InsertInstance, At, OpInv
  <1>5. OpInv'
    BY <1>1, <1>3, <1>4 DEF OpInv, Stopping
  <1>6. row' \in [there : {"absent", "present"}, image : Image \cup {None}]
    BY <1>1, <1>2, OpFields
  <1>7. op # Kept /\ ~At("backup_restore", "store")
    BY <1>1, OpForms DEF At
  <1> QED
    BY <1>1, <1>3, <1>5, <1>6, <1>7, QuietStep DEF Remembers

LEMMA SelectImageStep == ASSUME ArtifactsInv, NEW g \in Image, SelectImage(g) PROVE ArtifactsInv'
  <1> USE DEF ArtifactsInv
  <1>1. /\ op.kind = "reinstall" /\ op.step = "choose" /\ row' = [row EXCEPT !.image = g]
        /\ op' = [op EXCEPT !.step = "open", !.image = g, !.read = image[g]]
        /\ UNCHANGED <<guest, snapRow, backup, image, store, images, history>>
    BY DEF SelectImage, At
  <1>2. op \in Op /\ image[g] \in ImageRow /\ g # None
    BY ArtifactsAssumption DEF TypeOK
  <1>3. /\ op' \in Op /\ op'.step = "open" /\ op'.kind = "reinstall" /\ op'.image = g /\ op'.read = image[g]
        /\ op'.file = op.file /\ op'.list = op.list
    BY <1>1, <1>2 DEF Op
  <1>4. OpInv'
    BY <1>1, <1>2, <1>3 DEF OpInv, Stopping
  <1>5. row.there # "gone" /\ op # Kept /\ ~At("backup_restore", "store")
    BY <1>1, OpForms, Busy DEF At
  <1>6. row' \in [there : {"absent", "present"}, image : Image \cup {None}]
    BY <1>1, <1>5 DEF TypeOK
  <1> QED
    BY <1>1, <1>3, <1>4, <1>5, <1>6, QuietStep DEF Remembers

LEMMA KeepImageStep == ASSUME ArtifactsInv, KeepImage PROVE ArtifactsInv'
  <1> USE DEF ArtifactsInv
  <1>1. /\ op.kind = "reinstall" /\ op.step = "choose" /\ Goes("open")
        /\ UNCHANGED <<guest, rows, store, images, history>>
    BY DEF KeepImage, At
  <1>2. op \in Op /\ "open" \in Steps
    BY DEF TypeOK, Steps
  <1>3. /\ op' \in Op /\ op'.step = "open" /\ op'.kind = "reinstall" /\ op'.image = op.image
        /\ op'.read = op.read /\ op'.file = op.file /\ op'.list = op.list
    BY <1>1, <1>2, GoesFields
  <1>4. OpInv'
    BY <1>1, <1>3 DEF OpInv, Stopping
  <1>5. op # Kept /\ op # Idle /\ ~At("backup_restore", "store")
    BY <1>1, OpForms DEF At
  <1>6. row' \in [there : {"absent", "present"}, image : Image \cup {None}]
    BY <1>1, <1>5, Busy DEF TypeOK, rows
  <1> QED
    BY <1>1, <1>3, <1>4, <1>5, <1>6, QuietStep DEF rows, Remembers

LEMMA OpenImageStep == ASSUME ArtifactsInv, OpenImage PROVE ArtifactsInv'
  <1> USE DEF ArtifactsInv
  <1> DEFINE f == op.read.file
             d == IF f = None THEN None ELSE files[f]
  <1>1. /\ op.step = "open" /\ UNCHANGED <<guest, rows, store, images, history>>
        /\ \/ op' = [op EXCEPT !.step = "call", !.data = d]
           \/ op' = Idle
    BY DEF OpenImage, Ends
  <1>2. op \in Op /\ op.kind \in {"create", "reinstall"}
    BY <1>1, OpFields, OpForms DEF TypeOK, OpInv, Kinds, Stopping
  <1>3. op # Idle /\ op # Kept /\ ~At("backup_restore", "store")
    BY <1>2, OpForms DEF At
  <1>4. row' \in [there : {"absent", "present"}, image : Image \cup {None}]
    BY <1>1, <1>3, Busy DEF TypeOK, rows
  <1>5. CASE op' = Idle
    BY <1>1, <1>3, <1>4, <1>5, OpForms, RestInv, QuietStep DEF rows, Remembers
  <1>6. CASE op' = [op EXCEPT !.step = "call", !.data = d]
    <2>1. d \in {None, Fresh}
      <3>1. ASSUME f # None PROVE op.image \in Image /\ f \in NamedBy(op.image)
        BY <1>2, <3>1, OpFields DEF OpInv, NamedBy
      <3>2. ASSUME f # None PROVE files[f] \in {Fresh, None}
        BY <3>1, <3>2 DEF ImageInv, ImageOK
      <3> QED
        BY <1>6, <3>2
    <2> HIDE DEF d, f
    <2>2. d \in Content
      BY <2>1 DEF Content
    <2>3. /\ op' \in Op /\ op'.step = "call" /\ op'.kind = op.kind /\ op'.image = op.image /\ op'.read = op.read
          /\ op'.file = op.file /\ op'.list = op.list /\ op'.data = d
      BY <1>2, <1>6, <2>2 DEF Op
    <2>4. OpInv'
      BY <1>1, <1>2, <2>1, <2>3 DEF OpInv, Stopping
    <2> QED
      BY <1>1, <1>2, <1>3, <1>4, <2>3, <2>4, QuietStep DEF rows, Remembers
  <1> QED
    BY <1>1, <1>5, <1>6

-----------------------------------------------------------------------------
(* The guest *)

LEMMA GuestStep == ASSUME ArtifactsInv, GuestStarts \/ GuestStops \/ GuestWrites PROVE ArtifactsInv'
  <1> USE DEF ArtifactsInv
  <1>1. UNCHANGED <<rows, store, op, images, history, snaps, late>>
    BY DEF GuestStarts, GuestStops, GuestWrites
  <1>2. \/ /\ op = Idle /\ running' = TRUE /\ disk' = disk /\ written' = written
        \/ /\ running' = FALSE /\ disk' = disk /\ written' = written
        \/ /\ running /\ running' = running /\ written' = written + 1 /\ written < MaxWrite /\ disk' = written'
    BY DEF GuestStarts, GuestStops, GuestWrites
  <1>3. TypeOK'
    <2>1. written' \in 0..MaxWrite /\ disk' \in Disk
      BY <1>2, ArtifactsAssumption DEF TypeOK, Disk
    <2>2. running' \in BOOLEAN
      BY <1>2 DEF TypeOK
    <2> QED
      BY <1>1, <2>1, <2>2 DEF TypeOK, rows, store, images, history
  <1>4. OpInv'
    BY <1>1, <1>2, OpForms DEF OpInv, Stopping
  <1>5. OwnInv' /\ ImageInv' /\ HeldFilesKept
    <2>1. \A b \in Backup : HeldBy(b)' \subseteq HeldBy(b)
      BY <1>1 DEF HeldBy, rows
    <2>2. \A f \in op'.list : \E b \in Backup : backup'[b].file = f
      BY <1>1 DEF OwnInv, rows
    <2> QED
      BY <1>1, <2>1, <2>2, OperationFrame DEF rows, history, Remembers
  <1>6. DiskInv'
    <2>1. written' \in Nat => written' # Part
      BY ArtifactsAssumption
    <2>2. disk' = disk \/ disk' # Part
      BY <1>2, <2>1, ArtifactsAssumption DEF TypeOK
    <2> QED
      BY <1>1, <2>2 DEF DiskInv
  <1>7. BackupInv'
    <2>1. op.kind \in Stopping => disk' = disk
      BY <1>2 DEF OpInv
    <2> QED
      BY <1>1, <1>5, <2>1, BackupFrame DEF rows, history
  <1>8. SnapInv'
    BY <1>1, SnapFrame DEF rows, history
  <1>9. PurgeInv'
    BY <1>1, <1>5, PurgeFrame DEF rows
  <1> QED
    BY <1>3, <1>4, <1>5, <1>6, <1>7, <1>8, <1>9

-----------------------------------------------------------------------------
(* Calls that replace the disk *)

\* What an update of the instance saves with it is still the image's own.
LEMMA WritesBackFrame ==
    ASSUME ArtifactsInv, WritesBack, UNCHANGED <<store, images>>,
           op'.image = None \/ (op'.image = op.image /\ op'.read = op.read)
    PROVE  /\ ImageInv' /\ image' \in [Image -> ImageRow] /\ revived' \subseteq Image
           /\ \A g \in Image : NamedBy(g)' \subseteq NamedBy(g) /\ SavedBy(g)' \subseteq SavedBy(g)
  <1> USE DEF ArtifactsInv, store, images
  <1>1. op.image \in Image \cup {None} /\ op.read \in ImageRow
    BY OpFields DEF TypeOK
  <1>2. \/ image' = image /\ revived' = revived
        \/ /\ op.image \in Image /\ op.read.status \notin {"none", "deleted"} /\ image[op.image].status = "deleted"
           /\ image' = [image EXCEPT ![op.image] = op.read] /\ revived' = revived \cup {op.image}
    BY <1>1 DEF WritesBack
  <1>3. image' \in [Image -> ImageRow] /\ revived' \subseteq Image
    BY <1>1, <1>2 DEF TypeOK
  <1>4. \A g \in Image : NamedBy(g)' \subseteq NamedBy(g) /\ SavedBy(g)' \subseteq SavedBy(g)
    <2>1. CASE image' = image
      BY <2>1, ArtifactsAssumption DEF NamedBy, SavedBy
    <2>2. CASE op.image \in Image /\ image' = [image EXCEPT ![op.image] = op.read]
      <3>1. \A g \in Image : image'[g].file \in {image[g].file} \cup (IF op.image = g THEN {op.read.file} ELSE {})
        BY <2>2 DEF TypeOK
      <3> QED
        BY <2>2, <3>1, ArtifactsAssumption DEF NamedBy, SavedBy
    <2> QED
      BY <1>2, <2>1, <2>2
  <1>5. ASSUME NEW g \in Image PROVE ImageOK(g)'
    <2>1. ImageOK(g)
      BY DEF ImageInv
    <2>2. \A f \in NamedBy(g)' : files'[f] \in {Fresh, None}
      BY <1>4, <2>1 DEF ImageOK
    <2>3. CASE image'[g] = image[g] /\ (g \in revived' <=> g \in revived)
      BY <2>1, <2>2, <2>3 DEF ImageOK
    <2>4. CASE /\ image[g].status = "deleted" /\ g \in revived' /\ image'[g].status \notin {"none", "deleted"}
      BY <2>1, <2>2, <2>4 DEF ImageOK, NoImage
    <2>5. \/ image'[g] = image[g] /\ (g \in revived' <=> g \in revived)
          \/ /\ image[g].status = "deleted" /\ g \in revived' /\ image'[g].status \notin {"none", "deleted"}
      BY <1>2 DEF TypeOK
    <2> QED
      BY <2>3, <2>4, <2>5
  <1> QED
    BY <1>3, <1>4, <1>5 DEF ImageInv

\* Whatever the node makes a disk from is whole.
LEMMA GivenIsWhole ==
    ASSUME ArtifactsInv, op.step = "call", op.kind \in Replacing
    PROVE  /\ Given # Part /\ Given \in Disk
           /\ op.kind = "backup_restore" => /\ op.data # Part /\ op.data.snaps \in Taken
                                            /\ \A n \in Name : op.data.snaps[n] # Part
  <1> USE DEF ArtifactsInv
  <1>1. CASE op.kind = "snapshot_restore"
    BY <1>1 DEF Given, OpInv, DiskInv, TypeOK, Taken
  <1>2. CASE op.kind = "backup_restore"
    <2>1. Whole(op.data)
      BY <1>2 DEF BackupInv, Importing
    <2>2. op.data # Part /\ op.data.disk # Part /\ op.data.disk \in Disk /\ op.data.snaps \in Taken
      BY <2>1, ContentAssumption DEF Whole, Archive
    <2> QED
      BY <1>2, <2>1, <2>2 DEF Given, Whole
  <1>3. CASE op.kind \in {"create", "reinstall"}
    <2>1. op.data \in {None, Fresh}
      BY <1>3 DEF OpInv
    <2>2. Given \in {NoDisk, Fresh}
      BY <1>3, <2>1 DEF Given
    <2> QED
      BY <1>3, <2>2, ArtifactsAssumption DEF Disk
  <1> QED
    BY <1>1, <1>2, <1>3 DEF Replacing

LEMMA UntakenForms == Untaken \in Taken /\ \A n \in Name : Untaken[n] = NoDisk /\ Untaken[n] # Part
  BY ArtifactsAssumption DEF Untaken, Taken, Disk

LEMMA ReplaceDiskStep == ASSUME ArtifactsInv, ReplaceDisk PROVE ArtifactsInv'
  <1> USE DEF ArtifactsInv
  <1>1. /\ op.step = "call" /\ op.kind \in Replacing /\ disk' = Given /\ running' = FALSE /\ Goes("store")
        /\ UNCHANGED <<written, late, rows, store, images, history>>
    BY DEF ReplaceDisk
  <1>2. op \in Op /\ "store" \in Steps
    BY DEF TypeOK, Steps
  <1>3. /\ op' \in Op /\ op'.step = "store" /\ op'.kind = op.kind /\ op'.name = op.name /\ op'.of = op.of
        /\ op'.image = op.image /\ op'.read = op.read /\ op'.file = op.file /\ op'.data = op.data
        /\ op'.list = op.list
    BY <1>1, <1>2, GoesFields
  <1>4. /\ Given # Part /\ Given \in Disk
        /\ op.kind = "backup_restore" => /\ op.data # Part /\ op.data.snaps \in Taken
                                         /\ \A n \in Name : op.data.snaps[n] # Part
    BY <1>1, GivenIsWhole
  <1>5. IF op.kind = "backup_restore" THEN snaps' = op.data.snaps ELSE snaps' \in {snaps, Untaken}
    BY <1>1, <1>4 DEF ReplaceDisk, Replacing
  <1>6. op # Idle /\ op # Kept
    BY <1>1, OpForms
  <1>7. op.list = {} /\ op.kind \notin {"snapshot_create", "backup_create"}
    BY <1>1 DEF OpInv, Replacing
  <1>8. TypeOK'
    <2>1. snaps' \in Taken
      BY <1>4, <1>5, UntakenForms DEF TypeOK
    <2> QED
      BY <1>1, <1>3, <1>4, <2>1 DEF TypeOK, rows, store, images, history
  <1>9. OpInv'
    BY <1>1, <1>3, <1>7 DEF OpInv, Replacing
  <1>10. OwnInv' /\ ImageInv' /\ HeldFilesKept
    <2>1. \A b \in Backup : HeldBy(b)' \subseteq HeldBy(b)
      BY <1>1, <1>3 DEF HeldBy, rows
    <2> QED
      BY <1>1, <1>3, <1>7, <2>1, OperationFrame DEF rows, history, Remembers
  <1>11. DiskInv'
    BY <1>1, <1>4, <1>5, UntakenForms DEF DiskInv
  <1>12. BackupInv'
    BY <1>1, <1>3, <1>7, <1>10, BackupFrame DEF rows, history
  <1>13. SnapInv'
    <2>1. \A c \in late' : c[2] \in doubted'
      BY <1>1 DEF SnapInv, history
    <2>2. ASSUME NEW n \in Name \ doubted PROVE SnapOK(n)'
      <3>1. SnapOK(n) /\ snapRow' = snapRow /\ backup' = backup
        BY <1>1 DEF SnapInv, rows
      <3>2. CASE op.kind = "backup_restore"
        BY <1>3, <1>5, <3>1, <3>2 DEF SnapOK, At, Agrees
      <3>3. CASE op.kind # "backup_restore"
        <4>1. RowAgrees(n)
          BY <1>6, <3>1, <3>3 DEF SnapOK, At
        <4>2. RowAgrees(n)'
          BY <1>5, <3>1, <3>3, <4>1, UntakenForms DEF RowAgrees
        <4> QED
          BY <1>3, <1>7, <3>1, <3>3, <4>2 DEF SnapOK, At, Agrees
      <3> QED
        BY <3>2, <3>3
    <2> QED
      BY <1>1, <2>1, <2>2 DEF SnapInv, history
  <1>14. PurgeInv'
    BY <1>1, <1>3, <1>6, <1>10, Busy, PurgeFrame DEF rows
  <1> QED
    BY <1>8, <1>9, <1>10, <1>11, <1>12, <1>13, <1>14

LEMMA ReplaceFailsStep == ASSUME ArtifactsInv, ReplaceFails PROVE ArtifactsInv'
  <1> USE DEF ArtifactsInv
  <1>1. /\ op.step = "call" /\ op.kind \in Replacing
        /\ op' = (IF op.kind = "create" THEN Idle ELSE Kept)
        /\ UNCHANGED <<snaps, written, late, row, snapRow, backup, store, images, doubted, ending>>
    BY DEF ReplaceFails, Ends, Retains
  <1>2. op # Idle /\ op # Kept /\ ~At("backup_restore", "store")
    BY <1>1, OpForms DEF At
  <1>3. /\ op' \in {Idle, Kept} /\ op'.kind \in {"idle", "kept"} /\ op'.step = "none" /\ op'.image = None
        /\ op'.file = None /\ op'.list = {}
    BY <1>1, OpForms
  <1>4. disk' \in Disk /\ (disk' = Part => op' = Kept)
    <2>1. Given # Part /\ Given \in Disk /\ Part \in Disk /\ disk \in Disk /\ disk # Part
      BY <1>1, <1>2, GivenIsWhole DEF DiskInv, TypeOK, Disk
    <2>2. disk' \in {disk, Given} \/ (op.kind # "create" /\ disk' = Part)
      BY <1>1 DEF ReplaceFails
    <2> QED
      BY <1>1, <2>1, <2>2
  <1>5. /\ ImageInv' /\ OwnInv' /\ image' \in [Image -> ImageRow] /\ revived' \subseteq Image
        /\ HeldFilesKept
    <2>1. \A b \in Backup : HeldBy(b)' \subseteq HeldBy(b)
      BY <1>1, <1>3 DEF HeldBy
    <2>2. CASE op.kind = "reinstall"
      <3>1. /\ ImageInv' /\ image' \in [Image -> ImageRow] /\ revived' \subseteq Image
            /\ \A g \in Image : NamedBy(g)' \subseteq NamedBy(g) /\ SavedBy(g)' \subseteq SavedBy(g)
        BY <1>1, <1>3, <2>2, WritesBackFrame DEF ReplaceFails
      <3> QED
        BY <1>1, <1>3, <2>1, <3>1, OwnShrinks DEF store, HeldFilesKept
    <2>3. CASE op.kind # "reinstall"
      <3>1. image' = image /\ revived' = revived
        BY <2>3 DEF ReplaceFails
      <3> QED
        BY <1>1, <1>3, <2>1, <3>1, OperationFrame DEF Remembers, TypeOK
    <2> QED
      BY <2>2, <2>3
  <1>6. OpInv' /\ op' \in Op
    BY <1>3, RestInv
  <1>7. TypeOK'
    <2>1. running' \in BOOLEAN
      BY DEF ReplaceFails
    <2> QED
      BY <1>1, <1>4, <1>5, <1>6, <2>1 DEF TypeOK, store, images
  <1>8. DiskInv'
    BY <1>1, <1>4 DEF DiskInv
  <1>9. BackupInv'
    BY <1>1, <1>3, <1>5, BackupFrame
  <1>10. SnapInv'
    BY <1>1, <1>2, <1>3, SnapFrame
  <1>11. PurgeInv'
    BY <1>1, <1>2, <1>3, <1>5, Busy, PurgeFrame
  <1> QED
    BY <1>5, <1>6, <1>7, <1>8, <1>9, <1>10, <1>11

LEMMA StoreDiskStep == ASSUME ArtifactsInv, StoreDisk PROVE ArtifactsInv'
  <1> USE DEF ArtifactsInv
  <1>1. /\ op.step = "store" /\ op.kind \in Replacing /\ WritesBack /\ op' = Idle
        /\ snapRow' = (IF op.kind = "backup_restore" THEN Restored(op.of) ELSE snapRow)
        /\ UNCHANGED <<guest, row, backup, store, images, doubted, ending>>
    BY DEF StoreDisk, Ends
  <1>2. op # Idle /\ op # Kept /\ (op.kind = "backup_restore" => op.of \in Backup)
    BY <1>1, OpForms DEF OpInv
  <1>3. op'.kind = "idle" /\ op'.step = "none" /\ op'.image = None /\ op'.file = None /\ op'.list = {}
    BY <1>1, OpForms
  <1>4. /\ ImageInv' /\ image' \in [Image -> ImageRow] /\ revived' \subseteq Image
        /\ \A g \in Image : NamedBy(g)' \subseteq NamedBy(g) /\ SavedBy(g)' \subseteq SavedBy(g)
    BY <1>1, <1>3, WritesBackFrame
  <1>5. OwnInv' /\ HeldFilesKept
    <2>1. \A b \in Backup : HeldBy(b)' \subseteq HeldBy(b)
      BY <1>1, <1>3 DEF HeldBy
    <2> QED
      BY <1>1, <1>3, <1>4, <2>1, OwnShrinks DEF store, HeldFilesKept
  <1>6. OpInv' /\ op' \in Op
    BY <1>1, RestInv
  <1>7. TypeOK'
    <2>1. ASSUME NEW b \in Backup
          PROVE  Restored(b) \in [Name -> [status : {"none", "creating", "available", "error"}, disk : Disk]]
      BY DEF Restored, TypeOK, NoSnapshot, Taken, Disk
    <2>2. snapRow' \in [Name -> [status : {"none", "creating", "available", "error"}, disk : Disk]]
      BY <1>1, <1>2, <2>1 DEF TypeOK
    <2> QED
      BY <1>1, <1>4, <1>6, <2>2 DEF TypeOK, guest, store, images
  <1>8. DiskInv'
    BY <1>1, <1>2, DiskFrame DEF guest
  <1>9. BackupInv'
    BY <1>1, <1>3, <1>5, BackupFrame
  <1>10. SnapInv'
    <2>1. CASE op.kind = "backup_restore"
      <3>1. \A c \in late' : c[2] \in doubted'
        BY <1>1 DEF SnapInv, guest
      <3>2. ASSUME NEW n \in Name \ doubted PROVE SnapOK(n)'
        <4>1. SnapOK(n) /\ backup' = backup /\ snaps' = snaps
          BY <1>1 DEF SnapInv, guest
        <4>2. op.data = backup[op.of].saved /\ backup[op.of].saved # None
          BY <2>1, ContentAssumption DEF BackupInv, Importing, Whole
        <4>3. Agrees(snaps[n], backup[op.of].rows[n])
          BY <1>1, <1>2, <2>1, <4>1, <4>2 DEF SnapOK, At
        <4>4. RowAgrees(n)'
          <5>1. snapRow'[n] = IF backup[op.of].rows[n] = NoDisk THEN NoSnapshot
                              ELSE [status |-> "available", disk |-> backup[op.of].rows[n]]
            BY <1>1, <2>1 DEF Restored
          <5> QED
            BY <4>1, <4>3, <5>1 DEF RowAgrees, NoSnapshot, Agrees
        <4> QED
          BY <1>3, <4>1, <4>4 DEF SnapOK, At, Agrees
      <3> QED
        BY <1>1, <3>1, <3>2 DEF SnapInv
    <2>2. CASE op.kind # "backup_restore"
      BY <1>1, <1>2, <1>3, <2>2, SnapFrame DEF guest, At
    <2> QED
      BY <2>1, <2>2
  <1>11. PurgeInv'
    BY <1>1, <1>2, <1>3, <1>5, Busy, PurgeFrame
  <1> QED
    BY <1>4, <1>5, <1>6, <1>7, <1>8, <1>9, <1>10, <1>11

-----------------------------------------------------------------------------
(* Snapshots *)

LEMMA CreateSnapshotStep == ASSUME ArtifactsInv, NEW n \in Name, CreateSnapshot(n) PROVE ArtifactsInv'
  <1> USE DEF ArtifactsInv
  <1>1. /\ Begins("snapshot_create", "call", n, None)
        /\ snapRow' = [snapRow EXCEPT ![n].status = "creating"]
        /\ UNCHANGED <<guest, row, backup, image, store, images, history>>
    BY DEF CreateSnapshot
  <1>2. "snapshot_create" \in Kinds /\ "call" \in Steps
    BY DEF Kinds, Steps
  <1>3. /\ op' \in Op /\ op'.kind = "snapshot_create" /\ op'.step = "call" /\ op'.name = n /\ op'.of = None
        /\ op'.image = row.image /\ op'.read = (IF row.image = None THEN NoImage ELSE image[row.image])
        /\ op'.file = None /\ op'.data = None /\ op'.list = {}
        /\ op'.image = None => op'.read.file = None
    BY <1>1, <1>2, BeginsFields
  <1>4. op = Idle /\ row.there = "present"
    BY <1>1 DEF Begins
  <1>5. TypeOK'
    <2>1. snapRow' \in [Name -> [status : {"none", "creating", "available", "error"}, disk : Disk]]
      BY <1>1 DEF TypeOK
    <2> QED
      BY <1>1, <1>3, <2>1 DEF TypeOK, guest, store, images, history
  <1>6. OpInv'
    BY <1>3 DEF OpInv, Stopping
  <1>7. OwnInv' /\ ImageInv' /\ HeldFilesKept
    <2>1. \A b \in Backup : HeldBy(b)' \subseteq HeldBy(b)
      BY <1>1, <1>3 DEF HeldBy
    <2> QED
      BY <1>1, <1>3, <2>1, OperationFrame DEF history, Remembers, TypeOK
  <1>8. DiskInv'
    BY <1>1, <1>4, OpForms, DiskFrame DEF guest
  <1>9. BackupInv'
    BY <1>1, <1>3, <1>7, BackupFrame DEF history
  <1>10. SnapInv'
    <2>1. \A c \in late' : c[2] \in doubted'
      BY <1>1 DEF SnapInv, guest, history
    <2>2. ASSUME NEW m \in Name \ doubted PROVE SnapOK(m)'
      <3>1. SnapOK(m) /\ backup' = backup /\ snaps' = snaps
        BY <1>1 DEF SnapInv, guest
      <3>2. snapRow'[m] = snapRow[m] \/ snapRow'[m].status = "creating"
        BY <1>1 DEF TypeOK
      <3>3. RowAgrees(m)'
        BY <1>4, <3>1, <3>2, OpForms DEF SnapOK, At, RowAgrees
      <3> QED
        BY <1>3, <3>1, <3>3 DEF SnapOK, At, Agrees
    <2> QED
      BY <1>1, <2>1, <2>2 DEF SnapInv, history
  <1>11. PurgeInv'
    BY <1>1, <1>3, <1>4, <1>7, PurgeFrame
  <1> QED
    BY <1>5, <1>6, <1>7, <1>8, <1>9, <1>10, <1>11

\* What a snapshot call does on the node is done to one name only, and never
\* makes a snapshot of half a disk.
LEMMA CarriedForms ==
    ASSUME TypeOK, NEW what \in {"create", "delete"}, NEW n \in Name
    PROVE  /\ Carried(what, n) \in Taken
           /\ \A m \in Name : m # n => Carried(what, n)[m] = snaps[m]
           /\ DiskInv => \A m \in Name : Carried(what, n)[m] # Part
           /\ what = "delete" => Carried(what, n)[n] = NoDisk
           /\ what = "create" /\ snaps[n] = NoDisk /\ disk # Part => Carried(what, n)[n] = disk
  BY ArtifactsAssumption DEF Carried, TypeOK, Taken, Disk, DiskInv

\* Steps of a snapshot operation that has begun: to its next step or its end.
LEMMA SnapshotFrame ==
    ASSUME ArtifactsInv, op.kind \in {"snapshot_create", "snapshot_delete"},
           UNCHANGED <<running, disk, written, row, backup, image, store, images, revived, ending>>,
           \/ op' = Idle
           \/ op.kind = "snapshot_create" /\ Goes("store")
           \/ op.kind = "snapshot_delete" /\ Goes("drop")
    PROVE  /\ op' \in Op /\ OpInv' /\ OwnInv' /\ ImageInv' /\ BackupInv' /\ PurgeInv'
           /\ op # Kept /\ op' # Kept /\ ~At("backup_restore", "store")
           /\ op'.kind \notin {"backup_restore", "backup_create"}
           /\ op' = Idle \/ (op'.kind = op.kind /\ op'.name = op.name)
  <1> USE DEF ArtifactsInv
  <1>1. op \in Op /\ "store" \in Steps /\ "drop" \in Steps /\ op # Idle /\ op # Kept /\ op.list = {}
    BY OpForms DEF TypeOK, Steps, OpInv
  <1>2. CASE op' = Idle
    <2>1. /\ op'.kind = "idle" /\ op'.step = "none" /\ op'.image = None /\ op'.file = None /\ op'.list = {}
      BY <1>2, OpForms
    <2>2. OpInv' /\ op' \in Op
      BY <1>2, RestInv
    <2>3. \A b \in Backup : HeldBy(b)' \subseteq HeldBy(b)
      BY <2>1 DEF HeldBy
    <2>4. OwnInv' /\ ImageInv' /\ HeldFilesKept
      BY <2>1, <2>3, OperationFrame DEF Remembers
    <2> QED
      BY <1>1, <1>2, <2>1, <2>2, <2>4, BackupFrame, PurgeFrame, Busy, OpForms DEF At
  <1>3. CASE (op.kind = "snapshot_create" /\ Goes("store")) \/ (op.kind = "snapshot_delete" /\ Goes("drop"))
    <2>1. /\ op' \in Op /\ op'.kind = op.kind /\ op'.name = op.name /\ op'.of = op.of
          /\ op'.image = op.image /\ op'.read = op.read /\ op'.file = op.file /\ op'.list = op.list
          /\ op'.step = IF op.kind = "snapshot_create" THEN "store" ELSE "drop"
      BY <1>1, <1>3, GoesFields
    <2>2. OpInv'
      BY <1>1, <2>1 DEF OpInv, Stopping
    <2>3. \A b \in Backup : HeldBy(b)' \subseteq HeldBy(b)
      BY <2>1 DEF HeldBy
    <2>4. OwnInv' /\ ImageInv' /\ HeldFilesKept
      BY <1>1, <2>1, <2>3, OperationFrame DEF Remembers
    <2> QED
      BY <1>1, <2>1, <2>2, <2>4, BackupFrame, PurgeFrame, Busy, OpForms DEF At
  <1> QED
    BY <1>2, <1>3

LEMMA SnapshotTakenStep == ASSUME ArtifactsInv, SnapshotTaken PROVE ArtifactsInv'
  <1> USE DEF ArtifactsInv
  <1> DEFINE n == op.name
  <1>1. /\ op.kind = "snapshot_create" /\ op.step = "call" /\ snaps[n] = NoDisk /\ Goes("store")
        /\ snaps' = Carried("create", n) /\ snapRow' = [snapRow EXCEPT ![n].disk = disk]
        /\ UNCHANGED <<running, disk, written, late, row, backup, image, store, images, history>>
    BY DEF SnapshotTaken, At
  <1>2. n \in Name /\ op # Kept /\ op' # Kept /\ ~At("backup_restore", "store")
        /\ op'.kind = op.kind /\ op'.name = n /\ op'.step = "store"
    BY <1>1, OpForms, GoesFields DEF OpInv, TypeOK, At, Steps
  <1>3. op' \in Op /\ OpInv' /\ OwnInv' /\ ImageInv' /\ BackupInv' /\ PurgeInv'
    BY <1>1, SnapshotFrame DEF history
  <1>4. disk # Part
    BY <1>2 DEF DiskInv
  <1> HIDE DEF n
  <1>5. /\ snaps' \in Taken /\ snaps'[n] = disk
        /\ \A m \in Name : (m # n => snaps'[m] = snaps[m]) /\ snaps'[m] # Part
    BY <1>1, <1>2, <1>4, CarriedForms
  <1>6. TypeOK'
    <2>1. snapRow' \in [Name -> [status : {"none", "creating", "available", "error"}, disk : Disk]]
      <3>1. [snapRow[n] EXCEPT !.disk = disk] \in [status : {"none", "creating", "available", "error"}, disk : Disk]
        BY <1>2 DEF TypeOK
      <3> QED
        BY <1>1, <3>1 DEF TypeOK
    <2> QED
      BY <1>1, <1>3, <1>5, <2>1 DEF TypeOK, store, images, history
  <1>7. DiskInv'
    BY <1>1, <1>4, <1>5 DEF DiskInv
  <1>8. SnapInv'
    <2>1. \A c \in late' : c[2] \in doubted'
      BY <1>1 DEF SnapInv, history
    <2>2. ASSUME NEW m \in Name \ doubted PROVE SnapOK(m)'
      <3>1. SnapOK(m) /\ RowAgrees(m) /\ backup' = backup
        BY <1>1, <1>2 DEF SnapInv, SnapOK
      <3>2. /\ m = n => snapRow'[m].disk = disk /\ snaps'[m] = disk
            /\ m # n => snapRow'[m] = snapRow[m] /\ snaps'[m] = snaps[m]
        BY <1>1, <1>5 DEF TypeOK
      <3>3. RowAgrees(m)'
        BY <3>1, <3>2 DEF RowAgrees
      <3> QED
        BY <1>1, <1>2, <3>1, <3>2, <3>3 DEF SnapOK, At, Agrees
    <2> QED
      BY <1>1, <2>1, <2>2 DEF SnapInv, history
  <1> QED
    BY <1>3, <1>6, <1>7, <1>8

LEMMA SnapshotRemovedStep == ASSUME ArtifactsInv, SnapshotRemoved PROVE ArtifactsInv'
  <1> USE DEF ArtifactsInv
  <1> DEFINE n == op.name
  <1>1. /\ op.kind = "snapshot_delete" /\ op.step = "call" /\ Goes("drop") /\ snaps' = Carried("delete", n)
        /\ UNCHANGED <<running, disk, written, late, rows, store, images, history>>
    BY DEF SnapshotRemoved, At
  <1>2. n \in Name /\ op'.kind = op.kind
    BY <1>1, GoesFields DEF OpInv, TypeOK, Steps
  <1>3. /\ op' \in Op /\ OpInv' /\ OwnInv' /\ ImageInv' /\ BackupInv' /\ PurgeInv'
        /\ op # Kept /\ op' # Kept /\ ~At("backup_restore", "store")
    BY <1>1, SnapshotFrame DEF history, rows
  <1> HIDE DEF n
  <1>4. /\ snaps' \in Taken /\ \A m \in Name : snaps'[m] \in {snaps[m], NoDisk} /\ snaps'[m] # Part
    BY <1>1, <1>2, CarriedForms
  <1>5. TypeOK'
    BY <1>1, <1>3, <1>4 DEF TypeOK, store, images, history, rows
  <1>6. DiskInv'
    BY <1>1, <1>3, <1>4 DEF DiskInv
  <1>7. SnapInv'
    <2>1. \A c \in late' : c[2] \in doubted'
      BY <1>1 DEF SnapInv, history
    <2>2. ASSUME NEW m \in Name \ doubted PROVE SnapOK(m)'
      <3>1. SnapOK(m) /\ RowAgrees(m) /\ backup' = backup /\ snapRow' = snapRow
        BY <1>1, <1>3 DEF SnapInv, SnapOK, rows
      <3>2. RowAgrees(m)'
        BY <1>4, <3>1 DEF RowAgrees
      <3> QED
        BY <1>1, <1>2, <3>1, <3>2 DEF SnapOK, At, Agrees
    <2> QED
      BY <1>1, <2>1, <2>2 DEF SnapInv, history
  <1> QED
    BY <1>3, <1>5, <1>6, <1>7

LEMMA SnapshotCallFailsStep == ASSUME ArtifactsInv, SnapshotCallFails PROVE ArtifactsInv'
  <1> USE DEF ArtifactsInv
  <1> DEFINE n == op.name
             what == IF op.kind = "snapshot_create" THEN "create" ELSE "delete"
  <1>1. /\ op.step = "call" /\ op.kind \in {"snapshot_create", "snapshot_delete"} /\ op' = Idle
        /\ snapRow' = snapRow \/ snapRow' = [snapRow EXCEPT ![n].status = "error"]
        /\ UNCHANGED <<running, disk, written, row, backup, image, store, images, revived, ending>>
    BY DEF SnapshotCallFails, Ends
  <1>2. \/ UNCHANGED <<snaps, late, doubted>>
        \/ snaps' = Carried(what, n) /\ doubted' = doubted \cup {n} /\ late' = late
        \/ late' = late \cup {<<what, n>>} /\ doubted' = doubted \cup {n} /\ snaps' = snaps
    BY DEF SnapshotCallFails
  <1>3. n \in Name /\ what \in {"create", "delete"} /\ op'.kind = "idle" /\ op'.step = "none"
    BY <1>1, OpForms DEF OpInv
  <1>4. /\ op' \in Op /\ OpInv' /\ OwnInv' /\ ImageInv' /\ BackupInv' /\ PurgeInv'
        /\ op # Kept /\ op' # Kept /\ ~At("backup_restore", "store")
    BY <1>1, SnapshotFrame
  <1> HIDE DEF n, what
  <1>5. /\ snaps' \in Taken /\ \A m \in Name : snaps'[m] # Part
        /\ \A m \in Name : m # n \/ snaps' = snaps => snaps'[m] = snaps[m]
        /\ snaps' # snaps => n \in doubted'
    BY <1>2, <1>3, CarriedForms DEF TypeOK, DiskInv
  <1>6. TypeOK'
    <2>1. snapRow' \in [Name -> [status : {"none", "creating", "available", "error"}, disk : Disk]]
      <3>1. [snapRow[n] EXCEPT !.status = "error"]
                \in [status : {"none", "creating", "available", "error"}, disk : Disk]
        BY <1>3 DEF TypeOK
      <3> QED
        BY <1>1, <3>1 DEF TypeOK
    <2>2. late' \subseteq {"create", "delete"} \X Name /\ doubted' \subseteq Name
      BY <1>2, <1>3 DEF TypeOK
    <2> QED
      BY <1>1, <1>4, <1>5, <2>1, <2>2 DEF TypeOK, store, images
  <1>7. DiskInv'
    BY <1>1, <1>4, <1>5 DEF DiskInv
  <1>8. SnapInv'
    <2>1. \A c \in late' : c[2] \in doubted'
      BY <1>2 DEF SnapInv
    <2>2. ASSUME NEW m \in Name \ doubted' PROVE SnapOK(m)'
      <3>1. m \in Name \ doubted
        BY <1>2
      <3>2. SnapOK(m) /\ RowAgrees(m) /\ backup' = backup /\ snaps'[m] = snaps[m]
        BY <1>1, <1>4, <1>5, <2>2, <3>1 DEF SnapInv, SnapOK
      <3>3. snapRow'[m] = snapRow[m] \/ snapRow'[m].status = "error"
        BY <1>1 DEF TypeOK
      <3>4. RowAgrees(m)'
        BY <3>2, <3>3 DEF RowAgrees
      <3> QED
        BY <1>1, <1>3, <3>2, <3>4 DEF SnapOK, At, Agrees
    <2> QED
      BY <2>1, <2>2 DEF SnapInv
  <1> QED
    BY <1>4, <1>6, <1>7, <1>8

LEMMA StoreSnapshotStep == ASSUME ArtifactsInv, StoreSnapshot PROVE ArtifactsInv'
  <1> USE DEF ArtifactsInv
  <1> DEFINE n == op.name
  <1>1. /\ op' = Idle /\ UNCHANGED <<guest, row, backup, image, store, images, history>>
        /\ \/ /\ op.kind = "snapshot_create" /\ op.step = "store"
              /\ snapRow' \in {snapRow, [snapRow EXCEPT ![n].status = "available"]}
           \/ /\ op.kind = "snapshot_delete" /\ op.step = "drop"
              /\ snapRow' \in {snapRow, [snapRow EXCEPT ![n] = NoSnapshot]}
    BY DEF StoreSnapshot, Ends, At
  <1>2. n \in Name /\ op'.kind = "idle" /\ op'.step = "none"
    BY <1>1, OpForms DEF OpInv
  <1>3. /\ op' \in Op /\ OpInv' /\ OwnInv' /\ ImageInv' /\ BackupInv' /\ PurgeInv'
        /\ op # Kept /\ op' # Kept /\ ~At("backup_restore", "store")
    BY <1>1, SnapshotFrame DEF history, guest
  <1>4. TypeOK'
    <2>1. NoSnapshot \in [status : {"none", "creating", "available", "error"}, disk : Disk]
      BY DEF NoSnapshot, Disk
    <2>2. snapRow' \in [Name -> [status : {"none", "creating", "available", "error"}, disk : Disk]]
      BY <1>1, <2>1 DEF TypeOK
    <2> QED
      BY <1>1, <1>3, <2>2 DEF TypeOK, store, images, history, guest
  <1>5. DiskInv'
    BY <1>1, <1>3, DiskFrame DEF guest
  <1>6. SnapInv'
    <2>1. \A c \in late' : c[2] \in doubted'
      BY <1>1 DEF SnapInv, history, guest
    <2>2. ASSUME NEW m \in Name \ doubted PROVE SnapOK(m)'
      <3>1. SnapOK(m) /\ RowAgrees(m) /\ backup' = backup /\ snaps' = snaps
        BY <1>1, <1>3 DEF SnapInv, SnapOK, guest
      <3>2. \/ snapRow'[m] = snapRow[m]
            \/ m = n /\ At("snapshot_create", "store") /\ snapRow'[m].disk = snapRow[m].disk
            \/ snapRow'[m].status = "none"
        BY <1>1 DEF TypeOK, NoSnapshot, At
      <3>3. RowAgrees(m)'
        BY <3>1, <3>2 DEF RowAgrees, SnapOK
      <3> QED
        BY <1>1, <1>2, <3>1, <3>3 DEF SnapOK, At, Agrees
    <2> QED
      BY <1>1, <2>1, <2>2 DEF SnapInv, history
  <1> QED
    BY <1>3, <1>4, <1>5, <1>6

LEMMA NodeLateStep == ASSUME ArtifactsInv, NodeLate PROVE ArtifactsInv'
  <1> USE DEF ArtifactsInv
  <1>1. PICK c \in late : /\ snaps' = Carried(c[1], c[2]) /\ late' = late \ {c}
                          /\ UNCHANGED <<running, disk, written, rows, store, op, images, history>>
    BY DEF NodeLate
  <1>2. c[1] \in {"create", "delete"} /\ c[2] \in Name /\ c[2] \in doubted
    BY DEF TypeOK, SnapInv
  <1>3. snaps' \in Taken /\ \A m \in Name : snaps'[m] # Part /\ (m # c[2] => snaps'[m] = snaps[m])
    BY <1>1, <1>2, CarriedForms
  <1>4. TypeOK'
    BY <1>1, <1>3 DEF TypeOK, rows, store, images, history
  <1>5. OpInv'
    BY <1>1 DEF OpInv
  <1>6. OwnInv' /\ ImageInv' /\ HeldFilesKept
    <2>1. \A b \in Backup : HeldBy(b)' \subseteq HeldBy(b)
      BY <1>1 DEF HeldBy, rows
    <2>2. \A f \in op'.list : \E b \in Backup : backup'[b].file = f
      BY <1>1 DEF OwnInv, rows
    <2> QED
      BY <1>1, <2>1, <2>2, OperationFrame DEF rows, history, Remembers
  <1>7. DiskInv'
    BY <1>1, <1>3 DEF DiskInv
  <1>8. BackupInv'
    BY <1>1, <1>6, BackupFrame DEF rows, history
  <1>9. SnapInv'
    <2>1. \A d \in late' : d[2] \in doubted'
      BY <1>1 DEF SnapInv, history
    <2>2. ASSUME NEW m \in Name \ doubted PROVE SnapOK(m)'
      <3>1. SnapOK(m) /\ backup' = backup /\ snapRow' = snapRow /\ snaps'[m] = snaps[m] /\ op' = op
        BY <1>1, <1>2, <1>3 DEF SnapInv, rows
      <3> QED
        BY <3>1 DEF SnapOK, At, RowAgrees, Agrees
    <2> QED
      BY <1>1, <2>1, <2>2 DEF SnapInv, history
  <1>10. PurgeInv'
    BY <1>1, <1>6, PurgeFrame DEF rows
  <1> QED
    BY <1>4, <1>5, <1>6, <1>7, <1>8, <1>9, <1>10

-----------------------------------------------------------------------------
(* Backups *)

BackupRow == [status : {"none", "creating", "available", "error", "deleted"},
              file : File \cup {None}, rows : Taken, saved : Archive \cup {None}]

LEMMA CreateBackupStep == ASSUME ArtifactsInv, NEW b \in Backup, CreateBackup(b) PROVE ArtifactsInv'
  <1> USE DEF ArtifactsInv
  <1>1. /\ Begins("backup_create", "call", None, b) /\ backup[b] = NoBackup
        /\ backup' = [backup EXCEPT ![b].status = "creating", ![b].rows = Listed]
        /\ UNCHANGED <<guest, row, snapRow, image, store, images, history>>
    BY DEF CreateBackup
  <1>2. "backup_create" \in Kinds /\ "call" \in Steps
    BY DEF Kinds, Steps, Stopping
  <1>3. /\ op' \in Op /\ op'.kind = "backup_create" /\ op'.step = "call" /\ op'.of = b
        /\ op'.image = row.image /\ op'.read = (IF row.image = None THEN NoImage ELSE image[row.image])
        /\ op'.file = None /\ op'.data = None /\ op'.list = {}
        /\ op'.image = None => op'.read.file = None
    BY <1>1, <1>2, BeginsFields
  <1>4. op = Idle /\ row.there = "present" /\ ~running
    BY <1>1 DEF Begins, Stopping
  <1>5. Listed \in Taken
    BY DEF Listed, TypeOK, Taken, Disk
  <1>6. /\ backup'[b].status = "creating" /\ backup'[b].rows = Listed /\ backup'[b].file = None
        /\ backup'[b].saved = None
        /\ \A c \in Backup \ {b} : backup'[c] = backup[c]
    BY <1>1 DEF TypeOK, NoBackup
  <1>7. TypeOK'
    <2> DEFINE created == [backup EXCEPT ![b].status = "creating"]
    <2>1. created \in [Backup -> BackupRow]
      <3>1. backup[b] \in BackupRow /\ backup \in [Backup -> BackupRow]
        BY DEF TypeOK, BackupRow
      <3>2. [backup[b] EXCEPT !.status = "creating"] \in BackupRow
        BY <3>1 DEF BackupRow
      <3> QED
        BY <3>1, <3>2
    <2>2. backup' = [created EXCEPT ![b].rows = Listed]
      BY <1>1
    <2> HIDE DEF created
    <2>3. backup' \in [Backup -> BackupRow]
      <3>1. [created[b] EXCEPT !.rows = Listed] \in BackupRow
        BY <1>5, <2>1 DEF BackupRow
      <3> QED
        BY <2>1, <2>2, <3>1
    <2> QED
      BY <1>1, <1>3, <2>3 DEF TypeOK, guest, store, images, history, BackupRow
  <1>8. OpInv'
    BY <1>1, <1>3, <1>4 DEF OpInv, Stopping, guest
  <1>9. OwnInv' /\ ImageInv' /\ HeldFilesKept
    <2>1. \A c \in Backup : HeldBy(c)' \subseteq HeldBy(c)
      BY <1>3, <1>6 DEF HeldBy
    <2> QED
      BY <1>1, <1>3, <2>1, OperationFrame DEF history, Remembers, TypeOK
  <1>10. DiskInv'
    BY <1>1, <1>4, OpForms, DiskFrame DEF guest
  <1>11. BackupInv'
    <2>1. ASSUME NEW c \in Backup PROVE BackupOK(c)'
      <3>1. BackupOK(c) /\ files' = files /\ ending' = ending
        BY <1>1 DEF BackupInv, store, history
      <3>2. c = b => c \notin ending
        BY <1>1, <3>1 DEF BackupOK, NoBackup
      <3> QED
        BY <1>6, <3>1, <3>2 DEF BackupOK, Whole
    <2>2. Exporting' /\ Importing'
      BY <1>3, <1>6 DEF Exporting, Importing, At
    <2> QED
      BY <2>1, <2>2 DEF BackupInv
  <1>12. SnapInv'
    <2>1. \A c \in late' : c[2] \in doubted'
      BY <1>1 DEF SnapInv, guest, history
    <2>2. ASSUME NEW m \in Name \ doubted PROVE SnapOK(m)'
      <3>1. SnapOK(m) /\ RowAgrees(m) /\ snapRow' = snapRow /\ snaps' = snaps
        BY <1>1, <1>4, OpForms DEF SnapInv, SnapOK, At, guest
      <3>2. \A c \in Backup : backup'[c].saved # None => backup'[c] = backup[c]
        BY <1>6
      <3>3. Agrees(snaps[m], Listed[m])
        BY <3>1 DEF RowAgrees, Agrees, Listed
      <3> QED
        BY <1>3, <1>6, <3>1, <3>2, <3>3 DEF SnapOK, At, Agrees, RowAgrees
    <2> QED
      BY <1>1, <2>1, <2>2 DEF SnapInv, history
  <1>13. PurgeInv'
    <2>1. \A c \in Backup : backup'[c].status = "deleted" => Removed(c)'
      BY <1>1, <1>6 DEF PurgeInv, Removed, store
    <2> QED
      BY <1>1, <1>3, <1>4, <2>1 DEF PurgeInv
  <1> QED
    BY <1>3, <1>7, <1>8, <1>9, <1>10, <1>11, <1>12, <1>13

\* The file that is drawn is the backup's from then on, though its row does not
\* name it yet.
LEMMA ExportStep == ASSUME ArtifactsInv, NEW f \in File, Export(f) PROVE ArtifactsInv'
  <1> USE DEF ArtifactsInv
  <1> DEFINE d == [disk |-> disk, snaps |-> snaps]
             b == op.of
  <1>1. /\ op.kind = "backup_create" /\ op.step = "call" /\ f \notin drawn /\ drawn' = drawn \cup {f}
        /\ files' = [files EXCEPT ![f] = Part]
        /\ op' = [op EXCEPT !.step = "save", !.file = f, !.data = d]
        /\ UNCHANGED <<guest, rows, images, history>>
    BY DEF Export, Draws, At
  <1>2. b \in Backup /\ op \in Op /\ op # Idle /\ op # Kept /\ f # None
    BY <1>1, OpForms, ArtifactsAssumption DEF OpInv, TypeOK
  <1>3. d \in Archive /\ Whole(d) /\ d \in Content
    <2>1. d \in Archive
      BY DEF TypeOK, Archive
    <2> QED
      BY <1>2, <2>1 DEF Whole, DiskInv, Content
  <1>4. d.disk = disk /\ d.snaps = snaps
    OBVIOUS
  <1> HIDE DEF d
  <1>5. /\ op' \in Op /\ op'.kind = "backup_create" /\ op'.step = "save" /\ op'.of = b
        /\ op'.image = op.image /\ op'.read = op.read /\ op'.file = f /\ op'.data = d /\ op'.list = op.list
    BY <1>1, <1>2, <1>3 DEF Op
  <1>6. op.list = {} /\ ~running
    BY <1>1 DEF OpInv, Stopping
  <1>7. TypeOK'
    <2>1. files' \in [File -> Content] /\ drawn' \subseteq File
      BY <1>1 DEF TypeOK, Content
    <2> QED
      BY <1>1, <1>5, <2>1 DEF TypeOK, guest, rows, images, history
  <1>8. OpInv'
    <2>1. running' = running
      BY <1>1 DEF guest
    <2> QED
      BY <1>2, <1>5, <1>6, <2>1 DEF OpInv, Stopping
  <1>9. \A x \in drawn : files'[x] = files[x]
    BY <1>1 DEF TypeOK
  <1>10. HeldFilesKept /\ ImageFilesKept
    BY <1>9 DEF OwnInv, HeldFilesKept, ImageFilesKept
  <1>11. ImageInv'
    BY <1>1, <1>5, <1>10, ArtifactsAssumption, ImageFrame DEF rows, images, history, Remembers
  <1>12. OwnInv'
    <2>1. \A g \in Image : NamedBy(g)' = NamedBy(g) /\ SavedBy(g)' = SavedBy(g)
      BY <1>1, <1>5 DEF NamedBy, SavedBy, rows, images
    <2>2. \A c \in Backup : HeldBy(c)' \subseteq IF c = b THEN HeldBy(c) \cup {f} ELSE HeldBy(c)
      BY <1>1, <1>5 DEF HeldBy, rows
    <2>3. \A c \in Backup : HeldBy(c)' \subseteq drawn'
      BY <1>1, <2>2 DEF OwnInv
    <2>4. \A c, e \in Backup : c # e => HeldBy(c)' \cap HeldBy(e)' = {}
      <3>1. ASSUME NEW c \in Backup, c # b PROVE HeldBy(c)' \cap HeldBy(b)' = {}
        BY <1>1, <1>2, <2>2, <3>1 DEF OwnInv
      <3>2. ASSUME NEW c \in Backup, NEW e \in Backup, c # b, e # b, c # e PROVE HeldBy(c)' \cap HeldBy(e)' = {}
        BY <2>2, <3>2 DEF OwnInv
      <3>3. ASSUME NEW c \in Backup, NEW e \in Backup, c # e PROVE HeldBy(c)' \cap HeldBy(e)' = {}
        <4>1. CASE c = b
          BY <1>5, <3>1, <3>3, <4>1
        <4>2. CASE e = b
          BY <1>5, <3>1, <3>3, <4>2
        <4> QED
          BY <3>2, <3>3, <4>1, <4>2
      <3> QED
        BY <3>3
    <2>5. \A g \in Image, c \in Backup : (NamedBy(g) \cup SavedBy(g)) \cap HeldBy(c)' = {}
      BY <1>1, <2>2 DEF OwnInv
    <2> QED
      BY <1>1, <1>5, <1>6, <2>1, <2>3, <2>4, <2>5 DEF OwnInv
  <1>13. DiskInv'
    BY <1>1, <1>2, DiskFrame DEF guest
  <1>14. BackupInv'
    <2>1. ASSUME NEW c \in Backup PROVE BackupOK(c)'
      <3>1. BackupOK(c) /\ backup' = backup /\ ending' = ending
        BY <1>1 DEF BackupInv, rows, history
      <3>2. backup[c].file # None => files'[backup[c].file] = files[backup[c].file]
        BY <1>10 DEF HeldFilesKept, HeldBy
      <3> QED
        BY <3>1, <3>2 DEF BackupOK, Whole
    <2>2. Exporting'
      <3>1. disk' = disk /\ backup' = backup
        BY <1>1 DEF guest, rows
      <3> QED
        BY <1>1, <1>3, <1>4, <1>5, <3>1 DEF BackupInv, Exporting, At, Whole
    <2>3. Importing'
      BY <1>5 DEF Importing
    <2> QED
      BY <2>1, <2>2, <2>3 DEF BackupInv
  <1>15. SnapInv'
    <2>1. \A c \in late' : c[2] \in doubted'
      BY <1>1 DEF SnapInv, guest, history
    <2>2. ASSUME NEW m \in Name \ doubted PROVE SnapOK(m)'
      <3>1. /\ SnapOK(m) /\ RowAgrees(m) /\ snapRow' = snapRow /\ snaps' = snaps /\ backup' = backup
            /\ Agrees(snaps[m], backup[b].rows[m])
        BY <1>1, <1>2 DEF SnapInv, SnapOK, At, guest, rows
      <3> QED
        BY <1>4, <1>5, <3>1 DEF SnapOK, At, Agrees, RowAgrees
    <2> QED
      BY <1>1, <2>1, <2>2 DEF SnapInv, history
  <1>16. PurgeInv'
    BY <1>1, <1>2, <1>5, <1>10, Busy, PurgeFrame DEF rows
  <1> QED
    BY <1>7, <1>8, <1>11, <1>12, <1>13, <1>14, <1>15, <1>16

\* A backup that failed names no file and says so, or not.
LEMMA FailBackupStep == ASSUME ArtifactsInv, ExportFails \/ SaveArchiveFails PROVE ArtifactsInv'
  <1> USE DEF ArtifactsInv
  <1> DEFINE b == op.of
  <1>1. /\ op.kind = "backup_create" /\ op' = Idle
        /\ backup' = backup \/ backup' = [backup EXCEPT ![b].status = "error"]
        /\ UNCHANGED <<guest, row, snapRow, image, drawn, images, history>>
    BY DEF ExportFails, SaveArchiveFails, FailBackup, Ends, At, store
  <1>2. files' = files \/ (op.step = "save" /\ files' = [files EXCEPT ![op.file] = None])
    BY DEF ExportFails, SaveArchiveFails, At, store
  <1>3. /\ b \in Backup /\ op # Idle /\ op # Kept /\ ~At("backup_restore", "store")
        /\ backup[b].status = "creating" /\ backup[b].file = None /\ backup[b].saved = None
    BY <1>1, OpForms DEF OpInv, BackupInv, Exporting, At
  <1>4. op'.kind = "idle" /\ op'.step = "none" /\ op'.image = None /\ op'.file = None /\ op'.list = {}
    BY <1>1, OpForms
  <1>5. OpInv' /\ op' \in Op
    BY <1>1, RestInv
  <1>6. /\ backup'[b].status \in {"creating", "error"} /\ backup'[b].file = None /\ backup'[b].saved = None
        /\ backup'[b].rows = backup[b].rows
        /\ \A c \in Backup \ {b} : backup'[c] = backup[c]
    BY <1>1, <1>3 DEF TypeOK
  <1>7. ImageFilesKept /\ \A c \in Backup \ {b} : \A f \in HeldBy(c) : files'[f] = files[f]
    <2>1. CASE files' = files
      BY <2>1 DEF ImageFilesKept
    <2>2. CASE op.step = "save" /\ files' = [files EXCEPT ![op.file] = None]
      <3>1. op.file \in HeldBy(b)
        BY <1>1, <2>2 DEF OpInv, HeldBy
      <3> QED
        BY <1>3, <2>2, <3>1, HeldFileChanged
    <2> QED
      BY <1>2, <2>1, <2>2
  <1>8. TypeOK'
    <2>1. backup \in [Backup -> BackupRow]
      BY DEF TypeOK, BackupRow
    <2>2. backup' \in [Backup -> BackupRow]
      <3>1. backup[b] \in BackupRow
        BY <1>3, <2>1
      <3>2. [backup[b] EXCEPT !.status = "error"] \in BackupRow
        BY <3>1 DEF BackupRow
      <3> QED
        BY <1>1, <1>3, <2>1, <3>2
    <2>3. files' \in [File -> Content]
      BY <1>2 DEF TypeOK, Content
    <2> QED
      BY <1>1, <1>5, <2>2, <2>3 DEF TypeOK, guest, images, history, BackupRow
  <1>9. ImageInv'
    BY <1>1, <1>4, <1>7, ArtifactsAssumption, ImageFrame DEF images, history, Remembers
  <1>10. OwnInv'
    <2>1. \A c \in Backup : HeldBy(c)' \subseteq HeldBy(c)
      BY <1>4, <1>6 DEF HeldBy
    <2>2. \A g \in Image : NamedBy(g)' \subseteq NamedBy(g) /\ SavedBy(g)' \subseteq SavedBy(g)
      BY <1>1, <1>4, ArtifactsAssumption, NamesKept DEF SavedBy, images, Remembers
    <2> QED
      BY <1>1, <1>4, <2>1, <2>2, OwnShrinks
  <1>11. DiskInv'
    BY <1>1, <1>3, DiskFrame DEF guest
  <1>12. BackupInv'
    <2>1. ASSUME NEW c \in Backup PROVE BackupOK(c)'
      <3>1. BackupOK(c) /\ ending' = ending
        BY <1>1 DEF BackupInv, history
      <3>2. CASE c = b
        BY <1>3, <1>6, <3>1, <3>2 DEF BackupOK
      <3>3. CASE c # b
        <4>1. backup[c].file # None => files'[backup[c].file] = files[backup[c].file]
          BY <1>7, <3>3 DEF HeldBy
        <4> QED
          BY <1>6, <3>1, <3>3, <4>1 DEF BackupOK, Whole
      <3> QED
        BY <3>2, <3>3
    <2>2. Exporting' /\ Importing'
      BY <1>4 DEF Exporting, Importing, At
    <2> QED
      BY <2>1, <2>2 DEF BackupInv
  <1>13. SnapInv'
    <2>1. \A c \in late' : c[2] \in doubted'
      BY <1>1 DEF SnapInv, guest, history
    <2>2. ASSUME NEW m \in Name \ doubted PROVE SnapOK(m)'
      <3>1. SnapOK(m) /\ RowAgrees(m) /\ snapRow' = snapRow /\ snaps' = snaps
        BY <1>1, <1>3 DEF SnapInv, SnapOK, guest
      <3>2. \A c \in Backup : backup'[c].saved # None => backup'[c] = backup[c]
        BY <1>6
      <3> QED
        BY <1>4, <3>1, <3>2 DEF SnapOK, At, Agrees, RowAgrees
    <2> QED
      BY <1>1, <2>1, <2>2 DEF SnapInv, history
  <1>14. PurgeInv'
    <2>1. ASSUME NEW c \in Backup, backup'[c].status = "deleted" PROVE Removed(c)'
      <3>1. c # b /\ Removed(c)
        BY <1>6, <2>1 DEF PurgeInv
      <3> QED
        BY <1>6, <1>7, <3>1 DEF Removed, HeldBy
    <2>2. row'.there # "gone"
      BY <1>1, <1>3, Busy
    <2> QED
      BY <1>4, <2>1, <2>2 DEF PurgeInv
  <1> QED
    BY <1>5, <1>8, <1>9, <1>10, <1>11, <1>12, <1>13, <1>14

LEMMA SaveArchiveStep == ASSUME ArtifactsInv, SaveArchive PROVE ArtifactsInv'
  <1> USE DEF ArtifactsInv
  <1> DEFINE b == op.of
             f == op.file
  <1>1. /\ op.kind = "backup_create" /\ op.step = "save" /\ Goes("record")
        /\ UNCHANGED <<guest, rows, drawn, images, history>>
    BY DEF SaveArchive, At
  <1>2. /\ b \in Backup /\ op \in Op /\ op # Idle /\ op # Kept /\ f # None /\ f \in File /\ "record" \in Steps
        /\ op.list = {} /\ ~running
    BY <1>1, OpForms, OpFields DEF OpInv, TypeOK, Steps, Stopping
  <1>3. /\ Whole(op.data) /\ files' = [files EXCEPT ![f] = op.data] /\ op.data \in Content
    BY <1>1 DEF SaveArchive, BackupInv, Exporting, At, Whole, Content
  <1>4. /\ op' \in Op /\ op'.step = "record" /\ op'.kind = op.kind /\ op'.of = b /\ op'.image = op.image
        /\ op'.read = op.read /\ op'.file = f /\ op'.data = op.data /\ op'.list = op.list
    BY <1>1, <1>2, GoesFields
  <1>5. f \in HeldBy(b)
    BY <1>2 DEF HeldBy
  <1>6. ImageFilesKept /\ \A c \in Backup \ {b} : \A x \in HeldBy(c) : files'[x] = files[x]
    BY <1>2, <1>3, <1>5, HeldFileChanged
  <1>7. backup[b].status = "creating" /\ backup[b].file = None /\ backup' = backup
    BY <1>1 DEF BackupInv, Exporting, rows
  <1> HIDE DEF b, f
  <1>8. \A c \in Backup : backup[c].file # None => files'[backup[c].file] = files[backup[c].file]
    BY <1>6, <1>7 DEF HeldBy
  <1>9. TypeOK'
    <2>1. files' \in [File -> Content]
      BY <1>2, <1>3 DEF TypeOK
    <2> QED
      BY <1>1, <1>4, <2>1 DEF TypeOK, guest, rows, images, history
  <1>10. OpInv'
    <2>1. running' = running
      BY <1>1 DEF guest
    <2> QED
      BY <1>1, <1>2, <1>4, <2>1 DEF OpInv, Stopping
  <1>11. ImageInv'
    BY <1>1, <1>4, <1>6, ArtifactsAssumption, ImageFrame DEF rows, images, history, Remembers
  <1>12. OwnInv'
    <2>1. \A c \in Backup : HeldBy(c)' \subseteq HeldBy(c)
      BY <1>4, <1>7, GoesFields, <1>1 DEF HeldBy, b, f
    <2>2. \A g \in Image : NamedBy(g)' \subseteq NamedBy(g) /\ SavedBy(g)' \subseteq SavedBy(g)
      BY <1>1, <1>4 DEF NamedBy, SavedBy, rows, images
    <2> QED
      BY <1>1, <1>2, <1>4, <2>1, <2>2, OwnShrinks
  <1>13. DiskInv'
    BY <1>1, <1>2, DiskFrame DEF guest
  <1>14. BackupInv'
    <2>1. ASSUME NEW c \in Backup PROVE BackupOK(c)'
      <3>1. BackupOK(c) /\ ending' = ending
        BY <1>1 DEF BackupInv, history
      <3> QED
        BY <1>7, <1>8, <3>1 DEF BackupOK, Whole
    <2>2. Exporting'
      <3>1. backup[b].saved = None /\ op'.kind = "backup_create" /\ files'[f] = op.data
        BY <1>1, <1>2, <1>3, <1>4 DEF BackupInv, Exporting, TypeOK, b
      <3> QED
        BY <1>3, <1>4, <1>7, <3>1 DEF Exporting, At, Whole
    <2>3. Importing'
      BY <1>1, <1>4 DEF Importing
    <2> QED
      BY <2>1, <2>2, <2>3 DEF BackupInv
  <1>15. SnapInv'
    <2>1. \A c \in late' : c[2] \in doubted'
      BY <1>1 DEF SnapInv, guest, history
    <2>2. ASSUME NEW m \in Name \ doubted PROVE SnapOK(m)'
      <3>1. SnapOK(m) /\ snapRow' = snapRow /\ snaps' = snaps
        BY <1>1 DEF SnapInv, guest, rows
      <3>2. RowAgrees(m) /\ Agrees(op.data.snaps[m], backup[b].rows[m])
        BY <1>1, <1>2, <3>1 DEF SnapOK, At, b
      <3> QED
        BY <1>1, <1>4, <1>7, <3>1, <3>2 DEF SnapOK, At, Agrees, RowAgrees
    <2> QED
      BY <1>1, <2>1, <2>2 DEF SnapInv, history
  <1>16. PurgeInv'
    <2>1. \A c \in Backup : Removed(c) => Removed(c)'
      BY <1>7, <1>8 DEF Removed
    <2>2. row'.there # "gone"
      BY <1>1, <1>2, Busy DEF rows
    <2> QED
      BY <1>4, <1>7, <2>1, <2>2 DEF PurgeInv
  <1> QED
    BY <1>9, <1>10, <1>11, <1>12, <1>13, <1>14, <1>15, <1>16

LEMMA RecordedForms ==
    ASSUME TypeOK, NEW b \in Backup, b = op.of, op.data \in Archive, NEW s \in {"available", "error"}
    PROVE  /\ Recorded(s) \in [Backup -> BackupRow]
           /\ Recorded(s)[b].status = s /\ Recorded(s)[b].file = op.file /\ Recorded(s)[b].saved = op.data
           /\ Recorded(s)[b].rows = backup[b].rows
           /\ \A c \in Backup \ {b} : Recorded(s)[c] = backup[c]
  <1> DEFINE B1 == [backup EXCEPT ![b].status = s]
             B2 == [B1 EXCEPT ![b].file = op.file]
             B3 == [B2 EXCEPT ![b].saved = op.data]
  <1>1. backup \in [Backup -> BackupRow] /\ op.file \in File \cup {None}
    BY OpFields DEF TypeOK, BackupRow
  <1>2. /\ B1 \in [Backup -> BackupRow] /\ B1[b].status = s /\ B1[b].rows = backup[b].rows
        /\ \A c \in Backup \ {b} : B1[c] = backup[c]
    <2>1. [backup[b] EXCEPT !.status = s] \in BackupRow
      BY <1>1 DEF BackupRow
    <2> QED
      BY <1>1, <2>1 DEF BackupRow
  <1>3. Recorded(s) = B3
    BY DEF Recorded
  <1> HIDE DEF B1
  <1>4. /\ B2 \in [Backup -> BackupRow] /\ B2[b].status = s /\ B2[b].rows = backup[b].rows /\ B2[b].file = op.file
        /\ \A c \in Backup \ {b} : B2[c] = backup[c]
    <2>1. [B1[b] EXCEPT !.file = op.file] \in BackupRow
      BY <1>1, <1>2 DEF BackupRow
    <2> QED
      BY <1>2, <2>1 DEF BackupRow
  <1> HIDE DEF B2
  <1>5. /\ B3 \in [Backup -> BackupRow] /\ B3[b].status = s /\ B3[b].rows = backup[b].rows /\ B3[b].file = op.file
        /\ B3[b].saved = op.data
        /\ \A c \in Backup \ {b} : B3[c] = backup[c]
    <2>1. [B2[b] EXCEPT !.saved = op.data] \in BackupRow
      BY <1>4 DEF BackupRow
    <2> QED
      BY <1>4, <2>1 DEF BackupRow
  <1> QED
    BY <1>3, <1>5

\* The row takes over the file of the operation.
LEMMA RecordedStep ==
    ASSUME ArtifactsInv, op.kind = "backup_create", op.step \in {"record", "again"}, op' = Idle,
           NEW s \in {"available", "error"}, backup' = Recorded(s),
           UNCHANGED <<guest, row, snapRow, image, store, images, history>>
    PROVE  ArtifactsInv'
  <1> USE DEF ArtifactsInv
  <1> DEFINE b == op.of
  <1>1. b \in Backup /\ op \in Op /\ op # Idle /\ op # Kept /\ op.file # None
    BY OpForms DEF OpInv, TypeOK
  <1>2. Whole(op.data) /\ files[op.file] = op.data
    BY DEF BackupInv, Exporting
  <1>3. op'.kind = "idle" /\ op'.step = "none" /\ op'.image = None /\ op'.file = None /\ op'.list = {}
    BY OpForms
  <1>4. OpInv' /\ op' \in Op
    BY RestInv
  <1>5. backup' \in [Backup -> BackupRow]
    BY <1>1, <1>2, RecordedForms DEF Whole
  <1>6. /\ backup'[b].status = s /\ backup'[b].file = op.file /\ backup'[b].saved = op.data
        /\ backup'[b].rows = backup[b].rows
        /\ \A c \in Backup \ {b} : backup'[c] = backup[c]
    BY <1>1, <1>2, RecordedForms DEF Whole
  <1>7. /\ b \notin ending
        /\ \A m \in Name \ doubted : /\ RowAgrees(m)
                                     /\ Agrees(op.data.snaps[m], backup[b].rows[m])
    BY <1>1 DEF BackupInv, Exporting, BackupOK, SnapInv, SnapOK, At
  <1>8. TypeOK'
    BY <1>4, <1>5 DEF TypeOK, guest, store, images, history, BackupRow
  <1>9. OwnInv' /\ ImageInv' /\ HeldFilesKept
    <2>1. \A c \in Backup : HeldBy(c)' \subseteq HeldBy(c)
      BY <1>3, <1>6 DEF HeldBy
    <2> QED
      BY <1>3, <2>1, OperationFrame DEF history, Remembers
  <1>10. DiskInv'
    BY <1>1, DiskFrame DEF guest
  <1> HIDE DEF b
  <1>11. BackupInv'
    <2>1. ASSUME NEW c \in Backup PROVE BackupOK(c)'
      <3>1. BackupOK(c) /\ ending' = ending /\ files' = files
        BY DEF BackupInv, history, store
      <3>2. CASE c = b
        BY <1>1, <1>2, <1>6, <1>7, <3>1, <3>2 DEF BackupOK, Whole
      <3>3. CASE c # b
        BY <1>6, <3>1, <3>3 DEF BackupOK, Whole
      <3> QED
        BY <3>2, <3>3
    <2>2. Exporting' /\ Importing'
      BY <1>3 DEF Exporting, Importing, At
    <2> QED
      BY <2>1, <2>2 DEF BackupInv
  <1>12. SnapInv'
    <2>1. \A c \in late' : c[2] \in doubted'
      BY DEF SnapInv, guest, history
    <2>2. ASSUME NEW m \in Name \ doubted PROVE SnapOK(m)'
      <3>1. SnapOK(m) /\ snapRow' = snapRow /\ snaps' = snaps
        BY DEF SnapInv, guest
      <3>2. \A c \in Backup : backup'[c].saved # None => Agrees(backup'[c].saved.snaps[m], backup'[c].rows[m])
        BY <1>6, <1>7, <3>1 DEF SnapOK
      <3> QED
        BY <1>3, <1>7, <3>1, <3>2 DEF SnapOK, At, RowAgrees
    <2> QED
      BY <2>1, <2>2 DEF SnapInv, history
  <1>13. PurgeInv'
    <2>1. ASSUME NEW c \in Backup, backup'[c].status = "deleted" PROVE Removed(c)'
      BY <1>6, <2>1 DEF PurgeInv, Removed, store
    <2>2. row'.there # "gone"
      BY <1>1, Busy
    <2> QED
      BY <1>3, <2>1, <2>2 DEF PurgeInv
  <1> QED
    BY <1>4, <1>8, <1>9, <1>10, <1>11, <1>12, <1>13

LEMMA RecordBackupStep == ASSUME ArtifactsInv, RecordBackup PROVE ArtifactsInv'
  <1> USE DEF ArtifactsInv
  <1>1. /\ op.kind = "backup_create" /\ op.step = "record"
        /\ UNCHANGED <<guest, row, snapRow, image, store, images, history>>
        /\ (backup' = Recorded("available") /\ op' = Idle) \/ (Goes("again") /\ backup' = backup)
    BY DEF RecordBackup, Ends, At
  <1>2. CASE backup' = Recorded("available") /\ op' = Idle
    BY <1>1, <1>2, RecordedStep
  <1>3. CASE Goes("again") /\ backup' = backup
    <2>1. op \in Op /\ "again" \in Steps /\ op # Idle /\ op # Kept /\ ~running /\ op.list = {}
      BY <1>1, OpForms DEF TypeOK, Steps, OpInv, Stopping
    <2>2. /\ op' \in Op /\ op'.step = "again" /\ op'.kind = op.kind /\ op'.of = op.of /\ op'.image = op.image
          /\ op'.read = op.read /\ op'.file = op.file /\ op'.data = op.data /\ op'.list = op.list
      BY <1>3, <2>1, GoesFields
    <2>3. TypeOK'
      BY <1>1, <1>3, <2>2 DEF TypeOK, guest, store, images, history
    <2>4. OpInv'
      <3>1. running' = running
        BY <1>1 DEF guest
      <3> QED
        BY <1>1, <2>1, <2>2, <3>1 DEF OpInv, Stopping
    <2>5. OwnInv' /\ ImageInv' /\ HeldFilesKept
      <3>1. \A c \in Backup : HeldBy(c)' \subseteq HeldBy(c)
        BY <1>3, <2>2 DEF HeldBy
      <3> QED
        BY <1>1, <2>1, <2>2, <3>1, OperationFrame DEF history, Remembers
    <2>6. DiskInv'
      BY <1>1, <2>1, DiskFrame DEF guest
    <2>7. BackupInv'
      <3>1. files' = files /\ ending' = ending
        BY <1>1 DEF store, history
      <3>2. \A c \in Backup : BackupOK(c)'
        BY <1>3, <3>1 DEF BackupInv, BackupOK, Whole
      <3>3. Exporting' /\ Importing'
        BY <1>1, <1>3, <2>2, <3>1 DEF BackupInv, Exporting, Importing, At, Whole
      <3> QED
        BY <3>2, <3>3 DEF BackupInv
    <2>8. SnapInv'
      <3>1. \A c \in late' : c[2] \in doubted'
        BY <1>1 DEF SnapInv, guest, history
      <3>2. ASSUME NEW m \in Name \ doubted PROVE SnapOK(m)'
        <4>1. SnapOK(m) /\ RowAgrees(m) /\ snapRow' = snapRow /\ snaps' = snaps
          BY <1>1, <2>1 DEF SnapInv, SnapOK, At, guest
        <4> QED
          BY <1>1, <1>3, <2>2, <4>1 DEF SnapOK, At, Agrees, RowAgrees
      <3> QED
        BY <1>1, <3>1, <3>2 DEF SnapInv, history
    <2>9. PurgeInv'
      BY <1>1, <1>3, <2>1, <2>2, <2>5, Busy, PurgeFrame
    <2> QED
      BY <2>3, <2>4, <2>5, <2>6, <2>7, <2>8, <2>9
  <1> QED
    BY <1>1, <1>2, <1>3

LEMMA RecordAgainStep == ASSUME ArtifactsInv, RecordAgain PROVE ArtifactsInv'
  <1> USE DEF ArtifactsInv
  <1>1. /\ op.kind = "backup_create" /\ op.step = "again"
        /\ UNCHANGED <<guest, row, snapRow, image, store, images, history>>
        /\ (backup' = Recorded("error") /\ op' = Idle) \/ (op' = Kept /\ backup' = backup)
    BY DEF RecordAgain, Ends, Retains, At
  <1>2. CASE backup' = Recorded("error") /\ op' = Idle
    BY <1>1, <1>2, RecordedStep
  <1>3. CASE op' = Kept /\ backup' = backup
    <2>1. op # Idle /\ op # Kept
      BY <1>1, OpForms
    <2>2. row.there # "gone"
      BY <2>1, Busy
    <2>3. row' \in [there : {"absent", "present"}, image : Image \cup {None}]
      BY <1>1, <2>2 DEF TypeOK
    <2> QED
      BY <1>1, <1>3, <2>3, OpForms, RestInv, QuietStep DEF Remembers
  <1> QED
    BY <1>1, <1>2, <1>3

\* What OpenBackup found is the archive that was exported: a backup whose
\* deletion has begun has no file to be opened.
LEMMA RestoreBackupStep == ASSUME ArtifactsInv, NEW b \in Backup, RestoreBackup(b) PROVE ArtifactsInv'
  <1> USE DEF ArtifactsInv
  <1> DEFINE d == files[backup[b].file]
             r == IF row.image = None THEN NoImage ELSE image[row.image]
  <1>1. /\ op = Idle /\ row.there = "present" /\ ~running
        /\ UNCHANGED <<guest, rows, store, images, history>>
    BY DEF RestoreBackup
  <1>2. op' = [kind |-> "backup_restore", step |-> "call", name |-> None, of |-> b, image |-> row.image, read |-> r,
               file |-> None, data |-> d, list |-> {}]
    BY DEF RestoreBackup, Idle
  <1>3. /\ backup[b].status = "available" /\ backup[b].file # None /\ d # None
        /\ backup[b].file \in File /\ d \in Content
    BY DEF RestoreBackup, OpenBackup, Readable, TypeOK
  <1>4. Whole(d) /\ d = backup[b].saved
    <2>1. BackupOK(b)
      BY DEF BackupInv
    <2>2. d = backup[b].saved
      BY <1>3, <2>1 DEF BackupOK
    <2> QED
      BY <1>3, <2>1, <2>2 DEF BackupOK
  <1>5. row.image \in Image \cup {None} /\ r \in ImageRow /\ (row.image = None => r.file = None)
    BY OpForms DEF TypeOK
  <1>6. "backup_restore" \in Kinds /\ "call" \in Steps /\ {} \in SUBSET File
    BY DEF Kinds, Steps, Stopping
  <1> HIDE DEF d, r
  <1>7. /\ op' \in Op /\ op'.kind = "backup_restore" /\ op'.step = "call" /\ op'.of = b /\ op'.image = row.image
        /\ op'.read = r /\ op'.file = None /\ op'.data = d /\ op'.list = {}
    BY <1>2, <1>3, <1>5, <1>6, NewFields, SMT
  <1>8. TypeOK'
    BY <1>1, <1>7 DEF TypeOK, guest, rows, store, images, history
  <1>9. OpInv'
    <2>1. running' = running
      BY <1>1 DEF guest
    <2> QED
      BY <1>1, <1>5, <1>7, <2>1 DEF OpInv, Stopping
  <1>10. OwnInv' /\ ImageInv' /\ HeldFilesKept
    <2>1. \A c \in Backup : HeldBy(c)' \subseteq HeldBy(c)
      BY <1>1, <1>7 DEF HeldBy, rows
    <2> QED
      BY <1>1, <1>7, <1>5, <2>1, OperationFrame DEF rows, history, Remembers, r
  <1>11. DiskInv'
    BY <1>1, OpForms, DiskFrame DEF guest
  <1>12. BackupInv'
    <2>1. backup' = backup /\ files' = files /\ ending' = ending
      BY <1>1 DEF rows, store, history
    <2>2. \A c \in Backup : BackupOK(c)'
      BY <2>1 DEF BackupInv, BackupOK, Whole
    <2>3. Exporting' /\ Importing'
      BY <1>4, <1>7, <2>1 DEF Exporting, Importing, At, Whole
    <2> QED
      BY <2>2, <2>3 DEF BackupInv
  <1>13. SnapInv'
    BY <1>1, <1>7, OpForms, SnapFrame DEF guest, rows, history, At
  <1>14. PurgeInv'
    BY <1>1, <1>7, <1>10, PurgeFrame DEF rows
  <1> QED
    BY <1>7, <1>8, <1>9, <1>10, <1>11, <1>12, <1>13, <1>14

LEMMA DeleteBackupStep == ASSUME ArtifactsInv, NEW b \in Backup, DeleteBackup(b) PROVE ArtifactsInv'
  <1> USE DEF ArtifactsInv
  <1> DEFINE l == {backup[b].file} \ {None}
  <1>1. /\ op = Idle /\ row.there = "present"
        /\ UNCHANGED <<guest, rows, store, images, history>>
    BY DEF DeleteBackup
  <1>2. op' = [kind |-> "backup_delete", step |-> "files", name |-> None, of |-> b, image |-> None, read |-> NoImage,
               file |-> None, data |-> None, list |-> l]
    BY DEF DeleteBackup, Idle
  <1>3. /\ "backup_delete" \in Kinds /\ "files" \in Steps /\ l \in SUBSET File /\ NoImage \in ImageRow
        /\ None \in Content
    BY OpForms DEF Kinds, Steps, TypeOK, Content
  <1>4. \A f \in l : f = backup[b].file
    OBVIOUS
  <1>5. Removed(b) \/ backup[b].file \in l
    BY DEF Removed
  <1> HIDE DEF l
  <1>6. /\ op' \in Op /\ op'.kind = "backup_delete" /\ op'.step = "files" /\ op'.of = b /\ op'.image = None
        /\ op'.read = NoImage /\ op'.file = None /\ op'.data = None /\ op'.list = l
    BY <1>2, <1>3, NewFields, SMT
  <1>7. TypeOK'
    BY <1>1, <1>6 DEF TypeOK, guest, rows, store, images, history
  <1>8. OpInv'
    BY <1>6, OpForms DEF OpInv, Stopping
  <1>9. OwnInv' /\ ImageInv' /\ HeldFilesKept
    <2>1. \A c \in Backup : HeldBy(c)' \subseteq HeldBy(c)
      BY <1>1, <1>6 DEF HeldBy, rows
    <2> QED
      BY <1>1, <1>4, <1>6, <2>1, OperationFrame DEF rows, history, Remembers
  <1>10. DiskInv'
    BY <1>1, OpForms, DiskFrame DEF guest
  <1>11. BackupInv'
    BY <1>1, <1>6, <1>9, BackupFrame DEF rows, history
  <1>12. SnapInv'
    BY <1>1, <1>6, OpForms, SnapFrame DEF guest, rows, history, At
  <1>13. PurgeInv'
    <2>1. backup' = backup /\ files' = files /\ row' = row
      BY <1>1 DEF rows, store
    <2> QED
      BY <1>1, <1>5, <1>6, <2>1 DEF PurgeInv, Removed
  <1> QED
    BY <1>6, <1>7, <1>8, <1>9, <1>10, <1>11, <1>12, <1>13

\* The backups that name the file are those whose deletion has begun.
LEMMA RemoveFileStep == ASSUME ArtifactsInv, NEW f \in File, RemoveFile(f) PROVE ArtifactsInv'
  <1> USE DEF ArtifactsInv
  <1>1. /\ op.step = "files" /\ f \in op.list
        /\ UNCHANGED <<guest, rows, drawn, images, revived, doubted>>
    BY DEF RemoveFile
  <1>2. \/ /\ files' = [files EXCEPT ![f] = None] /\ op' = [op EXCEPT !.list = @ \ {f}]
           /\ ending' = ending \cup {b \in Backup : backup[b].file = f}
        \/ op' = Idle /\ files' = files /\ ending' = ending
    BY DEF RemoveFile, Ends
  <1>3. /\ op \in Op /\ op.kind \in {"backup_delete", "purge"} /\ op # Idle /\ op # Kept
        /\ row.there # "gone"
    BY <1>1, OpForms, OpFields, Busy DEF TypeOK, OpInv, Kinds, Stopping
  <1>4. row' \in [there : {"absent", "present"}, image : Image \cup {None}]
    BY <1>1, <1>3 DEF TypeOK, rows
  <1>5. CASE op' = Idle /\ files' = files /\ ending' = ending
    BY <1>1, <1>3, <1>4, <1>5, OpForms, RestInv, QuietStep DEF Remembers, rows, store, history, At
  <1>6. CASE /\ files' = [files EXCEPT ![f] = None] /\ op' = [op EXCEPT !.list = @ \ {f}]
             /\ ending' = ending \cup {b \in Backup : backup[b].file = f}
    <2>1. /\ op' \in Op /\ op'.step = "files" /\ op'.kind = op.kind /\ op'.of = op.of /\ op'.image = op.image
          /\ op'.read = op.read /\ op'.file = op.file /\ op'.list = op.list \ {f} /\ op'.name = op.name
      BY <1>1, <1>3, <1>6 DEF Op
    <2>2. PICK b \in Backup : backup[b].file = f
      BY <1>1 DEF OwnInv
    <2>3. f \in HeldBy(b) /\ f # None
      BY <2>2, ArtifactsAssumption DEF HeldBy
    <2>4. ImageFilesKept
      BY <1>6, <2>3, HeldFileChanged
    <2>5. /\ files' \in [File -> Content] /\ files'[f] = None
          /\ \A x \in File : x # f => files'[x] = files[x]
      BY <1>6 DEF TypeOK, Content
    <2>6. backup' = backup /\ \A c \in Backup : backup[c].file \in File \cup {None}
      BY <1>1 DEF rows, TypeOK
    <2>7. TypeOK'
      BY <1>1, <1>6, <2>1, <2>5 DEF TypeOK, guest, rows, images
    <2>8. OpInv'
      <3>1. running' = running
        BY <1>1 DEF guest
      <3> QED
        BY <1>1, <1>3, <2>1, <3>1 DEF OpInv, Stopping
    <2>9. ImageInv'
      BY <1>1, <2>1, <2>4, ArtifactsAssumption, ImageFrame DEF rows, images, Remembers
    <2>10. OwnInv'
      <3>1. \A c \in Backup : HeldBy(c)' \subseteq HeldBy(c)
        BY <2>1, <2>6 DEF HeldBy
      <3>2. \A g \in Image : NamedBy(g)' \subseteq NamedBy(g) /\ SavedBy(g)' \subseteq SavedBy(g)
        BY <1>1, <2>1 DEF NamedBy, SavedBy, rows, images
      <3>3. \A x \in op'.list : \E c \in Backup : backup'[c].file = x
        BY <2>1, <2>6 DEF OwnInv
      <3> QED
        BY <1>1, <3>1, <3>2, <3>3, OwnShrinks
    <2>11. DiskInv'
      BY <1>1, <1>3, DiskFrame DEF guest
    <2>12. BackupInv'
      <3>1. ASSUME NEW c \in Backup PROVE BackupOK(c)'
        <4>1. BackupOK(c)
          BY DEF BackupInv
        <4>2. CASE backup[c].file = f
          BY <1>6, <2>3, <2>5, <2>6, <4>1, <4>2 DEF BackupOK, Whole
        <4>3. CASE backup[c].file # f
          BY <1>6, <2>5, <2>6, <4>1, <4>3 DEF BackupOK, Whole
        <4> QED
          BY <4>2, <4>3
      <3>2. Exporting' /\ Importing'
        BY <1>3, <2>1 DEF Exporting, Importing, At
      <3> QED
        BY <3>1, <3>2 DEF BackupInv
    <2>13. SnapInv'
      BY <1>1, <1>3, <2>1, SnapFrame DEF guest, rows, At
    <2>14. PurgeInv'
      <3>1. \A c \in Backup : Removed(c) \/ backup[c].file = f => Removed(c)'
        BY <2>5, <2>6 DEF Removed
      <3>2. row'.there # "gone"
        BY <1>4
      <3> QED
        BY <1>1, <2>1, <2>6, <3>1, <3>2 DEF PurgeInv
    <2> QED
      BY <2>7, <2>8, <2>9, <2>10, <2>11, <2>12, <2>13, <2>14
  <1> QED
    BY <1>2, <1>5, <1>6

\* Rows of backups that have no file can be marked deleted.
LEMMA DeletedStep ==
    ASSUME ArtifactsInv, op.step = "files", op' = Idle,
           UNCHANGED <<guest, image, store, images, history>>,
           row' \in [there : {"absent", "present", "gone"}, image : Image \cup {None}],
           row'.there = "gone" => \A b \in Backup : Removed(b),
           snapRow' \in [Name -> [status : {"none", "creating", "available", "error"}, disk : Disk]],
           \A n \in Name : snapRow'[n] = snapRow[n] \/ snapRow'[n].status = "none",
           backup' \in [Backup -> BackupRow],
           \A b \in Backup : \/ backup'[b] = backup[b]
                             \/ /\ Removed(b) /\ backup'[b].status = "deleted" /\ backup'[b].file = backup[b].file
                                /\ backup'[b].saved = backup[b].saved /\ backup'[b].rows = backup[b].rows
    PROVE  ArtifactsInv'
  <1> USE DEF ArtifactsInv
  <1>1. /\ op.kind \in {"backup_delete", "purge"} /\ op # Idle /\ op # Kept
        /\ row.there # "gone"
    BY OpForms, OpFields, Busy DEF TypeOK, OpInv, Kinds, Stopping
  <1>2. op'.kind = "idle" /\ op'.step = "none" /\ op'.image = None /\ op'.file = None /\ op'.list = {}
    BY OpForms
  <1>3. OpInv' /\ op' \in Op
    BY RestInv
  <1>4. TypeOK'
    BY <1>3 DEF TypeOK, guest, store, images, history, BackupRow
  <1>5. \A b \in Backup : backup'[b].file = backup[b].file /\ backup'[b].saved = backup[b].saved
                          /\ backup'[b].rows = backup[b].rows
                          /\ (backup'[b].status = backup[b].status \/ (backup'[b].status = "deleted" /\ Removed(b)))
    OBVIOUS
  <1>6. OwnInv' /\ ImageInv'
    <2>1. \A c \in Backup : HeldBy(c)' \subseteq HeldBy(c)
      BY <1>2, <1>5 DEF HeldBy
    <2> QED
      BY <1>2, <2>1, OperationFrame DEF history, Remembers
  <1>7. DiskInv'
    BY <1>1, DiskFrame DEF guest
  <1>8. BackupInv'
    <2>1. ASSUME NEW c \in Backup PROVE BackupOK(c)'
      <3>1. BackupOK(c) /\ files' = files /\ ending' = ending
        BY DEF BackupInv, store, history
      <3>2. /\ backup'[c].file = backup[c].file /\ backup'[c].saved = backup[c].saved
            /\ backup'[c].status = backup[c].status \/ backup'[c].status = "deleted"
        BY <1>5
      <3> QED
        BY <3>1, <3>2 DEF BackupOK, Whole
    <2>2. Exporting' /\ Importing'
      BY <1>2 DEF Exporting, Importing, At
    <2> QED
      BY <2>1, <2>2 DEF BackupInv
  <1>9. SnapInv'
    <2>1. \A c \in late' : c[2] \in doubted'
      BY DEF SnapInv, guest, history
    <2>2. ASSUME NEW m \in Name \ doubted PROVE SnapOK(m)'
      <3>1. SnapOK(m) /\ RowAgrees(m) /\ snaps' = snaps
        BY <1>1 DEF SnapInv, SnapOK, At, guest
      <3>2. \A c \in Backup : backup'[c].saved = backup[c].saved /\ backup'[c].rows = backup[c].rows
        BY <1>5
      <3>3. snapRow'[m] = snapRow[m] \/ snapRow'[m].status = "none"
        OBVIOUS
      <3>4. RowAgrees(m)'
        BY <3>1, <3>3 DEF RowAgrees
      <3>5. \A c \in Backup : backup'[c].saved # None => Agrees(backup'[c].saved.snaps[m], backup'[c].rows[m])
        BY <3>1, <3>2 DEF SnapOK
      <3> QED
        BY <1>2, <3>4, <3>5 DEF SnapOK, At
    <2> QED
      BY <2>1, <2>2 DEF SnapInv, history
  <1>10. PurgeInv'
    <2>1. \A c \in Backup : Removed(c) => Removed(c)'
      BY <1>5 DEF Removed, store
    <2>2. \A c \in Backup : backup'[c].status = "deleted" => Removed(c)
      BY <1>5 DEF PurgeInv
    <2> QED
      BY <1>2, <2>1, <2>2 DEF PurgeInv
  <1> QED
    BY <1>3, <1>4, <1>6, <1>7, <1>8, <1>9, <1>10

LEMMA DropBackupStep == ASSUME ArtifactsInv, DropBackup PROVE ArtifactsInv'
  <1> USE DEF ArtifactsInv
  <1> DEFINE b == op.of
  <1>1. /\ op.kind = "backup_delete" /\ op.step = "files" /\ op.list = {} /\ op' = Idle
        /\ backup' = backup \/ backup' = [backup EXCEPT ![b].status = "deleted"]
        /\ UNCHANGED <<guest, row, snapRow, image, store, images, history>>
    BY DEF DropBackup, Ends, At
  <1>2. b \in Backup /\ Removed(b)
    BY <1>1 DEF OpInv, PurgeInv
  <1>3. row.there # "gone"
    BY <1>1, OpForms, Busy
  <1>4. backup \in [Backup -> BackupRow] /\ [backup[b] EXCEPT !.status = "deleted"] \in BackupRow
    <2>1. backup \in [Backup -> BackupRow]
      BY DEF TypeOK, BackupRow
    <2>2. backup[b] \in BackupRow
      BY <1>2, <2>1
    <2> QED
      BY <2>1, <2>2 DEF BackupRow
  <1> HIDE DEF b
  <1>5. backup' \in [Backup -> BackupRow]
    BY <1>1, <1>2, <1>4
  <1>6. \A c \in Backup : \/ backup'[c] = backup[c]
                          \/ /\ Removed(c) /\ backup'[c].status = "deleted" /\ backup'[c].file = backup[c].file
                             /\ backup'[c].saved = backup[c].saved /\ backup'[c].rows = backup[c].rows
    BY <1>1, <1>2, <1>4 DEF BackupRow
  <1>7. /\ row' \in [there : {"absent", "present", "gone"}, image : Image \cup {None}] /\ row'.there # "gone"
        /\ snapRow' \in [Name -> [status : {"none", "creating", "available", "error"}, disk : Disk]]
        /\ snapRow' = snapRow
    BY <1>1, <1>3 DEF TypeOK
  <1> QED
    BY <1>1, <1>5, <1>6, <1>7, DeletedStep

-----------------------------------------------------------------------------
(* Purging *)

LEMMA PurgeCallStep == ASSUME ArtifactsInv, PurgeCall PROVE ArtifactsInv'
  <1> USE DEF ArtifactsInv
  <1>1. /\ op.kind = "purge" /\ op.step = "call" /\ (Goes("list") \/ op' = Idle)
        /\ disk' \in {disk, NoDisk} /\ snaps' \in {snaps, Untaken}
        /\ running' = FALSE \/ running' = running
        /\ UNCHANGED <<written, late, rows, store, images, history>>
    BY DEF PurgeCall, Ends, At
  <1>2. op \in Op /\ "list" \in Steps /\ op # Idle /\ op # Kept /\ op.list = {} /\ op.file = None
    BY <1>1, OpForms DEF TypeOK, Steps, OpInv
  <1>3. /\ op' \in Op /\ op'.list = {} /\ op'.file = None
        /\ op'.kind \in {"purge", "idle"} /\ op'.step \in {"list", "none"}
        /\ OpInv' /\ Remembers
    <2>1. CASE Goes("list")
      <3>1. /\ op' \in Op /\ op'.step = "list" /\ op'.kind = op.kind /\ op'.image = op.image /\ op'.read = op.read
            /\ op'.file = op.file /\ op'.list = op.list
        BY <1>2, <2>1, GoesFields
      <3> QED
        BY <1>1, <1>2, <3>1 DEF OpInv, Stopping, Remembers
    <2>2. CASE op' = Idle
      BY <2>2, OpForms, RestInv DEF Remembers
    <2> QED
      BY <1>1, <2>1, <2>2
  <1>4. TypeOK'
    <2>1. disk' \in Disk /\ snaps' \in Taken /\ running' \in BOOLEAN
      BY <1>1, UntakenForms DEF TypeOK, Disk
    <2> QED
      BY <1>1, <1>3, <2>1 DEF TypeOK, rows, store, images, history
  <1>5. OwnInv' /\ ImageInv' /\ HeldFilesKept
    <2>1. \A c \in Backup : HeldBy(c)' \subseteq HeldBy(c)
      BY <1>1, <1>3 DEF HeldBy, rows
    <2> QED
      BY <1>1, <1>3, <2>1, OperationFrame DEF rows, history
  <1>6. DiskInv'
    BY <1>1, <1>2, UntakenForms, ArtifactsAssumption DEF DiskInv
  <1>7. BackupInv'
    BY <1>1, <1>3, <1>5, BackupFrame DEF rows, history
  <1>8. SnapInv'
    <2>1. \A c \in late' : c[2] \in doubted'
      BY <1>1 DEF SnapInv, history
    <2>2. ASSUME NEW m \in Name \ doubted PROVE SnapOK(m)'
      <3>1. SnapOK(m) /\ RowAgrees(m) /\ snapRow' = snapRow /\ backup' = backup
        BY <1>1, <1>2 DEF SnapInv, SnapOK, At, rows
      <3>2. RowAgrees(m)'
        BY <1>1, <3>1, UntakenForms DEF RowAgrees
      <3> QED
        BY <1>3, <3>1, <3>2 DEF SnapOK, At, Agrees
    <2> QED
      BY <1>1, <2>1, <2>2 DEF SnapInv, history
  <1>9. PurgeInv'
    BY <1>1, <1>2, <1>3, <1>5, Busy, PurgeFrame DEF rows
  <1> QED
    BY <1>3, <1>4, <1>5, <1>6, <1>7, <1>8, <1>9

\* The list has the files of all backups that are not deleted, whatever their
\* status.
LEMMA PurgeListStep == ASSUME ArtifactsInv, PurgeList PROVE ArtifactsInv'
  <1> USE DEF ArtifactsInv
  <1> DEFINE l == {backup[b].file : b \in {c \in Backup : backup[c].status # "deleted"}} \ {None}
  <1>1. /\ op.kind = "purge" /\ op.step = "list"
        /\ UNCHANGED <<guest, row, snapRow, backup, store, images, doubted, ending>>
        /\ \/ WritesBack /\ op' = [op EXCEPT !.step = "files", !.list = l]
           \/ op' = Idle /\ image' = image /\ revived' = revived
    BY DEF PurgeList, Ends, At
  <1>2. op \in Op /\ op # Idle /\ op # Kept /\ row.there # "gone"
    BY <1>1, OpForms, Busy DEF TypeOK
  <1>3. row' \in [there : {"absent", "present"}, image : Image \cup {None}]
    BY <1>1, <1>2 DEF TypeOK
  <1>4. CASE op' = Idle /\ image' = image /\ revived' = revived
    BY <1>1, <1>2, <1>3, <1>4, OpForms, RestInv, QuietStep DEF Remembers, history, At
  <1>5. CASE WritesBack /\ op' = [op EXCEPT !.step = "files", !.list = l]
    <2>1. l \in SUBSET File /\ \A f \in l : \E b \in Backup : backup[b].file = f
      BY DEF TypeOK
    <2>2. \A b \in Backup : backup[b].status # "deleted" => Removed(b) \/ backup[b].file \in l
      BY DEF Removed
    <2> HIDE DEF l
    <2>3. /\ op' \in Op /\ op'.step = "files" /\ op'.kind = "purge" /\ op'.of = op.of /\ op'.image = op.image
          /\ op'.read = op.read /\ op'.file = op.file /\ op'.list = l
      BY <1>1, <1>2, <1>5, <2>1 DEF Op
    <2>4. /\ ImageInv' /\ image' \in [Image -> ImageRow] /\ revived' \subseteq Image
          /\ \A g \in Image : NamedBy(g)' \subseteq NamedBy(g) /\ SavedBy(g)' \subseteq SavedBy(g)
      BY <1>1, <1>5, <2>3, WritesBackFrame
    <2>5. TypeOK'
      BY <1>1, <2>3, <2>4 DEF TypeOK, guest, store, images
    <2>6. OpInv'
      BY <1>1, <2>3 DEF OpInv, Stopping
    <2>7. OwnInv' /\ HeldFilesKept
      <3>1. \A c \in Backup : HeldBy(c)' \subseteq HeldBy(c)
        BY <1>1, <2>3 DEF HeldBy
      <3> QED
        BY <1>1, <2>1, <2>3, <2>4, <3>1, OwnShrinks DEF store, HeldFilesKept
    <2>8. DiskInv'
      BY <1>1, <1>2, DiskFrame DEF guest
    <2>9. BackupInv'
      BY <1>1, <2>3, <2>7, BackupFrame
    <2>10. SnapInv'
      BY <1>1, <1>2, <2>3, SnapFrame DEF guest, At
    <2>11. PurgeInv'
      <3>1. backup' = backup /\ files' = files /\ row'.there # "gone"
        BY <1>1, <1>2 DEF store
      <3> QED
        BY <2>2, <2>3, <3>1 DEF PurgeInv, Removed
    <2> QED
      BY <2>4, <2>5, <2>6, <2>7, <2>8, <2>9, <2>10, <2>11
  <1> QED
    BY <1>1, <1>4, <1>5

LEMMA PurgeRowsStep == ASSUME ArtifactsInv, PurgeRows PROVE ArtifactsInv'
  <1> USE DEF ArtifactsInv
  <1>1. /\ op.kind = "purge" /\ op.step = "files" /\ op.list = {} /\ op' = Idle
        /\ UNCHANGED <<guest, image, store, images, history>>
        /\ \/ /\ row' = [there |-> "gone", image |-> None]
              /\ snapRow' = [n \in Name |-> NoSnapshot]
              /\ backup' = [b \in Backup |-> IF backup[b] = NoBackup THEN NoBackup
                                               ELSE [backup[b] EXCEPT !.status = "deleted"]]
           \/ UNCHANGED <<row, snapRow, backup>>
    BY DEF PurgeRows, Ends, At
  <1>2. \A b \in Backup : Removed(b)
    BY <1>1 DEF PurgeInv
  <1>3. backup \in [Backup -> BackupRow]
    BY DEF TypeOK, BackupRow
  <1>4. \A b \in Backup : /\ [backup[b] EXCEPT !.status = "deleted"] \in BackupRow
                          /\ [backup[b] EXCEPT !.status = "deleted"].status = "deleted"
                          /\ [backup[b] EXCEPT !.status = "deleted"].file = backup[b].file
                          /\ [backup[b] EXCEPT !.status = "deleted"].saved = backup[b].saved
                          /\ [backup[b] EXCEPT !.status = "deleted"].rows = backup[b].rows
    BY <1>3 DEF BackupRow
  <1>5. backup' \in [Backup -> BackupRow]
    BY <1>1, <1>3, <1>4
  <1>6. ASSUME NEW b \in Backup
        PROVE  \/ backup'[b] = backup[b]
               \/ /\ Removed(b) /\ backup'[b].status = "deleted" /\ backup'[b].file = backup[b].file
                  /\ backup'[b].saved = backup[b].saved /\ backup'[b].rows = backup[b].rows
    <2>1. backup'[b] = backup[b] \/ backup'[b] = [backup[b] EXCEPT !.status = "deleted"]
      BY <1>1
    <2> QED
      BY <1>2, <1>4, <2>1
  <1>7. row' \in [there : {"absent", "present", "gone"}, image : Image \cup {None}]
    BY <1>1 DEF TypeOK
  <1>8. /\ snapRow' \in [Name -> [status : {"none", "creating", "available", "error"}, disk : Disk]]
        /\ \A n \in Name : snapRow'[n] = snapRow[n] \/ snapRow'[n].status = "none"
    <2>1. /\ NoSnapshot.status = "none"
          /\ NoSnapshot \in [status : {"none", "creating", "available", "error"}, disk : Disk]
      BY DEF NoSnapshot, Disk
    <2> QED
      BY <1>1, <2>1 DEF TypeOK
  <1> QED
    BY <1>1, <1>2, <1>5, <1>6, <1>7, <1>8, DeletedStep

-----------------------------------------------------------------------------
(* Restarts and recovery by hand *)

LEMMA CrashStep == ASSUME ArtifactsInv, Crash PROVE ArtifactsInv'
  <1> USE DEF ArtifactsInv
  <1>1. /\ op' = (IF op.kind = "idle" \/ op.step = "insert" THEN Idle ELSE Kept)
        /\ save' = [g \in Image |-> Still] /\ drop' = [g \in Image |-> Still]
        /\ UNCHANGED <<guest, rows, store, history>>
    BY DEF Crash
  <1>2. /\ op' \in {Idle, Kept} /\ op'.kind \in {"idle", "kept"} /\ op'.step = "none" /\ op'.image = None
        /\ op'.file = None /\ op'.list = {}
    BY <1>1, OpForms
  <1>3. op' = op \/ op' = Kept \/ (op.step = "insert" /\ op # Idle /\ op # Kept /\ ~At("backup_restore", "store"))
    BY <1>1, OpForms DEF OpInv, At
  <1>4. OpInv' /\ op' \in Op
    BY <1>2, RestInv
  <1>5. TypeOK'
    BY <1>1, <1>4 DEF TypeOK, guest, rows, store, history, Still
  <1>6. /\ \A g \in Image : NamedBy(g)' \subseteq NamedBy(g) /\ SavedBy(g)' = {}
        /\ \A b \in Backup : HeldBy(b)' \subseteq HeldBy(b)
    BY <1>1, <1>2, ArtifactsAssumption DEF NamedBy, SavedBy, HeldBy, rows, Still
  <1>7. OwnInv' /\ HeldFilesKept
    BY <1>1, <1>2, <1>6, OwnShrinks DEF store, HeldFilesKept
  <1>8. ImageInv'
    <2>1. ASSUME NEW g \in Image PROVE ImageOK(g)'
      <3>1. ImageOK(g) /\ files' = files /\ image' = image /\ revived' = revived
        BY <1>1 DEF ImageInv, store, rows, history
      <3>2. save'[g].step = "none" /\ drop'[g].step = "none"
        BY <1>1 DEF Still
      <3> QED
        BY <1>6, <3>1, <3>2 DEF ImageOK
    <2> QED
      BY <2>1 DEF ImageInv
  <1>9. DiskInv'
    BY <1>1, <1>3, DiskFrame DEF guest
  <1>10. BackupInv'
    BY <1>1, <1>2, <1>7, BackupFrame DEF rows, history
  <1>11. SnapInv'
    BY <1>1, <1>2, <1>3, SnapFrame DEF guest, rows, history
  <1>12. PurgeInv'
    <2>1. row.there = "gone" => op = Idle /\ op' = op
      BY <1>1, OpForms DEF PurgeInv
    <2> QED
      BY <1>1, <1>2, <1>7, <2>1, PurgeFrame DEF rows
  <1> QED
    BY <1>4, <1>5, <1>7, <1>8, <1>9, <1>10, <1>11, <1>12

LEMMA OperatorClearsStep == ASSUME ArtifactsInv, OperatorClears PROVE ArtifactsInv'
  <1> USE DEF ArtifactsInv
  <1>1. /\ op = Kept /\ op' = Idle /\ disk' = (IF disk = Part THEN Fresh ELSE disk) /\ doubted' = Name
        /\ UNCHANGED <<running, snaps, written, late, rows, store, images, revived, ending>>
    BY DEF OperatorClears
  <1>2. op'.kind = "idle" /\ op'.step = "none" /\ op'.image = None /\ op'.file = None /\ op'.list = {}
    BY <1>1, OpForms
  <1>3. OpInv' /\ op' \in Op
    BY <1>1, RestInv
  <1>4. TypeOK'
    <2>1. disk' \in Disk
      BY <1>1 DEF TypeOK, Disk
    <2> QED
      BY <1>1, <1>3, <2>1 DEF TypeOK, rows, store, images
  <1>5. OwnInv' /\ ImageInv' /\ HeldFilesKept
    <2>1. \A c \in Backup : HeldBy(c)' \subseteq HeldBy(c)
      BY <1>1, <1>2 DEF HeldBy, rows
    <2> QED
      BY <1>1, <1>2, <2>1, OperationFrame DEF rows, Remembers
  <1>6. DiskInv'
    BY <1>1, ArtifactsAssumption DEF DiskInv
  <1>7. BackupInv'
    BY <1>1, <1>2, <1>5, BackupFrame DEF rows
  <1>8. SnapInv'
    BY <1>1 DEF SnapInv, TypeOK
  <1>9. PurgeInv'
    BY <1>1, <1>2, <1>5, OpForms, Busy, PurgeFrame DEF rows
  <1> QED
    BY <1>3, <1>4, <1>5, <1>6, <1>7, <1>8, <1>9

-----------------------------------------------------------------------------
(* The theorems *)

LEMMA InitInv == Init => ArtifactsInv
  <1> SUFFICES ASSUME Init PROVE ArtifactsInv
    OBVIOUS
  <1> USE DEF Init
  <1>1. /\ op = Idle /\ op \in Op /\ op.kind = "idle" /\ op.step = "none" /\ op.image = None /\ op.file = None
        /\ op.list = {} /\ op # Kept
    BY OpForms
  <1>2. TypeOK
    <2>1. snaps \in Taken /\ disk \in Disk
      BY UntakenForms DEF Disk
    <2>2. snapRow \in [Name -> [status : {"none", "creating", "available", "error"}, disk : Disk]]
      BY DEF NoSnapshot, Disk
    <2>3. backup \in [Backup -> BackupRow]
      BY UntakenForms DEF NoBackup, BackupRow
    <2>4. image \in [Image -> ImageRow]
      BY OpForms
    <2>5. files \in [File -> Content]
      BY DEF Content
    <2>6. save \in [Image -> [step : {"none", "up", "insert", "down", "update", "fail"}, file : File \cup {None}]]
      BY DEF Still
    <2>7. drop \in [Image -> [step : {"none", "row", "file"}, file : File \cup {None}]]
      BY DEF Still
    <2>8. written \in 0..MaxWrite
      BY ArtifactsAssumption
    <2>9. row \in [there : {"absent", "present", "gone"}, image : Image \cup {None}]
      OBVIOUS
    <2> HIDE DEF Init
    <2>10. /\ drawn \subseteq File /\ revived \subseteq Image /\ doubted \subseteq Name /\ ending \subseteq Backup
           /\ late \subseteq {"create", "delete"} \X Name /\ running \in BOOLEAN
      BY DEF Init
    <2> QED
      BY <1>1, <2>1, <2>2, <2>3, <2>4, <2>5, <2>6, <2>7, <2>8, <2>9, <2>10 DEF TypeOK, BackupRow
  <1>3. OpInv
    BY OpForms DEF OpInv, Stopping
  <1>4. \A g \in Image : NamedBy(g) = {} /\ SavedBy(g) = {}
    BY <1>1, ArtifactsAssumption DEF NamedBy, SavedBy, Still, NoImage
  <1>5. \A b \in Backup : HeldBy(b) = {}
    BY <1>1 DEF HeldBy, NoBackup
  <1>6. OwnInv
    BY <1>1, <1>4, <1>5 DEF OwnInv
  <1>7. ImageInv
    BY <1>4 DEF ImageInv, ImageOK, Still, NoImage
  <1>8. DiskInv
    BY UntakenForms, ArtifactsAssumption DEF DiskInv
  <1>9. BackupInv
    BY <1>1 DEF BackupInv, BackupOK, Exporting, Importing, At, NoBackup
  <1>10. SnapInv
    BY <1>1, UntakenForms DEF SnapInv, SnapOK, At, RowAgrees, NoBackup, NoSnapshot
  <1>11. PurgeInv
    BY <1>1 DEF PurgeInv, Removed, NoBackup
  <1> QED
    BY <1>2, <1>3, <1>6, <1>7, <1>8, <1>9, <1>10, <1>11 DEF ArtifactsInv

LEMMA NextInv == ASSUME ArtifactsInv, [Next]_vars PROVE ArtifactsInv'
  <1>1. ASSUME NEW g \in Image, NEW f \in File, BeginUpload(g, f) \/ BeginDownload(g, f) PROVE ArtifactsInv'
    BY <1>1, BeginSaveStep
  <1>2. ASSUME NEW g \in Image,
               \/ SaveUpload(g) \/ DownloadTo(g) \/ InsertImage(g) \/ FinishDownload(g) \/ FailDownload(g)
               \/ DeleteImage(g) \/ DeleteImageRow(g) \/ DeleteImageFile(g) \/ ChooseImage(g) \/ SelectImage(g)
        PROVE  ArtifactsInv'
    BY <1>2, SaveEndsStep, InsertImageStep, FinishDownloadStep, FailDownloadStep, DeleteImageStep,
       DeleteImageRowStep, DeleteImageFileStep, ChooseImageStep, SelectImageStep
  <1>3. ASSUME GuestStarts \/ GuestStops \/ GuestWrites PROVE ArtifactsInv'
    BY <1>3, GuestStep
  <1>4. ASSUME FailsBeforeCall \/ InsertInstance \/ KeepImage \/ OpenImage PROVE ArtifactsInv'
    BY <1>4, FailsBeforeCallStep, InsertInstanceStep, KeepImageStep, OpenImageStep
  <1>5. ASSUME Reinstall PROVE ArtifactsInv'
    BY <1>5, BeginQuietStep DEF Reinstall
  <1>6. ASSUME ReplaceDisk \/ ReplaceFails \/ StoreDisk \/ StoreDiskFails PROVE ArtifactsInv'
    BY <1>6, ReplaceDiskStep, ReplaceFailsStep, StoreDiskStep, StoreDiskFailsStep
  <1>7. ASSUME NEW n \in Name, CreateSnapshot(n) \/ RestoreSnapshot(n) \/ DeleteSnapshot(n) PROVE ArtifactsInv'
    <2>1. CASE CreateSnapshot(n)
      BY <2>1, CreateSnapshotStep
    <2>2. CASE RestoreSnapshot(n)
      BY <2>2, BeginQuietStep DEF RestoreSnapshot
    <2>3. CASE DeleteSnapshot(n)
      BY <2>3, BeginQuietStep DEF DeleteSnapshot
    <2> QED
      BY <1>7, <2>1, <2>2, <2>3
  <1>8. ASSUME SnapshotTaken \/ SnapshotRemoved \/ SnapshotCallFails \/ StoreSnapshot \/ NodeLate
        PROVE  ArtifactsInv'
    BY <1>8, SnapshotTakenStep, SnapshotRemovedStep, SnapshotCallFailsStep, StoreSnapshotStep, NodeLateStep
  <1>9. ASSUME NEW b \in Backup, CreateBackup(b) \/ RestoreBackup(b) \/ DeleteBackup(b) PROVE ArtifactsInv'
    BY <1>9, CreateBackupStep, RestoreBackupStep, DeleteBackupStep
  <1>10. ASSUME NEW f \in File, Export(f) \/ RemoveFile(f) PROVE ArtifactsInv'
    BY <1>10, ExportStep, RemoveFileStep
  <1>11. ASSUME ExportFails \/ SaveArchive \/ SaveArchiveFails \/ RecordBackup \/ RecordAgain \/ DropBackup
         PROVE  ArtifactsInv'
    BY <1>11, FailBackupStep, SaveArchiveStep, RecordBackupStep, RecordAgainStep, DropBackupStep
  <1>12. ASSUME PurgeInstance PROVE ArtifactsInv'
    BY <1>12, BeginQuietStep DEF PurgeInstance
  <1>13. ASSUME PurgeCall \/ PurgeList \/ PurgeRows PROVE ArtifactsInv'
    BY <1>13, PurgeCallStep, PurgeListStep, PurgeRowsStep
  <1>14. ASSUME Crash \/ OperatorClears PROVE ArtifactsInv'
    BY <1>14, CrashStep, OperatorClearsStep
  <1>15. ASSUME UNCHANGED vars PROVE ArtifactsInv'
    <2> USE <1>15 DEF vars, guest, rows, store, images, history, ArtifactsInv
    <2>1. TypeOK' /\ OpInv' /\ DiskInv'
      BY DEF TypeOK, OpInv, DiskInv
    <2>2. OwnInv' /\ ImageInv' /\ HeldFilesKept
      <3>1. \A c \in Backup : HeldBy(c)' \subseteq HeldBy(c)
        BY DEF HeldBy
      <3>2. \A f \in op'.list : \E c \in Backup : backup'[c].file = f
        BY DEF OwnInv
      <3> QED
        BY <3>1, <3>2, OperationFrame DEF Remembers
    <2>3. BackupInv' /\ SnapInv' /\ PurgeInv'
      BY <2>2, BackupFrame, SnapFrame, PurgeFrame
    <2> QED
      BY <2>1, <2>2, <2>3
  <1> QED
    BY <1>1, <1>2, <1>3, <1>4, <1>5, <1>6, <1>7, <1>8, <1>9, <1>10, <1>11, <1>12, <1>13, <1>14, <1>15 DEF Next

THEOREM ArtifactsInvariant == Spec => []ArtifactsInv
  BY InitInv, NextInv, PTL DEF Spec

\* Every variable keeps its type.
THEOREM TypeCorrect == Spec => []TypeOK
  <1>1. ArtifactsInv => TypeOK
    BY DEF ArtifactsInv
  <1> QED
    BY <1>1, ArtifactsInvariant, PTL

\* What an available row offers is in the store, whole: the archive that was
\* exported, and the image's file, whatever uploads, downloads, deletions and
\* restarts overlap (backup.go, image_download.go, virtualis.go).
THEOREM AvailableIsStored == Spec => []AvailableHasFile
  <1>1. ArtifactsInv => AvailableHasFile
    BY DEF ArtifactsInv, AvailableHasFile, BackupInv, BackupOK, ImageInv, ImageOK
  <1> QED
    BY <1>1, ArtifactsInvariant, PTL

\* Nobody but an operator gets at a disk that was not written to its end.
THEOREM HalfWrittenFenced == Spec => []HalfWrittenIsFenced
  <1>1. ArtifactsInv => HalfWrittenIsFenced
    BY OpForms DEF ArtifactsInv, HalfWrittenIsFenced, DiskInv
  <1> QED
    BY <1>1, ArtifactsInvariant, PTL

\* The snapshot on the node under the name of an available row is the one the row
\* was written for.
THEOREM RowsNameTheirSnapshots == Spec => []SnapshotsAreTheRows
  <1>1. ArtifactsInv => SnapshotsAreTheRows
    BY OpForms DEF ArtifactsInv, SnapshotsAreTheRows, SnapInv, SnapOK, At, RowAgrees
  <1> QED
    BY <1>1, ArtifactsInvariant, PTL

\* A purged instance leaves no file of a backup behind that a row ever named.
THEOREM PurgedIsEmpty == Spec => []PurgeLeavesNothing
  <1>1. ArtifactsInv => PurgeLeavesNothing
    BY DEF ArtifactsInv, PurgeLeavesNothing, PurgeInv, Removed
  <1> QED
    BY <1>1, ArtifactsInvariant, PTL

================================================================================
