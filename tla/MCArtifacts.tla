------------------------------ MODULE MCArtifacts ------------------------------
(* The artifacts of one instance; names of files and images are                *)
(* interchangeable.  Uploads, downloads and deletions of images overlap with   *)
(* creating, reinstalling and purging the instance.  Once it has snapshots or  *)
(* backups there is one image left, and nothing happens to it.  One image at a *)
(* time is being saved, deleted, or both.                                      *)
EXTENDS Artifacts, TLC

Symmetry == Permutations(File) \cup Permutations(Image)

ImagesRest == /\ \A g \in Image : /\ save[g] = Still /\ drop[g] = Still
                                  /\ image[g].status \in {"none", "available"}
              /\ Cardinality({g \in Image : image[g] # NoImage}) <= 1

Scope ==
    /\ \E g \in Image : save[g] = Still /\ drop[g] = Still
    /\ \/ ImagesRest
       \/ (\A n \in Name : snapRow[n] = NoSnapshot) /\ (\A b \in Backup : backup[b] = NoBackup)

=============================================================================
