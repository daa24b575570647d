---------------------------- MODULE MCDropboxBatch ----------------------------
(* Instances of DropboxBatch: a batch of two items and one that is too long.   *)
EXTENDS DropboxBatch
CONSTANTS PathA, PathB
Some == {<<PathA, PathB>>, <<PathB, PathB, PathA>>}
FolderAndNothing == {[x \in Paths |-> IF x = PathA THEN "folder" ELSE "none"]}
=============================================================================
