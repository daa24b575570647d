---------------------------- MODULE MCCloudFolders ----------------------------
(* Instances of CloudFolders: one tree of five folders, whose names leave room *)
(* for conflicts, and two to be made.                                          *)
EXTENDS CloudFolders

Labels == [n \in Old |-> CASE n = Plain -> "a" [] n = Shared -> "b" [] n = Inner -> "a"
                           [] n = Nested -> "b" [] OTHER -> ""]
AllProviders == {"dropbox", "box", "googledrive", "onedrive", "sharepoint"}
=============================================================================
