---------------------------- MODULE MCPipeUpload ----------------------------
(* PipeUpload with the writers of the three adapters, fewer attempts than  *)
(* the eight of the code, sources of up to five units and chunks of two.   *)
EXTENDS PipeUpload

GoogleDrive  == Writer("session", 1)
Dropbox      == Writer("session", 2)
BoxParts     == Writer("declared", 3)
BoxMultipart == Writer("multipart", 2)

AllWriters == {GoogleDrive, Dropbox, BoxParts, BoxMultipart}
Unsized    == {Dropbox, BoxMultipart}
=============================================================================
