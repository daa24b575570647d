--------------------------------- MODULE Page ---------------------------------
(***************************************************************************)
(* applyPagination (pkg/fs/manager.go): which positions of a listing make  *)
(* up the page at an offset, and what the page says of the rest. Folders   *)
(* come before files. Positions count from zero, as in the code.           *)
(***************************************************************************)
EXTENDS Integers

CONSTANTS
  DefaultLimit,   \* the limit when none is asked for (100 in the code)
  MaxLimit        \* the largest page (1000 in the code)

ASSUME LimitAssumption ==
  /\ DefaultLimit \in Nat \ {0}
  /\ MaxLimit \in Nat \ {0}
  /\ DefaultLimit <= MaxLimit

Lesser(a, b) == IF a <= b THEN a ELSE b

Offset(offset) == IF offset < 0 THEN 0 ELSE offset
Limit(limit)   == IF limit <= 0 THEN DefaultLimit ELSE Lesser(limit, MaxLimit)

\* Positions of a list of length n, from an offset, at most count of them.
Cut(offset, count, n) ==
  IF offset < n THEN offset .. Lesser(offset + count, n) - 1 ELSE {}

\* How many folders are on the page.
FolderCount(offset, limit, folders) ==
  IF offset < folders THEN Lesser(offset + limit, folders) - offset ELSE 0

FolderPage(offset, limit, folders) == Cut(offset, limit, folders)

\* Mutant: the page starts with the file at the offset itself.
FilePageNotShifted(offset, limit, folders, files) ==
  Cut(IF offset > folders THEN offset ELSE 0,
      limit - FolderCount(offset, limit, folders), files)

\* Files take what room the folders leave, from the offset past the folders.
FilePage(offset, limit, folders, files) ==
  Cut(IF offset > folders THEN offset - folders ELSE 0,
      limit - FolderCount(offset, limit, folders), files)

\* total counts folders and files, whether files were asked for or not.
HasMore(offset, limit, total) == offset + limit < total
=============================================================================
