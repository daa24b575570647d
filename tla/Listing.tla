-------------------------------- MODULE Listing --------------------------------
(***************************************************************************)
(* A caller pages through a directory with ServiceManager.ListChildren.    *)
(* Every call makes an adapter, which reads the whole directory again, one *)
(* request (or one batch of directory entries) at a time, and cuts one     *)
(* page out of what was read; nothing is kept between calls, so the        *)
(* directory may be another one each time, and may change while it is      *)
(* read. The caller follows the README: it goes on while HasMore, from the *)
(* offset and by the limit the page reports.                               *)
(***************************************************************************)
EXTENDS Page, Sequences, SequencesExt, FiniteSets

CONSTANTS
  Entries,       \* bound: names a directory may hold
  Services,      \* the services that are listed
  Limits,        \* limits a caller may ask for
  BatchSize,     \* entries of a request, or of a ReadDir
  Creates,       \* bound: entries others create meanwhile
  Deletes,       \* bound: entries others delete meanwhile
  Failures       \* bound: listings that fail on the way

\* statsEntries: every entry is looked at by itself, and is left out if that
\* fails. oneRequest: the first answer is taken for the whole listing.
Service == [statsEntries: BOOLEAN, oneRequest: BOOLEAN]
Paged       == [statsEntries |-> FALSE, oneRequest |-> FALSE]
Local       == [Paged EXCEPT !.statsEntries = TRUE]
Dropbox     == Paged
Box         == Paged
Graph       == Paged
GoogleDrive == [Paged EXCEPT !.oneRequest = TRUE]

ASSUME ListingAssumption ==
  /\ Services \subseteq Service
  /\ Limits \subseteq Int /\ BatchSize \in Nat \ {0}
  /\ Creates \in Nat /\ Deletes \in Nat /\ Failures \in Nat

VARIABLES
  service,
  folders, files,   \* the directory, in the order it is listed
  next,             \* offset of the next call
  limit,            \* the limit asked for
  foldersOnly,      \* whether folders only are asked for
  more,             \* what the last page said; TRUE before the first
  reading,          \* a call is reading the directory
  rest, got,        \* what it has still to read, and what it has read
  times,            \* how often each entry was returned, up to twice
  kept,             \* entries there since before the first call
  unread,           \* entries that could not be looked at
  created, deleted, failed   \* how often each of this happened

asked == <<service, limit, foldersOnly>>
dir   == <<folders, files>>
ghost == <<kept, created, deleted>>
vars  == <<asked, dir, ghost, next, more, reading, rest, got, times, unread, failed>>

Init ==
  /\ service \in Services /\ limit \in Limits /\ foldersOnly \in BOOLEAN
  /\ \E f \in SUBSET Entries : /\ folders = SetToSeq(f)
                               /\ \E g \in SUBSET (Entries \ f) : files = SetToSeq(g)
  /\ next = 0 /\ more = TRUE
  /\ reading = FALSE /\ rest = << >> /\ got = << >>
  /\ times = [e \in Entries |-> 0]
  /\ kept = ToSet(folders) \cup ToSet(files) /\ unread = {}
  /\ created = 0 /\ deleted = 0 /\ failed = 0

There  == ToSet(folders) \cup ToSet(files)
Wanted == ToSet(folders) \cup IF foldersOnly THEN {} ELSE ToSet(files)

\* An item of a listing: a name, and whether it is a folder.
Items(names, isFolder) == [i \in DOMAIN names |-> [name |-> names[i], folder |-> isFolder]]
Directory == Items(folders, TRUE) \o Items(files, FALSE)
Names(items, isFolder) ==
  LET chosen == SelectSeq(items, LAMBDA x : x.folder = isFolder)
  IN [i \in DOMAIN chosen |-> chosen[i].name]
-----------------------------------------------------------------------------
(* One call of ListChildren. *)
Begin ==
  /\ more /\ ~reading
  /\ reading' = TRUE /\ rest' = Directory
  /\ UNCHANGED <<asked, dir, ghost, next, more, got, times, unread, failed>>

\* One request of a listing that goes on until the last one; what is gone when
\* it is looked at is left out, and so is what cannot be looked at.
ReadBatch ==
  /\ reading /\ rest # << >>
  /\ LET batch == SubSeq(rest, 1, Lesser(BatchSize, Len(rest)))
         found == {x \in ToSet(batch) : x.name \in There}
     IN \E bad \in (IF service.statsEntries THEN SUBSET found ELSE {{}}) :
          /\ failed + Cardinality(bad) <= Failures
          /\ failed' = failed + Cardinality(bad)
          /\ unread' = unread \cup {x.name : x \in bad}
          /\ got' = got \o SelectSeq(batch, LAMBDA x : x \in found \ bad)
          /\ rest' = IF service.oneRequest THEN << >> ELSE SubSeq(rest, Len(batch) + 1, Len(rest))
  /\ UNCHANGED <<asked, dir, ghost, next, more, reading, times>>

\* Mutant: a retry goes on with what the failed attempt has read.
ReadFailsKeeping ==
  /\ reading /\ failed < Failures
  /\ failed' = failed + 1
  /\ reading' = FALSE /\ rest' = << >>
  /\ UNCHANGED <<asked, dir, ghost, next, more, got, times, unread>>

\* A request fails: the listing is begun again, by the retry loop or, after an
\* error, by the caller.
ReadFails ==
  /\ reading /\ failed < Failures
  /\ failed' = failed + 1
  /\ reading' = FALSE /\ rest' = << >> /\ got' = << >>
  /\ UNCHANGED <<asked, dir, ghost, next, more, times, unread>>

\* What the call returns of what it has read; positions are counted from zero.
At(list, positions) == {list[i + 1] : i \in positions}
Returned ==
  LET o == Offset(next)  l == Limit(limit)
      fs == Names(got, TRUE)  gs == Names(got, FALSE)
  IN  At(fs, FolderPage(o, l, Len(fs)))
        \cup IF foldersOnly THEN {} ELSE At(gs, FilePage(o, l, Len(fs), Len(gs)))

\* Once, or more than once, is all that is counted.
Counted == [e \in Entries |-> IF e \in Returned THEN Lesser(times[e] + 1, 2) ELSE times[e]]

\* Mutant: the caller steps by the limit it asked for, not by the page's.
NextPageByAsked ==
  /\ reading /\ rest = << >>
  /\ times' = Counted
  /\ more' = HasMore(Offset(next), Limit(limit), Len(got))
  /\ next' = Offset(next) + limit
  /\ reading' = FALSE /\ got' = << >>
  /\ UNCHANGED <<asked, dir, ghost, rest, unread, failed>>

NextPage ==
  /\ reading /\ rest = << >>
  /\ times' = Counted
  /\ more' = HasMore(Offset(next), Limit(limit), Len(got))
  /\ next' = Offset(next) + Limit(limit)
  /\ reading' = FALSE /\ got' = << >>
  /\ UNCHANGED <<asked, dir, ghost, rest, unread, failed>>
-----------------------------------------------------------------------------
\* Somebody else creates an entry, anywhere in the order, or deletes one. A
\* listing that is going on may come across the new one.
Create(e) ==
  /\ more /\ created < Creates
  /\ created' = created + 1
  /\ e \notin There
  /\ \E isFolder \in BOOLEAN :
       /\ \E i \in 1 .. Len(IF isFolder THEN folders ELSE files) + 1 :
            /\ folders' = IF isFolder THEN InsertAt(folders, i, e) ELSE folders
            /\ files'   = IF isFolder THEN files ELSE InsertAt(files, i, e)
       /\ \/ UNCHANGED rest
          \/ rest # << >> /\ rest' = Append(rest, [name |-> e, folder |-> isFolder])
  /\ UNCHANGED <<asked, kept, deleted, next, more, reading, got, times, unread, failed>>

Delete(e) ==
  /\ more /\ deleted < Deletes
  /\ deleted' = deleted + 1
  /\ e \in There
  /\ folders' = Remove(folders, e)
  /\ files' = Remove(files, e)
  /\ kept' = kept \ {e}
  /\ UNCHANGED <<asked, created, next, more, reading, rest, got, times, unread, failed>>

Next ==
  \/ Begin \/ ReadBatch \/ ReadFails \/ NextPage
  \/ \E e \in Entries : Create(e) \/ Delete(e)

Spec == Init /\ [][Next]_vars /\ WF_vars(Begin) /\ WF_vars(ReadBatch) /\ WF_vars(NextPage)
-----------------------------------------------------------------------------
\* The listing is a directory, and a call reads no more than there was or is.
TypeOK ==
  /\ folders \in Seq(Entries) /\ files \in Seq(Entries)
  /\ ToSet(folders) \cap ToSet(files) = {}
  /\ service \in Services /\ limit \in Int /\ next \in Nat
  /\ {foldersOnly, more, reading} \subseteq BOOLEAN
  /\ ToSet(rest) \cup ToSet(got) \subseteq [name: Entries, folder: BOOLEAN]
  /\ ~reading => rest = << >> /\ got = << >>
  /\ Len(got) + Len(rest) <= Cardinality(Entries) + created
  /\ times \in [Entries -> 0 .. 2]
  /\ kept \subseteq There /\ unread \subseteq Entries

\* The listings that are cut short: Google Drive's, of a folder that does not
\* fit one request.
CutShort == service.oneRequest /\ Cardinality(kept) + created > BatchSize

Unchanged == created = 0 /\ deleted = 0

\* Deleted entries may make the walk skip others, but only a new one, or one
\* that could not be looked at before, makes it repeat others.
NothingTwice == created = 0 /\ unread = {} => \A e \in Entries : times[e] <= 1

\* Created entries may make the walk repeat others, but an entry that is there
\* throughout is returned, unless one before it was deleted or could not be
\* read: pages are cut by offset.
KeptIsSeen ==
  ~more /\ deleted = 0 /\ unread = {} /\ ~CutShort => \A e \in kept \cap Wanted : times[e] >= 1

\* So the pages put together are the directory, but for what changed in it.
SeenOnce == KeptIsSeen /\ NothingTwice

\* pkg/fs/README.md says of ListChildren: "Check `HasMore` and adjust `Offset` to
\* get all results".
AllResults == ~more /\ Unchanged /\ unread = {} => \A e \in Wanted : times[e] = 1

\* The walk ends, in a directory that changes and fails too.
WalkEnds == <>~more
=============================================================================
