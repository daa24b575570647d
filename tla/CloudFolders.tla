----------------------------- MODULE CloudFolders -----------------------------
(***************************************************************************)
(* How a cloud folder is addressed: by the browser, which makes an adapter *)
(* for every listing, and by a migration, whose adapter is made once, of   *)
(* the folder that was chosen as its root. A reference (ServiceID, parent  *)
(* id) means different things to different providers, to listing and to    *)
(* creating, and under different roots; what the adapters do with one is   *)
(* written down per provider, and the tree it is applied to changes.       *)
(*                                                                         *)
(* One tree serves for all: Home holds Plain and Shared, and Shared holds  *)
(* Inner and Nested. To Dropbox, Shared and Nested are shared folders,     *)
(* namespaces mounted there; to SharePoint, Home is a site, Plain a        *)
(* subsite and Shared a library; to the others they are plain folders.     *)
(***************************************************************************)
EXTENDS Naturals, Sequences, FiniteSets

CONSTANTS
  Providers, Callers,
  Home, Plain, Shared, Inner, Nested,
  New,            \* folders still to be made
  NoNode,
  Names,          \* names to make and rename folders to
  FirstNames,     \* [the five folders -> their names]
  MaxTries,       \* requests of one call
  SharedRoots,    \* types of the shared roots Dropbox offers
  KeepRootType,   \* a browser that passes rootType for nested folders too
  Movers,         \* providers in whose accounts other users move folders
  MaxMoves        \* bound: how often

Old   == {Home, Plain, Shared, Inner, Nested}
Nodes == Old \cup New

Blank == ""   \* no name, or no type

ASSUME FoldersAssumption ==
  /\ Cardinality(Old) = 5 /\ Old \cap New = {} /\ NoNode \notin Nodes /\ IsFiniteSet(New)
  /\ FirstNames \in [Old -> STRING] /\ Blank \notin Names /\ MaxTries \in Nat \ {0}
  \* no two folders begin with one name in one folder
  /\ FirstNames[Plain] # FirstNames[Shared] /\ FirstNames[Inner] # FirstNames[Nested]
  /\ SharedRoots \subseteq {"shared_folder", "team_folder"}
  \* such a folder would be addressed by its path, which is not modelled
  /\ KeepRootType => "shared_folder" \notin SharedRoots
  /\ Providers \subseteq {"dropbox", "box", "googledrive", "onedrive", "sharepoint"}

\* References: an item id, the id of a namespace or drive, and two aliases.
Id(n) == <<"id", n>>
Ns(n) == <<"ns", n>>
Root  == <<"root", NoNode>>
Empty == <<Blank, NoNode>>

VARIABLES
  provider,
  parent,   \* the tree: NoNode is above Home and what does not exist
  name,
  shown,    \* what the browser has shown, with the request that lists it
  adapter,  \* the migration's adapter
  known,    \* the folders it was given and has listed or made
  call,
  moves

vars == <<provider, parent, name, shown, adapter, known, call, moves>>

NoAdapter == [service |-> Empty, parent |-> Empty, type |-> "none", context |-> "none",
              space |-> NoNode, folder |-> Empty]
Idle == [at |-> "idle", op |-> "none", ref |-> Empty, under |-> Empty, node |-> NoNode,
         name |-> Blank, tries |-> 0, todo |-> << >>]
-----------------------------------------------------------------------------
(* The tree. *)
Path(n) ==
  LET up[i \in 0 .. Cardinality(Nodes)] ==
        IF i = 0 THEN n ELSE LET m == up[i - 1] IN IF m = NoNode THEN NoNode ELSE parent[m]
  IN {up[i] : i \in 0 .. Cardinality(Nodes)} \ {NoNode}

Exists(n)   == Home \in Path(n)
Below(n)    == {m \in Nodes : Exists(m) /\ n \in Path(m)}
Children(n) == {m \in Nodes : parent[m] = n}

\* The roots of namespaces and drives.
Spaces == CASE provider = "dropbox" -> {Home, Shared, Nested}
            [] provider = "sharepoint" -> {Shared}
            [] OTHER -> {Home}
Sites == IF provider = "sharepoint" THEN {Home, Plain} ELSE {}

\* The folder an item id reaches in a namespace or drive.
Item(space, ref) ==
  IF ref[1] = "id" /\ {Home, space} \subseteq Path(ref[2]) THEN ref[2] ELSE NoNode

\* What a listing shows of a folder.
Folder(s, p, t) == [service |-> s, parent |-> p, type |-> t]
Entry(n) ==
  IF provider = "dropbox" /\ n \in Spaces THEN Folder(Ns(n), Ns(n), "folder")
  ELSE IF provider = "dropbox" THEN Folder(Id(n), Empty, "folder")
  ELSE IF n \in Sites THEN Folder(Id(n), Empty, "sharepoint_site")
  ELSE IF provider = "sharepoint" /\ n = Shared THEN Folder(Ns(n), Ns(n), "sharepoint_drive")
  ELSE IF provider = "sharepoint" THEN Folder(Id(n), Ns(Shared), "folder")
  ELSE IF provider = "onedrive" THEN Folder(Id(n), Ns(Home), "folder")
  ELSE Folder(Id(n), Id(parent[n]), "folder")
-----------------------------------------------------------------------------
(* The adapters. context is what the session makes of the root's type, space *)
(* its Path-Root or drive, folder the id an empty reference stands for.       *)
Adapter(f, context, space, folder) ==
  [service |-> f.service, parent |-> f.parent, type |-> f.type,
   context |-> context, space |-> space, folder |-> folder]

\* A namespace becomes the Path-Root; any other folder stays below My Dropbox.
DropboxAdapter(f) ==
  IF f.type = "user_root" THEN Adapter(f, "user_root", Home, Empty)
  ELSE IF f.type \in {"shared_folder", "team_folder"} THEN Adapter(f, f.type, f.parent[2], Empty)
  ELSE IF f.service[1] = "ns" THEN Adapter(f, "team_folder", f.service[2], Empty)
  ELSE IF Item(IF f.parent = Empty THEN Home ELSE f.parent[2], f.service) # NoNode THEN
                                   Adapter(f, "user_root", Home, Empty)
  ELSE NoAdapter

BoxAdapter(f) ==
  Adapter(f, f.type, Home, IF f.service \in {Empty, Root} THEN Id(Home) ELSE f.service)

DriveAdapter(f) ==
  Adapter(f, "my_drive", Home, IF f.service = Empty THEN Root ELSE f.service)

OneDriveAdapter(f) ==
  Adapter(f, "my_drive", Home, IF f.service = Empty THEN Root ELSE f.service)

SharePointAdapter(f) ==
  CASE f.type = "sharepoint_site"  -> Adapter(f, f.type, NoNode, f.service)
    [] f.type = "sharepoint_drive" ->
         Adapter(f, f.type, IF f.parent = Empty THEN f.service[2] ELSE f.parent[2], Root)
    [] OTHER -> Adapter(f, "sharepoint_drive", f.parent[2], f.service)

CreateAdapter(f) ==
  CASE provider = "dropbox"     -> DropboxAdapter(f)
    [] provider = "box"         -> BoxAdapter(f)
    [] provider = "googledrive" -> DriveAdapter(f)
    [] provider = "onedrive"    -> OneDriveAdapter(f)
    [] provider = "sharepoint"  -> SharePointAdapter(f)
-----------------------------------------------------------------------------
(* What a reference addresses: NoNode is a request the provider refuses.      *)

\* listPath: the aliases and the namespace's own id are its root.
DropboxIsRoot(a, ref) ==
  \/ ref \in {Empty, Root}
  \/ a.context = "user_root" /\ ref = a.parent
  \/ a.context # "user_root" /\ ref \in {a.service, Ns(a.space)}

\* Mutant: a namespace is listed like any other folder.
DropboxListByItem(a, ref) ==
  IF DropboxIsRoot(a, ref) THEN a.space ELSE Item(a.space, ref)

\* resolveListTarget: a namespace id is no item id; below a namespace, not
\* below My Dropbox, it is taken for a Path-Root of its own.
DropboxList(a, ref) ==
  IF DropboxIsRoot(a, ref) THEN a.space
  ELSE IF a.context # "user_root" /\ ref[1] = "ns" /\ Exists(ref[2]) THEN ref[2]
  ELSE Item(a.space, ref)

\* Mutant: the migration's root is taken for the root of its namespace.
DropboxCreateAtRoot(a, ref) ==
  IF ref \in {Empty, Root, Ns(a.space), a.service} THEN a.space ELSE Item(a.space, ref)

\* createUnderNamespaceRoot, dropboxChildUnderParent.
DropboxCreate(a, ref) ==
  IF \/ ref \in {Empty, Root, Ns(a.space)}
     \/ ref = a.service /\ a.type \in {"user_root", "shared_folder", "team_folder"}
  THEN a.space ELSE Item(a.space, ref)

BoxList(a, ref) == Item(Home, IF ref \in {Empty, Root, a.service} THEN a.folder ELSE ref)

BoxCreate(a, ref) == Item(Home, IF ref = Empty THEN a.folder ELSE ref)

\* The alias "root" is My Drive, in queries and as a parent.
DriveList(a, ref) ==
  LET id == IF ref = Empty THEN a.folder ELSE ref
  IN IF id = Root THEN Home ELSE Item(Home, id)

DriveCreate(a, ref) == DriveList(a, ref)

\* ItemPath: "root" is the root of the drive, whatever the adapter's root.
ItemPath(a, ref) == IF ref = Root THEN a.space ELSE Item(a.space, ref)
GraphFolder(a, ref) == IF ref = Empty THEN a.folder ELSE ref

GraphList(a, ref) ==
  IF GraphFolder(a, ref) = Ns(a.space) THEN a.space ELSE ItemPath(a, GraphFolder(a, ref))

GraphCreate(a, ref) == ItemPath(a, GraphFolder(a, ref))

\* A site lists its libraries and subsites, and nothing else is done in it.
SiteList(a, ref) ==
  LET site == IF ref \in {Empty, Root} THEN a.service ELSE ref
  IN IF site[1] = "id" /\ site[2] \in Sites /\ Exists(site[2]) THEN site[2] ELSE NoNode

ListTarget(a, ref) ==
  IF a = NoAdapter THEN NoNode
  ELSE IF provider = "dropbox" THEN DropboxList(a, ref)
  ELSE IF provider = "box" THEN BoxList(a, ref)
  ELSE IF provider = "googledrive" THEN DriveList(a, ref)
  ELSE IF a.context = "sharepoint_site" THEN SiteList(a, ref)
  ELSE GraphList(a, ref)

CreateTarget(a, ref) ==
  IF a = NoAdapter THEN NoNode
  ELSE IF provider = "dropbox" THEN DropboxCreate(a, ref)
  ELSE IF provider = "box" THEN BoxCreate(a, ref)
  ELSE IF provider = "googledrive" THEN DriveCreate(a, ref)
  ELSE IF a.context = "sharepoint_site" THEN NoNode
  ELSE GraphCreate(a, ref)

\* Renames and deletes name the item itself; Dropbox needs an "id:".
NodeTarget(a, ref) ==
  IF a = NoAdapter THEN NoNode
  ELSE IF a.context = "sharepoint_site" THEN NoNode
  ELSE IF provider \in {"dropbox", "box", "googledrive"} THEN Item(a.space, ref)
  ELSE ItemPath(a, ref)
-----------------------------------------------------------------------------
(* The browser. A request is what the UI sends for a folder it shows.         *)
Request(id, type, drive, folder, n) ==
  [id |-> id, type |-> type, drive |-> drive, folder |-> folder, node |-> n]

\* A migration root as BrowseFolder makes it of a root the provider lists.
BrowseFolder(id, type, drive) ==
  LET ns == IF drive = Empty THEN id ELSE drive IN
  CASE type = Blank                                   -> Folder(id, Empty, "folder")
    [] type = "my_drive"                              -> Folder(IF id = Empty THEN Root ELSE id, Empty, type)
    [] type = "user_root"                             -> Folder(Root, ns, type)
    [] type \in {"shared_folder", "team_folder"}      -> Folder(id, ns, type)
    [] type = "sharepoint_site"                       -> Folder(id, Empty, type)
    [] type = "sharepoint_drive"                      -> Folder(Root, ns, type)

IsVirtualRootListing(id, type) ==
  \/ type \in {"user_root", "my_drive"} /\ id \in {Empty, Root, Id(Home)}
  \/ type \in {"shared_folder", "team_folder", "sharepoint_drive", "sharepoint_site"} /\ id # Empty

RootRequest(id, type, drive, n) == Request(id, type, drive, BrowseFolder(id, type, drive), n)

ListRoots ==
  CASE provider = "dropbox" ->
         {RootRequest(Root, "user_root", Ns(Home), Home)}
         \cup {RootRequest(Ns(n), t, Ns(n), n) : n \in {Shared, Nested}, t \in SharedRoots}
    [] provider = "box"         -> {RootRequest(Id(Home), "my_drive", Empty, Home)}
    [] provider = "googledrive" -> {RootRequest(Root, "my_drive", Empty, Home)}
    [] provider = "onedrive"    -> {RootRequest(Root, "my_drive", Ns(Home), Home)}
    [] provider = "sharepoint"  -> {RootRequest(Id(n), "sharepoint_site", Empty, n) : n \in Sites}

\* Mutant: a folder below a namespaced root is taken for that root.
BrowseAdapterRewrites(q) ==
  IF q.drive[1] = "ns" THEN CreateAdapter(Folder(q.id, q.drive, "team_folder"))
  ELSE CreateAdapter(BrowseFolder(q.id, q.type, q.drive))

\* ListCloudChildren makes an adapter for the one listing.
BrowseAdapter(q) ==
  IF IsVirtualRootListing(q.id, q.type) THEN CreateAdapter(BrowseFolder(q.id, q.type, q.drive))
  ELSE CreateAdapter([BrowseFolder(q.id, Blank, q.drive) EXCEPT !.parent = q.drive])

BrowseTarget(q) == ListTarget(BrowseAdapter(q), q.id)

\* A folder found by a listing is asked for by its id, its type if it is more
\* than a folder, and the namespace or drive it or its root came with.
Found(q, n) ==
  LET e == Entry(n) IN
  Request(e.service,
          IF e.type # "folder" THEN e.type ELSE IF KeepRootType THEN q.type ELSE Blank,
          IF e.parent[1] = "ns" THEN e.parent ELSE q.drive, e, n)

Init ==
  /\ provider \in Providers
  /\ parent = [n \in Nodes |-> CASE n \in {Plain, Shared} -> Home
                                 [] n \in {Inner, Nested} -> Shared
                                 [] OTHER -> NoNode]
  /\ name = [n \in Nodes |-> IF n \in Old THEN FirstNames[n] ELSE Blank]
  /\ shown = ListRoots
  /\ adapter = NoAdapter /\ known = {}
  /\ call = [c \in Callers |-> Idle] /\ moves = 0

Browse(q) ==
  /\ adapter = NoAdapter /\ q \in shown
  /\ BrowseTarget(q) # NoNode
  /\ shown' = shown \cup {Found(q, n) : n \in Children(BrowseTarget(q))}
  /\ UNCHANGED <<provider, parent, name, adapter, known, call, moves>>

\* acquireCloudAdapter, with the roots that ValidateMigrationRootFolder lets pass.
Open(q) ==
  /\ adapter = NoAdapter /\ q \in shown /\ q.folder.type # "sharepoint_site"
  /\ CreateAdapter(q.folder) # NoAdapter
  /\ adapter' = CreateAdapter(q.folder)
  /\ known' = {[service |-> q.folder.service, under |-> Empty, node |-> q.node]}
  /\ shown' = {}
  /\ UNCHANGED <<provider, parent, name, call, moves>>
-----------------------------------------------------------------------------
(* The calls of a migration. *)
Set(c, r) == call' = [call EXCEPT ![c] = r]
Known(s, u, n) == [service |-> s, under |-> u, node |-> n]

Asking(op, ref, under, n, x, es) ==
  [at |-> "asking", op |-> op, ref |-> ref, under |-> under, node |-> n,
   name |-> x, tries |-> MaxTries, todo |-> es]

ListChildren(ref) ==
  /\ ListTarget(adapter, ref) # NoNode
  /\ known' = known \cup {Known(Entry(n).service, ref, n) : n \in Children(ListTarget(adapter, ref))}
  /\ UNCHANGED <<provider, parent, name, shown, adapter, call, moves>>

CreateFolder(c, ref, x) ==
  /\ call[c].at = "idle" /\ adapter # NoAdapter
  /\ Set(c, Asking("create", ref, Empty, NoNode, x, << >>))
  /\ UNCHANGED <<provider, parent, name, shown, adapter, known, moves>>

RenameNode(c, e, x) ==
  /\ call[c].at = "idle" /\ e \in known /\ e.service # adapter.service /\ x # name[e.node]
  /\ Set(c, Asking("rename", e.service, e.under, e.node, x, << >>))
  /\ UNCHANGED <<provider, parent, name, shown, adapter, known, moves>>

\* A root that is called "root" is refused.
Deletable(es) == SelectSeq(es, LAMBDA e : e.service # Root)

\* DeleteNodes, whose adapter is made of a folder as Open makes one, goes through
\* its list whatever becomes of an entry.
DeleteNodes(c, es) ==
  /\ call[c].at = "idle"
  /\ Set(c, Asking("delete", Empty, Empty, NoNode, Blank, Deletable(es)))
  /\ UNCHANGED <<provider, parent, name, shown, adapter, known, moves>>

\* Names are unique in a folder, but not in Google Drive.
Taken(p, x, except) ==
  provider # "googledrive" /\ \E m \in Children(p) \ {except} : name[m] = x

\* The answer to a request arrives, or it is lost and the request repeated.
Repeat(c, r) == Set(c, IF r.tries > 1 THEN [r EXCEPT !.tries = @ - 1] ELSE Idle)

Created(c, n) ==
  LET r == call[c]  p == CreateTarget(adapter, r.ref) IN
  /\ r.at = "asking" /\ r.op = "create" /\ p # NoNode /\ ~Taken(p, r.name, NoNode)
  /\ n \in New /\ parent[n] = NoNode /\ name[n] = Blank
  /\ parent' = [parent EXCEPT ![n] = p]
  /\ name' = [name EXCEPT ![n] = r.name]
  /\ \/ /\ Set(c, Idle)
        /\ known' = known \cup {Known(Id(n), r.ref, n)}
     \/ /\ Repeat(c, r)
        /\ UNCHANGED known
  /\ UNCHANGED <<provider, shown, adapter, moves>>

\* Mutant: a rename that goes by the path the folder was found under.
RenamedByPath(c) ==
  LET r == call[c]  n == NodeTarget(adapter, r.ref)  p == ListTarget(adapter, r.under) IN
  /\ r.at = "asking" /\ r.op = "rename" /\ n \notin Spaces \cup {NoNode}
  /\ p # NoNode /\ n \notin Path(p) /\ ~Taken(p, r.name, n)
  /\ parent' = [parent EXCEPT ![n] = p]
  /\ name' = [name EXCEPT ![n] = r.name]
  /\ Set(c, Idle) \/ Repeat(c, r)
  /\ UNCHANGED <<provider, shown, adapter, known, moves>>

\* In place; Dropbox moves the folder to the parent it was listed under.
Renamed(c) ==
  LET r == call[c]  n == NodeTarget(adapter, r.ref)
      p == IF provider = "dropbox" THEN DropboxCreate(adapter, r.under) ELSE parent[n] IN
  /\ r.at = "asking" /\ r.op = "rename" /\ n \notin Spaces \cup {NoNode}
  /\ p # NoNode /\ n \notin Path(p) /\ ~Taken(p, r.name, n)
  /\ parent' = [parent EXCEPT ![n] = p]
  /\ name' = [name EXCEPT ![n] = r.name]
  /\ Set(c, Idle) \/ Repeat(c, r)
  /\ UNCHANGED <<provider, shown, adapter, known, moves>>

NextEntry(r) == IF Len(r.todo) = 1 THEN Idle ELSE [r EXCEPT !.todo = Tail(@), !.tries = MaxTries]

\* Mutant: what is in the folder is not deleted with it.
DeletedAlone(c) ==
  LET r == call[c]  n == NodeTarget(adapter, Head(r.todo).service) IN
  /\ r.at = "asking" /\ r.op = "delete" /\ r.todo # << >> /\ n \notin Spaces \cup {NoNode}
  /\ parent' = [parent EXCEPT ![n] = NoNode]
  /\ Set(c, NextEntry(r))
  /\ UNCHANGED <<provider, name, shown, adapter, known, moves>>

Deleted(c) ==
  LET r == call[c]  n == NodeTarget(adapter, Head(r.todo).service) IN
  /\ r.at = "asking" /\ r.op = "delete" /\ r.todo # << >> /\ n \notin Spaces \cup {NoNode}
  /\ parent' = [m \in Nodes |-> IF m \in Below(n) THEN NoNode ELSE parent[m]]
  /\ \/ Set(c, NextEntry(r))
     \/ IF r.tries > 1 THEN Repeat(c, r) ELSE Set(c, NextEntry(r))
  /\ UNCHANGED <<provider, name, shown, adapter, known, moves>>

\* Not found, a conflict, no permission: the call fails, or one entry does.
Refused(c) ==
  /\ call[c].at = "asking"
  /\ Set(c, IF call[c].todo = << >> THEN Idle ELSE NextEntry(call[c]))
  /\ UNCHANGED <<provider, parent, name, shown, adapter, known, moves>>

\* Somebody else moves a folder.
Move(n, p) ==
  /\ provider \in Movers /\ moves < MaxMoves
  /\ Exists(n) /\ n \notin Spaces \cup Sites
  /\ Exists(p) /\ p \notin Sites /\ n \notin Path(p)
  /\ moves' = moves + 1
  /\ parent[n] # p /\ ~Taken(p, name[n], n)
  /\ parent' = [parent EXCEPT ![n] = p]
  /\ UNCHANGED <<provider, name, shown, adapter, known, call>>

Refs == {e.service : e \in known}

Next ==
  \/ \E q \in shown : Browse(q) \/ Open(q)
  \/ adapter # NoAdapter /\ \E ref \in Refs : ListChildren(ref)
  \/ \E c \in Callers :
       \/ \E ref \in Refs \cup {Empty, Root}, x \in Names : CreateFolder(c, ref, x)
       \/ \E e \in known, x \in Names : RenameNode(c, e, x)
       \/ \E e, f \in known : DeleteNodes(c, <<e, f>>)
       \/ \E n \in New : Created(c, n)
       \/ Renamed(c) \/ Deleted(c) \/ Refused(c)
  \/ \E n, p \in Nodes : Move(n, p)

Spec == Init /\ [][Next]_vars
-----------------------------------------------------------------------------
\* Every variable keeps its type, and the tree stays one: nothing hangs below a
\* folder that was deleted, and names are unique where the provider has them so.
TypeOK ==
  /\ provider \in Providers
  /\ \A n \in Nodes \ {Home} : parent[n] # NoNode => Exists(n)
  /\ provider # "googledrive" =>
       \A n, m \in Nodes : n # m /\ parent[n] = parent[m] /\ parent[n] # NoNode => name[n] # name[m]
  /\ \A e \in known : e.node \in Nodes
  /\ \A c \in Callers :
       /\ call[c].at \in {"idle", "asking"}
       /\ call[c].tries \in 0 .. MaxTries

\* The browser gets the children of the folder it asks for, although each
\* listing makes its adapter anew from an id, a type and a namespace or drive.
\* ListCloudChildren says of nested folders that "callers should keep passing
\* driveId (and rootType)": with KeepRootType it does not hold.
BrowseIsFaithful ==
  \A q \in shown : Exists(q.node) => BrowseTarget(q) = q.node

\* A folder is made where a listing by the same reference will show it, aliases
\* included, or the call is refused: creating and listing resolve references by
\* different code.
CreatedWhereListed ==
  [][\A n \in New : parent[n] = NoNode /\ parent'[n] # NoNode =>
       \E c \in Callers : /\ call[c].op = "create" /\ call'[c] # call[c]
                          /\ parent'[n] = ListTarget(adapter, call[c].ref)]_vars

\* The exceptions of FoldersAreAddressed: namespace and drive ids. Under My
\* Dropbox a shared folder cannot be listed; nothing can be made in one that is
\* not the Path-Root, nor in a library by its drive id.
NotListable(e)  == e.service[1] = "ns" /\ adapter.context = "user_root"
NotWritable(e)  == e.service[1] = "ns" /\ (provider = "sharepoint" \/ e.service # Ns(adapter.space))

\* The ServiceID a migration was given for a folder, as its root, by a listing
\* or by a create, still addresses that folder for its adapter, whatever was
\* renamed, moved or made in between, but for the exceptions above.
FoldersAreAddressed ==
  \A e \in known : Exists(e.node) =>
    /\ ListTarget(adapter, e.service)   = IF NotListable(e) THEN NoNode ELSE e.node
    /\ CreateTarget(adapter, e.service) = IF NotWritable(e) THEN NoNode ELSE e.node

\* docs/cloud_provider_checklist.md says that shared folders "still appear under
\* that home listing" and "remain valid adapter contexts when entered as folders".
ListedIsListable ==
  \A e \in known : Exists(e.node) => ListTarget(adapter, e.service) # NoNode

\* A rename changes the name of the folder it was asked for and leaves it where
\* it is, as RenameNode says ("in place").
RenameIsInPlace ==
  [][\A c \in Callers : call[c].op = "rename" /\ call[c].at = "asking" /\ call'[c] # call[c] =>
       /\ parent' = parent
       /\ \A n \in Nodes : name'[n] # name[n] => n = call[c].node]_vars
=============================================================================
