--------------------------------- MODULE Files ---------------------------------
(***************************************************************************)
(* The adapters that address nodes by their path: LocalFS and SftpFS. Every *)
(* operation is a few system calls or requests on a tree that other workers *)
(* change in between, inside a retry loop that begins the operation again;  *)
(* a copy is a handle that outlives its loop, is abandoned with a write     *)
(* still on its way, and is resumed from an offset (local) or begun again.  *)
(* Every copy is of one source, whose units are numbered 1 .. SourceLen.    *)
(***************************************************************************)
EXTENDS Integers, Sequences, SequencesExt, FiniteSets

CONSTANTS
  Backends,       \* the adapters to consider, "local" and "sftp"
  Callers,        \* workers that share the tree
  Top,            \* the adapter's root
  Dirs, FileNodes,\* nodes below it; those not in use are free
  None,
  Names, Paths,   \* sequences of names, as the callers know them
  OldName,        \* there is at first a folder of this name, and a file in it
  OldData,        \* what is in that file; its units are 0
  SourceLen,
  MaxTries,       \* bound: attempts of a retry loop after the first (31 at most)
  MaxFaults,      \* bound: requests that fail, or whose answer is lost
  MaxCalls        \* bound: calls

Nodes == {Top} \cup Dirs \cup FileNodes

ASSUME FilesAssumption ==
  /\ Backends \subseteq {"local", "sftp"}
  /\ Dirs # {} /\ FileNodes # {} /\ Dirs \cap FileNodes = {}
  /\ Top \notin Dirs \cup FileNodes /\ None \notin Nodes
  /\ Paths \subseteq Seq(Names) \ {<< >>}
  /\ OldName \in Names /\ OldData \in Seq({0})
  /\ {SourceLen, MaxTries, MaxFaults, MaxCalls} \subseteq Nat

VARIABLES
  backend,
  parent, name, \* the tree: a node without a parent is free, or held by a handle
  data,         \* the units of each file
  late,         \* writes on their way that nobody waits for: <<file, position, unit>>
  call,         \* the call of each caller
  faults, calls \* how many there were

tree == <<parent, name, data>>
vars == <<backend, tree, late, call, faults, calls>>

\* to: the new name of a rename, the node type of a delete. stack: the folders
\* removeAll is in. node, pos: the handle of a copy; pos is also how far MkdirAll
\* is. offset: the units a copy of path has been told are written, which the
\* caller does not feed again. touched: others changed something since the call,
\* or the copy it resumes, began. fit: the call could be done when it began.
\* own: it has changed something. faulted: the faults it met.
Idle == [at |-> "idle", op |-> "none", path |-> << >>, to |-> "", tries |-> MaxTries,
         stack |-> << >>, node |-> None, pos |-> 0, offset |-> 0,
         touched |-> FALSE, fit |-> FALSE, own |-> FALSE, faulted |-> 0]
-----------------------------------------------------------------------------
(* The tree. *)
IsDir(n)     == n \in {Top} \cup Dirs
Kids(n)      == {m \in Nodes \ {Top} : n # None /\ parent[m] = n}
Child(n, x)  == IF \E m \in Kids(n) : name[m] = x
                THEN CHOOSE m \in Kids(n) : name[m] = x ELSE None

Lookup(path) ==
  LET node[i \in 0 .. Len(path)] == IF i = 0 THEN Top ELSE Child(node[i - 1], path[i])
  IN node[Len(path)]

InDir(path) == IsDir(Lookup(Front(path)))
To(r)       == Append(Front(r.path), r.to)

Free(n) == parent[n] = None /\ \A w \in late : w[1] # n /\ \A c \in Callers : call[c].node # n

FreeNode(kind) == CHOOSE n \in kind : Free(n)

Make(n, path) ==
  /\ parent' = [parent EXCEPT ![n] = Lookup(Front(path))]
  /\ name' = [name EXCEPT ![n] = Last(path)]
  /\ data' = [f \in FileNodes |-> IF f = n THEN << >> ELSE data[f]]

Empty(n)  == data' = [data EXCEPT ![n] = << >>] /\ UNCHANGED <<parent, name>>

\* Nobody sees the data of a file without a name again.
Unlink(n) ==
  /\ parent' = [parent EXCEPT ![n] = None]
  /\ name' = [name EXCEPT ![n] = ""]
  /\ data' = [f \in FileNodes |-> IF f = n THEN << >> ELSE data[f]]

Put(units, pos, u) ==
  [i \in 1 .. IF pos + 1 > Len(units) THEN pos + 1 ELSE Len(units) |->
     IF i = pos + 1 THEN u ELSE IF i <= Len(units) THEN units[i] ELSE 0]

Source == [i \in 1 .. SourceLen |-> i]
-----------------------------------------------------------------------------
(* The retry loop. *)
At(c, a)  == call[c].at = a
Set(c, r) == call' = [call EXCEPT ![c] = r] /\ UNCHANGED faults

\* The system answers, and nothing changes by it.
Answer(c, r) == Set(c, r) /\ UNCHANGED tree

First(r) ==
  CASE r.op = "delete" -> IF backend = "local" THEN "lstat"
                          ELSE IF r.to = "file" THEN "remove" ELSE "removeAll"
    [] OTHER -> r.op

Done(r)  == [r EXCEPT !.at = "done", !.stack = << >>, !.pos = 0, !.tries = 0]
Fatal(r) == [r EXCEPT !.at = "failed", !.stack = << >>, !.pos = 0, !.tries = 0]
Again(r) == IF r.tries = 0 THEN Fatal(r)
            ELSE [r EXCEPT !.at = First(r), !.tries = @ - 1, !.stack = << >>, !.pos = 0]

\* What is left of a call that met a fault: local errors are transient, a
\* connection that is lost is not made again.
Faulted(r) ==
  LET f == [r EXCEPT !.faulted = @ + 1] IN IF backend = "local" THEN Again(f) ELSE Fatal(f)

Touched == [d \in Callers |-> IF call[d] = Idle THEN Idle ELSE [call[d] EXCEPT !.touched = TRUE]]

\* The call has changed something, and goes on as r, or does not hear of it.
Changed(c, r) ==
  \/ /\ call' = [Touched EXCEPT ![c] = [r EXCEPT !.own = TRUE]]
     /\ UNCHANGED faults
  \/ /\ faults < MaxFaults /\ faults' = faults + 1
     /\ call' = [Touched EXCEPT ![c] = Faulted([call[c] EXCEPT !.own = TRUE])]

\* In a tree without room the call fails, and it is no fault of the adapter.
MakeOne(c, kind, path, r) ==
  IF \E n \in kind : Free(n)
  THEN Make(FreeNode(kind), path) /\ Changed(c, r)
  ELSE Answer(c, Fatal([call[c] EXCEPT !.fit = FALSE]))

\* Whether the call can be done, with nobody in its way.
Fit(op, path, to) ==
  LET n == Lookup(path) IN
  CASE op = "mkdir"  -> IF backend = "sftp" THEN InDir(path) /\ n = None
                        ELSE \A i \in 1 .. Len(path) : Lookup(SubSeq(path, 1, i)) \notin FileNodes
    [] op = "create" -> InDir(path) /\ ~IsDir(n)
    [] op = "delete" -> n # None /\ IsDir(n) = (to = "folder")
    [] op = "rename" -> n # None /\ Lookup(Append(Front(path), to)) = None
    [] op = "copy"   -> n \in FileNodes

Init ==
  /\ backend \in Backends
  /\ LET d == CHOOSE d \in Dirs : TRUE  f == CHOOSE f \in FileNodes : TRUE IN
       /\ parent = [n \in Nodes |-> CASE n = d -> Top [] n = f -> d [] OTHER -> None]
       /\ name = [n \in Nodes |-> IF n \in {d, f} THEN OldName ELSE ""]
       /\ data = [n \in FileNodes |-> IF n = f THEN OldData ELSE << >>]
  /\ late = {} /\ faults = 0 /\ calls = 0
  /\ call = [c \in Callers |-> Idle]

Call(c, op, path, to) ==
  /\ At(c, "idle") /\ calls < MaxCalls
  /\ calls' = calls + 1
  /\ LET resumed == op = "copy" /\ call[c].offset > 0
         r == [Idle EXCEPT !.op = op, !.path = path, !.to = to, !.fit = Fit(op, path, to),
                           !.offset = IF resumed THEN call[c].offset ELSE 0,
                           !.touched = resumed /\ call[c].touched]
     IN /\ resumed => call[c].path = path
        /\ Set(c, [r EXCEPT !.at = First(r)])
  /\ UNCHANGED <<backend, tree, late>>

Return(c) ==
  /\ call[c].at \in {"done", "failed"}
  /\ Set(c, IF call[c].op = "copy" /\ At(c, "failed") /\ backend = "local"
            THEN [Idle EXCEPT !.path = call[c].path, !.offset = call[c].offset,
                              !.touched = call[c].touched]
            ELSE Idle)
  /\ UNCHANGED <<backend, tree, late, calls>>

\* A request fails before it has any effect.
Fault(c) ==
  /\ call[c].at \notin {"idle", "write", "close", "done", "failed"}
  /\ faults < MaxFaults /\ faults' = faults + 1
  /\ call' = [call EXCEPT ![c] = Faulted(call[c])]
  /\ UNCHANGED <<backend, tree, late, calls>>
-----------------------------------------------------------------------------
(* CreateFolder: MkdirAll, or one Mkdir; then Stat. *)

\* Mutant: the local adapter makes the last folder only, and only if it is new.
MakeDirOnce(c) ==
  LET r == call[c]  n == Lookup(r.path) IN
  /\ At(c, "mkdir")
  /\ \/ ~InDir(r.path) /\ Answer(c, Fatal(r))
     \/ InDir(r.path) /\ n # None /\ Answer(c, Again(r))
     \/ InDir(r.path) /\ n = None /\ MakeOne(c, Dirs, r.path, [r EXCEPT !.at = "stat"])
  /\ UNCHANGED <<backend, late, calls>>

MakeDir(c) ==
  LET r == call[c]
      i == IF backend = "local" THEN r.pos + 1 ELSE Len(r.path)
      p == SubSeq(r.path, 1, i)
      n == Lookup(p)
      next == IF i = Len(r.path) THEN [r EXCEPT !.at = "stat", !.pos = 0] ELSE [r EXCEPT !.pos = i]
  IN
  /\ At(c, "mkdir")
  /\ \/ ~InDir(p) /\ Answer(c, Fatal(r))
     \/ InDir(p) /\ n = None /\ MakeOne(c, Dirs, p, next)
     \/ InDir(p) /\ n # None
          /\ Answer(c, IF backend = "sftp" THEN Again(r) ELSE IF IsDir(n) THEN next ELSE Fatal(r))
  /\ UNCHANGED <<backend, late, calls>>

\* CreateFile: os.Create empties a file that is there.
CreateFile(c) ==
  LET r == call[c]  n == Lookup(r.path) IN
  /\ At(c, "create")
  /\ \/ ~InDir(r.path) /\ Answer(c, Fatal(r))
     \/ IsDir(n) /\ Answer(c, IF backend = "local" THEN Fatal(r) ELSE Again(r))
     \/ InDir(r.path) /\ n = None /\ MakeOne(c, FileNodes, r.path, [r EXCEPT !.at = "stat"])
     \/ n \in FileNodes /\ Empty(n) /\ Changed(c, [r EXCEPT !.at = "stat"])
  /\ UNCHANGED <<backend, late, calls>>

Stat(c) ==
  /\ At(c, "stat")
  /\ Set(c, IF Lookup(call[c].path) = None THEN Fatal(call[c]) ELSE Done(call[c]))
  /\ UNCHANGED <<backend, tree, late, calls>>
-----------------------------------------------------------------------------
(* DeleteNode. *)

\* The local adapter looks first; "node not found" is not classified as fatal.
Lstat(c) ==
  LET r == call[c]  n == Lookup(r.path) IN
  /\ At(c, "lstat")
  /\ Set(c, IF n = None \/ IsDir(n) # (r.to = "folder") THEN Again(r)
            ELSE [r EXCEPT !.at = IF r.to = "file" THEN "remove" ELSE "removeAll"])
  /\ UNCHANGED <<backend, tree, late, calls>>

\* Mutant: a folder is removed whatever is in it.
RemoveOneUnchecked(c) ==
  LET r == call[c]  n == Lookup(r.path) IN
  /\ At(c, "remove")
  /\ \/ n = None /\ Answer(c, Fatal(r))
     \/ n # None /\ Unlink(n) /\ Changed(c, Done(r))
  /\ UNCHANGED <<backend, late, calls>>

\* Remove takes files, and folders that are empty.
RemoveOne(c) ==
  LET r == call[c]  n == Lookup(r.path) IN
  /\ At(c, "remove")
  /\ \/ n = None /\ Answer(c, Fatal(r))
     \/ n # None /\ Kids(n) # {} /\ Answer(c, Again(r))
     \/ n # None /\ Kids(n) = {} /\ Unlink(n) /\ Changed(c, Done(r))
  /\ UNCHANGED <<backend, late, calls>>

\* A folder that removeAll is in: what ReadDir found there is still to be removed.
\* The local one goes by the folder it opened, the remote one by its path.
Frame(n, path) == [dir |-> n, path |-> path, todo |-> {<<name[m], IsDir(m)>> : m \in Kids(n)}]
Entry(f, x)    == IF backend = "local" THEN Child(f.dir, x) ELSE Lookup(Append(f.path, x))

\* An entry is gone: the remote removal fails, the local one goes on.
Skip(r) ==
  LET k == Len(r.stack) IN
  IF backend = "sftp" THEN Fatal(r)
  ELSE IF k <= 1 THEN Done(r)
  ELSE [r EXCEPT !.stack = SubSeq(@, 1, k - 1)]

EnterDir(c) ==
  LET r == call[c]  n == Lookup(r.path) IN
  /\ At(c, "removeAll") /\ r.stack = << >>
  /\ \/ n = None /\ Answer(c, Skip(r))
     \/ IsDir(n) /\ Answer(c, [r EXCEPT !.stack = <<Frame(n, r.path)>>])
     \/ n \in FileNodes /\ backend = "sftp"  /\ Answer(c, Fatal(r))
     \/ n \in FileNodes /\ backend = "local" /\ Unlink(n) /\ Changed(c, Done(r))
  /\ UNCHANGED <<backend, late, calls>>

RemoveEntry(c, e) ==
  LET r == call[c]  k == Len(r.stack)  f == r.stack[k]  n == Entry(f, e[1])
      rest == [r EXCEPT !.stack[k].todo = @ \ {e}]
      asDir == IF backend = "local" THEN IsDir(n) ELSE e[2]
  IN
  /\ At(c, "removeAll") /\ k > 0 /\ e \in f.todo
  /\ \/ n = None /\ Answer(c, IF backend = "local" THEN rest ELSE Fatal(r))
     \/ n # None /\ asDir
          /\ Answer(c, IF IsDir(n) THEN [rest EXCEPT !.stack = Append(@, Frame(n, Append(f.path, e[1])))]
                       ELSE Fatal(r))
     \/ n # None /\ ~asDir
          /\ IF Kids(n) # {} THEN Answer(c, Again(r)) ELSE Unlink(n) /\ Changed(c, rest)
  /\ UNCHANGED <<backend, late, calls>>

\* Mutant: what appeared in the folder meanwhile is taken for removed with it.
LeaveDirUnchecked(c) ==
  LET r == call[c]  k == Len(r.stack)
      n == Lookup(r.stack[k].path)
      up == IF k = 1 THEN Done(r) ELSE [r EXCEPT !.stack = SubSeq(@, 1, k - 1)]
  IN
  /\ At(c, "removeAll") /\ k > 0 /\ r.stack[k].todo = {}
  /\ IF IsDir(n) /\ Kids(n) = {} THEN Unlink(n) /\ Changed(c, up) ELSE Answer(c, up)
  /\ UNCHANGED <<backend, late, calls>>

\* The folder itself: if something was put there meanwhile, all over again.
LeaveDir(c) ==
  LET r == call[c]  k == Len(r.stack)  f == r.stack[k]
      n == IF k = 1 THEN Lookup(r.path) ELSE Entry(r.stack[k - 1], Last(f.path))
      up == IF k = 1 THEN Done(r) ELSE [r EXCEPT !.stack = SubSeq(@, 1, k - 1)]
  IN
  /\ At(c, "removeAll") /\ k > 0 /\ f.todo = {}
  /\ \/ n = None /\ Answer(c, Skip(r))
     \/ n \in FileNodes /\ Answer(c, Fatal(r))
     \/ IsDir(n) /\ Kids(n) # {} /\ Answer(c, Again(r))
     \/ IsDir(n) /\ Kids(n) = {} /\ Unlink(n) /\ Changed(c, up)
  /\ UNCHANGED <<backend, late, calls>>
-----------------------------------------------------------------------------
(* RenameNode. os.Rename replaces a file by a file; the server refuses a name   *)
(* that is taken.                                                               *)
Replaces(n, m) == backend = "local" /\ {n, m} \subseteq FileNodes

Rename(c) ==
  LET r == call[c]  n == Lookup(r.path)  m == Lookup(To(r)) IN
  /\ At(c, "rename")
  /\ \/ n = None /\ Answer(c, Fatal(r))
     \/ /\ n # None /\ m # None /\ ~Replaces(n, m)
        /\ Answer(c, IF backend = "local" /\ m \in FileNodes THEN Fatal(r) ELSE Again(r))
     \/ /\ n # None /\ (m = None \/ Replaces(n, m))
        /\ parent' = [x \in Nodes |-> IF x = m THEN None ELSE parent[x]]
        /\ name' = [x \in Nodes |-> IF x = m THEN "" ELSE IF x = n THEN r.to ELSE name[x]]
        /\ data' = [f \in FileNodes |-> IF f = m THEN << >> ELSE data[f]]
        /\ Changed(c, Done(r))
  /\ UNCHANGED <<backend, late, calls>>
-----------------------------------------------------------------------------
(* A copy: OpenWrite or OpenWriteFromOffset, Write, Close. *)
Opened(r, n) == [r EXCEPT !.at = "write", !.node = n, !.pos = r.offset]

\* Mutant: the handle of a resumed copy is not moved to its offset.
OpenWriteFromStart(c) ==
  LET r == call[c]  n == Lookup(r.path) IN
  /\ At(c, "copy") /\ r.offset > 0
  /\ Set(c, CASE n = None -> Fatal(r) [] IsDir(n) -> Again(r)
              [] n \in FileNodes -> [Opened(r, n) EXCEPT !.pos = 0])
  /\ UNCHANGED <<backend, tree, late, calls>>

\* Nothing is truncated: what is there from the offset on is written over.
OpenWriteFromOffset(c) ==
  LET r == call[c]  n == Lookup(r.path) IN
  /\ At(c, "copy") /\ r.offset > 0
  /\ Set(c, CASE n = None -> Fatal(r) [] IsDir(n) -> Again(r) [] n \in FileNodes -> Opened(r, n))
  /\ UNCHANGED <<backend, tree, late, calls>>

OpenWrite(c) ==
  LET r == call[c]  n == Lookup(r.path) IN
  /\ At(c, "copy") /\ r.offset = 0
  /\ \/ IsDir(n) /\ Answer(c, Again(r))
     \/ n = None /\ (backend = "local" \/ ~InDir(r.path)) /\ Answer(c, Fatal(r))
     \/ n = None /\ backend = "sftp" /\ InDir(r.path)
          /\ MakeOne(c, FileNodes, r.path, Opened(r, FreeNode(FileNodes)))
     \/ n \in FileNodes /\ Empty(n) /\ Changed(c, Opened(r, n))
  /\ UNCHANGED <<backend, late, calls>>

Write(c) ==
  LET r == call[c] IN
  /\ At(c, "write") /\ r.offset < SourceLen
  /\ data' = [data EXCEPT ![r.node] = Put(@, r.pos, r.offset + 1)]
  /\ call' = [Touched EXCEPT ![c] = [r EXCEPT !.pos = @ + 1, !.offset = @ + 1]]
  /\ UNCHANGED <<backend, parent, name, late, faults, calls>>

\* The write fails or is out of time, and goes on behind its caller's back.
WriteFails(c) ==
  LET r == call[c] IN
  /\ At(c, "write") /\ r.offset < SourceLen
  /\ faults < MaxFaults /\ faults' = faults + 1
  /\ late' = late \cup {<<r.node, r.pos, r.offset + 1>>}
  /\ call' = [call EXCEPT ![c] = [Fatal(r) EXCEPT !.node = None, !.faulted = @ + 1]]
  /\ UNCHANGED <<backend, tree, calls>>

LateWrite(w) ==
  /\ late' = late \ {w}
  /\ \/ data' = [data EXCEPT ![w[1]] = Put(@, w[2], w[3])]
     \/ UNCHANGED data
  /\ UNCHANGED <<backend, parent, name, call, faults, calls>>

Close(c) ==
  /\ At(c, "write") /\ call[c].offset = SourceLen
  /\ Set(c, [Done(call[c]) EXCEPT !.node = None])
  /\ UNCHANGED <<backend, tree, late, calls>>

\* The worker is cancelled, or dies: the handle is closed, and a local copy is
\* resumed later from the offset that was reported.
Abandon(c) ==
  LET r == call[c] IN
  /\ At(c, "write") /\ faults < MaxFaults /\ faults' = faults + 1
  /\ call' = [call EXCEPT ![c] = [Fatal(r) EXCEPT !.node = None, !.faulted = @ + 1]]
  /\ UNCHANGED <<backend, tree, late, calls>>

Step(c) ==
  \/ MakeDir(c) \/ CreateFile(c) \/ Stat(c) \/ Lstat(c) \/ RemoveOne(c)
  \/ EnterDir(c) \/ LeaveDir(c) \/ \E x \in Names, b \in BOOLEAN : RemoveEntry(c, <<x, b>>)
  \/ Rename(c) \/ OpenWrite(c) \/ OpenWriteFromOffset(c) \/ Write(c) \/ Close(c)

Start(c) ==
  \E p \in Paths :
    \/ \E op \in {"mkdir", "create", "copy"} : Call(c, op, p, "")
    \/ \E t \in {"file", "folder"} : Call(c, "delete", p, t)
    \/ \E x \in Names \ {Last(p)} : Call(c, "rename", p, x)

Next ==
  \/ \E c \in Callers : Start(c) \/ Step(c) \/ Fault(c) \/ WriteFails(c) \/ Abandon(c) \/ Return(c)
  \/ \E w \in late : LateWrite(w)

Spec == Init /\ [][Next]_vars
-----------------------------------------------------------------------------
\* Every variable keeps its type, and the tree stays one: names are unique in a
\* folder, and nothing is below a folder that was removed.
TypeOK ==
  /\ backend \in Backends /\ faults \in 0 .. MaxFaults
  /\ \A n \in Nodes \ {Top} :
       parent[n] # None => IsDir(parent[n]) /\ (parent[n] = Top \/ parent[parent[n]] # None)
  /\ \A m, n \in Nodes \ {Top} :
       m # n /\ parent[m] = parent[n] /\ parent[m] # None => name[m] # name[n]
  /\ data \in [FileNodes -> Seq(0 .. SourceLen)]
  /\ \A w \in late : w \in FileNodes \X (0 .. SourceLen) \X (1 .. SourceLen)
  /\ \A c \in Callers : /\ call[c].tries \in 0 .. MaxTries /\ call[c].offset \in 0 .. SourceLen
                        /\ call[c].pos \in 0 .. IF At(c, "mkdir") THEN Len(call[c].path) - 1
                                                ELSE SourceLen
                        /\ (call[c].node # None) <=> At(c, "write")

\* A copy that is closed is the source, whatever attempts were abandoned before
\* it with a write on its way, unless somebody else changed something meanwhile:
\* each handle has its own position, a resumed copy goes on where the former one
\* was told it was, and one begun again empties the file.
CopyIsWhole ==
  \A c \in Callers : At(c, "done") /\ call[c].op = "copy" /\ ~call[c].touched =>
    LET n == Lookup(call[c].path) IN n \in FileNodes /\ data[n] = Source

\* A call that could be done, with nobody else in its way, fails only for its
\* faults: a local one when they outnumber the attempts, or when it was deleting
\* or renaming and met what it had done itself; a remote one at the first.
FailsForCause ==
  \A c \in Callers : At(c, "failed") /\ call[c].fit /\ ~call[c].touched =>
    \/ call[c].faulted > IF backend = "local" /\ call[c].op # "copy" THEN MaxTries ELSE 0
    \/ call[c].own /\ call[c].op \in {"delete", "rename"}

\* What a call reports as done is so when it does: a removed folder is gone with
\* all that others put into it meanwhile, a new node is there.
SuccessIsReal ==
  [][\A c \in Callers : ~At(c, "done") /\ At(c, "done")' =>
       LET r == call[c] IN
       CASE r.op = "delete" -> Lookup(r.path)' = None
         [] r.op = "rename" -> Lookup(r.path)' = None /\ Lookup(To(r))' # None
         [] r.op \in {"mkdir", "create"} -> Lookup(r.path)' # None
         [] OTHER -> TRUE]_vars
=============================================================================
