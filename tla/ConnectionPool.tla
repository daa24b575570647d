---------------------------- MODULE ConnectionPool ----------------------------
(***************************************************************************)
(* The connection pool of pkg/fs ServiceManager (manager.go,               *)
(* manager_cloud.go): the connections map with its reference counts, the   *)
(* Spectra and cloud sessions behind it, and the process-wide access token *)
(* cache those sessions share by connection id.                            *)
(*                                                                         *)
(* Every critical section under ServiceManager.mu is one atomic step; so   *)
(* is every call on a session or on the token store, which have locks of   *)
(* their own. Between two steps of one caller any other caller may run.    *)
(* A serviceConnection and the session it wraps are made together and      *)
(* never parted, so one identity in Sessions stands for both.              *)
(***************************************************************************)
EXTENDS Integers, FiniteSets

CONSTANTS
  Workers,     \* goroutines calling the manager
  Sessions,    \* identities for sessions; bounds how many are ever opened
  None,        \* no session
  MaxId,       \* connection ids are 0 .. MaxId; n also stands for "spectra-n"
  Ops          \* the operations the callers of this instance issue

OpNames == {"autoSpectra", "regSpectra", "regCloud", "acqSpectra",
            "acqCloud", "browse", "revoke", "drop"}

\* There are only so many goroutines at a time.
ASSUME WorkersAssumption == IsFiniteSet(Workers)

ASSUME PoolAssumption ==
  /\ None \notin Sessions
  /\ MaxId \in Nat
  /\ Ops \subseteq OpNames

ConnIds == 0 .. MaxId

VARIABLES
  connections,   \* m.connections: connection id -> session, or None
  conn,          \* the serviceConnection of each session, and its life
  token,         \* DefaultTokenStore: whose access token is cached per id
  job            \* what each caller is in the middle of

vars == <<connections, conn, token, job>>

Places == {"idle", "gen", "create", "prime", "register", "closing",
           "validate", "incr", "make", "undo", "held", "fetch", "clear"}

Conn(l, t, h, n) == [life |-> l, typ |-> t, home |-> h, refCount |-> n]
Job(o, a, c, s)  == [op |-> o, at |-> a, cid |-> c, sid |-> s]
Idle == Job("none", "idle", 0, None)

Init ==
  /\ connections = [c \in ConnIds |-> None]
  /\ conn  = [s \in Sessions |-> Conn("unused", "spectra", 0, 0)]
  /\ token = [c \in ConnIds |-> None]
  /\ job   = [w \in Workers |-> Idle]

-----------------------------------------------------------------------------
(* Helpers: where a caller is, and what an id names.                       *)

Ready(w, o) == job[w] = Idle /\ o \in Ops
Doing(w, a) == job[w].at = a
Finish(w)   == job' = [job EXCEPT ![w] = Idle]
Begin(w, o, a, c, s) == job' = [job EXCEPT ![w] = Job(o, a, c, s)]
Goto(w, a)  == Begin(w, job[w].op, a, job[w].cid, job[w].sid)

Registered == {c \in ConnIds : connections[c] # None}
IsCloud(s) == conn[s].typ = "cloud"

\* Mutant: deletes one reference too early.
DeletesEarly(c)  == connections[c] # None /\ conn[connections[c]].refCount <= 2

\* decrementConnectionRefCount: one critical section.
Deletes(c) == connections[c] # None /\ conn[connections[c]].refCount <= 1
\* Mutant: the entry stays in the map.
DecrementKeeps(c) ==
  /\ conn' = IF connections[c] = None THEN conn
             ELSE [conn EXCEPT ![connections[c]].refCount = @ - 1]
  /\ UNCHANGED connections
Decrement(c) ==
  /\ conn' = IF connections[c] = None THEN conn
             ELSE [conn EXCEPT ![connections[c]].refCount = @ - 1]
  /\ connections' = IF Deletes(c) THEN [connections EXCEPT ![c] = None]
                    ELSE connections
Closed(s) == [conn EXCEPT ![s].life = "closed"]

\* After a decrement: close what it removed, when the caller does that.
CloseOr(w, o, c, closes, otherwise) ==
  job' = [job EXCEPT ![w] =
            IF Deletes(c) /\ closes THEN Job(o, "closing", c, connections[c])
            ELSE otherwise]

-----------------------------------------------------------------------------
(* RegisterSpectraSession.                                                 *)

\* No id given: start from the number of registered connections ...
GenerateId(w) ==
  /\ Ready(w, "autoSpectra")
  /\ Cardinality(Registered) \in ConnIds
  /\ Begin(w, "autoSpectra", "gen", Cardinality(Registered), None)
  /\ UNCHANGED <<connections, conn, token>>

\* ... and count up, one lookup at a time, to an id that is not registered.
CandidateFree(w) ==
  /\ Doing(w, "gen")
  /\ connections[job[w].cid] = None
  /\ Goto(w, "create")
  /\ UNCHANGED <<connections, conn, token>>

CandidateTaken(w) ==
  /\ Doing(w, "gen")
  /\ connections[job[w].cid] # None
  /\ IF job[w].cid + 1 \in ConnIds
     THEN Begin(w, job[w].op, "gen", job[w].cid + 1, None)
     ELSE Finish(w)   \* bound MaxId: the model has no further id to try
  /\ UNCHANGED <<connections, conn, token>>

NameSpectra(w, c) ==
  /\ Ready(w, "regSpectra")
  /\ Begin(w, "regSpectra", "create", c, None)
  /\ UNCHANGED <<connections, conn, token>>

\* NewSpectraSession, outside the manager's lock; it may fail.
OpenSpectra(w, s) ==
  /\ Doing(w, "create")
  /\ conn[s].life = "unused"
  /\ conn' = [conn EXCEPT ![s] = Conn("open", "spectra", job[w].cid, 0)]
  /\ Begin(w, job[w].op, "register", job[w].cid, s)
  /\ UNCHANGED <<connections, token>>

OpenSpectraFails(w) ==
  /\ Doing(w, "create")
  /\ Finish(w)
  /\ UNCHANGED <<connections, conn, token>>

\* Mutant: the caller that finds the id taken forgets its own session.
RegisterSpectraForgets(w) ==
  /\ Doing(w, "register")
  /\ job[w].op \in {"autoSpectra", "regSpectra"}
  /\ connections' = IF connections[job[w].cid] = None
                    THEN [connections EXCEPT ![job[w].cid] = job[w].sid]
                    ELSE connections
  /\ Finish(w)
  /\ UNCHANGED <<conn, token>>

\* registerConnection; a caller that finds the id taken closes its own session.
RegisterSpectra(w) ==
  /\ Doing(w, "register")
  /\ job[w].op \in {"autoSpectra", "regSpectra"}
  /\ IF connections[job[w].cid] = None
     THEN /\ connections' = [connections EXCEPT ![job[w].cid] = job[w].sid]
          /\ Finish(w)
     ELSE Goto(w, "closing") /\ UNCHANGED connections
  /\ UNCHANGED <<conn, token>>

-----------------------------------------------------------------------------
(* RegisterCloudConnection.                                                *)

\* factory.NewSession (a failure changes nothing and is a stuttering step).
OpenCloud(w, c, s) ==
  /\ Ready(w, "regCloud")
  /\ conn[s].life = "unused"
  /\ conn' = [conn EXCEPT ![s] = Conn("open", "cloud", c, 0)]
  /\ Begin(w, "regCloud", "prime", c, s)
  /\ UNCHANGED <<connections, token>>

\* opts.AccessToken, when given, enters the shared store under the id.
Prime(w) ==
  /\ Doing(w, "prime")
  /\ \/ token' = [token EXCEPT ![job[w].cid] = job[w].sid]
     \/ UNCHANGED token
  /\ Goto(w, "register")
  /\ UNCHANGED <<connections, conn>>

\* Mutant: replaces whatever is there, in use or not.
RegisterCloudReplaces(w) ==
  /\ Doing(w, "register")
  /\ job[w].op = "regCloud"
  /\ connections' = [connections EXCEPT ![job[w].cid] = job[w].sid]
  /\ conn' = IF connections[job[w].cid] = None THEN conn
             ELSE Closed(connections[job[w].cid])
  /\ Finish(w)
  /\ UNCHANGED token

\* replaceOrRegisterConnection: the idle cloud session it displaces is closed
\* inside the critical section; a Spectra session it displaces is not.
RegisterCloud(w) ==
  LET c   == job[w].cid
      old == connections[c]
  IN  /\ Doing(w, "register")
      /\ job[w].op = "regCloud"
      /\ \/ /\ old # None
            /\ conn[old].refCount > 0
            /\ Goto(w, "closing")
            /\ UNCHANGED <<connections, conn, token>>
         \/ /\ old # None
            /\ conn[old].refCount <= 0
            /\ IsCloud(old)
            /\ conn' = Closed(old)
            /\ token' = [token EXCEPT ![conn[old].home] = None]
            /\ connections' = [connections EXCEPT ![c] = job[w].sid]
            /\ Finish(w)
         \/ /\ old # None => conn[old].refCount <= 0 /\ ~IsCloud(old)
            /\ connections' = [connections EXCEPT ![c] = job[w].sid]
            /\ Finish(w)
            /\ UNCHANGED <<conn, token>>

-----------------------------------------------------------------------------
(* acquireSpectraAdapter, acquireCloudAdapter and the releases they return. *)

\* getConnection and the type check; a miss is an error and changes nothing.
LookupSpectra(w, c) ==
  /\ Ready(w, "acqSpectra")
  /\ IF connections[c] # None /\ ~IsCloud(connections[c])
     THEN Begin(w, "acqSpectra", "validate", c, connections[c])
     ELSE UNCHANGED job
  /\ UNCHANGED <<connections, conn, token>>

\* session.IsClosed, on the connection looked up.
ValidateSpectra(w) ==
  /\ Doing(w, "validate")
  /\ IF conn[job[w].sid].life = "open" THEN Goto(w, "incr") ELSE Finish(w)
  /\ UNCHANGED <<connections, conn, token>>

\* incrementConnectionRefCount, by id: the connection it counts is dropped.
IncrementSpectra(w) ==
  LET s == connections[job[w].cid]
  IN  /\ Doing(w, "incr")
      /\ IF s = None
         THEN Finish(w) /\ UNCHANGED conn
         ELSE Goto(w, "make") /\ conn' = [conn EXCEPT ![s].refCount = @ + 1]
      /\ UNCHANGED <<connections, token>>

\* acquireCloudAdapter keeps the connection the increment returned.
IncrementCloud(w, c) ==
  /\ Ready(w, "acqCloud")
  /\ IF connections[c] = None
     THEN UNCHANGED <<conn, job>>
     ELSE /\ conn' = [conn EXCEPT ![connections[c]].refCount = @ + 1]
          /\ Begin(w, "acqCloud", "make", c, connections[c])
  /\ UNCHANGED <<connections, token>>

\* CreateAdapter succeeds only on an open session of the right type.
MakeAdapter(w) ==
  /\ Doing(w, "make")
  /\ conn[job[w].sid].life = "open"
  /\ job[w].op = "acqCloud" => IsCloud(job[w].sid)
  /\ Goto(w, "held")
  /\ UNCHANGED <<connections, conn, token>>

\* It fails on a closed session, a foreign one, or for the provider's reasons.
\* browse fails the same way and has nothing to undo.
MakeAdapterFails(w) ==
  /\ Doing(w, "make")
  /\ IF job[w].op = "browse" THEN Finish(w) ELSE Goto(w, "undo")
  /\ UNCHANGED <<connections, conn, token>>

\* Mutant: a failed acquire does not give its reference back.
UndoNothing(w) ==
  Doing(w, "undo") /\ Finish(w) /\ UNCHANGED <<connections, conn, token>>

\* Spectra: ReleaseConnection. Cloud: a bare decrement, its result ignored.
UndoAcquire(w) ==
  /\ Doing(w, "undo")
  /\ Decrement(job[w].cid)
  /\ CloseOr(w, job[w].op, job[w].cid, job[w].op = "acqSpectra", Idle)
  /\ UNCHANGED token

\* The release function. ReleaseConnection closes by the type of what it
\* removed; the cloud release closes a cloud session only.
Release(w) ==
  LET c == job[w].cid
  IN  /\ Doing(w, "held")
      /\ job[w].op \in {"acqSpectra", "acqCloud"}
      /\ Decrement(c)
      /\ CloseOr(w, job[w].op, c,
                 job[w].op = "acqSpectra" \/ IsCloud(connections[c]), Idle)
      /\ UNCHANGED token

\* session.Close, after the session left the map and outside the lock.
CloseSession(w) ==
  LET s == job[w].sid
  IN  /\ Doing(w, "closing")
      /\ conn'  = Closed(s)
      /\ token' = IF IsCloud(s) THEN [token EXCEPT ![conn[s].home] = None] ELSE token
      /\ IF job[w].op = "revoke" THEN Goto(w, "clear") ELSE Finish(w)
      /\ UNCHANGED connections

-----------------------------------------------------------------------------
(* Calls that take no reference, revocation, and the access token.         *)

\* Mutant: the result of the lookup is not tested.
BrowseUnchecked(w, c) ==
  /\ Ready(w, "browse")
  /\ Begin(w, "browse", "make", c, connections[c])
  /\ UNCHANGED <<connections, conn, token>>

\* listSpectraChildren, ListCloudChildren, cloudBrowseAdapter: look up, make
\* an adapter, use it, all without counting a reference.
Browse(w, c) ==
  /\ Ready(w, "browse")
  /\ IF connections[c] = None THEN UNCHANGED job
     ELSE Begin(w, "browse", "make", c, connections[c])
  /\ UNCHANGED <<connections, conn, token>>

BrowseDone(w) ==
  /\ Doing(w, "held")
  /\ job[w].op = "browse"
  /\ Finish(w)
  /\ UNCHANGED <<connections, conn, token>>

\* RevokeCloudConnection: a decrement like any release, then Close if that
\* removed a cloud session, then the cached token goes whatever happened.
Revoke(w, c) ==
  /\ Ready(w, "revoke")
  /\ Decrement(c)
  /\ CloseOr(w, "revoke", c, IsCloud(connections[c]),
             Job("revoke", "clear", c, connections[c]))
  /\ UNCHANGED token

ClearToken(w) ==
  /\ Doing(w, "clear")
  /\ token' = [token EXCEPT ![job[w].cid] = None]
  /\ Finish(w)
  /\ UNCHANGED <<connections, conn>>

\* ReleaseConnection called by id, by a caller that acquired nothing.
Drop(w, c) ==
  /\ Ready(w, "drop")
  /\ Decrement(c)
  /\ CloseOr(w, "drop", c, TRUE, Idle)
  /\ UNCHANGED token

\* A call through a cloud adapter finds no token, or a 401 clears the one it
\* used; then the token endpoint is asked, without any lock of the manager.
StartRefresh(w) ==
  /\ Doing(w, "held")
  /\ IsCloud(job[w].sid)
  /\ token' = [token EXCEPT ![job[w].cid] = None]
  /\ Goto(w, "fetch")
  /\ UNCHANGED <<connections, conn>>

\* SetAccessToken under the connection id, whatever became of the session.
StoreToken(w) ==
  /\ Doing(w, "fetch")
  /\ token' = [token EXCEPT ![job[w].cid] = job[w].sid]
  /\ Goto(w, "held")
  /\ UNCHANGED <<connections, conn>>

RefreshFails(w) ==
  /\ Doing(w, "fetch")
  /\ Goto(w, "held")
  /\ UNCHANGED <<connections, conn, token>>

-----------------------------------------------------------------------------
\* What a caller chooses to start.
Call(w) ==
  \/ GenerateId(w)
  \/ \E c \in ConnIds :
       \/ NameSpectra(w, c) \/ LookupSpectra(w, c) \/ IncrementCloud(w, c)
       \/ Browse(w, c) \/ Revoke(w, c) \/ Drop(w, c)
       \/ \E s \in Sessions : OpenCloud(w, c, s)

\* What it then runs through without being asked again.
Continue(w) ==
  \/ CandidateFree(w) \/ CandidateTaken(w)
  \/ \E s \in Sessions : OpenSpectra(w, s)
  \/ OpenSpectraFails(w) \/ RegisterSpectra(w)
  \/ Prime(w) \/ RegisterCloud(w)
  \/ ValidateSpectra(w) \/ IncrementSpectra(w)
  \/ MakeAdapter(w) \/ MakeAdapterFails(w) \/ UndoAcquire(w)
  \/ CloseSession(w) \/ ClearToken(w)
  \/ StoreToken(w) \/ RefreshFails(w)

\* What it does with an adapter in hand.
Use(w) == Release(w) \/ BrowseDone(w) \/ StartRefresh(w)

Next == \E w \in Workers : Call(w) \/ Continue(w) \/ Use(w)

Spec == Init /\ [][Next]_vars

\* A goroutine inside a manager call keeps running; a caller who holds an
\* adapter releases it (README: "always call the release function").
Fairness == \A w \in Workers : /\ WF_vars(Continue(w))
                               /\ WF_vars(Release(w))
FairSpec == Spec /\ Fairness
-----------------------------------------------------------------------------
Conns == [life: {"unused", "open", "closed"}, typ: {"spectra", "cloud"},
          home: ConnIds, refCount: Int]
Jobs  == [op: OpNames \cup {"none"}, at: Places, cid: ConnIds,
          sid: Sessions \cup {None}]

\* Every variable keeps its type, and a caller past a lookup has a session.
WithSession == Places \ {"idle", "gen", "create", "clear"}
TypeOK ==
  /\ connections \in [ConnIds -> Sessions \cup {None}]
  /\ conn  \in [Sessions -> Conns]
  /\ token \in [ConnIds -> Sessions \cup {None}]
  /\ job   \in [Workers -> Jobs]
  /\ \A w \in Workers : job[w].at \in WithSession => job[w].sid # None

\* The session under a connection id is open and was opened for that id:
\* Close runs outside the lock, but never on a session callers can still find.
RegisteredIsOpen ==
  \A c \in Registered : /\ conn[connections[c]].life = "open"
                        /\ conn[connections[c]].home = c

\* Who may still close a session: the caller that opened it and has not
\* registered it, or the caller that took it out of the map.
Owns(w, s) == job[w].sid = s /\ job[w].at \in {"prime", "register", "closing"}

\* A session is closed by one caller only, and only while it is open: sdk
\* Close is never run twice on one Spectra instance, nor on one in the map.
SoleCloser ==
  \A w \in Workers : \A s \in Sessions : Owns(w, s) =>
    /\ conn[s].life = "open"
    /\ \A c \in ConnIds : connections[c] # s
    /\ \A v \in Workers : Owns(v, s) => v = w

\* A session about to be registered belongs to the id it is registered under
\* and nobody has counted a reference on it. (Strengthens the two above.)
PendingIsFresh ==
  \A w \in Workers : job[w].at \in {"prime", "register"} =>
    /\ conn[job[w].sid].home = job[w].cid
    /\ conn[job[w].sid].refCount = 0

\* A connection in the map never has a negative count: a caller that releases
\* too much removes the connection instead of leaving a count that can no
\* longer reach zero.
CountNotNegative == \A c \in Registered : conn[connections[c]].refCount >= 0

\* The inductive invariant behind the three safety properties.
PoolInv == /\ TypeOK
           /\ RegisteredIsOpen
           /\ SoleCloser
           /\ PendingIsFresh
           /\ CountNotNegative

\* The callers a connection id has counted and not yet uncounted.
Counted(w, c) == /\ job[w].cid = c
                 /\ job[w].op \in {"acqSpectra", "acqCloud"}
                 /\ job[w].at \in {"make", "undo", "held", "fetch"}

\* The count of a registered connection is the number of callers between
\* their increment and their decrement on its id.
CountIsHolders ==
  \A c \in ConnIds :
    Cardinality({w \in Workers : Counted(w, c)}) =
      IF connections[c] = None THEN 0 ELSE conn[connections[c]].refCount

\* A caller with a cloud adapter uses the session its id names, and that
\* session is open, whatever other callers release, replace or register.
Lent(w, o) == job[w].op = o /\ job[w].at \in {"held", "fetch"}
LentIsRegistered(o) ==
  \A w \in Workers : Lent(w, o) =>
    /\ connections[job[w].cid] = job[w].sid
    /\ conn[job[w].sid].life = "open"
CloudLease   == LentIsRegistered("acqCloud")
SpectraLease == LentIsRegistered("acqSpectra")

\* An open session is in the map, or some caller is about to put it there or
\* to close it. Otherwise nothing will ever close it. Holds of Spectra
\* connections; a cloud connection whose adapter cannot be made is lost.
Leaked(s) == /\ conn[s].life = "open"
             /\ \A c \in ConnIds : connections[c] # s
             /\ \A w \in Workers : ~Owns(w, s)
NoLeak == \A s \in Sessions : ~Leaked(s)

\* A session taken out of the map is closed in the end.
RemovedIsClosed ==
  \A s \in Sessions :
    (conn[s].life = "open" /\ (\A c \in ConnIds : connections[c] # s))
      ~> (conn[s].life = "closed" \/ \E c \in ConnIds : connections[c] = s)

\* When every acquired adapter is released and nobody acquires again, the
\* session is closed: a count never sticks above zero.
LastReleaseCloses ==
  \A w \in Workers : \A s \in Sessions :
    (Lent(w, "acqSpectra") /\ job[w].sid = s)
      ~> (conn[s].life = "closed" \/ \E v \in Workers : Doing(v, "incr") \/ Doing(v, "make"))

\* So no Spectra session outlives its users and its registration.
SessionsEnd == RemovedIsClosed /\ LastReleaseCloses

\* The refinement: the map is the pool, a counted reference is a lease.
Lease == INSTANCE SessionLease WITH
           pool  <- connections,
           lease <- [w \in Workers |->
                       IF \E c \in ConnIds : Counted(w, c)
                       THEN connections[job[w].cid] ELSE None]
ImplementsLease == Lease!LeaseSpec

-----------------------------------------------------------------------------
(* A statement of the code's comments that the code does not keep.         *)

\* "registers a connection or replaces an existing idle session" (manager.go):
\* a connection in use keeps its own account's access token.
UsedTokenIsOwn ==
  \A c \in Registered :
    conn[connections[c]].refCount > 0 => token[c] \in {None, connections[c]}
=============================================================================
