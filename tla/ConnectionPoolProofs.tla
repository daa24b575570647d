------------------------- MODULE ConnectionPoolProofs -------------------------
(***************************************************************************)
(* Proofs about ConnectionPool for every set of callers, sessions and      *)
(* connection ids, and for every choice of Ops. First what holds whatever  *)
(* the callers do: types, counts that are natural numbers, no session that *)
(* is closed twice. Then what the counts are for: a count is the number of *)
(* callers that hold the id, a cloud session stays where it is while it is *)
(* lent, and the pool implements SessionLease. These hold for callers that *)
(* give back only what they took: ReleaseConnection by id and              *)
(* RevokeCloudConnection, which decrement without holding, are left out.   *)
(* At the end, for Spectra callers whatever they do, no session is lost.   *)
(***************************************************************************)
EXTENDS ConnectionPool, FiniteSetTheorems, TLAPS

USE PoolAssumption DEF OpNames

\* The idle job is a job, without a session.
LEMMA IdleIsJob == Idle \in Jobs /\ Idle.at = "idle" /\ Idle.sid = None
  BY DEF Idle, Job, Jobs, Places, ConnIds

\* The four operations that decrement a count (release, failed acquire,
\* revoke, drop) leave every variable in its type, and what the caller does
\* next is either to close exactly the session it removed or to go on idle.
LEMMA DecrementTypes ==
  ASSUME TypeOK, NEW w \in Workers, NEW c \in ConnIds, NEW o \in OpNames \cup {"none"},
         NEW closes \in BOOLEAN, NEW after \in Jobs, after.at \in {"idle", "clear"},
         Decrement(c), CloseOr(w, o, c, closes, after), UNCHANGED token
  PROVE  /\ TypeOK'
         /\ \A v \in Workers \ {w} : job'[v] = job[v]
         /\ \/ job'[w].at \in {"idle", "clear"}
            \/ /\ Deletes(c)
               /\ job'[w].at = "closing"
               /\ job'[w].sid = connections[c]
<1> USE DEF TypeOK
<1>1. /\ connections' \in [ConnIds -> Sessions \cup {None}]
      /\ conn' \in [Sessions -> Conns]
  BY DEF Decrement, Conns
<1>2. PICK j : /\ job' = [job EXCEPT ![w] = j]
               /\ \/ j = after
                  \/ Deletes(c) /\ j = Job(o, "closing", c, connections[c])
  BY DEF CloseOr
<1>3. \/ j = after
      \/ /\ Deletes(c) /\ j \in Jobs /\ j.at = "closing"
         /\ j.sid = connections[c] /\ j.sid # None
  BY <1>2 DEF Job, Jobs, Places, Deletes
<1>4. /\ job' \in [Workers -> Jobs]
      /\ \A v \in Workers \ {w} : job'[v] = job[v]
      /\ job'[w] = j
  BY <1>2, <1>3
<1>5. \A v \in Workers : job'[v].at \in WithSession => job'[v].sid # None
  BY <1>3, <1>4 DEF WithSession
<1> QED BY <1>1, <1>3, <1>4, <1>5

\* The part of TypeOK about job, and what the three ways to set it do.
JobOK == /\ job \in [Workers -> Jobs]
         /\ \A w \in Workers : job[w].at \in WithSession => job[w].sid # None

\* What Begin, Goto and Finish leave: a job of the type they are given,
LEMMA BeginEffect ==
  ASSUME TypeOK, NEW w \in Workers, NEW o \in OpNames \cup {"none"},
         NEW a \in Places, NEW c \in ConnIds, NEW s \in Sessions \cup {None},
         a \in WithSession => s # None, Begin(w, o, a, c, s)
  PROVE  JobOK' /\ job'[w] = Job(o, a, c, s) /\ \A v \in Workers \ {w} : job'[v] = job[v]
<1>1. Job(o, a, c, s) \in Jobs
  BY DEF Job, Jobs
<1>2. /\ job' \in [Workers -> Jobs]
      /\ job'[w] = Job(o, a, c, s)
      /\ \A v \in Workers \ {w} : job'[v] = job[v]
  BY <1>1 DEF Begin, TypeOK
<1> QED BY <1>2 DEF JobOK, TypeOK, Job

\* the same caller elsewhere,
LEMMA GotoEffect ==
  ASSUME TypeOK, NEW w \in Workers, NEW a \in Places,
         a \in WithSession => job[w].sid # None, Goto(w, a)
  PROVE  /\ JobOK'
         /\ job'[w] = Job(job[w].op, a, job[w].cid, job[w].sid)
         /\ \A v \in Workers \ {w} : job'[v] = job[v]
<1>1. /\ job[w].op \in OpNames \cup {"none"}
      /\ job[w].cid \in ConnIds
      /\ job[w].sid \in Sessions \cup {None}
  BY DEF TypeOK, Jobs
<1> QED BY <1>1, BeginEffect DEF Goto

\* an idle caller; and nobody else moves.
LEMMA FinishEffect ==
  ASSUME TypeOK, NEW w \in Workers, Finish(w)
  PROVE  JobOK' /\ job'[w] = Idle /\ \A v \in Workers \ {w} : job'[v] = job[v]
<1>1. /\ job' \in [Workers -> Jobs]
      /\ job'[w] = Idle
      /\ \A v \in Workers \ {w} : job'[v] = job[v]
  BY IdleIsJob DEF Finish, TypeOK
<1> QED BY <1>1, IdleIsJob DEF JobOK, TypeOK, WithSession

\* Only the count of one connection changes.
LEMMA CountEffect ==
  ASSUME TypeOK, NEW s \in Sessions, NEW n \in Int,
         conn' = [conn EXCEPT ![s].refCount = n]
  PROVE  /\ conn' \in [Sessions -> Conns]
         /\ conn'[s] = Conn(conn[s].life, conn[s].typ, conn[s].home, n)
         /\ \A r \in Sessions \ {s} : conn'[r] = conn[r]
<1>1. conn' = [conn EXCEPT ![s] = [conn[s] EXCEPT !.refCount = n]]
  OBVIOUS
<1>2. conn[s] \in Conns
  BY DEF TypeOK
<1>3. [conn[s] EXCEPT !.refCount = n] = Conn(conn[s].life, conn[s].typ, conn[s].home, n)
  BY <1>2 DEF Conns, Conn
<1>4. Conn(conn[s].life, conn[s].typ, conn[s].home, n) \in Conns
  BY <1>2 DEF Conns, Conn
<1> QED BY <1>1, <1>3, <1>4 DEF TypeOK

\* Each of the manager's steps keeps every variable in its type.
LEMMA TypeStep == TypeOK /\ [Next]_vars => TypeOK'
<1> SUFFICES ASSUME TypeOK, [Next]_vars PROVE TypeOK'
  OBVIOUS
<1>1. CASE UNCHANGED vars
  BY <1>1 DEF vars, TypeOK, WithSession
<1>2. ASSUME NEW w \in Workers, Call(w) PROVE TypeOK'
  <2>1. ASSUME GenerateId(w) PROVE TypeOK'
    <3>1. JobOK'
      BY <2>1, BeginEffect DEF GenerateId, Places, OpNames, WithSession
    <3> QED BY <2>1, <3>1 DEF GenerateId, TypeOK, JobOK
  <2>2. ASSUME NEW c \in ConnIds, NameSpectra(w, c) PROVE TypeOK'
    <3>1. JobOK'
      BY <2>2, BeginEffect DEF NameSpectra, Places, OpNames, WithSession
    <3> QED BY <2>2, <3>1 DEF NameSpectra, TypeOK, JobOK
  <2>3. ASSUME NEW c \in ConnIds, LookupSpectra(w, c) PROVE TypeOK'
    <3>1. CASE connections[c] # None /\ ~IsCloud(connections[c])
      <4>1. connections[c] \in Sessions
        BY <3>1 DEF TypeOK
      <4>2. JobOK'
        BY <2>3, <3>1, <4>1, BeginEffect DEF LookupSpectra, Places, OpNames
      <4> QED BY <2>3, <4>2 DEF LookupSpectra, TypeOK, JobOK
    <3>2. CASE ~(connections[c] # None /\ ~IsCloud(connections[c]))
      BY <2>3, <3>2 DEF LookupSpectra, TypeOK
    <3> QED BY <3>1, <3>2
  <2>4. ASSUME NEW c \in ConnIds, IncrementCloud(w, c) PROVE TypeOK'
    <3>1. CASE connections[c] = None
      BY <2>4, <3>1 DEF IncrementCloud, TypeOK, WithSession
    <3>2. CASE connections[c] # None
      <4>1. conn[connections[c]].refCount + 1 \in Int
        BY <3>2 DEF TypeOK, Conns
      <4>2. conn' \in [Sessions -> Conns]
        BY <2>4, <3>2, <4>1, CountEffect DEF IncrementCloud, TypeOK
      <4>3. JobOK'
        BY <2>4, <3>2, BeginEffect DEF IncrementCloud, Places, TypeOK
      <4> QED BY <2>4, <4>2, <4>3 DEF IncrementCloud, TypeOK, JobOK
    <3> QED BY <3>1, <3>2
  <2>5. ASSUME NEW c \in ConnIds, Browse(w, c) PROVE TypeOK'
    <3>1. CASE connections[c] # None
      <4>1. connections[c] \in Sessions
        BY <3>1 DEF TypeOK
      <4>2. JobOK'
        BY <2>5, <3>1, <4>1, BeginEffect DEF Browse, Places, OpNames
      <4> QED BY <2>5, <4>2 DEF Browse, TypeOK, JobOK
    <3>2. CASE connections[c] = None
      BY <2>5, <3>2 DEF Browse, TypeOK
    <3> QED BY <3>1, <3>2
  <2>6. ASSUME NEW c \in ConnIds, Revoke(w, c) PROVE TypeOK'
    <3>1. /\ c \in ConnIds
          /\ "revoke" \in OpNames \cup {"none"}
          /\ Job("revoke", "clear", c, connections[c]) \in Jobs
          /\ Job("revoke", "clear", c, connections[c]).at \in {"idle", "clear"}
      BY <2>6, IdleIsJob DEF TypeOK, Jobs, Job, Places, Ready, Revoke
    <3>2. /\ Decrement(c) /\ UNCHANGED token
          /\ CloseOr(w, "revoke", c, IsCloud(connections[c]), Job("revoke", "clear", c, connections[c]))
      BY <2>6 DEF Revoke
    <3>3. IsCloud(connections[c]) \in BOOLEAN
      BY DEF IsCloud
    <3> QED BY <3>1, <3>2, <3>3, DecrementTypes
  <2>7. ASSUME NEW c \in ConnIds, Drop(w, c) PROVE TypeOK'
    <3>1. /\ c \in ConnIds
          /\ "drop" \in OpNames \cup {"none"}
          /\ Idle \in Jobs
          /\ Idle.at \in {"idle", "clear"}
      BY <2>7, IdleIsJob DEF TypeOK, Jobs, Job, Places, Ready, Drop
    <3>2. Decrement(c) /\ CloseOr(w, "drop", c, TRUE, Idle) /\ UNCHANGED token
      BY <2>7 DEF Drop
    <3>3. TRUE \in BOOLEAN
      BY DEF IsCloud
    <3> QED BY <3>1, <3>2, <3>3, DecrementTypes
  <2>8. ASSUME NEW c \in ConnIds, NEW s \in Sessions, OpenCloud(w, c, s) PROVE TypeOK'
    <3>1. JobOK'
      BY <2>8, PoolAssumption, BeginEffect DEF OpenCloud, Places, OpNames
    <3>2. conn' \in [Sessions -> Conns]
      BY <2>8 DEF OpenCloud, TypeOK, Conns, Conn
    <3> QED BY <2>8, <3>1, <3>2 DEF OpenCloud, TypeOK, JobOK
  <2> QED BY <1>2, <2>1, <2>2, <2>3, <2>4, <2>5, <2>6, <2>7, <2>8 DEF Call
<1>3. ASSUME NEW w \in Workers, Continue(w) PROVE TypeOK'
  <2>1. ASSUME CandidateFree(w) PROVE TypeOK'
    <3>1. JobOK'
      BY <2>1, GotoEffect DEF CandidateFree, Places, WithSession
    <3> QED BY <2>1, <3>1 DEF CandidateFree, TypeOK, JobOK
  <2>2. ASSUME CandidateTaken(w) PROVE TypeOK'
    <3>1. job[w].op \in OpNames \cup {"none"}
      BY DEF TypeOK, Jobs
    <3>2. JobOK'
      BY <2>2, <3>1, BeginEffect, FinishEffect DEF CandidateTaken, Places, WithSession
    <3> QED BY <2>2, <3>2 DEF CandidateTaken, TypeOK, JobOK
  <2>3. ASSUME NEW s \in Sessions, OpenSpectra(w, s) PROVE TypeOK'
    <3>1. job[w].op \in OpNames \cup {"none"} /\ job[w].cid \in ConnIds
      BY DEF TypeOK, Jobs
    <3>2. JobOK'
      BY <2>3, <3>1, PoolAssumption, BeginEffect DEF OpenSpectra, Places
    <3>3. conn' \in [Sessions -> Conns]
      BY <2>3, <3>1 DEF OpenSpectra, TypeOK, Conns, Conn
    <3> QED BY <2>3, <3>2, <3>3 DEF OpenSpectra, TypeOK, JobOK
  <2>4. ASSUME OpenSpectraFails(w) PROVE TypeOK'
    <3>1. JobOK'
      BY <2>4, FinishEffect DEF OpenSpectraFails, TypeOK
    <3> QED BY <2>4, <3>1 DEF OpenSpectraFails, TypeOK, JobOK
  <2>5. ASSUME RegisterSpectra(w) PROVE TypeOK'
    <3>1. CASE connections[job[w].cid] = None
      <4>1. job[w].sid \in Sessions
        BY <2>5 DEF RegisterSpectra, Doing, TypeOK, Jobs, WithSession, Places
      <4>2. connections' \in [ConnIds -> Sessions \cup {None}]
        BY <2>5, <3>1, <4>1 DEF RegisterSpectra, TypeOK
      <4> QED BY <2>5, <3>1, <4>2, FinishEffect DEF RegisterSpectra, TypeOK, JobOK
    <3>2. CASE connections[job[w].cid] # None
      <4>1. JobOK'
        BY <2>5, <3>2, GotoEffect DEF RegisterSpectra, Places, TypeOK, Doing, WithSession
      <4> QED BY <2>5, <3>2, <4>1 DEF RegisterSpectra, TypeOK, JobOK
    <3> QED BY <3>1, <3>2
  <2>6. ASSUME Prime(w) PROVE TypeOK'
    <3>1. JobOK'
      BY <2>6, GotoEffect DEF Prime, Doing, Places, WithSession, TypeOK
    <3>2. token' \in [ConnIds -> Sessions \cup {None}]
      BY <2>6 DEF Prime, TypeOK, Jobs
    <3> QED BY <2>6, <3>1, <3>2 DEF Prime, TypeOK, JobOK
  <2>7. ASSUME RegisterCloud(w) PROVE TypeOK'
    <3> DEFINE c == job[w].cid
               old == connections[c]
    <3>1. c \in ConnIds /\ job[w].sid \in Sessions
      BY <2>7 DEF RegisterCloud, Doing, TypeOK, Jobs, WithSession, Places
    <3>2. CASE Goto(w, "closing") /\ UNCHANGED <<connections, conn, token>>
      <4>1. JobOK'
        BY <2>7, <3>2, GotoEffect DEF RegisterCloud, Places, TypeOK, Doing, WithSession
      <4> QED BY <3>2, <4>1 DEF TypeOK, JobOK
    <3>3. ASSUME connections' = [connections EXCEPT ![c] = job[w].sid], Finish(w),
                 conn' \in [Sessions -> Conns],
                 token' \in [ConnIds -> Sessions \cup {None}]
          PROVE  TypeOK'
      BY <3>1, <3>3, FinishEffect DEF TypeOK, JobOK
    <3>4. CASE /\ old # None /\ conn' = Closed(old)
               /\ token' = [token EXCEPT ![conn[old].home] = None]
      <4>1. /\ conn' \in [Sessions -> Conns]
            /\ token' \in [ConnIds -> Sessions \cup {None}]
        BY <3>1, <3>4 DEF Closed, TypeOK, Conns
      <4> QED BY <2>7, <3>2, <3>3, <4>1 DEF RegisterCloud
    <3>5. CASE UNCHANGED <<conn, token>>
      <4>1. /\ conn' \in [Sessions -> Conns]
            /\ token' \in [ConnIds -> Sessions \cup {None}]
        BY <3>5 DEF TypeOK
      <4> QED BY <2>7, <3>2, <3>3, <4>1 DEF RegisterCloud
    <3> QED BY <2>7, <3>2, <3>4, <3>5 DEF RegisterCloud
  <2>8. ASSUME ValidateSpectra(w) PROVE TypeOK'
    <3>1. CASE conn[job[w].sid].life = "open"
      <4>1. JobOK'
        BY <2>8, <3>1, GotoEffect DEF ValidateSpectra, Places, TypeOK, Doing, WithSession
      <4> QED BY <2>8, <4>1 DEF ValidateSpectra, TypeOK, JobOK
    <3>2. CASE conn[job[w].sid].life # "open"
      BY <2>8, <3>2, FinishEffect DEF ValidateSpectra, TypeOK, JobOK
    <3> QED BY <3>1, <3>2
  <2>9. ASSUME IncrementSpectra(w) PROVE TypeOK'
    <3>1. CASE connections[job[w].cid] = None
      BY <2>9, <3>1, FinishEffect DEF IncrementSpectra, TypeOK, JobOK
    <3>2. CASE connections[job[w].cid] # None
      <4>1. /\ connections[job[w].cid] \in Sessions
            /\ conn[connections[job[w].cid]].refCount + 1 \in Int
        BY <3>2 DEF TypeOK, Jobs, Conns
      <4>2. conn' \in [Sessions -> Conns]
        BY <2>9, <3>2, <4>1, CountEffect DEF IncrementSpectra, TypeOK
      <4>3. JobOK'
        BY <2>9, <3>2, GotoEffect DEF IncrementSpectra, Places, TypeOK, Doing, WithSession
      <4> QED BY <2>9, <4>2, <4>3 DEF IncrementSpectra, TypeOK, JobOK
    <3> QED BY <3>1, <3>2
  <2>10. ASSUME MakeAdapter(w) PROVE TypeOK'
    <3>1. JobOK'
      BY <2>10, GotoEffect DEF MakeAdapter, Doing, Places, WithSession, TypeOK
    <3> QED BY <2>10, <3>1 DEF MakeAdapter, TypeOK, JobOK
  <2>11. ASSUME MakeAdapterFails(w) PROVE TypeOK'
    <3>1. CASE job[w].op = "browse"
      BY <2>11, <3>1, FinishEffect DEF MakeAdapterFails, TypeOK, JobOK
    <3>2. CASE job[w].op # "browse"
      <4>1. JobOK'
        BY <2>11, <3>2, GotoEffect DEF MakeAdapterFails, Places, TypeOK, Doing, WithSession
      <4> QED BY <2>11, <4>1 DEF MakeAdapterFails, TypeOK, JobOK
    <3> QED BY <3>1, <3>2
  <2>12. ASSUME UndoAcquire(w) PROVE TypeOK'
    <3>1. /\ job[w].cid \in ConnIds
          /\ job[w].op \in OpNames \cup {"none"}
          /\ Idle \in Jobs
          /\ Idle.at \in {"idle", "clear"}
      BY <2>12, IdleIsJob DEF TypeOK, Jobs, Doing, UndoAcquire
    <3>2. /\ Decrement(job[w].cid) /\ UNCHANGED token
          /\ CloseOr(w, job[w].op, job[w].cid, (job[w].op = "acqSpectra"), Idle)
      BY <2>12 DEF UndoAcquire
    <3>3. (job[w].op = "acqSpectra") \in BOOLEAN
      BY DEF IsCloud
    <3> QED BY <3>1, <3>2, <3>3, DecrementTypes
  <2>13. ASSUME CloseSession(w) PROVE TypeOK'
    <3>1. job[w].sid \in Sessions
      BY <2>13 DEF CloseSession, Doing, TypeOK, Jobs, WithSession, Places
    <3>2. /\ conn' \in [Sessions -> Conns]
          /\ token' \in [ConnIds -> Sessions \cup {None}]
      BY <2>13, <3>1 DEF CloseSession, Closed, TypeOK, Conns
    <3>3. CASE job[w].op = "revoke"
      <4>1. JobOK'
        BY <2>13, <3>3, GotoEffect DEF CloseSession, Places, TypeOK, Doing, WithSession
      <4> QED BY <2>13, <3>2, <4>1 DEF CloseSession, TypeOK, JobOK
    <3>4. CASE job[w].op # "revoke"
      BY <2>13, <3>2, <3>4, FinishEffect DEF CloseSession, TypeOK, JobOK
    <3> QED BY <3>3, <3>4
  <2>14. ASSUME ClearToken(w) PROVE TypeOK'
    <3>1. JobOK'
      BY <2>14, FinishEffect DEF ClearToken
    <3>2. token' \in [ConnIds -> Sessions \cup {None}]
      BY <2>14 DEF ClearToken, TypeOK, Jobs
    <3> QED BY <2>14, <3>1, <3>2 DEF ClearToken, TypeOK, JobOK
  <2>15. ASSUME StoreToken(w) PROVE TypeOK'
    <3>1. JobOK'
      BY <2>15, GotoEffect DEF StoreToken, Doing, Places, WithSession, TypeOK
    <3>2. token' \in [ConnIds -> Sessions \cup {None}]
      BY <2>15 DEF StoreToken, TypeOK, Jobs
    <3> QED BY <2>15, <3>1, <3>2 DEF StoreToken, TypeOK, JobOK
  <2>16. ASSUME RefreshFails(w) PROVE TypeOK'
    <3>1. JobOK'
      BY <2>16, GotoEffect DEF RefreshFails, Doing, Places, WithSession, TypeOK
    <3> QED BY <2>16, <3>1 DEF RefreshFails, TypeOK, JobOK
  <2> QED
    BY <1>3, <2>1, <2>2, <2>3, <2>4, <2>5, <2>6, <2>7, <2>8, <2>9, <2>10, <2>11, <2>12, <2>13,
       <2>14, <2>15, <2>16
    DEF Continue
<1>4. ASSUME NEW w \in Workers, Use(w) PROVE TypeOK'
  <2>1. ASSUME Release(w) PROVE TypeOK'
    <3>1. /\ job[w].cid \in ConnIds
          /\ job[w].op \in OpNames \cup {"none"}
          /\ Idle \in Jobs
          /\ Idle.at \in {"idle", "clear"}
      BY <2>1, IdleIsJob DEF TypeOK, Jobs, Doing, Release
    <3>2. /\ Decrement(job[w].cid) /\ UNCHANGED token
          /\ CloseOr(w, job[w].op, job[w].cid,
                     job[w].op = "acqSpectra" \/ IsCloud(connections[job[w].cid]), Idle)
      BY <2>1 DEF Release
    <3>3. (job[w].op = "acqSpectra" \/ IsCloud(connections[job[w].cid])) \in BOOLEAN
      BY DEF IsCloud
    <3> QED BY <3>1, <3>2, <3>3, DecrementTypes
  <2>2. ASSUME BrowseDone(w) PROVE TypeOK'
    <3>1. JobOK'
      BY <2>2, FinishEffect DEF BrowseDone, TypeOK
    <3> QED BY <2>2, <3>1 DEF BrowseDone, TypeOK, JobOK
  <2>3. ASSUME StartRefresh(w) PROVE TypeOK'
    <3>1. JobOK'
      BY <2>3, GotoEffect DEF StartRefresh, Doing, Places, WithSession, TypeOK
    <3> QED BY <2>3, <3>1 DEF StartRefresh, TypeOK, JobOK
  <2> QED BY <1>4, <2>1, <2>2, <2>3 DEF Use
<1> QED BY <1>1, <1>2, <1>3, <1>4 DEF Next

-----------------------------------------------------------------------------
(* The inductive invariant. Each lemma below is about one way a step can   *)
(* touch the map, the sessions and who may close them; the actions are     *)
(* then sorted among the lemmas.                                           *)

Owning == {"prime", "register", "closing"}

MapInv == RegisteredIsOpen /\ SoleCloser /\ PendingIsFresh /\ CountNotNegative

\* An id names only sessions opened for it, so no two ids share a session.
LEMMA OneIdPerSession ==
  ASSUME TypeOK, RegisteredIsOpen, NEW c \in ConnIds, NEW d \in ConnIds,
         connections[c] # None, connections[c] = connections[d]
  PROVE  c = d
  BY DEF RegisteredIsOpen, Registered

\* A caller moves on without owning a session; at most the counts of
\* registered connections change, and stay non-negative.
LEMMA QuietStep ==
  ASSUME TypeOK, MapInv, TypeOK', NEW w \in Workers, UNCHANGED connections,
         \A v \in Workers \ {w} : job'[v] = job[v],
         job'[w] = job[w] \/ job'[w].at \notin Owning,
         \A s \in Sessions : /\ conn'[s].life = conn[s].life
                             /\ conn'[s].home = conn[s].home
                             /\ \/ conn'[s].refCount = conn[s].refCount
                                \/ /\ \E c \in ConnIds : connections[c] = s
                                   /\ conn'[s].refCount >= 0
  PROVE  MapInv'
<1> USE DEF MapInv, Owning
<1>1. RegisteredIsOpen'
  BY DEF RegisteredIsOpen, Registered, TypeOK
<1>2. SoleCloser'
  BY DEF SoleCloser, Owns, TypeOK
<1>3. PendingIsFresh'
  <2> SUFFICES ASSUME NEW v \in Workers, job'[v].at \in {"prime", "register"}
               PROVE  conn'[job'[v].sid].home = job'[v].cid /\ conn'[job'[v].sid].refCount = 0
    BY DEF PendingIsFresh
  <2>1. job'[v] = job[v]
    OBVIOUS
  <2>2. job[v].sid \in Sessions
    BY <2>1 DEF TypeOK, Jobs, WithSession, Places
  <2>3. \A c \in ConnIds : connections[c] # job[v].sid
    BY <2>1, <2>2 DEF SoleCloser, Owns
  <2> QED BY <2>1, <2>2, <2>3 DEF PendingIsFresh
<1>4. CountNotNegative'
  BY DEF CountNotNegative, Registered, TypeOK
<1> QED BY <1>1, <1>2, <1>3, <1>4

\* A caller opens an unused session and is the one that owns it.
LEMMA OpenStep ==
  ASSUME TypeOK, MapInv, TypeOK', NEW w \in Workers, NEW s \in Sessions,
         UNCHANGED connections, conn[s].life = "unused",
         \A v \in Workers \ {w} : job'[v] = job[v],
         job'[w].sid = s, job'[w].at \in {"prime", "register"},
         conn'[s].life = "open", conn'[s].home = job'[w].cid, conn'[s].refCount = 0,
         \A r \in Sessions \ {s} : conn'[r] = conn[r]
  PROVE  MapInv'
<1> USE DEF MapInv
<1>1. \A c \in ConnIds : connections[c] # s
  BY DEF RegisteredIsOpen, Registered, TypeOK
<1>2. \A v \in Workers : ~Owns(v, s)
  BY DEF SoleCloser
<1>3. RegisteredIsOpen'
  BY <1>1 DEF RegisteredIsOpen, Registered, TypeOK
<1>4. SoleCloser'
  BY <1>1, <1>2 DEF SoleCloser, Owns, TypeOK
<1>5. PendingIsFresh'
  <2> SUFFICES ASSUME NEW v \in Workers \ {w}, job'[v].at \in {"prime", "register"}
               PROVE  conn'[job'[v].sid].home = job'[v].cid /\ conn'[job'[v].sid].refCount = 0
    BY DEF PendingIsFresh
  <2>1. job[v].sid \in Sessions \ {s}
    BY <1>2 DEF TypeOK, Jobs, WithSession, Places, Owns
  <2> QED BY <2>1 DEF PendingIsFresh
<1>6. CountNotNegative'
  BY <1>1 DEF CountNotNegative, Registered, TypeOK
<1> QED BY <1>3, <1>4, <1>5, <1>6

\* A caller that owns a session keeps it and moves towards Close, or from
\* priming to registering.
LEMMA KeepStep ==
  ASSUME TypeOK, MapInv, TypeOK', NEW w \in Workers, UNCHANGED <<connections, conn>>,
         \A v \in Workers \ {w} : job'[v] = job[v],
         job[w].at \in {"prime", "register"}, job'[w].at \in {"register", "closing"},
         job'[w].sid = job[w].sid, job'[w].cid = job[w].cid
  PROVE  MapInv'
<1> USE DEF MapInv
<1>1. RegisteredIsOpen' /\ CountNotNegative'
  BY DEF RegisteredIsOpen, CountNotNegative, Registered
<1>2. SoleCloser'
  BY DEF SoleCloser, Owns
<1>3. PendingIsFresh'
  BY DEF PendingIsFresh
<1> QED BY <1>1, <1>2, <1>3

\* A caller registers its session under its id; a session displaced by it is
\* either left as it is or closed in the same step.
LEMMA PublishStep ==
  ASSUME TypeOK, MapInv, TypeOK', NEW w \in Workers, NEW c \in ConnIds,
         job[w].at = "register", c = job[w].cid,
         connections' = [connections EXCEPT ![c] = job[w].sid],
         \A v \in Workers \ {w} : job'[v] = job[v],
         job'[w].at \notin Owning,
         \A s \in Sessions : s # connections[c] => conn'[s] = conn[s]
  PROVE  MapInv'
<1> USE DEF MapInv
<1>0. job[w].sid \in Sessions /\ Owns(w, job[w].sid)
  BY DEF TypeOK, Jobs, WithSession, Places, Owns
<1>1. /\ conn[job[w].sid].life = "open"
      /\ conn[job[w].sid].home = c
      /\ conn[job[w].sid].refCount = 0
      /\ \A d \in ConnIds : connections[d] # job[w].sid
  BY <1>0 DEF SoleCloser, PendingIsFresh
<1>2. conn'[job[w].sid] = conn[job[w].sid]
  BY <1>0, <1>1
<1>3. ASSUME NEW d \in ConnIds, d # c, connections[d] # None
      PROVE  /\ connections'[d] = connections[d]
             /\ conn'[connections[d]] = conn[connections[d]]
  BY <1>3, OneIdPerSession DEF TypeOK
<1>4. connections'[c] = job[w].sid /\ \A d \in ConnIds \ {c} : connections'[d] = connections[d]
  BY DEF TypeOK
<1>5. RegisteredIsOpen'
  BY <1>1, <1>2, <1>3, <1>4 DEF RegisteredIsOpen, Registered
<1>6. CountNotNegative'
  BY <1>1, <1>2, <1>3, <1>4 DEF CountNotNegative, Registered
<1>7. ASSUME NEW v \in Workers, NEW s \in Sessions, Owns(v, s)'
      PROVE  v # w /\ Owns(v, s) /\ s # job[w].sid /\ conn'[s] = conn[s]
  <2>1. v # w /\ Owns(v, s)
    BY <1>7 DEF Owns, Owning
  <2>2. s # job[w].sid
    BY <2>1, <1>0 DEF SoleCloser
  <2>3. s # connections[c]
    BY <2>1 DEF SoleCloser
  <2> QED BY <2>1, <2>2, <2>3
<1>8. SoleCloser'
  BY <1>4, <1>7 DEF SoleCloser
<1>9. PendingIsFresh'
  <2> SUFFICES ASSUME NEW v \in Workers, job'[v].at \in {"prime", "register"}
               PROVE  conn'[job'[v].sid].home = job'[v].cid /\ conn'[job'[v].sid].refCount = 0
    BY DEF PendingIsFresh
  <2>1. job'[v].sid \in Sessions
    BY DEF TypeOK, Jobs, WithSession, Places
  <2>2. PICK r \in Sessions : r = job'[v].sid /\ Owns(v, r)'
    BY <2>1 DEF Owns
  <2> QED BY <2>2, <1>7 DEF PendingIsFresh, Owns
<1> QED BY <1>5, <1>6, <1>8, <1>9

\* A decrement: either the connection stays with a positive count, or the
\* caller that took it out of the map is the only one who may close it.
LEMMA DecrementStep ==
  ASSUME TypeOK, MapInv, NEW w \in Workers, NEW c \in ConnIds,
         NEW o \in OpNames \cup {"none"}, NEW closes \in BOOLEAN,
         NEW after \in Jobs, after.at \in {"idle", "clear"},
         Decrement(c), CloseOr(w, o, c, closes, after), UNCHANGED token
  PROVE  TypeOK' /\ MapInv'
<1>1. /\ TypeOK'
      /\ \A v \in Workers \ {w} : job'[v] = job[v]
      /\ \/ job'[w].at \in {"idle", "clear"}
         \/ /\ Deletes(c)
            /\ job'[w].at = "closing"
            /\ job'[w].sid = connections[c]
  BY DecrementTypes
<1>2. CASE connections[c] = None
  <2>1. UNCHANGED <<connections, conn>> /\ job'[w].at \notin Owning
    BY <1>1, <1>2 DEF Decrement, Deletes, Owning
  <2> QED BY <1>1, <2>1, QuietStep
<1>3. CASE connections[c] # None
  <2> DEFINE s == connections[c]
  <2>1. s \in Sessions /\ conn[s].refCount - 1 \in Int
    BY <1>3 DEF TypeOK, Conns
  <2>2. /\ conn'[s] = Conn(conn[s].life, conn[s].typ, conn[s].home, conn[s].refCount - 1)
        /\ \A r \in Sessions \ {s} : conn'[r] = conn[r]
    BY <1>3, <2>1, CountEffect DEF Decrement
  <2>3. CASE ~Deletes(c)
    <3>1. UNCHANGED connections /\ job'[w].at \notin Owning
      BY <1>1, <2>3 DEF Decrement, Owning
    <3>2. conn'[s].refCount >= 0
      BY <1>3, <2>1, <2>2, <2>3 DEF Deletes, Conn, TypeOK, Conns
    <3>3. conn'[s].life = conn[s].life /\ conn'[s].home = conn[s].home
      BY <2>2 DEF Conn
    <3> QED BY <1>1, <2>1, <2>2, <3>1, <3>2, <3>3, QuietStep
  <2>4. CASE Deletes(c)
    <3> USE DEF MapInv
    <3>1. /\ connections'[c] = None
          /\ \A d \in ConnIds \ {c} : connections'[d] = connections[d]
          /\ \A d \in ConnIds : connections'[d] # s
      BY <2>1, <2>4, <1>3, OneIdPerSession DEF Decrement, TypeOK
    <3>2. conn[s].life = "open" /\ conn'[s].life = "open"
      BY <1>3, <2>2 DEF RegisteredIsOpen, Registered, Conn
    <3>3. \A v \in Workers : ~Owns(v, s)
      BY <2>1 DEF SoleCloser
    <3>4. \A r \in Sessions : conn'[r].life = conn[r].life
      BY <2>2, <3>2
    <3>5. RegisteredIsOpen'
      BY <2>2, <3>1, <1>1 DEF RegisteredIsOpen, Registered, TypeOK
    <3>6. CountNotNegative'
      BY <2>2, <3>1, <1>1 DEF CountNotNegative, Registered, TypeOK
    <3>7. ASSUME NEW v \in Workers, NEW r \in Sessions, Owns(v, r)'
          PROVE  (v = w /\ r = s) \/ (v # w /\ Owns(v, r) /\ r # s)
      BY <1>1, <3>3, <3>7 DEF Owns
    <3>8. \A r \in Sessions : (\A d \in ConnIds : connections[d] # r)
                                => \A d \in ConnIds : connections'[d] # r
      BY <3>1, <1>1, <2>1 DEF TypeOK
    <3>9. SoleCloser'
      BY <3>1, <3>2, <3>4, <3>7, <3>8 DEF SoleCloser
    <3>10. PendingIsFresh'
      <4> SUFFICES ASSUME NEW v \in Workers, job'[v].at \in {"prime", "register"}
                   PROVE  conn'[job'[v].sid].home = job'[v].cid /\ conn'[job'[v].sid].refCount = 0
        BY DEF PendingIsFresh
      <4>1. v # w /\ job'[v] = job[v]
        BY <1>1
      <4>2. job[v].sid \in Sessions \ {s}
        BY <4>1, <3>3 DEF TypeOK, Jobs, WithSession, Places, Owns
      <4> QED BY <2>2, <4>1, <4>2 DEF PendingIsFresh
    <3> QED BY <1>1, <3>5, <3>6, <3>9, <3>10
  <2> QED BY <2>3, <2>4
<1> QED BY <1>2, <1>3

\* Close: nobody else may close the session and no id names it.
LEMMA CloseStep ==
  ASSUME TypeOK, MapInv, TypeOK', NEW w \in Workers, CloseSession(w)
  PROVE  MapInv'
<1> USE DEF MapInv
<1> DEFINE s == job[w].sid
<1>1. s \in Sessions /\ Owns(w, s)
  BY DEF CloseSession, Doing, TypeOK, Jobs, WithSession, Places, Owns
<1>2. /\ UNCHANGED connections
      /\ \A r \in Sessions \ {s} : conn'[r] = conn[r]
      /\ \A c \in ConnIds : connections[c] # s
  BY <1>1 DEF CloseSession, Closed, TypeOK, SoleCloser
<1>3. job'[w].at \in {"clear", "idle"} /\ \A v \in Workers \ {w} : job'[v] = job[v]
  <2>1. CASE job[w].op = "revoke"
    <3>1. Goto(w, "clear") /\ "clear" \in Places /\ "clear" \notin WithSession
      BY <2>1 DEF CloseSession, Places, WithSession
    <3>2. /\ job'[w] = Job(job[w].op, "clear", job[w].cid, job[w].sid)
          /\ \A v \in Workers \ {w} : job'[v] = job[v]
      BY <3>1, GotoEffect
    <3> QED BY <3>2 DEF Job
  <2>2. CASE job[w].op # "revoke"
    BY <2>2, FinishEffect, IdleIsJob DEF CloseSession
  <2> QED BY <2>1, <2>2
<1>4. RegisteredIsOpen' /\ CountNotNegative'
  BY <1>2 DEF RegisteredIsOpen, CountNotNegative, Registered, TypeOK
<1>5. ASSUME NEW v \in Workers, NEW r \in Sessions, Owns(v, r)'
      PROVE  v # w /\ Owns(v, r) /\ r # s
  <2>1. v # w /\ Owns(v, r)
    BY <1>3, <1>5 DEF Owns
  <2> QED BY <1>1, <2>1 DEF SoleCloser
<1>6. SoleCloser'
  BY <1>2, <1>5 DEF SoleCloser
<1>7. PendingIsFresh'
  <2> SUFFICES ASSUME NEW v \in Workers, job'[v].at \in {"prime", "register"}
               PROVE  conn'[job'[v].sid].home = job'[v].cid /\ conn'[job'[v].sid].refCount = 0
    BY DEF PendingIsFresh
  <2>1. job'[v].sid \in Sessions
    BY DEF TypeOK, Jobs, WithSession, Places
  <2>2. PICK r \in Sessions : r = job'[v].sid /\ Owns(v, r)'
    BY <2>1 DEF Owns
  <2>3. v # w /\ job'[v] = job[v] /\ conn'[r] = conn[r]
    BY <2>2, <1>2, <1>3, <1>5
  <2> QED BY <2>2, <2>3 DEF PendingIsFresh
<1> QED BY <1>4, <1>6, <1>7

\* How a step sets the place of its caller: the others stay where they are.
LEMMA MoveEffect ==
  ASSUME TypeOK, NEW w \in Workers, NEW a, Goto(w, a)
  PROVE  /\ job'[w].at = a /\ job'[w].sid = job[w].sid /\ job'[w].cid = job[w].cid
         /\ \A v \in Workers \ {w} : job'[v] = job[v]
  BY DEF Goto, Begin, Job, TypeOK

\* After Begin the caller is where, and with what, the action put it;
LEMMA StartEffect ==
  ASSUME TypeOK, NEW w \in Workers, NEW o, NEW a, NEW c, NEW s, Begin(w, o, a, c, s)
  PROVE  /\ job'[w].at = a /\ job'[w].sid = s /\ job'[w].cid = c
         /\ \A v \in Workers \ {w} : job'[v] = job[v]
  BY DEF Begin, Job, TypeOK

\* after Finish it is idle. Nobody else moves.
LEMMA EndEffect ==
  ASSUME TypeOK, NEW w \in Workers, Finish(w)
  PROVE  job'[w].at = "idle" /\ \A v \in Workers \ {w} : job'[v] = job[v]
  BY FinishEffect, IdleIsJob

\* A step that leaves the map and the connections alone and after which the
\* caller owns nothing new.
LEMMA CalmStep ==
  ASSUME TypeOK, MapInv, TypeOK', NEW w \in Workers, UNCHANGED <<connections, conn>>,
         \/ UNCHANGED job
         \/ Finish(w)
         \/ \E a \in Places \ Owning : Goto(w, a)
         \/ \E o, a, c, s : a \in Places \ Owning /\ Begin(w, o, a, c, s)
  PROVE  MapInv'
<1>1. /\ \A v \in Workers \ {w} : job'[v] = job[v]
      /\ job'[w] = job[w] \/ job'[w].at \notin Owning
  <2>1. CASE UNCHANGED job
    BY <2>1
  <2>2. CASE Finish(w)
    BY <2>2, EndEffect DEF Owning
  <2>3. CASE \E a \in Places \ Owning : Goto(w, a)
    BY <2>3, MoveEffect
  <2>4. CASE \E o, a, c, s : a \in Places \ Owning /\ Begin(w, o, a, c, s)
    BY <2>4, StartEffect
  <2> QED BY <2>1, <2>2, <2>3, <2>4
<1> QED BY <1>1, QuietStep

\* One more reference on a registered connection.
LEMMA IncrementStep ==
  ASSUME TypeOK, MapInv, TypeOK', NEW w \in Workers, NEW c \in ConnIds,
         connections[c] # None, UNCHANGED connections,
         conn' = [conn EXCEPT ![connections[c]].refCount = @ + 1],
         \A v \in Workers \ {w} : job'[v] = job[v], job'[w].at \notin Owning
  PROVE  MapInv'
<1> DEFINE s == connections[c]
<1>1. s \in Sessions /\ conn[s].refCount \in Int /\ conn[s].refCount >= 0
  BY DEF TypeOK, Conns, MapInv, CountNotNegative, Registered
<1>2. /\ conn'[s] = Conn(conn[s].life, conn[s].typ, conn[s].home, conn[s].refCount + 1)
      /\ \A r \in Sessions \ {s} : conn'[r] = conn[r]
  <2>1. conn' = [conn EXCEPT ![s].refCount = conn[s].refCount + 1]
    OBVIOUS
  <2>2. conn[s].refCount + 1 \in Int
    BY <1>1
  <2> HIDE DEF s
  <2> QED BY <1>1, <2>1, <2>2, CountEffect
<1>3. conn'[s].life = conn[s].life /\ conn'[s].home = conn[s].home /\ conn'[s].refCount >= 0
  BY <1>1, <1>2 DEF Conn
<1> QED BY <1>1, <1>2, <1>3, QuietStep

\* Every step keeps the invariant.
LEMMA InvStep == TypeOK /\ MapInv /\ [Next]_vars => MapInv'
<1> SUFFICES ASSUME TypeOK, MapInv, [Next]_vars PROVE MapInv'
  OBVIOUS
<1>0. TypeOK'
  BY TypeStep
<1>1. CASE UNCHANGED vars
  BY <1>1 DEF vars, MapInv, RegisteredIsOpen, SoleCloser, PendingIsFresh,
              CountNotNegative, Registered, Owns
<1>2. ASSUME NEW w \in Workers, Call(w) PROVE MapInv'
  <2>1. ASSUME GenerateId(w) PROVE MapInv'
    BY <2>1, <1>0, CalmStep DEF GenerateId, Places, Owning
  <2>2. ASSUME NEW c \in ConnIds, NameSpectra(w, c) PROVE MapInv'
    BY <2>2, <1>0, CalmStep DEF NameSpectra, Places, Owning
  <2>3. ASSUME NEW c \in ConnIds, LookupSpectra(w, c) PROVE MapInv'
    BY <2>3, <1>0, CalmStep DEF LookupSpectra, Places, Owning
  <2>4. ASSUME NEW c \in ConnIds, IncrementCloud(w, c) PROVE MapInv'
    <3>1. CASE connections[c] = None
      BY <2>4, <3>1, <1>0, CalmStep DEF IncrementCloud
    <3>2. CASE connections[c] # None
      <4>1. Begin(w, "acqCloud", "make", c, connections[c])
        BY <2>4, <3>2 DEF IncrementCloud
      <4>2. job'[w].at = "make" /\ \A v \in Workers \ {w} : job'[v] = job[v]
        BY <4>1, StartEffect
      <4> QED BY <2>4, <3>2, <4>2, <1>0, IncrementStep DEF IncrementCloud, Owning
    <3> QED BY <3>1, <3>2
  <2>5. ASSUME NEW c \in ConnIds, Browse(w, c) PROVE MapInv'
    BY <2>5, <1>0, CalmStep DEF Browse, Places, Owning
  <2>6. ASSUME NEW c \in ConnIds, Revoke(w, c) PROVE MapInv'
    <3>1. /\ c \in ConnIds
          /\ "revoke" \in OpNames \cup {"none"}
          /\ Job("revoke", "clear", c, connections[c]) \in Jobs
          /\ Job("revoke", "clear", c, connections[c]).at \in {"idle", "clear"}
      BY <2>6, IdleIsJob DEF TypeOK, Jobs, Job, Places, Ready, Revoke
    <3>2. /\ Decrement(c) /\ UNCHANGED token
          /\ CloseOr(w, "revoke", c, IsCloud(connections[c]), Job("revoke", "clear", c, connections[c]))
      BY <2>6 DEF Revoke
    <3>3. IsCloud(connections[c]) \in BOOLEAN
      BY DEF IsCloud
    <3> QED BY <3>1, <3>2, <3>3, DecrementStep
  <2>7. ASSUME NEW c \in ConnIds, Drop(w, c) PROVE MapInv'
    <3>1. /\ c \in ConnIds
          /\ "drop" \in OpNames \cup {"none"}
          /\ Idle \in Jobs
          /\ Idle.at \in {"idle", "clear"}
      BY <2>7, IdleIsJob DEF TypeOK, Jobs, Job, Places, Ready, Drop
    <3>2. Decrement(c) /\ CloseOr(w, "drop", c, TRUE, Idle) /\ UNCHANGED token
      BY <2>7 DEF Drop
    <3>3. TRUE \in BOOLEAN
      BY DEF IsCloud
    <3> QED BY <3>1, <3>2, <3>3, DecrementStep
  <2>8. ASSUME NEW c \in ConnIds, NEW s \in Sessions, OpenCloud(w, c, s) PROVE MapInv'
    <3>1. /\ job'[w].at = "prime" /\ job'[w].sid = s /\ job'[w].cid = c
          /\ \A v \in Workers \ {w} : job'[v] = job[v]
      BY <2>8, StartEffect DEF OpenCloud
    <3>2. conn'[s] = Conn("open", "cloud", c, 0) /\ \A r \in Sessions \ {s} : conn'[r] = conn[r]
      BY <2>8 DEF OpenCloud, TypeOK
    <3> QED BY <2>8, <1>0, <3>1, <3>2, OpenStep DEF OpenCloud, Conn
  <2> QED BY <1>2, <2>1, <2>2, <2>3, <2>4, <2>5, <2>6, <2>7, <2>8 DEF Call
<1>3. ASSUME NEW w \in Workers, Continue(w) PROVE MapInv'
  <2>1. ASSUME CandidateFree(w) PROVE MapInv'
    BY <2>1, <1>0, CalmStep DEF CandidateFree, Places, Owning
  <2>2. ASSUME CandidateTaken(w) PROVE MapInv'
    BY <2>2, <1>0, CalmStep DEF CandidateTaken, Places, Owning
  <2>3. ASSUME NEW s \in Sessions, OpenSpectra(w, s) PROVE MapInv'
    <3>1. /\ job'[w].at = "register" /\ job'[w].sid = s /\ job'[w].cid = job[w].cid
          /\ \A v \in Workers \ {w} : job'[v] = job[v]
      BY <2>3, StartEffect DEF OpenSpectra
    <3>2. /\ conn'[s] = Conn("open", "spectra", job[w].cid, 0)
          /\ \A r \in Sessions \ {s} : conn'[r] = conn[r]
      BY <2>3 DEF OpenSpectra, TypeOK
    <3> QED BY <2>3, <1>0, <3>1, <3>2, OpenStep DEF OpenSpectra, Conn
  <2>4. ASSUME OpenSpectraFails(w) PROVE MapInv'
    BY <2>4, <1>0, CalmStep DEF OpenSpectraFails, Places, Owning
  <2>5. ASSUME RegisterSpectra(w) PROVE MapInv'
    <3>1. job[w].at = "register" /\ job[w].cid \in ConnIds /\ UNCHANGED conn
      BY <2>5 DEF RegisterSpectra, Doing, TypeOK, Jobs
    <3>2. CASE connections[job[w].cid] = None
      <4>1. /\ connections' = [connections EXCEPT ![job[w].cid] = job[w].sid]
            /\ Finish(w)
        BY <2>5, <3>2 DEF RegisterSpectra
      <4> QED BY <1>0, <3>1, <4>1, EndEffect, PublishStep DEF Owning
    <3>3. CASE connections[job[w].cid] # None
      <4>1. Goto(w, "closing") /\ UNCHANGED connections
        BY <2>5, <3>3 DEF RegisterSpectra
      <4> QED BY <1>0, <3>1, <4>1, MoveEffect, KeepStep
    <3> QED BY <3>2, <3>3
  <2>6. ASSUME Prime(w) PROVE MapInv'
    <3>1. Goto(w, "register") /\ job[w].at = "prime" /\ UNCHANGED <<connections, conn>>
      BY <2>6 DEF Prime, Doing
    <3> QED BY <1>0, <3>1, MoveEffect, KeepStep
  <2>7. ASSUME RegisterCloud(w) PROVE MapInv'
    <3>1. job[w].at = "register" /\ job[w].cid \in ConnIds
      BY <2>7 DEF RegisterCloud, Doing, TypeOK, Jobs
    <3>2. CASE Goto(w, "closing") /\ UNCHANGED <<connections, conn, token>>
      BY <1>0, <3>1, <3>2, MoveEffect, KeepStep
    <3>3. CASE /\ connections' = [connections EXCEPT ![job[w].cid] = job[w].sid]
               /\ Finish(w)
               /\ UNCHANGED conn \/ conn' = Closed(connections[job[w].cid])
      <4>1. \A s \in Sessions : s # connections[job[w].cid] => conn'[s] = conn[s]
        BY <3>3 DEF Closed, TypeOK
      <4> QED BY <1>0, <3>1, <3>3, <4>1, EndEffect, PublishStep DEF Owning
    <3> QED BY <2>7, <3>2, <3>3 DEF RegisterCloud
  <2>8. ASSUME ValidateSpectra(w) PROVE MapInv'
    BY <2>8, <1>0, CalmStep DEF ValidateSpectra, Places, Owning
  <2>9. ASSUME IncrementSpectra(w) PROVE MapInv'
    <3>1. CASE connections[job[w].cid] = None
      BY <2>9, <3>1, <1>0, CalmStep DEF IncrementSpectra
    <3>2. CASE connections[job[w].cid] # None
      <4>1. Goto(w, "make") /\ job[w].cid \in ConnIds
        BY <2>9, <3>2 DEF IncrementSpectra, TypeOK, Jobs
      <4>2. job'[w].at = "make" /\ \A v \in Workers \ {w} : job'[v] = job[v]
        BY <4>1, MoveEffect
      <4> QED BY <2>9, <3>2, <4>1, <4>2, <1>0, IncrementStep DEF IncrementSpectra, Owning
    <3> QED BY <3>1, <3>2
  <2>10. ASSUME MakeAdapter(w) PROVE MapInv'
    BY <2>10, <1>0, CalmStep DEF MakeAdapter, Places, Owning
  <2>11. ASSUME MakeAdapterFails(w) PROVE MapInv'
    <3>1. Finish(w) \/ Goto(w, "undo")
      BY <2>11 DEF MakeAdapterFails
    <3>2. UNCHANGED <<connections, conn>> /\ "undo" \in Places \ Owning
      BY <2>11 DEF MakeAdapterFails, Places, Owning
    <3> QED BY <1>0, <3>1, <3>2, CalmStep
  <2>12. ASSUME UndoAcquire(w) PROVE MapInv'
    <3>1. /\ job[w].cid \in ConnIds
          /\ job[w].op \in OpNames \cup {"none"}
          /\ Idle \in Jobs
          /\ Idle.at \in {"idle", "clear"}
      BY <2>12, IdleIsJob DEF TypeOK, Jobs, Doing, UndoAcquire
    <3>2. /\ Decrement(job[w].cid) /\ UNCHANGED token
          /\ CloseOr(w, job[w].op, job[w].cid, (job[w].op = "acqSpectra"), Idle)
      BY <2>12 DEF UndoAcquire
    <3>3. (job[w].op = "acqSpectra") \in BOOLEAN
      BY DEF IsCloud
    <3> QED BY <3>1, <3>2, <3>3, DecrementStep
  <2>13. ASSUME CloseSession(w) PROVE MapInv'
    BY <2>13, <1>0, CloseStep
  <2>14. ASSUME ClearToken(w) PROVE MapInv'
    BY <2>14, <1>0, CalmStep DEF ClearToken, Places, Owning
  <2>15. ASSUME StoreToken(w) PROVE MapInv'
    BY <2>15, <1>0, CalmStep DEF StoreToken, Places, Owning
  <2>16. ASSUME RefreshFails(w) PROVE MapInv'
    BY <2>16, <1>0, CalmStep DEF RefreshFails, Places, Owning
  <2> QED
    BY <1>3, <2>1, <2>2, <2>3, <2>4, <2>5, <2>6, <2>7, <2>8, <2>9, <2>10, <2>11, <2>12, <2>13,
       <2>14, <2>15, <2>16
    DEF Continue
<1>4. ASSUME NEW w \in Workers, Use(w) PROVE MapInv'
  <2>1. ASSUME Release(w) PROVE MapInv'
    <3>1. /\ job[w].cid \in ConnIds
          /\ job[w].op \in OpNames \cup {"none"}
          /\ Idle \in Jobs
          /\ Idle.at \in {"idle", "clear"}
      BY <2>1, IdleIsJob DEF TypeOK, Jobs, Doing, Release
    <3>2. /\ Decrement(job[w].cid) /\ UNCHANGED token
          /\ CloseOr(w, job[w].op, job[w].cid,
                     job[w].op = "acqSpectra" \/ IsCloud(connections[job[w].cid]), Idle)
      BY <2>1 DEF Release
    <3>3. (job[w].op = "acqSpectra" \/ IsCloud(connections[job[w].cid])) \in BOOLEAN
      BY DEF IsCloud
    <3> QED BY <3>1, <3>2, <3>3, DecrementStep
  <2>2. ASSUME BrowseDone(w) PROVE MapInv'
    BY <2>2, <1>0, CalmStep DEF BrowseDone, Places, Owning
  <2>3. ASSUME StartRefresh(w) PROVE MapInv'
    BY <2>3, <1>0, CalmStep DEF StartRefresh, Places, Owning
  <2> QED BY <1>4, <2>1, <2>2, <2>3 DEF Use
<1> QED BY <1>1, <1>2, <1>3, <1>4 DEF Next

\* The invariant holds of an empty pool.
LEMMA InitInv == Init => PoolInv
<1> SUFFICES ASSUME Init PROVE PoolInv
  OBVIOUS
<1> USE IdleIsJob DEF Init
<1>1. TypeOK
  <2>1. 0 \in ConnIds
    BY DEF ConnIds
  <2>2. Conn("unused", "spectra", 0, 0) \in Conns
    BY <2>1 DEF Conn, Conns
  <2> QED BY <2>2 DEF TypeOK, WithSession
<1>2. RegisteredIsOpen /\ CountNotNegative
  BY DEF RegisteredIsOpen, CountNotNegative, Registered
<1>3. SoleCloser /\ PendingIsFresh
  BY DEF SoleCloser, PendingIsFresh, Owns
<1> QED BY <1>1, <1>2, <1>3 DEF PoolInv

\* PoolInv is inductive.
THEOREM PoolInvariant == Spec => []PoolInv
<1>1. Init => PoolInv
  BY InitInv
<1>2. PoolInv /\ [Next]_vars => PoolInv'
  BY TypeStep, InvStep DEF PoolInv, MapInv
<1> QED BY <1>1, <1>2, PTL DEF Spec

\* Every variable keeps its type in every behaviour of the pool.
THEOREM TypeCorrect == Spec => []TypeOK
<1>1. PoolInv => TypeOK
  BY DEF PoolInv
<1> QED BY <1>1, PoolInvariant, PTL

\* No caller ever finds a closed session under a connection id, whatever is
\* registered, replaced, released, dropped or revoked meanwhile.
THEOREM RegisteredSessionsAreOpen == Spec => []RegisteredIsOpen
<1>1. PoolInv => RegisteredIsOpen
  BY DEF PoolInv
<1> QED BY <1>1, PoolInvariant, PTL

\* Every session is closed by at most one caller, while it is open and after
\* it left the map, so no SDK instance is closed twice.
THEOREM SessionsHaveOneCloser == Spec => []SoleCloser
<1>1. PoolInv => SoleCloser
  BY DEF PoolInv
<1> QED BY <1>1, PoolInvariant, PTL

\* The count of a registered connection is never negative, even when callers
\* release, drop or revoke references they do not have.
THEOREM CountsAreNatural == Spec => []CountNotNegative
<1>1. PoolInv => CountNotNegative
  BY DEF PoolInv
<1> QED BY <1>1, PoolInvariant, PTL

-----------------------------------------------------------------------------
(* The counts, for callers that give back only what they took. *)

\* Nobody decrements a count he did not increment.
LawfulCallers == Ops \cap {"revoke", "drop"} = {}

\* No cloud session is ever registered, acquired or revoked.
SpectraOnly == Ops \cap {"regCloud", "acqCloud", "revoke"} = {}

\* Between its increment and its decrement.
InUse == {"make", "undo", "held", "fetch"}
Uses(w) == job[w].op \in {"acqSpectra", "acqCloud"} /\ job[w].at \in InUse

USE DEF InUse

\* The operations a caller can be in at each of these places.
StageInv ==
  \A w \in Workers :
    /\ job[w].op \in Ops \cup {"none"}
    /\ job[w].at \in {"validate", "incr"} => job[w].op = "acqSpectra"
    /\ job[w].at \in InUse \ {"undo"} => job[w].op \in {"acqSpectra", "acqCloud", "browse"}
    /\ job[w].at = "undo" => job[w].op \in {"acqSpectra", "acqCloud"}

\* A caller of acquireCloudAdapter has the session its id names.
CloudInv ==
  \A w \in Workers : Uses(w) /\ job[w].op = "acqCloud" => connections[job[w].cid] = job[w].sid

\* An id keeps its session, and the session its count.
Untouched(c) ==
  /\ connections'[c] = connections[c]
  /\ connections[c] # None => conn'[connections[c]].refCount = conn[connections[c]].refCount

\* The four things a step of w does to the counts: nothing, ...
Passes(w) ==
  /\ \A c \in ConnIds : Untouched(c)
  /\ \/ ~Uses(w) /\ ~Uses(w)'
     \/ /\ Uses(w) /\ Uses(w)'
        /\ job'[w].op = job[w].op /\ job'[w].cid = job[w].cid /\ job'[w].sid = job[w].sid

\* ... it puts a session nobody counts under an id nobody counts, ...
Publishes(w, c) ==
  /\ ~Uses(w) /\ ~Uses(w)'
  /\ connections[c] # None => conn[connections[c]].refCount <= 0
  /\ \E s \in Sessions : connections' = [connections EXCEPT ![c] = s] /\ conn'[s].refCount = 0
  /\ \A d \in ConnIds \ {c} : Untouched(d)

\* ... it takes a reference, ...
Takes(w, c) ==
  /\ ~Uses(w) /\ Uses(w)'
  /\ job'[w].cid = c /\ (job'[w].op = "acqCloud" => job'[w].sid = connections[c])
  /\ connections[c] # None /\ connections' = connections
  /\ conn'[connections[c]].refCount = conn[connections[c]].refCount + 1
  /\ \A d \in ConnIds \ {c} : Untouched(d)

\* ... or it gives one back.
Returns(w, c) ==
  /\ Uses(w) /\ ~Uses(w)' /\ job[w].cid = c
  /\ connections' = IF Deletes(c) THEN [connections EXCEPT ![c] = None] ELSE connections
  /\ connections[c] # None => conn'[connections[c]].refCount = conn[connections[c]].refCount - 1
  /\ \A d \in ConnIds \ {c} : Untouched(d)

\* A step of w as the counts see it.
Counts(w) ==
  /\ \A v \in Workers \ {w} : job'[v] = job[v]
  /\ Passes(w) \/ \E c \in ConnIds : Publishes(w, c) \/ Takes(w, c) \/ Returns(w, c)
-----------------------------------------------------------------------------

\* A step that leaves the map and every count alone.
LEMMA PassStep ==
  ASSUME TypeOK, NEW w \in Workers, UNCHANGED connections,
         \A s \in Sessions : \/ conn'[s].refCount = conn[s].refCount
                             \/ \A c \in ConnIds : connections[c] # s,
         \A v \in Workers \ {w} : job'[v] = job[v],
         \/ job'[w] = job[w]
         \/ ~Uses(w) /\ ~Uses(w)'
         \/ /\ Uses(w) /\ Uses(w)'
            /\ job'[w].op = job[w].op /\ job'[w].cid = job[w].cid /\ job'[w].sid = job[w].sid
  PROVE  Counts(w)
<1>1. \A c \in ConnIds : Untouched(c)
  BY DEF Untouched, TypeOK
<1>2. job'[w] = job[w] => (Uses(w)' <=> Uses(w))
  BY DEF Uses
<1> QED
  BY <1>1, <1>2 DEF Counts, Passes

\* A caller that takes a reference on the session its id names.
LEMMA TakeStep ==
  ASSUME TypeOK, RegisteredIsOpen, NEW w \in Workers, NEW c \in ConnIds,
         connections[c] # None, UNCHANGED connections,
         conn' = [conn EXCEPT ![connections[c]].refCount = @ + 1],
         \A v \in Workers \ {w} : job'[v] = job[v],
         ~Uses(w), Uses(w)', job'[w].cid = c,
         job'[w].op = "acqCloud" => job'[w].sid = connections[c]
  PROVE  Counts(w)
<1>1. connections[c] \in Sessions /\ conn[connections[c]].refCount \in Int
  BY DEF TypeOK, Conns
<1>2. /\ conn'[connections[c]].refCount = conn[connections[c]].refCount + 1
      /\ \A s \in Sessions \ {connections[c]} : conn'[s] = conn[s]
  <2> DEFINE s == connections[c]
             n == conn[s].refCount + 1
  <2>1. conn' = [conn EXCEPT ![s].refCount = n] /\ n \in Int /\ s \in Sessions
    BY <1>1
  <2> HIDE DEF s, n
  <2>2. /\ conn'[s] = Conn(conn[s].life, conn[s].typ, conn[s].home, n)
        /\ \A r \in Sessions \ {s} : conn'[r] = conn[r]
    BY <2>1, CountEffect
  <2>3. conn'[s].refCount = n
    BY <2>2 DEF Conn
  <2> QED
    BY <2>2, <2>3 DEF s, n
<1>3. \A d \in ConnIds \ {c} : Untouched(d)
  BY <1>2, OneIdPerSession DEF Untouched, TypeOK
<1> QED
  BY <1>2, <1>3 DEF Counts, Takes

\* A caller that gives its reference back.
LEMMA ReturnStep ==
  ASSUME TypeOK, RegisteredIsOpen, NEW w \in Workers, NEW c \in ConnIds,
         NEW o \in OpNames \cup {"none"}, NEW closes \in BOOLEAN,
         Decrement(c), CloseOr(w, o, c, closes, Idle), UNCHANGED token,
         Uses(w), job[w].cid = c
  PROVE  Counts(w)
<1>1. /\ \A v \in Workers \ {w} : job'[v] = job[v]
      /\ job'[w].at \in {"idle", "clear", "closing"}
  BY IdleIsJob, DecrementTypes
<1>2. ~Uses(w)'
  BY <1>1 DEF Uses
<1>3. connections' = IF Deletes(c) THEN [connections EXCEPT ![c] = None] ELSE connections
  BY DEF Decrement
<1>4. CASE connections[c] = None
  <2>1. UNCHANGED <<connections, conn>>
    BY <1>4 DEF Decrement, Deletes
  <2>2. \A d \in ConnIds \ {c} : Untouched(d)
    BY <2>1 DEF Untouched
  <2> QED
    BY <1>1, <1>2, <1>3, <1>4, <2>2 DEF Counts, Returns
<1>5. CASE connections[c] # None
  <2> DEFINE s == connections[c]
             n == conn[s].refCount - 1
  <2>1. conn' = [conn EXCEPT ![s].refCount = n] /\ n \in Int /\ s \in Sessions
    BY <1>5 DEF Decrement, TypeOK, Conns
  <2> HIDE DEF s, n
  <2>2. /\ conn'[s] = Conn(conn[s].life, conn[s].typ, conn[s].home, n)
        /\ \A r \in Sessions \ {s} : conn'[r] = conn[r]
    BY <2>1, CountEffect
  <2>3. conn'[s].refCount = n
    BY <2>2 DEF Conn
  <2>4. \A d \in ConnIds \ {c} : connections[d] # None => connections[d] \in Sessions \ {s}
    BY OneIdPerSession DEF TypeOK, s
  <2>5. \A d \in ConnIds \ {c} : connections'[d] = connections[d]
    BY <1>3 DEF TypeOK
  <2>6. \A d \in ConnIds \ {c} : Untouched(d)
    BY <2>2, <2>4, <2>5 DEF Untouched
  <2> QED
    BY <1>1, <1>2, <1>3, <2>3, <2>6 DEF Counts, Returns, s, n
<1> QED
  BY <1>4, <1>5

\* A caller that registers its session.
LEMMA RegisterStep ==
  ASSUME PoolInv, NEW w \in Workers, NEW c \in ConnIds,
         job[w].at = "register", c = job[w].cid, Finish(w),
         connections' = [connections EXCEPT ![c] = job[w].sid],
         connections[c] # None => conn[connections[c]].refCount <= 0,
         \A s \in Sessions : conn'[s].refCount = conn[s].refCount
  PROVE  Counts(w)
<1>1. TypeOK /\ RegisteredIsOpen /\ PendingIsFresh
  BY DEF PoolInv
<1>2. job[w].sid \in Sessions /\ conn[job[w].sid].refCount = 0
  BY <1>1 DEF PendingIsFresh, TypeOK, Jobs, WithSession, Places
<1>3. job'[w].at = "idle" /\ \A v \in Workers \ {w} : job'[v] = job[v]
  BY <1>1, EndEffect
<1>4. ~Uses(w) /\ ~Uses(w)'
  BY <1>3 DEF Uses
<1>5. \A d \in ConnIds \ {c} : Untouched(d)
  BY <1>1 DEF Untouched, TypeOK
<1>6. Publishes(w, c)
  BY <1>2, <1>4, <1>5 DEF Publishes
<1> QED
  BY <1>3, <1>6 DEF Counts

\* What the ways to set job do to the place and the operation of a caller.
LEMMA GotoJob ==
  ASSUME TypeOK, NEW w \in Workers, NEW a, Goto(w, a)
  PROVE  /\ job'[w].op = job[w].op /\ job'[w].at = a
         /\ job'[w].cid = job[w].cid /\ job'[w].sid = job[w].sid
         /\ \A v \in Workers \ {w} : job'[v] = job[v]
  BY DEF Goto, Begin, Job, TypeOK

\* Begin sets all four fields,
LEMMA BeginJob ==
  ASSUME TypeOK, NEW w \in Workers, NEW o, NEW a, NEW c, NEW s, Begin(w, o, a, c, s)
  PROVE  /\ job'[w].op = o /\ job'[w].at = a /\ job'[w].cid = c /\ job'[w].sid = s
         /\ \A v \in Workers \ {w} : job'[v] = job[v]
  BY DEF Begin, Job, TypeOK

\* Finish makes the caller idle again,
LEMMA FinishJob ==
  ASSUME TypeOK, NEW w \in Workers, Finish(w)
  PROVE  /\ job'[w].op = "none" /\ job'[w].at = "idle"
         /\ \A v \in Workers \ {w} : job'[v] = job[v]
  BY DEF Finish, Idle, Job, TypeOK

\* and only an idle caller calls, and only what Ops has.
LEMMA ReadyJob ==
  ASSUME NEW w \in Workers, NEW o, Ready(w, o)
  PROVE  job[w].op = "none" /\ job[w].at = "idle" /\ o \in Ops
  BY DEF Ready, Idle, Job

\* After a decrement the caller closes the session the decrement removed, if
\* that is its to close, and goes on otherwise.
LEMMA DecrementJob ==
  ASSUME TypeOK, NEW w \in Workers, NEW c, NEW o, NEW closes, NEW after,
         CloseOr(w, o, c, closes, after)
  PROVE  /\ \/ job'[w] = after
            \/ /\ Deletes(c) /\ closes
               /\ job'[w].op = o /\ job'[w].at = "closing" /\ job'[w].sid = connections[c]
         /\ Deletes(c) /\ closes => job'[w].at = "closing" /\ job'[w].sid = connections[c]
         /\ \A v \in Workers \ {w} : job'[v] = job[v]
  BY DEF CloseOr, Job, TypeOK

\* Every caller stays with an operation it may issue, and at a place that
\* operation goes through.
LEMMA StageStep ==
  ASSUME TypeOK, StageInv, NEW w \in Workers, Call(w) \/ Continue(w) \/ Use(w)
  PROVE  StageInv'
<1> DEFINE Fits(j) ==
             /\ j.op \in Ops \cup {"none"}
             /\ j.at \in {"validate", "incr"} => j.op = "acqSpectra"
             /\ j.at \in InUse \ {"undo"} => j.op \in {"acqSpectra", "acqCloud", "browse"}
             /\ j.at = "undo" => j.op \in {"acqSpectra", "acqCloud"}
<1>1. Fits(job[w])
  BY DEF StageInv
<1>2. Fits(Idle)
  BY DEF Idle, Job
<1>3. ASSUME \A v \in Workers \ {w} : job'[v] = job[v], Fits(job'[w])
      PROVE  StageInv'
  BY <1>3 DEF StageInv
<1>4. ASSUME Call(w)
      PROVE  Fits(job'[w]) /\ \A v \in Workers \ {w} : job'[v] = job[v]
  <2>1. CASE GenerateId(w)
    BY <2>1, BeginJob, ReadyJob DEF GenerateId
  <2>2. ASSUME NEW c \in ConnIds,
               NameSpectra(w, c) \/ LookupSpectra(w, c) \/ IncrementCloud(w, c) \/ Browse(w, c)
        PROVE  Fits(job'[w]) /\ \A v \in Workers \ {w} : job'[v] = job[v]
    BY <1>1, <2>2, BeginJob, ReadyJob DEF NameSpectra, LookupSpectra, IncrementCloud, Browse
  <2>3. ASSUME NEW c \in ConnIds, Revoke(w, c) \/ Drop(w, c)
        PROVE  Fits(job'[w]) /\ \A v \in Workers \ {w} : job'[v] = job[v]
    <3>1. CASE Revoke(w, c)
      BY <3>1, DecrementJob, ReadyJob DEF Revoke, Job
    <3>2. CASE Drop(w, c)
      <4>1. CloseOr(w, "drop", c, TRUE, Idle) /\ "drop" \in Ops
        BY <3>2, ReadyJob DEF Drop
      <4>2. /\ \/ job'[w] = Idle
               \/ job'[w].op = "drop" /\ job'[w].at = "closing"
            /\ \A v \in Workers \ {w} : job'[v] = job[v]
        BY <4>1 DEF CloseOr, Job, TypeOK
      <4> QED
        BY <1>2, <4>1, <4>2
    <3> QED
      BY <2>3, <3>1, <3>2
  <2>4. ASSUME NEW c \in ConnIds, NEW s \in Sessions, OpenCloud(w, c, s)
        PROVE  Fits(job'[w]) /\ \A v \in Workers \ {w} : job'[v] = job[v]
    BY <2>4, BeginJob, ReadyJob DEF OpenCloud
  <2> QED
    BY <1>4, <2>1, <2>2, <2>3, <2>4 DEF Call
<1>5. ASSUME Continue(w)
      PROVE  Fits(job'[w]) /\ \A v \in Workers \ {w} : job'[v] = job[v]
  <2>1. CASE CandidateFree(w) \/ CandidateTaken(w) \/ \E s \in Sessions : OpenSpectra(w, s)
    BY <1>1, <2>1, GotoJob, BeginJob, FinishJob DEF CandidateFree, CandidateTaken, OpenSpectra
  <2>2. CASE OpenSpectraFails(w) \/ RegisterSpectra(w) \/ Prime(w) \/ RegisterCloud(w)
    BY <1>1, <2>2, GotoJob, FinishJob
    DEF OpenSpectraFails, RegisterSpectra, Prime, RegisterCloud
  <2>3. CASE ValidateSpectra(w) \/ IncrementSpectra(w) \/ MakeAdapter(w) \/ MakeAdapterFails(w)
    BY <1>1, <2>3, GotoJob, FinishJob
    DEF ValidateSpectra, IncrementSpectra, MakeAdapter, MakeAdapterFails, Doing
  <2>4. CASE UndoAcquire(w)
    BY <1>1, <1>2, <2>4, DecrementJob DEF UndoAcquire
  <2>5. CASE CloseSession(w) \/ ClearToken(w) \/ StoreToken(w) \/ RefreshFails(w)
    BY <1>1, <2>5, GotoJob, FinishJob
    DEF CloseSession, ClearToken, StoreToken, RefreshFails, Doing
  <2> QED
    BY <1>5, <2>1, <2>2, <2>3, <2>4, <2>5 DEF Continue
<1>6. ASSUME Use(w)
      PROVE  Fits(job'[w]) /\ \A v \in Workers \ {w} : job'[v] = job[v]
  <2>1. CASE Release(w)
    BY <1>1, <1>2, <2>1, DecrementJob DEF Release
  <2>2. CASE BrowseDone(w) \/ StartRefresh(w)
    BY <1>1, <2>2, GotoJob, FinishJob DEF BrowseDone, StartRefresh, Doing
  <2> QED
    BY <1>6, <2>1, <2>2 DEF Use
<1> QED
  BY <1>3, <1>4, <1>5, <1>6

\* LawfulCallers callers only pass, publish, take or return.
LEMMA CountKinds ==
  ASSUME PoolInv, StageInv, LawfulCallers, NEW w \in Workers, Call(w) \/ Continue(w) \/ Use(w)
  PROVE  Counts(w)
<1> USE DEF Uses
<1>1. TypeOK /\ RegisteredIsOpen /\ PendingIsFresh /\ SoleCloser
  BY DEF PoolInv
<1>2. job[w].cid \in ConnIds /\ job[w].op \in OpNames \cup {"none"}
  BY <1>1 DEF TypeOK, Jobs
<1>3. /\ job[w].at \in {"validate", "incr"} => job[w].op = "acqSpectra"
      /\ job[w].at \in InUse \ {"undo"} => job[w].op \in {"acqSpectra", "acqCloud", "browse"}
      /\ job[w].at = "undo" => job[w].op \in {"acqSpectra", "acqCloud"}
  BY DEF StageInv
<1>4. ASSUME UNCHANGED <<connections, conn>>,
             \/ UNCHANGED job
             \/ Finish(w) /\ ~Uses(w)
             \/ \E a : Goto(w, a) /\ (a \in InUse <=> job[w].at \in InUse)
             \/ \E o, a, c, s : /\ Begin(w, o, a, c, s) /\ ~Uses(w)
                                /\ a \notin InUse \/ o = "browse"
      PROVE  Counts(w)
  <2>1. CASE UNCHANGED job
    BY <1>1, <1>4, <2>1, PassStep
  <2>2. CASE Finish(w) /\ ~Uses(w)
    <3>1. job'[w].at = "idle" /\ \A v \in Workers \ {w} : job'[v] = job[v]
      BY <1>1, <2>2, FinishJob
    <3> QED
      BY <1>1, <1>4, <2>2, <3>1, PassStep
  <2>3. CASE \E a : Goto(w, a) /\ (a \in InUse <=> job[w].at \in InUse)
    <3>1. PICK a : Goto(w, a) /\ (a \in InUse <=> job[w].at \in InUse)
      BY <2>3
    <3>2. /\ job'[w].op = job[w].op /\ job'[w].at = a
          /\ job'[w].cid = job[w].cid /\ job'[w].sid = job[w].sid
          /\ \A v \in Workers \ {w} : job'[v] = job[v]
      BY <1>1, <3>1, GotoJob
    <3>3. Uses(w)' <=> Uses(w)
      BY <3>1, <3>2
    <3> QED
      BY <1>1, <1>4, <3>2, <3>3, PassStep
  <2>4. CASE \E o, a, c, s : Begin(w, o, a, c, s) /\ ~Uses(w) /\ (a \notin InUse \/ o = "browse")
    <3>1. PICK o, a, c, s : Begin(w, o, a, c, s) /\ ~Uses(w) /\ (a \notin InUse \/ o = "browse")
      BY <2>4
    <3>2. /\ job'[w].op = o /\ job'[w].at = a
          /\ \A v \in Workers \ {w} : job'[v] = job[v]
      BY <1>1, <3>1, BeginJob
    <3> QED
      BY <1>1, <1>4, <3>1, <3>2, PassStep
  <2> QED
    BY <1>4, <2>1, <2>2, <2>3, <2>4
<1>5. ASSUME Call(w)
      PROVE  Counts(w)
  <2>1. CASE GenerateId(w)
    BY <1>4, <2>1, ReadyJob DEF GenerateId
  <2>2. ASSUME NEW c \in ConnIds, NameSpectra(w, c) \/ LookupSpectra(w, c) \/ Browse(w, c)
        PROVE  Counts(w)
    <3>1. CASE NameSpectra(w, c)
      BY <1>4, <3>1, ReadyJob DEF NameSpectra
    <3>2. CASE LookupSpectra(w, c)
      BY <1>4, <3>2, ReadyJob DEF LookupSpectra
    <3>3. CASE Browse(w, c)
      BY <1>4, <3>3, ReadyJob DEF Browse
    <3> QED
      BY <2>2, <3>1, <3>2, <3>3
  <2>3. ASSUME NEW c \in ConnIds, IncrementCloud(w, c)
        PROVE  Counts(w)
    <3>1. CASE connections[c] = None
      BY <1>4, <2>3, <3>1 DEF IncrementCloud
    <3>2. CASE connections[c] # None
      <4>1. /\ Begin(w, "acqCloud", "make", c, connections[c])
            /\ conn' = [conn EXCEPT ![connections[c]].refCount = @ + 1]
            /\ UNCHANGED connections /\ ~Uses(w)
        BY <2>3, <3>2, ReadyJob DEF IncrementCloud
      <4>2. /\ job'[w].op = "acqCloud" /\ job'[w].at = "make"
            /\ job'[w].cid = c /\ job'[w].sid = connections[c]
            /\ \A v \in Workers \ {w} : job'[v] = job[v]
        BY <1>1, <4>1, BeginJob
      <4> QED
        BY <1>1, <3>2, <4>1, <4>2, TakeStep
    <3> QED
      BY <3>1, <3>2
  <2>4. ASSUME NEW c \in ConnIds, Revoke(w, c) \/ Drop(w, c)
        PROVE  Counts(w)
    BY <2>4, ReadyJob DEF Revoke, Drop, LawfulCallers
  <2>5. ASSUME NEW c \in ConnIds, NEW s \in Sessions, OpenCloud(w, c, s)
        PROVE  Counts(w)
    <3>1. /\ job'[w].at = "prime" /\ \A v \in Workers \ {w} : job'[v] = job[v]
          /\ job[w].at = "idle"
      BY <1>1, <2>5, BeginJob, ReadyJob DEF OpenCloud
    <3>2. \A d \in ConnIds : connections[d] # s
      BY <1>1, <2>5 DEF OpenCloud, RegisteredIsOpen, Registered, TypeOK
    <3>3. UNCHANGED connections /\ \A r \in Sessions \ {s} : conn'[r] = conn[r]
      BY <1>1, <2>5 DEF OpenCloud, TypeOK
    <3> QED
      BY <1>1, <3>1, <3>2, <3>3, PassStep
  <2> QED
    BY <1>5, <2>1, <2>2, <2>3, <2>4, <2>5 DEF Call
<1>6. ASSUME Continue(w)
      PROVE  Counts(w)
  <2>1. CASE CandidateFree(w) \/ CandidateTaken(w) \/ OpenSpectraFails(w) \/ ValidateSpectra(w)
    <3>1. CASE CandidateFree(w)
      BY <1>4, <3>1 DEF CandidateFree, Doing
    <3>2. CASE CandidateTaken(w)
      BY <1>4, <3>2 DEF CandidateTaken, Doing
    <3>3. CASE OpenSpectraFails(w)
      BY <1>4, <3>3 DEF OpenSpectraFails, Doing
    <3>4. CASE ValidateSpectra(w)
      BY <1>4, <3>4 DEF ValidateSpectra, Doing
    <3> QED
      BY <2>1, <3>1, <3>2, <3>3, <3>4
  <2>2. ASSUME NEW s \in Sessions, OpenSpectra(w, s)
        PROVE  Counts(w)
    <3>1. /\ job'[w].at = "register" /\ \A v \in Workers \ {w} : job'[v] = job[v]
          /\ job[w].at = "create"
      BY <1>1, <2>2, BeginJob DEF OpenSpectra, Doing
    <3>2. \A d \in ConnIds : connections[d] # s
      BY <1>1, <2>2 DEF OpenSpectra, RegisteredIsOpen, Registered, TypeOK
    <3>3. UNCHANGED connections /\ \A r \in Sessions \ {s} : conn'[r] = conn[r]
      BY <1>1, <2>2 DEF OpenSpectra, TypeOK
    <3> QED
      BY <1>1, <3>1, <3>2, <3>3, PassStep
  <2>3. CASE RegisterSpectra(w)
    <3>1. CASE connections[job[w].cid] = None
      <4>1. /\ connections' = [connections EXCEPT ![job[w].cid] = job[w].sid]
            /\ Finish(w) /\ UNCHANGED conn /\ job[w].at = "register"
        BY <2>3, <3>1 DEF RegisterSpectra, Doing
      <4> QED
        BY <1>2, <3>1, <4>1, RegisterStep
    <3>2. CASE connections[job[w].cid] # None
      BY <1>4, <2>3, <3>2 DEF RegisterSpectra, Doing
    <3> QED
      BY <3>1, <3>2
  <2>4. CASE Prime(w)
    BY <1>4, <2>4 DEF Prime, Doing
  <2>5. CASE RegisterCloud(w)
    <3> DEFINE c == job[w].cid
               old == connections[c]
    <3>1. CASE Goto(w, "closing") /\ UNCHANGED <<connections, conn>>
      BY <1>4, <2>5, <3>1 DEF RegisterCloud, Doing
    <3>2. CASE /\ old # None => conn[old].refCount <= 0
               /\ UNCHANGED conn \/ (old # None /\ conn' = Closed(old))
               /\ connections' = [connections EXCEPT ![c] = job[w].sid]
               /\ Finish(w)
      <4>1. \A s \in Sessions : conn'[s].refCount = conn[s].refCount
        BY <1>1, <3>2 DEF Closed, TypeOK, Conns
      <4>2. job[w].at = "register"
        BY <2>5 DEF RegisterCloud, Doing
      <4> QED
        BY <1>2, <3>2, <4>1, <4>2, RegisterStep
    <3> QED
      BY <2>5, <3>1, <3>2 DEF RegisterCloud
  <2>6. CASE IncrementSpectra(w)
    <3> DEFINE c == job[w].cid
    <3>1. CASE connections[c] = None
      BY <1>4, <2>6, <3>1 DEF IncrementSpectra, Doing
    <3>2. CASE connections[c] # None
      <4>1. /\ Goto(w, "make") /\ job[w].at = "incr"
            /\ conn' = [conn EXCEPT ![connections[c]].refCount = @ + 1]
            /\ UNCHANGED connections
        BY <2>6, <3>2 DEF IncrementSpectra, Doing
      <4>2. /\ job'[w].op = job[w].op /\ job'[w].at = "make" /\ job'[w].cid = c
            /\ \A v \in Workers \ {w} : job'[v] = job[v]
        BY <1>1, <4>1, GotoJob
      <4>3. job[w].op = "acqSpectra"
        BY <1>3, <4>1
      <4> QED
        BY <1>1, <1>2, <3>2, <4>1, <4>2, <4>3, TakeStep
    <3> QED
      BY <3>1, <3>2
  <2>7. CASE MakeAdapter(w)
    BY <1>4, <2>7 DEF MakeAdapter, Doing
  <2>8. CASE MakeAdapterFails(w)
    BY <1>4, <2>8 DEF MakeAdapterFails, Doing
  <2>9. CASE UndoAcquire(w)
    <3>1. /\ Decrement(job[w].cid) /\ UNCHANGED token /\ job[w].at = "undo"
          /\ CloseOr(w, job[w].op, job[w].cid, (job[w].op = "acqSpectra"), Idle)
      BY <2>9 DEF UndoAcquire, Doing
    <3>2. Uses(w) /\ (job[w].op = "acqSpectra") \in BOOLEAN
      BY <1>3, <3>1
    <3> QED
      BY <1>1, <1>2, <3>1, <3>2, ReturnStep
  <2>10. CASE CloseSession(w)
    <3>1. job[w].at = "closing" /\ job[w].sid \in Sessions
      BY <1>1, <2>10 DEF CloseSession, Doing, TypeOK, Jobs, WithSession, Places
    <3>2. UNCHANGED connections /\ \A s \in Sessions : conn'[s].refCount = conn[s].refCount
      BY <1>1, <2>10, <3>1 DEF CloseSession, Closed, TypeOK, Conns
    <3>3. job'[w].at \in {"clear", "idle"} /\ \A v \in Workers \ {w} : job'[v] = job[v]
      BY <1>1, <2>10, GotoJob, FinishJob DEF CloseSession
    <3> QED
      BY <1>1, <3>1, <3>2, <3>3, PassStep
  <2>11. CASE ClearToken(w)
    BY <1>4, <2>11 DEF ClearToken, Doing
  <2>12. CASE StoreToken(w) \/ RefreshFails(w)
    BY <1>4, <2>12 DEF StoreToken, RefreshFails, Doing
  <2> QED
    BY <1>6, <2>1, <2>2, <2>3, <2>4, <2>5, <2>6, <2>7, <2>8, <2>9, <2>10, <2>11, <2>12
    DEF Continue
<1>7. ASSUME Use(w)
      PROVE  Counts(w)
  <2>1. CASE Release(w)
    <3> DEFINE closes == job[w].op = "acqSpectra" \/ IsCloud(connections[job[w].cid])
    <3>1. /\ Decrement(job[w].cid) /\ UNCHANGED token /\ Uses(w)
          /\ CloseOr(w, job[w].op, job[w].cid, closes, Idle)
      BY <2>1 DEF Release, Doing
    <3>2. closes \in BOOLEAN
      BY DEF IsCloud
    <3> HIDE DEF closes
    <3> QED
      BY <1>1, <1>2, <3>1, <3>2, ReturnStep
  <2>2. CASE BrowseDone(w)
    BY <1>4, <2>2 DEF BrowseDone, Doing
  <2>3. CASE StartRefresh(w)
    BY <1>4, <2>3 DEF StartRefresh, Doing
  <2> QED
    BY <1>7, <2>1, <2>2, <2>3 DEF Use
<1> QED
  BY <1>5, <1>6, <1>7

Holders(c) == {w \in Workers : Counted(w, c)}

\* What the counts say of who holds an id.
LEMMA HolderFacts ==
  ASSUME TypeOK, CountIsHolders, NEW c \in ConnIds
  PROVE  /\ IsFiniteSet(Holders(c)) /\ Cardinality(Holders(c)) \in Nat
         /\ Cardinality(Holders(c)) = IF connections[c] = None THEN 0
                                      ELSE conn[connections[c]].refCount
         /\ connections[c] # None => conn[connections[c]].refCount \in Nat
         /\ Cardinality(Holders(c)) = 0 <=> Holders(c) = {}
<1>1. Holders(c) \subseteq Workers
  BY DEF Holders
<1>2. IsFiniteSet(Holders(c))
  BY <1>1, WorkersAssumption, FS_Subset
<1>3. Cardinality(Holders(c)) = IF connections[c] = None THEN 0
                                ELSE conn[connections[c]].refCount
  BY DEF CountIsHolders, Holders
<1> QED
  BY <1>2, <1>3, FS_CardinalityType, FS_EmptySet

\* An id that is not registered, or whose session nobody counts, has no holder.
LEMMA FreeHasNone ==
  ASSUME TypeOK, CountIsHolders, NEW c \in ConnIds,
         connections[c] = None \/ conn[connections[c]].refCount <= 0
  PROVE  \A v \in Workers : ~Counted(v, c)
<1>1. Holders(c) = {}
  BY HolderFacts
<1> QED
  BY <1>1 DEF Holders

\* A holder's id is registered; its decrement deletes the entry exactly when
\* there is no other holder.
LEMMA HeldIsCounted ==
  ASSUME TypeOK, CountIsHolders, NEW c \in ConnIds, NEW w \in Workers, Counted(w, c)
  PROVE  /\ connections[c] # None /\ conn[connections[c]].refCount \in Nat \ {0}
         /\ Cardinality(Holders(c) \ {w}) = conn[connections[c]].refCount - 1
         /\ Deletes(c) <=> \A v \in Workers \ {w} : ~Counted(v, c)
<1> DEFINE n == conn[connections[c]].refCount
           H == Holders(c)
<1>1. w \in H
  BY DEF Holders
<1>2. connections[c] # None /\ Cardinality(H) = n /\ n \in Nat \ {0} /\ IsFiniteSet(H)
  BY <1>1, HolderFacts
<1>3. /\ IsFiniteSet(H \ {w}) /\ Cardinality(H \ {w}) = n - 1
      /\ Cardinality(H \ {w}) = 0 <=> H \ {w} = {}
  <2>1. IsFiniteSet(H \ {w}) /\ Cardinality(H \ {w}) = n - 1
    BY <1>1, <1>2, FS_RemoveElement
  <2>2. PICK G : G = H \ {w}
    OBVIOUS
  <2>3. Cardinality(G) = 0 <=> G = {}
    BY <2>1, <2>2, FS_EmptySet
  <2> QED
    BY <2>1, <2>2, <2>3
<1>4. H \ {w} = {} <=> \A v \in Workers \ {w} : ~Counted(v, c)
  BY DEF Holders
<1> HIDE DEF H
<1>5. Deletes(c) <=> n <= 1
  BY <1>2 DEF Deletes
<1> QED
  BY <1>2, <1>3, <1>4, <1>5 DEF H

\* Only w changes what it holds.
LEMMA OthersHold ==
  ASSUME NEW w \in Workers, \A v \in Workers \ {w} : job'[v] = job[v]
  PROVE  /\ \A v \in Workers \ {w}, c \in ConnIds : Counted(v, c)' <=> Counted(v, c)
         /\ \A v \in Workers, c \in ConnIds : Counted(v, c) <=> Uses(v) /\ job[v].cid = c
         /\ \A c \in ConnIds : Counted(w, c)' <=> Uses(w)' /\ job'[w].cid = c
  BY DEF Counted, Uses

\* Each of the four kinds of step keeps the counts right: the set of holders and
\* the count lose or gain together.
LEMMA CountStep ==
  ASSUME TypeOK, CountIsHolders, NEW w \in Workers, Counts(w)
  PROVE  CountIsHolders'
<1>1. \A v \in Workers \ {w} : job'[v] = job[v]
  BY DEF Counts
<1>2. ASSUME NEW c \in ConnIds, Untouched(c), Counted(w, c)' <=> Counted(w, c)
      PROVE  Cardinality(Holders(c)') = IF connections'[c] = None THEN 0
                                        ELSE conn'[connections'[c]].refCount
  <2>1. Holders(c)' = Holders(c)
    BY <1>1, <1>2, OthersHold DEF Holders
  <2> QED
    BY <1>2, <2>1, HolderFacts DEF Untouched
<1>3. ASSUME NEW c \in ConnIds, Publishes(w, c)
      PROVE  Cardinality(Holders(c)') = IF connections'[c] = None THEN 0
                                        ELSE conn'[connections'[c]].refCount
  <2>1. ~Counted(w, c) /\ ~Counted(w, c)'
    BY <1>1, <1>3, OthersHold DEF Publishes
  <2>2. Holders(c)' = {}
    BY <1>1, <1>3, <2>1, OthersHold, FreeHasNone DEF Holders, Publishes
  <2>3. connections'[c] # None /\ conn'[connections'[c]].refCount = 0
    BY <1>3 DEF Publishes, TypeOK
  <2> QED
    BY <2>2, <2>3, FS_EmptySet
<1>4. ASSUME NEW c \in ConnIds, Takes(w, c)
      PROVE  Cardinality(Holders(c)') = IF connections'[c] = None THEN 0
                                        ELSE conn'[connections'[c]].refCount
  <2>1. ~Counted(w, c) /\ Counted(w, c)'
    BY <1>1, <1>4, OthersHold DEF Takes
  <2>2. Holders(c)' = Holders(c) \cup {w} /\ w \notin Holders(c)
    BY <1>1, <2>1, OthersHold DEF Holders
  <2>3. Cardinality(Holders(c)') = Cardinality(Holders(c)) + 1
    BY <2>2, HolderFacts, FS_AddElement
  <2>4. /\ connections'[c] = connections[c] /\ connections[c] # None
        /\ conn'[connections[c]].refCount = conn[connections[c]].refCount + 1
    BY <1>4 DEF Takes
  <2> QED
    BY <2>3, <2>4, HolderFacts
<1>5. ASSUME NEW c \in ConnIds, Returns(w, c)
      PROVE  Cardinality(Holders(c)') = IF connections'[c] = None THEN 0
                                        ELSE conn'[connections'[c]].refCount
  <2>1. Counted(w, c) /\ ~Counted(w, c)'
    BY <1>1, <1>5, OthersHold DEF Returns
  <2>2. Holders(c)' = Holders(c) \ {w}
    BY <1>1, <2>1, OthersHold DEF Holders
  <2>3. /\ connections[c] # None /\ conn[connections[c]].refCount \in Nat \ {0}
        /\ Cardinality(Holders(c) \ {w}) = conn[connections[c]].refCount - 1
    BY <2>1, HeldIsCounted
  <2>4. CASE Deletes(c)
    <3>1. connections'[c] = None
      BY <1>5, <2>4 DEF Returns, TypeOK
    <3>2. conn[connections[c]].refCount <= 1
      BY <2>4 DEF Deletes
    <3> QED
      BY <2>2, <2>3, <3>1, <3>2
  <2>5. CASE ~Deletes(c)
    <3>1. /\ connections'[c] = connections[c]
          /\ conn'[connections[c]].refCount = conn[connections[c]].refCount - 1
      BY <1>5, <2>3, <2>5 DEF Returns
    <3> QED
      BY <2>2, <2>3, <3>1
  <2> QED
    BY <2>4, <2>5
<1>6. ASSUME NEW d \in ConnIds
      PROVE  Cardinality(Holders(d)') = IF connections'[d] = None THEN 0
                                        ELSE conn'[connections'[d]].refCount
  <2>1. CASE Passes(w)
    BY <1>1, <1>2, <2>1, OthersHold DEF Passes
  <2>2. ASSUME NEW c \in ConnIds, Publishes(w, c) \/ Takes(w, c) \/ Returns(w, c), d # c
        PROVE  Untouched(d) /\ (Counted(w, d)' <=> Counted(w, d))
    BY <1>1, <2>2, OthersHold DEF Publishes, Takes, Returns
  <2> QED
    BY <1>2, <1>3, <1>4, <1>5, <2>1, <2>2 DEF Counts
<1> QED
  BY <1>6 DEF CountIsHolders, Holders

\* While v holds an id, no step of another caller gives it another session.
LEMMA HeldStays ==
  ASSUME TypeOK, CountIsHolders, NEW w \in Workers, Counts(w),
         NEW v \in Workers \ {w}, Uses(v), NEW c \in ConnIds, job[v].cid = c
  PROVE  connections'[c] = connections[c]
<1>1. Counted(v, c) /\ \A u \in Workers \ {w} : job'[u] = job[u]
  BY OthersHold DEF Counts
<1>2. CASE Passes(w)
  BY <1>2 DEF Passes, Untouched
<1>3. ASSUME NEW d \in ConnIds, Publishes(w, d)
      PROVE  connections'[c] = connections[c]
  <2>1. d # c
    BY <1>1, <1>3, FreeHasNone DEF Publishes
  <2> QED
    BY <1>3, <2>1 DEF Publishes, Untouched
<1>4. ASSUME NEW d \in ConnIds, Takes(w, d)
      PROVE  connections'[c] = connections[c]
  BY <1>4 DEF Takes
<1>5. ASSUME NEW d \in ConnIds, Returns(w, d)
      PROVE  connections'[c] = connections[c]
  <2>1. CASE d = c
    <3>1. Counted(w, c)
      BY <1>1, <1>5, <2>1, OthersHold DEF Returns
    <3>2. ~Deletes(c)
      BY <1>1, <3>1, HeldIsCounted
    <3> QED
      BY <1>5, <2>1, <3>2 DEF Returns
  <2>2. CASE d # c
    BY <1>5, <2>2 DEF Returns, Untouched
  <2> QED
    BY <2>1, <2>2
<1> QED
  BY <1>2, <1>3, <1>4, <1>5 DEF Counts

\* So a caller that has the session its id names goes on having it.
LEMMA CloudStep ==
  ASSUME TypeOK, TypeOK', CountIsHolders, CloudInv, NEW w \in Workers, Counts(w)
  PROVE  CloudInv'
<1>1. \A v \in Workers \ {w} : job'[v] = job[v]
  BY DEF Counts
<1>2. ASSUME NEW v \in Workers
      PROVE  job[v].cid \in ConnIds /\ job'[v].cid \in ConnIds
  BY DEF TypeOK, Jobs
<1>3. \A v \in Workers \ {w} : Uses(v) => connections'[job[v].cid] = connections[job[v].cid]
  BY <1>2, HeldStays
<1>4. ASSUME NEW v \in Workers, Uses(v)', job'[v].op = "acqCloud"
      PROVE  connections'[job'[v].cid] = job'[v].sid
  <2>1. CASE v # w
    <3>1. job'[v] = job[v] /\ Uses(v)
      BY <1>1, <1>4, <2>1 DEF Uses
    <3> QED
      BY <1>2, <1>3, <1>4, <2>1, <3>1 DEF CloudInv
  <2>2. CASE v = w
    <3>1. CASE Passes(w)
      <4>1. /\ Uses(w) /\ job'[w].op = job[w].op /\ job'[w].cid = job[w].cid
            /\ job'[w].sid = job[w].sid
        BY <1>4, <2>2, <3>1 DEF Passes
      <4> QED
        BY <1>2, <1>4, <2>2, <3>1, <4>1 DEF Passes, Untouched, CloudInv
    <3>2. ASSUME NEW d \in ConnIds, Takes(w, d)
          PROVE  connections'[job'[v].cid] = job'[v].sid
      BY <1>4, <2>2, <3>2 DEF Takes
    <3> QED
      BY <1>4, <2>2, <3>1, <3>2 DEF Counts, Publishes, Returns
  <2> QED
    BY <2>1, <2>2
<1> QED
  BY <1>4 DEF CloudInv
-----------------------------------------------------------------------------
\* The session each caller has a lease on.
Leases == [w \in Workers |-> IF \E c \in ConnIds : Counted(w, c)
                             THEN connections[job[w].cid] ELSE None]

\* A caller has a lease exactly while it holds a reference.
LEMMA LeaseOf ==
  ASSUME TypeOK, CountIsHolders, NEW w \in Workers
  PROVE  /\ ~Uses(w) => Leases[w] = None
         /\ Uses(w) => /\ job[w].cid \in ConnIds /\ Counted(w, job[w].cid)
                       /\ Leases[w] = connections[job[w].cid] /\ Leases[w] # None
<1>1. job[w].cid \in ConnIds
  BY DEF TypeOK, Jobs
<1>2. \A c \in ConnIds : Counted(w, c) <=> Uses(w) /\ job[w].cid = c
  BY DEF Counted, Uses
<1> QED
  BY <1>1, <1>2, HeldIsCounted DEF Leases

\* A lease on the session of a registered id is a count on that id.
LEMMA LeaseIsCount ==
  ASSUME TypeOK, RegisteredIsOpen, CountIsHolders,
         NEW c \in ConnIds, connections[c] # None, NEW v \in Workers
  PROVE  Leases[v] = connections[c] <=> Counted(v, c)
<1>1. Counted(v, c) <=> Uses(v) /\ job[v].cid = c
  BY DEF Counted, Uses
<1> QED
  BY <1>1, LeaseOf, OneIdPerSession

\* Each kind of step is a step of SessionLease, or none.
LEMMA LeaseStep ==
  ASSUME PoolInv, CountIsHolders, PoolInv', CountIsHolders', NEW w \in Workers, Counts(w)
  PROVE  Lease!Next \/ UNCHANGED Lease!leaseVars
<1>1. TypeOK /\ RegisteredIsOpen /\ TypeOK'
  BY DEF PoolInv
<1>2. \A v \in Workers \ {w} : job'[v] = job[v]
  BY DEF Counts
<1>3. ASSUME NEW v \in Workers \ {w}
      PROVE  Leases'[v] = Leases[v]
  <2>1. job'[v] = job[v] /\ (Uses(v)' <=> Uses(v))
    BY <1>2 DEF Uses
  <2>2. CASE ~Uses(v)
    <3>1. Leases[v] = None
      BY <1>1, <2>2, LeaseOf
    <3>2. ~ \E c \in ConnIds : Counted(v, c)'
      BY <2>1, <2>2 DEF Counted, Uses
    <3> QED
      BY <3>1, <3>2 DEF Leases
  <2>3. CASE Uses(v)
    <3>1. job[v].cid \in ConnIds /\ Leases[v] = connections[job[v].cid]
      BY <1>1, <2>3, LeaseOf
    <3>2. connections'[job[v].cid] = connections[job[v].cid]
      BY <1>1, <2>3, <3>1, HeldStays
    <3>3. Counted(v, job[v].cid)'
      BY <2>1, <2>3, <3>1 DEF Counted, Uses
    <3> QED
      BY <2>1, <3>1, <3>2, <3>3 DEF Leases
  <2> QED
    BY <2>2, <2>3
<1>4. /\ Leases = [v \in Workers |-> Leases[v]]
      /\ Leases' = [v \in Workers |-> Leases'[v]]
  BY DEF Leases
<1>5. ~Uses(w)' => Leases'[w] = None
  BY DEF Leases, Counted, Uses
<1>6. ASSUME NEW c \in ConnIds, Uses(w)', job'[w].cid = c
      PROVE  Leases'[w] = connections'[c]
  <2>1. Counted(w, c)'
    BY <1>6 DEF Counted, Uses
  <2> QED
    BY <1>6, <2>1 DEF Leases
<1>7. CASE Passes(w)
  <2>1. connections' = connections
    BY <1>1, <1>7 DEF Passes, Untouched, TypeOK
  <2>2. Leases'[w] = Leases[w]
    BY <1>1, <1>5, <1>6, <1>7, <2>1, LeaseOf DEF Passes
  <2>3. Leases' = Leases
    BY <1>3, <1>4, <2>2
  <2> QED
    BY <2>1, <2>3 DEF Lease!leaseVars, Leases
<1>8. ASSUME NEW c \in ConnIds, Publishes(w, c)
      PROVE  Lease!Next
  <2>1. PICK s \in Sessions : connections' = [connections EXCEPT ![c] = s]
    BY <1>8 DEF Publishes
  <2>2. ASSUME connections[c] # None
        PROVE  \A v \in Workers : Leases[v] # connections[c]
    BY <1>1, <1>8, <2>2, FreeHasNone, LeaseIsCount DEF Publishes
  <2>3. Leases' = Leases
    BY <1>1, <1>3, <1>4, <1>5, <1>8, LeaseOf DEF Publishes
  <2>4. Lease!Publish(c, s)
    BY <2>1, <2>2, <2>3 DEF Lease!Publish, Lease!Leased, Leases
  <2> QED
    BY <2>4 DEF Lease!Next
<1>9. ASSUME NEW c \in ConnIds, Takes(w, c)
      PROVE  Lease!Next
  <2>1. connections[c] # None /\ connections' = connections /\ Leases[w] = None
    BY <1>1, <1>9, LeaseOf DEF Takes
  <2>2. Leases' = [Leases EXCEPT ![w] = connections[c]]
    <3>1. Leases'[w] = connections[c]
      BY <1>6, <1>9, <2>1 DEF Takes
    <3> QED
      BY <1>3, <1>4, <3>1
  <2>3. Lease!Take(w, c)
    BY <2>1, <2>2 DEF Lease!Take, Leases
  <2> QED
    BY <2>3 DEF Lease!Next
<1>10. ASSUME NEW c \in ConnIds, Returns(w, c)
       PROVE  Lease!Next
  <2>1. Counted(w, c) /\ Leases[w] = connections[c] /\ Leases[w] # None
    BY <1>1, <1>10, LeaseOf DEF Returns
  <2>2. Leases' = [Leases EXCEPT ![w] = None]
    <3>1. Leases'[w] = None
      BY <1>5, <1>10 DEF Returns
    <3> QED
      BY <1>3, <1>4, <3>1
  <2>3. Deletes(c) <=> ~ \E v \in Workers \ {w} : Leases[v] = connections[c]
    BY <1>1, <2>1, HeldIsCounted, LeaseIsCount
  <2>4. connections' = IF \E v \in Workers \ {w} : Leases[v] = connections[c]
                       THEN connections ELSE [connections EXCEPT ![c] = None]
    BY <1>10, <2>3 DEF Returns
  <2>5. Lease!Return(w, c)
    BY <2>1, <2>2, <2>4 DEF Lease!Return, Leases
  <2> QED
    BY <2>5 DEF Lease!Next
<1> QED
  BY <1>7, <1>8, <1>9, <1>10 DEF Counts

\* What holds of lawful callers, step after step.
LeaseInv == PoolInv /\ StageInv /\ CountIsHolders /\ CloudInv

\* Before the first call nothing is registered and nobody holds anything,
LEMMA LeaseInvInit ==
  Init => LeaseInv /\ Lease!Init
<1> SUFFICES ASSUME Init
             PROVE  LeaseInv /\ Lease!Init
  OBVIOUS
<1>1. \A w \in Workers : job[w].op = "none" /\ job[w].at = "idle"
  BY DEF Init, Idle, Job
<1>2. PoolInv
  BY InitInv
<1>3. StageInv /\ CloudInv
  BY <1>1 DEF StageInv, CloudInv, Uses
<1>4. \A w \in Workers, c \in ConnIds : ~Counted(w, c)
  BY <1>1 DEF Counted
<1>5. CountIsHolders
  <2>1. \A c \in ConnIds : {w \in Workers : Counted(w, c)} = {} /\ connections[c] = None
    BY <1>4 DEF Init
  <2> QED
    BY <2>1, FS_EmptySet DEF CountIsHolders
<1>6. Lease!Init
  BY <1>4 DEF Lease!Init, Init
<1> QED
  BY <1>2, <1>3, <1>5, <1>6 DEF LeaseInv

\* and every step of lawful callers keeps LeaseInv and is a step of SessionLease.
LEMMA LeaseInvStep ==
  ASSUME LawfulCallers
  PROVE  LeaseInv /\ [Next]_vars => LeaseInv' /\ [Lease!Next]_(Lease!leaseVars)
<1> SUFFICES ASSUME LeaseInv, [Next]_vars
             PROVE  LeaseInv' /\ [Lease!Next]_(Lease!leaseVars)
  OBVIOUS
<1>1. PoolInv /\ StageInv /\ CountIsHolders /\ CloudInv /\ TypeOK
  BY DEF LeaseInv, PoolInv
<1>2. PoolInv' /\ TypeOK'
  BY <1>1, TypeStep, InvStep DEF PoolInv, MapInv
<1>3. CASE UNCHANGED vars
  <2>1. StageInv' /\ CountIsHolders' /\ CloudInv'
    BY <1>1, <1>3 DEF vars, StageInv, CountIsHolders, CloudInv, Counted, Uses
  <2>2. UNCHANGED Lease!leaseVars
    BY <1>3 DEF vars, Lease!leaseVars, Counted
  <2> QED
    BY <1>2, <2>1, <2>2 DEF LeaseInv
<1>4. ASSUME NEW w \in Workers, Call(w) \/ Continue(w) \/ Use(w)
      PROVE  LeaseInv' /\ [Lease!Next]_(Lease!leaseVars)
  <2>1. Counts(w)
    BY <1>1, <1>4, CountKinds
  <2>2. StageInv' /\ CountIsHolders' /\ CloudInv'
    BY <1>1, <1>2, <1>4, <2>1, StageStep, CountStep, CloudStep
  <2>3. Lease!Next \/ UNCHANGED Lease!leaseVars
    BY <1>1, <1>2, <2>1, <2>2, LeaseStep
  <2> QED
    BY <1>2, <2>2, <2>3 DEF LeaseInv
<1> QED
  BY <1>3, <1>4 DEF Next

\* The reference count of a registered session is the number of callers between
\* their acquire and their release (manager.go getConnectionIncrement,
\* decrementConnection), however many callers, ids and sessions there are.
THEOREM CountsAreHolders ==
  ASSUME LawfulCallers
  PROVE  Spec => []CountIsHolders
<1>1. Init => LeaseInv
  BY LeaseInvInit
<1>2. LeaseInv /\ [Next]_vars => LeaseInv'
  BY LeaseInvStep
<1>3. LeaseInv => CountIsHolders
  BY DEF LeaseInv
<1> QED
  BY <1>1, <1>2, <1>3, PTL DEF Spec

\* A caller that acquired a cloud adapter finds the session it was given still
\* registered under its id and open until it releases it (manager_cloud.go
\* acquireCloudAdapter): no replacement, eviction or release of others closes it.
THEOREM CloudSessionsStay ==
  ASSUME LawfulCallers
  PROVE  Spec => []CloudLease
<1>1. Init => LeaseInv
  BY LeaseInvInit
<1>2. LeaseInv /\ [Next]_vars => LeaseInv'
  BY LeaseInvStep
<1>3. LeaseInv => CloudLease
  <2> SUFFICES ASSUME LeaseInv, NEW w \in Workers, Lent(w, "acqCloud")
               PROVE  /\ connections[job[w].cid] = job[w].sid
                      /\ conn[job[w].sid].life = "open"
    BY DEF CloudLease, LentIsRegistered
  <2>1. TypeOK /\ RegisteredIsOpen /\ CloudInv
    BY DEF LeaseInv, PoolInv
  <2>2. Uses(w) /\ job[w].op = "acqCloud" /\ job[w].at \in WithSession
    BY DEF Lent, Uses, WithSession, Places
  <2>3. connections[job[w].cid] = job[w].sid
    BY <2>1, <2>2 DEF CloudInv
  <2>4. job[w].sid # None /\ job[w].cid \in ConnIds
    BY <2>1, <2>2 DEF TypeOK, Jobs
  <2> QED
    BY <2>1, <2>3, <2>4 DEF RegisteredIsOpen, Registered
<1> QED
  BY <1>1, <1>2, <1>3, PTL DEF Spec

\* The pool implements SessionLease: a session is published under an id only while
\* nobody has a lease on the old one, and is withdrawn with the last lease.
THEOREM PoolIsLease ==
  ASSUME LawfulCallers
  PROVE  Spec => ImplementsLease
<1>1. Init => LeaseInv /\ Lease!Init
  BY LeaseInvInit
<1>2. LeaseInv /\ [Next]_vars => LeaseInv' /\ [Lease!Next]_(Lease!leaseVars)
  BY LeaseInvStep
<1> QED
  BY <1>1, <1>2, PTL DEF Spec, ImplementsLease, Lease!LeaseSpec
-----------------------------------------------------------------------------
(* Sessions that nobody will ever close.                                   *)

\* Somebody can still find the session, or is about to register or to close it.
Reached(s) == (\E c \in ConnIds : connections[c] = s) \/ \E w \in Workers : Owns(w, s)

\* A step that opens nothing, and of what it takes from the map or from its
\* caller lets nothing go that is open.
LEMMA KeepsReach ==
  ASSUME NoLeak, NEW w \in Workers, \A v \in Workers \ {w} : job'[v] = job[v],
         \A s \in Sessions :
           /\ conn'[s].life = "open" => conn[s].life = "open" \/ Reached(s)'
           /\ conn'[s].life = "open" /\ (\E c \in ConnIds : connections[c] = s) => Reached(s)'
           /\ conn'[s].life = "open" /\ Owns(w, s) => Reached(s)'
  PROVE  NoLeak'
<1> SUFFICES ASSUME NEW s \in Sessions, conn'[s].life = "open"
             PROVE  Reached(s)'
  BY DEF NoLeak, Leaked, Reached
<1>1. CASE \E v \in Workers \ {w} : Owns(v, s)
  BY <1>1 DEF Reached, Owns
<1>2. CASE ~ \E v \in Workers \ {w} : Owns(v, s)
  <2>1. CASE conn[s].life = "open"
    BY <1>2, <2>1 DEF NoLeak, Leaked
  <2>2. CASE conn[s].life # "open"
    BY <2>2
  <2> QED
    BY <2>1, <2>2
<1> QED
  BY <1>1, <1>2

\* A step after which its caller owns what it owned.
LEMMA CalmKeepsReach ==
  ASSUME NoLeak, NEW w \in Workers, \A v \in Workers \ {w} : job'[v] = job[v],
         UNCHANGED connections, \A s \in Sessions : conn'[s].life = conn[s].life,
         job[w].at \in Owning => job'[w].at \in Owning /\ job'[w].sid = job[w].sid
  PROVE  NoLeak'
<1>1. \A s \in Sessions : Owns(w, s) => Owns(w, s)'
  BY DEF Owns, Owning
<1> QED
  BY <1>1, KeepsReach DEF Reached

\* A decrement by a caller that closes what it removes.
LEMMA DecrementKeepsReach ==
  ASSUME TypeOK, NoLeak, NEW w \in Workers, NEW c \in ConnIds, NEW o, Decrement(c),
         CloseOr(w, o, c, TRUE, Idle), job[w].at \notin Owning
  PROVE  NoLeak'
<1>1. /\ Deletes(c) => job'[w].at = "closing" /\ job'[w].sid = connections[c]
      /\ \A v \in Workers \ {w} : job'[v] = job[v]
  BY DEF CloseOr, Job, TypeOK
<1>2. \A s \in Sessions : conn'[s].life = conn[s].life
  BY DEF Decrement, TypeOK, Conns
<1>3. CASE ~Deletes(c)
  BY <1>1, <1>2, <1>3, CalmKeepsReach DEF Decrement
<1>4. CASE Deletes(c)
  <2>1. ASSUME NEW s \in Sessions, connections[c] = s
        PROVE  Owns(w, s)'
    BY <1>1, <1>4, <2>1 DEF Owns, Owning
  <2>2. \A d \in ConnIds \ {c} : connections'[d] = connections[d]
    BY <1>4 DEF Decrement, TypeOK
  <2>3. ASSUME NEW s \in Sessions, NEW d \in ConnIds, connections[d] = s
        PROVE  Reached(s)'
    <3>1. CASE d = c
      BY <2>1, <2>3, <3>1 DEF Reached
    <3>2. CASE d # c
      BY <2>2, <2>3, <3>2 DEF Reached
    <3> QED
      BY <3>1, <3>2
  <2>4. \A s \in Sessions : ~Owns(w, s)
    BY DEF Owns, Owning
  <2> QED
    BY <1>1, <1>2, <2>3, <2>4, KeepsReach DEF NoLeak, Leaked
<1> QED
  BY <1>3, <1>4

\* No step of a Spectra caller loses a session: what a decrement takes out of the
\* map its caller is left to close, and what is opened is registered or closed.
LEMMA LeakStep ==
  ASSUME PoolInv, StageInv, NoLeak, SpectraOnly, NEW w \in Workers,
         Call(w) \/ Continue(w) \/ Use(w)
  PROVE  NoLeak'
<1> USE DEF Owning
<1>1. TypeOK
  BY DEF PoolInv
<1>2. job[w].cid \in ConnIds /\ job[w].op \in Ops \cup {"none"}
  BY <1>1 DEF TypeOK, Jobs, StageInv
<1>3. job[w].at = "undo" => job[w].op \in {"acqSpectra", "acqCloud"}
  BY DEF StageInv
<1>4. ASSUME UNCHANGED <<connections, conn>>,
             \/ UNCHANGED job
             \/ Finish(w) /\ job[w].at \notin Owning
             \/ \E a : Goto(w, a) /\ (job[w].at \in Owning => a \in Owning)
             \/ \E o, a, c, s : Begin(w, o, a, c, s) /\ job[w].at \notin Owning
      PROVE  NoLeak'
  BY <1>1, <1>4, CalmKeepsReach, FinishJob, GotoJob, BeginJob
<1>5. ASSUME NEW c \in ConnIds, conn' = [conn EXCEPT ![connections[c]].refCount = @ + 1],
             UNCHANGED connections,
             \/ \E a : Goto(w, a)
             \/ \E o, a, d, s : Begin(w, o, a, d, s),
             job[w].at \notin Owning
      PROVE  NoLeak'
  <2>1. \A s \in Sessions : conn'[s].life = conn[s].life
    BY <1>1, <1>5 DEF TypeOK, Conns
  <2>2. \A v \in Workers \ {w} : job'[v] = job[v]
    BY <1>1, <1>5, GotoJob, BeginJob
  <2> QED
    BY <1>5, <2>1, <2>2, CalmKeepsReach
<1>6. ASSUME Call(w)
      PROVE  NoLeak'
  <2>1. CASE GenerateId(w)
    BY <1>4, <2>1, ReadyJob DEF GenerateId
  <2>2. ASSUME NEW c \in ConnIds, NameSpectra(w, c) \/ LookupSpectra(w, c) \/ Browse(w, c)
        PROVE  NoLeak'
    <3>1. CASE NameSpectra(w, c)
      BY <1>4, <3>1, ReadyJob DEF NameSpectra
    <3>2. CASE LookupSpectra(w, c)
      BY <1>4, <3>2, ReadyJob DEF LookupSpectra
    <3>3. CASE Browse(w, c)
      BY <1>4, <3>3, ReadyJob DEF Browse
    <3> QED
      BY <2>2, <3>1, <3>2, <3>3
  <2>3. ASSUME NEW c \in ConnIds, NEW s \in Sessions,
               IncrementCloud(w, c) \/ Revoke(w, c) \/ OpenCloud(w, c, s)
        PROVE  NoLeak'
    BY <2>3, ReadyJob DEF IncrementCloud, Revoke, OpenCloud, SpectraOnly
  <2>4. ASSUME NEW c \in ConnIds, IncrementCloud(w, c) \/ Revoke(w, c)
        PROVE  NoLeak'
    BY <2>4, ReadyJob DEF IncrementCloud, Revoke, SpectraOnly
  <2>5. ASSUME NEW c \in ConnIds, Drop(w, c)
        PROVE  NoLeak'
    <3>1. Decrement(c) /\ CloseOr(w, "drop", c, TRUE, Idle) /\ job[w].at \notin Owning
      BY <2>5, ReadyJob DEF Drop
    <3> QED
      BY <1>1, <3>1, DecrementKeepsReach
  <2> QED
    BY <1>6, <2>1, <2>2, <2>3, <2>4, <2>5 DEF Call
<1>7. ASSUME Continue(w)
      PROVE  NoLeak'
  <2>1. CASE CandidateFree(w) \/ CandidateTaken(w) \/ OpenSpectraFails(w) \/ ValidateSpectra(w)
    <3>1. CASE CandidateFree(w)
      BY <1>4, <3>1 DEF CandidateFree, Doing
    <3>2. CASE CandidateTaken(w)
      BY <1>4, <3>2 DEF CandidateTaken, Doing
    <3>3. CASE OpenSpectraFails(w)
      BY <1>4, <3>3 DEF OpenSpectraFails, Doing
    <3>4. CASE ValidateSpectra(w)
      BY <1>4, <3>4 DEF ValidateSpectra, Doing
    <3> QED
      BY <2>1, <3>1, <3>2, <3>3, <3>4
  <2>2. ASSUME NEW s \in Sessions, OpenSpectra(w, s)
        PROVE  NoLeak'
    <3>1. /\ job'[w].at = "register" /\ job'[w].sid = s
          /\ \A v \in Workers \ {w} : job'[v] = job[v]
          /\ job[w].at = "create"
      BY <1>1, <2>2, BeginJob DEF OpenSpectra, Doing
    <3>2. Reached(s)' /\ \A r \in Sessions : ~Owns(w, r)
      BY <3>1 DEF Reached, Owns
    <3>3. UNCHANGED connections /\ \A r \in Sessions \ {s} : conn'[r] = conn[r]
      BY <1>1, <2>2 DEF OpenSpectra, TypeOK
    <3>4. \A r \in Sessions : (\E c \in ConnIds : connections[c] = r) => Reached(r)'
      BY <3>3 DEF Reached
    <3> QED
      BY <3>1, <3>2, <3>3, <3>4, KeepsReach
  <2>3. CASE RegisterSpectra(w)
    <3>1. job[w].at = "register" /\ UNCHANGED conn
      BY <2>3 DEF RegisterSpectra, Doing
    <3>2. CASE connections[job[w].cid] = None
      <4>1. /\ connections' = [connections EXCEPT ![job[w].cid] = job[w].sid]
            /\ \A v \in Workers \ {w} : job'[v] = job[v]
        BY <1>1, <2>3, <3>2, FinishJob DEF RegisterSpectra
      <4>2. /\ connections'[job[w].cid] = job[w].sid
            /\ \A c \in ConnIds : connections[c] # None => connections'[c] = connections[c]
        BY <1>1, <1>2, <3>2, <4>1 DEF TypeOK
      <4>3. \A s \in Sessions :
              (\E c \in ConnIds : connections[c] = s) \/ Owns(w, s) => Reached(s)'
        BY <1>2, <4>2 DEF Reached, Owns
      <4> QED
        BY <3>1, <4>1, <4>3, KeepsReach
    <3>3. CASE connections[job[w].cid] # None
      BY <1>4, <2>3, <3>3 DEF RegisterSpectra
    <3> QED
      BY <3>2, <3>3
  <2>4. CASE Prime(w)
    BY <1>4, <2>4 DEF Prime
  <2>5. CASE RegisterCloud(w)
    BY <1>2, <2>5 DEF RegisterCloud, SpectraOnly
  <2>6. CASE IncrementSpectra(w)
    <3>1. CASE connections[job[w].cid] = None
      BY <1>4, <2>6, <3>1 DEF IncrementSpectra, Doing
    <3>2. CASE connections[job[w].cid] # None
      BY <1>2, <1>5, <2>6, <3>2 DEF IncrementSpectra, Doing
    <3> QED
      BY <3>1, <3>2
  <2>7. CASE MakeAdapter(w)
    BY <1>4, <2>7 DEF MakeAdapter, Doing
  <2>8. CASE MakeAdapterFails(w)
    BY <1>4, <2>8 DEF MakeAdapterFails, Doing
  <2>9. CASE UndoAcquire(w)
    <3>1. /\ Decrement(job[w].cid) /\ job[w].at = "undo"
          /\ CloseOr(w, job[w].op, job[w].cid, (job[w].op = "acqSpectra"), Idle)
      BY <2>9 DEF UndoAcquire, Doing
    <3>2. job[w].op = "acqSpectra"
      BY <1>2, <1>3, <3>1 DEF SpectraOnly
    <3>3. CloseOr(w, job[w].op, job[w].cid, TRUE, Idle)
      BY <3>1, <3>2 DEF CloseOr
    <3> QED
      BY <1>1, <1>2, <3>1, <3>3, DecrementKeepsReach
  <2>10. CASE CloseSession(w)
    <3>1. job[w].at = "closing" /\ job[w].sid \in Sessions
      BY <1>1, <2>10 DEF CloseSession, Doing, TypeOK, Jobs, WithSession, Places
    <3>2. /\ UNCHANGED connections /\ conn'[job[w].sid].life = "closed"
          /\ \A s \in Sessions \ {job[w].sid} : conn'[s] = conn[s]
      BY <1>1, <2>10, <3>1 DEF CloseSession, Closed, TypeOK, Conns
    <3>3. \A v \in Workers \ {w} : job'[v] = job[v]
      BY <1>1, <2>10, GotoJob, FinishJob DEF CloseSession
    <3>4. /\ \A s \in Sessions : (\E c \in ConnIds : connections[c] = s) => Reached(s)'
          /\ \A s \in Sessions : Owns(w, s) => s = job[w].sid
      BY <3>2 DEF Reached, Owns
    <3> QED
      BY <3>2, <3>3, <3>4, KeepsReach
  <2>11. CASE ClearToken(w) \/ StoreToken(w) \/ RefreshFails(w)
    BY <1>4, <2>11 DEF ClearToken, StoreToken, RefreshFails, Doing
  <2> QED
    BY <1>7, <2>1, <2>2, <2>3, <2>4, <2>5, <2>6, <2>7, <2>8, <2>9, <2>10, <2>11 DEF Continue
<1>8. ASSUME Use(w)
      PROVE  NoLeak'
  <2>1. CASE Release(w)
    <3>1. /\ Decrement(job[w].cid) /\ job[w].at = "held" /\ job[w].op = "acqSpectra"
          /\ CloseOr(w, job[w].op, job[w].cid,
                     job[w].op = "acqSpectra" \/ IsCloud(connections[job[w].cid]), Idle)
      BY <1>2, <2>1 DEF Release, Doing, SpectraOnly
    <3>2. CloseOr(w, job[w].op, job[w].cid, TRUE, Idle)
      BY <3>1 DEF CloseOr
    <3> QED
      BY <1>1, <1>2, <3>1, <3>2, DecrementKeepsReach
  <2>2. CASE BrowseDone(w)
    BY <1>4, <2>2 DEF BrowseDone, Doing
  <2>3. CASE StartRefresh(w)
    BY <1>4, <2>3 DEF StartRefresh, Doing
  <2> QED
    BY <1>8, <2>1, <2>2, <2>3 DEF Use
<1> QED
  BY <1>6, <1>7, <1>8

\* Of Spectra sessions none is lost: as long as one is open it is in the map, or a
\* caller is on the way to registering or closing it. Callers may also release ids
\* they never acquired (drop) here.
THEOREM NothingLeaks ==
  ASSUME SpectraOnly
  PROVE  Spec => []NoLeak
<1> DEFINE I == PoolInv /\ StageInv /\ NoLeak
<1>1. Init => I
  <2> SUFFICES ASSUME Init
               PROVE  I
    OBVIOUS
  <2>1. PoolInv /\ StageInv
    BY LeaseInvInit DEF LeaseInv
  <2>2. NoLeak
    BY DEF Init, NoLeak, Leaked, Conn
  <2> QED
    BY <2>1, <2>2
<1>2. I /\ [Next]_vars => I'
  <2> SUFFICES ASSUME I, [Next]_vars
               PROVE  I'
    OBVIOUS
  <2>1. PoolInv' /\ TypeOK
    BY TypeStep, InvStep DEF PoolInv, MapInv
  <2>2. CASE UNCHANGED vars
    BY <2>1, <2>2 DEF vars, StageInv, NoLeak, Leaked, Owns
  <2>3. ASSUME NEW w \in Workers, Call(w) \/ Continue(w) \/ Use(w)
        PROVE  I'
    BY <2>1, <2>3, StageStep, LeakStep
  <2> QED
    BY <2>2, <2>3 DEF Next
<1>3. I => NoLeak
  OBVIOUS
<1> QED
  BY <1>1, <1>2, <1>3, PTL DEF Spec
=============================================================================
