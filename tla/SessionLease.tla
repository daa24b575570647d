----------------------------- MODULE SessionLease -----------------------------
(***************************************************************************)
(* What the connection pool of ServiceManager promises its callers,        *)
(* without locks, reference counts or intermediate steps: a session is     *)
(* published under a connection id, callers take leases on it, and it      *)
(* leaves the pool, or gives its id to another session, only at a moment   *)
(* when nobody has a lease on it.                                          *)
(* ConnectionPool is shown to implement this specification.                *)
(***************************************************************************)

CONSTANTS
  ConnIds,    \* connection ids
  Workers,    \* callers
  Sessions,   \* session identities
  None        \* no session

VARIABLES
  pool,    \* pool[c]: the session published under connection id c, or None
  lease    \* lease[w]: the session caller w has a lease on, or None

leaseVars == <<pool, lease>>

Leased(s) == \E w \in Workers : lease[w] = s

Init == /\ pool  = [c \in ConnIds |-> None]
        /\ lease = [w \in Workers |-> None]

\* A session is published under an id nobody has a lease through.
Publish(c, s) ==
  /\ ~Leased(pool[c]) \/ pool[c] = None
  /\ pool' = [pool EXCEPT ![c] = s]
  /\ UNCHANGED lease

Take(w, c) ==
  /\ lease[w] = None
  /\ pool[c] # None
  /\ lease' = [lease EXCEPT ![w] = pool[c]]
  /\ UNCHANGED pool

\* The last lease takes the session out of the pool with it.
Return(w, c) ==
  /\ lease[w] # None
  /\ lease[w] = pool[c]
  /\ lease' = [lease EXCEPT ![w] = None]
  /\ pool'  = IF \E v \in Workers \ {w} : lease[v] = pool[c]
              THEN pool ELSE [pool EXCEPT ![c] = None]

Next == \E c \in ConnIds :
          \/ \E s \in Sessions : Publish(c, s)
          \/ \E w \in Workers : Take(w, c) \/ Return(w, c)

LeaseSpec == Init /\ [][Next]_leaseVars
=============================================================================
