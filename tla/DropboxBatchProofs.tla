-------------------------- MODULE DropboxBatchProofs --------------------------
(***************************************************************************)
(* What DropboxBatch keeps for any number of callers, any batches and any  *)
(* number of retries and of expiring tokens: what a batch reports of an    *)
(* item is what its own jobs did to it, and jobs overlap only with jobs    *)
(* that were given up.                                                     *)
(***************************************************************************)
EXTENDS DropboxBatch, FiniteSetTheorems, FunctionTheorems, TLAPS

\* Where a call can be.
Ats == {"idle", "client", "start", "append", "lock", "launch", "poll", "refresh", "done", "failed"}

\* The results of k items.
Outs(k) == [1 .. k -> Results \cup {"none"}]

\* The fields of a call, each with its type.
Calls == [at: Ats, kind: Kinds, items: Batches \cup {<< >>}, step: {"start", "finish"},
          client: Nat, refreshed: BOOLEAN, retries: 0 .. MaxGenericRetries,
          body: SUBSET Nat, whole: SUBSET Nat, todo: SUBSET Nat, n: {0} \cup Launches,
          out: UNION {Outs(k) : k \in Nat}]

\* The fields of a job.
Jobs == [status: {"none", "running", "complete", "failed"}, entries: Seq(Nat),
         res: Seq(Results), given: BOOLEAN]

\* The attempts a call is given beyond its first.
Extra(r) == (IF r.refreshed THEN 1 ELSE 0) + MaxGenericRetries - r.retries

\* A call is positional: bodies, sessions and results are those of its items.
Fits(r, t) ==
  /\ r \in Calls /\ r.client <= t
  /\ r.body \cup r.todo \cup r.whole \subseteq 1 .. Len(r.items)
  /\ r.out \in Outs(Len(r.items))

\* Where a call can still have a body to close.
Bodies(r) ==
  r.body # {} => \/ r.at \in {"client", "start"}
                 \/ (r.at = "refresh" /\ r.step = "start")
                 \/ (r.at = "append" /\ r.body \subseteq r.todo)
                 \/ (r.at = "failed" /\ Len(r.items) > MaxEntries)

\* Nothing is launched before the sessions are, and then only as often as there
\* are attempts.
Budget(r) ==
  /\ r.at \in {"client", "start"} => r.step = "start"
  /\ r.at \in {"append", "lock", "launch", "poll"} => r.step = "finish"
  /\ r.step = "start" => r.n = 0
  /\ r.at \in {"start", "append", "lock", "launch", "refresh"} => r.n <= Extra(r)
  /\ r.at = "poll" => r.n \in 1 .. Extra(r) + 1
  /\ r.at \in {"idle", "append"} => r.n = 0

\* What is launched has entries.
Launched(r) ==
  r.at \in {"lock", "launch", "poll"} \/ (r.at = "refresh" /\ r.step = "finish")
    => r.items # << >> /\ (r.kind = "upload" => r.whole # {})

\* A job of the call r: its entries are items of r, each once, and it has
\* results for the first of them.
JobFits(r, job, n) ==
  /\ job \in Jobs
  /\ job.status # "none" <=> n <= r.n
  /\ job.entries \in Seq(1 .. Len(r.items))
  /\ \A j, k \in DOMAIN job.entries : job.entries[j] = job.entries[k] => j = k
  /\ Len(job.res) <= Len(job.entries)
  /\ job.status = "none" => job = NoJob
  /\ job.status = "running" =>
       /\ Len(job.res) < Len(job.entries)
       /\ job.given \/ (r.at = "poll" /\ n = r.n)

\* Some job of the row did item i.
Took(row, i) ==
  \E n \in Launches : \E j \in DOMAIN row[n].res : row[n].entries[j] = i /\ row[n].res[j] = "ok"

\* What a call reports, and when.
Reports(r, row) ==
  /\ r.at = "done" /\ r.n >= 1 => row[r.n].status = "complete"
  /\ \A i \in 1 .. Len(r.items) :
       /\ r.out[i] = "ok" => r.at = "done" /\ Took(row, i)
       /\ r.at = "done" /\ r.n = 1 /\ r.out[i] # "ok" => ~Took(row, i)

\* A call r with the jobs in row, under token t; mine: it holds the mutex.
CallOK(r, row, t, mine) ==
  /\ Fits(r, t) /\ Bodies(r) /\ Budget(r) /\ Launched(r)
  /\ mine <=> r.at \in {"launch", "poll"}
  /\ \A n \in Launches : JobFits(r, row[n], n)
  /\ Reports(r, row)

\* The inductive invariant.
BatchInv ==
  /\ tree \in [Paths -> {"none", "folder", "file"}]
  /\ token \in 0 .. MaxExpiries /\ cache \in 0 .. token
  /\ writeBatchMu \in Callers \cup {NoCaller}
  /\ call \in [Callers -> Calls]
  /\ jobs \in [Callers -> [Launches -> Jobs]]
  /\ \A c \in Callers : CallOK(call[c], jobs[c], token, writeBatchMu = c)
-----------------------------------------------------------------------------
\* InOrder lists a finite set of numbers, each once.
LEMMA InOrderLists ==
  ASSUME NEW n \in Nat, NEW S, S \subseteq 1 .. n
  PROVE  /\ Cardinality(S) \in Nat
         /\ S # {} => Cardinality(S) > 0
         /\ InOrder(S) \in [1 .. Cardinality(S) -> S]
         /\ \A j, k \in 1 .. Cardinality(S) : InOrder(S)[j] = InOrder(S)[k] => j = k
<1> DEFINE before(i) == {k \in S : k < i}
           rank == [i \in S |-> Cardinality(before(i)) + 1]
           N == Cardinality(S)
<1>1. IsFiniteSet(S) /\ N \in Nat /\ (S # {} => N > 0)
  <2>1. IsFiniteSet(1 .. n)
    BY FS_Interval
  <2>2. IsFiniteSet(S)
    BY <2>1, FS_Subset
  <2> QED
    BY <2>2, FS_CardinalityType, FS_EmptySet
<1>2. ASSUME NEW i \in S
      PROVE  IsFiniteSet(before(i)) /\ Cardinality(before(i)) \in 0 .. N - 1
  <2>1. before(i) \in SUBSET S /\ i \notin before(i)
    OBVIOUS
  <2>2. IsFiniteSet(before(i)) /\ Cardinality(before(i)) <= N /\ Cardinality(before(i)) # N
    BY <1>1, <2>1, FS_Subset
  <2>3. Cardinality(before(i)) \in Nat
    BY <2>2, FS_CardinalityType
  <2> QED
    BY <1>1, <2>2, <2>3
<1>3. ASSUME NEW i \in S, NEW k \in S, i < k
      PROVE  Cardinality(before(i)) < Cardinality(before(k))
  <2>1. before(i) \in SUBSET before(k) /\ i \in before(k) /\ i \notin before(i)
    <3>1. i \in Int /\ k \in Int /\ \A e \in S : e \in Int
      OBVIOUS
    <3>2. \A e \in S : e < i => e < k
      BY <1>3, <3>1
    <3>3. ~(i < i)
      BY <3>1
    <3> QED
      BY <1>3, <3>2, <3>3
  <2>2. IsFiniteSet(before(k)) /\ Cardinality(before(k)) \in Nat /\ Cardinality(before(i)) \in Nat
    BY <1>2
  <2>3. Cardinality(before(i)) <= Cardinality(before(k))
        /\ Cardinality(before(i)) # Cardinality(before(k))
    BY <2>1, <2>2, FS_Subset
  <2> QED
    BY <2>2, <2>3
<1>4. rank \in Injection(S, 1 .. N)
  <2>1. rank \in [S -> 1 .. N]
    BY <1>1, <1>2
  <2>2. ASSUME NEW i \in S, NEW k \in S, rank[i] = rank[k]
        PROVE  i = k
    <3>1. i \in Nat /\ k \in Nat
      OBVIOUS
    <3>2. Cardinality(before(i)) = Cardinality(before(k))
      BY <1>2, <2>2
    <3> QED
      BY <1>2, <1>3, <3>1, <3>2
  <2> QED
    BY <2>1, <2>2 DEF Injection, IsInjective
<1>5. rank \in Surjection(S, 1 .. N)
  <2>1. IsFiniteSet(1 .. N) /\ Cardinality(1 .. N) = N
    BY <1>1, FS_Interval
  <2> QED
    BY <1>1, <1>4, <2>1, FS_Injection
<1>6. ASSUME NEW j \in 1 .. N
      PROVE  InOrder(S)[j] \in S /\ Cardinality(before(InOrder(S)[j])) = j - 1
  <2>1. PICK i \in S : rank[i] = j
    BY <1>5 DEF Surjection
  <2>2. Cardinality(before(i)) = j - 1
    BY <1>2, <2>1
  <2>3. InOrder(S)[j] = CHOOSE k \in S : Cardinality(before(k)) = j - 1
    BY DEF InOrder
  <2> QED
    BY <2>2, <2>3
<1>7. InOrder(S) \in [1 .. N -> S]
  <2>1. \A j \in 1 .. N : (CHOOSE i \in S : Cardinality(before(i)) = j - 1) \in S
    BY <1>6 DEF InOrder
  <2> QED
    BY <2>1, Zenon DEF InOrder
<1>8. ASSUME NEW j \in 1 .. N, NEW k \in 1 .. N, InOrder(S)[j] = InOrder(S)[k]
      PROVE  j = k
  <2>1. j \in Int /\ k \in Int
    BY <1>1
  <2>2. j - 1 = k - 1
    BY <1>6, <1>8
  <2> QED
    BY <2>1, <2>2
<1> QED
  BY <1>1, <1>7, <1>8

\* What the invariant says of one call and its jobs.
LEMMA CallFacts ==
  ASSUME BatchInv, NEW c \in Callers
  PROVE  /\ CallOK(call[c], jobs[c], token, writeBatchMu = c)
         /\ call[c] \in Calls /\ jobs[c] \in [Launches -> Jobs]
         /\ token \in Nat /\ cache \in 0 .. token
         /\ Len(call[c].items) \in Nat
<1>1. call[c] \in Calls
  BY DEF BatchInv
<1>2. call[c].items \in Seq(Paths)
  <2>1. << >> \in Seq(Paths) /\ Batches \subseteq Seq(Paths)
    BY BatchAssumption
  <2>2. call[c].items \in Batches \cup {<< >>}
    BY <1>1, Zenon DEF Calls
  <2> QED
    BY <2>1, <2>2
<1> QED
  BY <1>1, <1>2, BatchAssumption DEF BatchInv

\* A step of c that leaves the others alone: the invariant is a matter of c.
LEMMA CallMoves ==
  ASSUME BatchInv, NEW c \in Callers, NEW r \in Calls, NEW row \in [Launches -> Jobs],
         call' = [call EXCEPT ![c] = r], jobs' = [jobs EXCEPT ![c] = row],
         token' = token, cache' \in 0 .. token,
         tree' \in [Paths -> {"none", "folder", "file"}],
         writeBatchMu' \in Callers \cup {NoCaller},
         \A d \in Callers \ {c} : (writeBatchMu' = d) <=> (writeBatchMu = d),
         CallOK(r, row, token, writeBatchMu' = c)
  PROVE  BatchInv'
<1>1. ASSUME NEW d \in Callers
      PROVE  CallOK(call'[d], jobs'[d], token', writeBatchMu' = d)
  <2>1. call \in [Callers -> Calls] /\ jobs \in [Callers -> [Launches -> Jobs]]
    BY DEF BatchInv
  <2>2. CASE d = c
    BY <2>1, <2>2
  <2>3. CASE d # c
    <3>1. call'[d] = call[d] /\ jobs'[d] = jobs[d]
      BY <2>1, <2>3
    <3>2. (writeBatchMu' = d) <=> (writeBatchMu = d)
      BY <2>3
    <3>3. CallOK(call[d], jobs[d], token, writeBatchMu = d)
      BY DEF BatchInv
    <3> QED
      BY <3>1, <3>2, <3>3 DEF CallOK
  <2> QED
    BY <2>2, <2>3
<1>2. call' \in [Callers -> Calls] /\ jobs' \in [Callers -> [Launches -> Jobs]]
  BY DEF BatchInv
<1> QED
  BY <1>1, <1>2 DEF BatchInv, Calls, Jobs, Outs, Launches, Kinds, Ats, Results

\* A step of c outside its polls: its jobs and its results stay what they are.
LEMMA CallGoesOn ==
  ASSUME BatchInv, NEW c \in Callers, NEW r \in Calls,
         call' = [call EXCEPT ![c] = r], UNCHANGED <<tree, token, jobs>>,
         cache' \in 0 .. token,
         writeBatchMu' \in Callers \cup {NoCaller},
         \A d \in Callers \ {c} : (writeBatchMu' = d) <=> (writeBatchMu = d),
         Fits(r, token), Bodies(r), Budget(r), Launched(r),
         (writeBatchMu' = c) <=> r.at \in {"launch", "poll"},
         r.n = call[c].n, r.items = call[c].items \/ r.n = 0,
         call[c].at # "poll", r.at # "poll",
         \A i \in 1 .. Len(r.items) : r.out[i] # "ok",
         r.at = "done" => r.n = 0
  PROVE  BatchInv'
<1> DEFINE q == call[c]
           row == jobs[c]
<1>1. CallOK(q, row, token, writeBatchMu = c) /\ row \in [Launches -> Jobs]
  BY CallFacts
<1>2. jobs' = [jobs EXCEPT ![c] = row]
  BY DEF BatchInv
<1>3. ASSUME NEW n \in Launches
      PROVE  JobFits(r, row[n], n)
  <2>1. JobFits(q, row[n], n)
    BY <1>1 DEF CallOK
  <2>2. CASE r.items = q.items
    BY <2>1, <2>2 DEF JobFits
  <2>3. CASE r.n = 0
    <3>1. ~(n <= 0)
      BY BatchAssumption DEF Launches
    <3>2. row[n] = NoJob
      BY <2>1, <2>3, <3>1 DEF JobFits, Jobs
    <3>3. << >> \in Seq(1 .. Len(r.items)) /\ DOMAIN << >> = {} /\ Len(<< >>) = 0
      OBVIOUS
    <3> QED
      BY <2>1, <2>3, <3>1, <3>2, <3>3 DEF JobFits, NoJob
  <2> QED
    BY <2>2, <2>3
<1>4. Reports(r, row)
  BY DEF Reports
<1>5. CallOK(r, row, token, writeBatchMu' = c)
  BY <1>1, <1>3, <1>4 DEF CallOK
<1> QED
  BY <1>1, <1>2, <1>5, CallMoves DEF BatchInv

\* A step outside the polls that changes where the call is and what it holds.
LEMMA AsideSteps ==
  ASSUME BatchInv, NEW c \in Callers,
         \/ Reject(c) \/ TakeClient(c) \/ StartBatch(c)
         \/ Refresh(c) \/ RefreshFails(c) \/ Collect(c)
  PROVE  BatchInv'
<1> DEFINE q == call[c]
<1>1. /\ CallOK(q, jobs[c], token, writeBatchMu = c)
      /\ q \in Calls /\ token \in Nat /\ cache \in 0 .. token
      /\ Len(q.items) \in Nat
  BY CallFacts
<1>2. /\ Fits(q, token) /\ Bodies(q) /\ Budget(q) /\ Launched(q)
      /\ (writeBatchMu = c) <=> q.at \in {"launch", "poll"}
      /\ Reports(q, jobs[c])
  BY <1>1 DEF CallOK
<1>3. /\ writeBatchMu \in Callers \cup {NoCaller}
      /\ q.n \in Nat /\ q.retries \in 0 .. MaxGenericRetries /\ q.client \in Nat
      /\ q.refreshed \in BOOLEAN /\ q.step \in {"start", "finish"}
      /\ 1 .. Len(q.items) \in SUBSET Nat /\ cache \in Nat
      /\ {"start", "append", "failed", "done", "lock"} \subseteq Ats
  BY <1>1, BatchAssumption DEF BatchInv, Calls, Launches, Ats
<1> USE DEF At, Set, Goto
<1>4. CASE Reject(c) \/ RefreshFails(c)
  <2> DEFINE r == [q EXCEPT !.at = "failed", !.body = {}]
  <2>1. /\ r \in Calls
        /\ r.at = "failed" /\ r.body = {} /\ r.step = q.step /\ r.n = q.n
        /\ r.items = q.items /\ r.out = q.out /\ r.client = q.client
        /\ r.todo = q.todo /\ r.whole = q.whole
    BY <1>1, <1>3, Zenon DEF Calls
  <2>2. /\ call' = [call EXCEPT ![c] = r] /\ UNCHANGED <<tree, token, cache, jobs, writeBatchMu>>
        /\ q.at \in {"client", "refresh"}
    BY <1>4 DEF Reject, RefreshFails
  <2> HIDE DEF r
  <2>3. Fits(r, token) /\ Bodies(r) /\ Budget(r) /\ Launched(r)
    BY <1>2, <2>1, <2>2 DEF Fits, Bodies, Budget, Launched
  <2>4. \A i \in 1 .. Len(r.items) : r.out[i] # "ok"
    BY <1>2, <2>1, <2>2 DEF Reports
  <2> QED
    BY <1>1, <1>2, <1>3, <2>1, <2>2, <2>3, <2>4, CallGoesOn
<1>5. CASE TakeClient(c)
  <2> DEFINE r == [q EXCEPT !.at = "start", !.client = cache]
  <2>1. /\ r \in Calls
        /\ r.at = "start" /\ r.client = cache /\ r.body = q.body /\ r.step = q.step /\ r.n = q.n
        /\ r.items = q.items /\ r.out = q.out /\ r.refreshed = q.refreshed
        /\ r.retries = q.retries /\ r.todo = q.todo /\ r.whole = q.whole
    BY <1>1, <1>3, Zenon DEF Calls
  <2>2. /\ call' = [call EXCEPT ![c] = r] /\ UNCHANGED <<tree, token, cache, jobs, writeBatchMu>>
        /\ q.at = "client"
    BY <1>5 DEF TakeClient
  <2> HIDE DEF r
  <2>3. Fits(r, token) /\ Bodies(r) /\ Budget(r) /\ Launched(r)
    BY <1>1, <1>2, <1>3, <2>1, <2>2, BatchAssumption DEF Fits, Bodies, Budget, Launched, Extra
  <2>4. \A i \in 1 .. Len(r.items) : r.out[i] # "ok"
    BY <1>2, <2>1, <2>2 DEF Reports
  <2> QED
    BY <1>1, <1>2, <1>3, <2>1, <2>2, <2>3, <2>4, CallGoesOn
<1>6. CASE StartBatch(c)
  <2> DEFINE r == [q EXCEPT !.at = "append", !.todo = Items(c), !.refreshed = FALSE,
                            !.retries = MaxGenericRetries, !.step = "finish"]
  <2>1. /\ r \in Calls
        /\ r.at = "append" /\ r.client = q.client /\ r.body = q.body /\ r.step = "finish"
        /\ r.n = q.n /\ r.items = q.items /\ r.out = q.out /\ r.refreshed = FALSE
        /\ r.retries = MaxGenericRetries /\ r.todo = 1 .. Len(q.items) /\ r.whole = q.whole
    <3>1. MaxGenericRetries \in 0 .. MaxGenericRetries
      BY BatchAssumption
    <3> QED
      BY <1>1, <1>3, <3>1, Zenon DEF Calls, Items
  <2>2. /\ call' = [call EXCEPT ![c] = r] /\ UNCHANGED <<tree, token, cache, jobs, writeBatchMu>>
        /\ q.at = "start"
    BY <1>6 DEF StartBatch
  <2> HIDE DEF r
  <2>3. Fits(r, token) /\ Bodies(r) /\ Budget(r) /\ Launched(r)
    BY <1>1, <1>2, <1>3, <2>1, <2>2, BatchAssumption DEF Fits, Bodies, Budget, Launched, Extra
  <2>4. \A i \in 1 .. Len(r.items) : r.out[i] # "ok"
    BY <1>2, <2>1, <2>2 DEF Reports
  <2> QED
    BY <1>1, <1>2, <1>3, <2>1, <2>2, <2>3, <2>4, CallGoesOn
<1>7. CASE Refresh(c)
  <2> DEFINE a == IF q.step = "start" THEN "start" ELSE "lock"
             r == [q EXCEPT !.at = a]
  <2>1. /\ r \in Calls
        /\ r.at = a /\ r.client = q.client /\ r.body = q.body /\ r.step = q.step
        /\ r.n = q.n /\ r.items = q.items /\ r.out = q.out /\ r.refreshed = q.refreshed
        /\ r.retries = q.retries /\ r.todo = q.todo /\ r.whole = q.whole /\ r.kind = q.kind
    <3>1. a \in Ats
      BY <1>3
    <3> QED
      BY <1>1, <3>1, Zenon DEF Calls
  <2>2. /\ call' = [call EXCEPT ![c] = r] /\ UNCHANGED <<tree, token, jobs, writeBatchMu>>
        /\ cache' = token /\ q.at = "refresh"
    BY <1>7 DEF Refresh
  <2> HIDE DEF r
  <2>3. Fits(r, token) /\ Bodies(r) /\ Budget(r) /\ Launched(r)
    BY <1>1, <1>2, <1>3, <2>1, <2>2, BatchAssumption DEF Fits, Bodies, Budget, Launched, Extra
  <2>4. \A i \in 1 .. Len(r.items) : r.out[i] # "ok"
    BY <1>2, <2>1, <2>2 DEF Reports
  <2>5. cache' \in 0 .. token /\ r.at \in {"start", "lock"}
    BY <1>1, <2>1, <2>2
  <2> HIDE DEF a
  <2> QED
    BY <1>1, <1>2, <1>3, <2>1, <2>2, <2>3, <2>4, <2>5, CallGoesOn
<1>8. CASE Collect(c)
  <2> DEFINE a == IF q.whole = {} THEN "done" ELSE "lock"
             r == [q EXCEPT !.at = a]
  <2>1. /\ r \in Calls
        /\ r.at = a /\ r.client = q.client /\ r.body = q.body /\ r.step = q.step
        /\ r.n = q.n /\ r.items = q.items /\ r.out = q.out /\ r.refreshed = q.refreshed
        /\ r.retries = q.retries /\ r.todo = q.todo /\ r.whole = q.whole /\ r.kind = q.kind
    <3>1. a \in Ats
      BY <1>3
    <3> QED
      BY <1>1, <3>1, Zenon DEF Calls
  <2>2. /\ call' = [call EXCEPT ![c] = r] /\ UNCHANGED <<tree, token, cache, jobs, writeBatchMu>>
        /\ q.at = "append" /\ q.todo = {}
    BY <1>8 DEF Collect
  <2>3. q.whole # {} => q.items # << >>
    BY <1>2 DEF Fits
  <2> HIDE DEF r
  <2>4. Fits(r, token) /\ Bodies(r) /\ Budget(r) /\ Launched(r)
    BY <1>1, <1>2, <1>3, <2>1, <2>2, <2>3, BatchAssumption
    DEF Fits, Bodies, Budget, Launched, Extra
  <2>5. \A i \in 1 .. Len(r.items) : r.out[i] # "ok"
    BY <1>2, <2>1, <2>2 DEF Reports
  <2> QED
    BY <1>1, <1>2, <1>3, <2>1, <2>2, <2>4, <2>5, CallGoesOn DEF Budget
<1> QED
  BY <1>4, <1>5, <1>6, <1>7, <1>8

\* A call begins, or is turned away for its length.
LEMMA CallStep ==
  ASSUME BatchInv, NEW c \in Callers, NEW k \in Kinds, NEW items \in Batches, Call(c, k, items)
  PROVE  BatchInv'
<1> DEFINE q == call[c]
           none == [i \in 1 .. Len(items) |-> "none"]
           body == IF k = "upload" THEN 1 .. Len(items) ELSE {}
           long == Len(items) > MaxEntries
           first == IF k = "upload" THEN "client" ELSE "lock"
           step == IF k = "upload" THEN "start" ELSE "finish"
           j == [NoCall EXCEPT !.kind = k, !.items = items, !.body = body, !.out = none]
           r == IF long THEN [j EXCEPT !.at = "failed"] ELSE [j EXCEPT !.at = first, !.step = step]
<1>1. /\ CallOK(q, jobs[c], token, writeBatchMu = c)
      /\ q \in Calls /\ token \in Nat /\ cache \in 0 .. token
  BY CallFacts
<1>2. /\ Fits(q, token) /\ Budget(q)
      /\ (writeBatchMu = c) <=> q.at \in {"launch", "poll"}
      /\ writeBatchMu \in Callers \cup {NoCaller}
  BY <1>1 DEF CallOK, BatchInv
<1>3. items # << >> /\ Len(items) \in Nat
  <2>1. items \in Seq(Paths) \ {<< >>}
    BY BatchAssumption
  <2> QED
    BY <2>1
<1>4. q.at = "idle" /\ q.n = 0
  BY <1>2 DEF Call, At, Budget
<1>5. /\ none \in Outs(Len(items))
      /\ \A i \in 1 .. Len(items) : none[i] = "none"
  BY DEF Outs
<1>6. /\ none \in UNION {Outs(n) : n \in Nat} /\ 0 \in {0} \cup Launches
      /\ first \in Ats /\ step \in {"start", "finish"} /\ "failed" \in Ats /\ "idle" \in Ats
      /\ body \in SUBSET Nat /\ {} \in SUBSET Nat
      /\ MaxGenericRetries \in 0 .. MaxGenericRetries /\ 0 \in Nat /\ FALSE \in BOOLEAN
  BY <1>3, <1>5, BatchAssumption DEF Ats
<1>7. /\ call' = [call EXCEPT ![c] = r]
      /\ UNCHANGED <<tree, token, cache, jobs, writeBatchMu>>
  BY Zenon DEF Call, Set
<1> HIDE DEF none, body, first, step, long
<1>8. /\ j \in Calls
      /\ j.step = "finish" /\ j.body = body /\ j.kind = k /\ j.items = items
      /\ j.out = none /\ j.n = 0 /\ j.client = 0 /\ j.refreshed = FALSE
      /\ j.retries = MaxGenericRetries /\ j.todo = {} /\ j.whole = {}
  BY <1>6, Zenon DEF Calls, NoCall
<1> HIDE DEF j
<1>9. /\ r \in Calls
      /\ r.body = body /\ r.kind = k /\ r.items = items
      /\ r.out = none /\ r.n = 0 /\ r.client = 0 /\ r.refreshed = FALSE
      /\ r.retries = MaxGenericRetries /\ r.todo = {} /\ r.whole = {}
      /\ \/ long /\ r.at = "failed" /\ r.step = "finish"
         \/ ~long /\ r.at = first /\ r.step = step
  <2>1. CASE long
    BY <1>6, <1>8, <2>1, Zenon DEF Calls
  <2>2. CASE ~long
    BY <1>6, <1>8, <2>2, Zenon DEF Calls
  <2> QED
    BY <2>1, <2>2
<1> HIDE DEF r
<1>10. Fits(r, token) /\ Bodies(r) /\ Budget(r) /\ Launched(r)
  BY <1>1, <1>3, <1>5, <1>9, BatchAssumption
  DEF Fits, Bodies, Budget, Launched, Extra, first, step, body, long
<1>11. r.at \in {"failed", "client", "lock"}
  BY <1>9 DEF first
<1> QED
  BY <1>1, <1>2, <1>3, <1>4, <1>5, <1>7, <1>9, <1>10, <1>11, CallGoesOn

\* One append ends: its body is closed, and its session is whole or its item failed.
LEMMA AppendStep ==
  ASSUME BatchInv, NEW c \in Callers, NEW i \in Items(c), AppendBody(c, i)
  PROVE  BatchInv'
<1> DEFINE q == call[c]
<1>1. /\ CallOK(q, jobs[c], token, writeBatchMu = c)
      /\ q \in Calls /\ token \in Nat /\ cache \in 0 .. token
      /\ Len(q.items) \in Nat
  BY CallFacts
<1>2. /\ Fits(q, token) /\ Bodies(q) /\ Budget(q) /\ Launched(q)
      /\ (writeBatchMu = c) <=> q.at \in {"launch", "poll"}
      /\ Reports(q, jobs[c]) /\ writeBatchMu \in Callers \cup {NoCaller}
  BY <1>1 DEF CallOK, BatchInv
<1>3. PICK ok \in BOOLEAN :
        call' = [call EXCEPT ![c] =
                   [q EXCEPT !.todo = @ \ {i}, !.body = @ \ {i},
                             !.whole = IF ok THEN @ \cup {i} ELSE @,
                             !.out[i] = IF ok THEN @ ELSE "error"]]
  BY DEF AppendBody, Set
<1> DEFINE whole == IF ok THEN q.whole \cup {i} ELSE q.whole
           out == [q.out EXCEPT ![i] = IF ok THEN @ ELSE "error"]
           r == [q EXCEPT !.todo = q.todo \ {i}, !.body = q.body \ {i}, !.whole = whole,
                          !.out = out]
<1>4. /\ q.at = "append" /\ i \in q.todo /\ i \in 1 .. Len(q.items)
      /\ UNCHANGED <<tree, token, cache, jobs, writeBatchMu>>
  BY DEF AppendBody, At, Items
<1>5. out \in Outs(Len(q.items)) /\ \A m \in 1 .. Len(q.items) : out[m] # "ok"
  BY <1>2, <1>4 DEF Fits, Outs, Reports, Results
<1>6. /\ q.todo \ {i} \in SUBSET Nat /\ q.body \ {i} \in SUBSET Nat /\ whole \in SUBSET Nat
      /\ out \in UNION {Outs(n) : n \in Nat}
      /\ whole \subseteq 1 .. Len(q.items)
  BY <1>1, <1>2, <1>4, <1>5 DEF Fits, Calls
<1>7. call' = [call EXCEPT ![c] = r]
  BY <1>3, Zenon
<1> HIDE DEF whole, out
<1>8. /\ r \in Calls
      /\ r.at = q.at /\ r.client = q.client /\ r.body = q.body \ {i} /\ r.step = q.step
      /\ r.n = q.n /\ r.items = q.items /\ r.out = out /\ r.refreshed = q.refreshed
      /\ r.retries = q.retries /\ r.todo = q.todo \ {i} /\ r.whole = whole /\ r.kind = q.kind
  BY <1>1, <1>6, Zenon DEF Calls
<1> HIDE DEF r
<1>9. Fits(r, token) /\ Bodies(r) /\ Budget(r) /\ Launched(r)
  BY <1>1, <1>2, <1>4, <1>5, <1>6, <1>8 DEF Fits, Bodies, Budget, Launched, Extra
<1> QED
  BY <1>1, <1>2, <1>4, <1>5, <1>7, <1>8, <1>9, CallGoesOn

\* The mutex is taken, and with it the client that the launch will use.
LEMMA LockStep ==
  ASSUME BatchInv, NEW c \in Callers, Lock(c)
  PROVE  BatchInv'
<1> DEFINE q == call[c]
           client == IF q.kind = "upload" THEN q.client ELSE cache
           r == [q EXCEPT !.at = "launch", !.client = client]
<1>1. /\ CallOK(q, jobs[c], token, writeBatchMu = c)
      /\ q \in Calls /\ token \in Nat /\ cache \in 0 .. token
      /\ Len(q.items) \in Nat
  BY CallFacts
<1>2. /\ Fits(q, token) /\ Bodies(q) /\ Budget(q) /\ Launched(q)
      /\ Reports(q, jobs[c])
  BY <1>1 DEF CallOK
<1>3. /\ q.at = "lock" /\ writeBatchMu = NoCaller /\ writeBatchMu' = c
      /\ UNCHANGED <<tree, token, cache, jobs>>
      /\ call' = [call EXCEPT ![c] = r]
  BY Zenon DEF Lock, At, Set
<1>4. client \in Nat /\ client <= token /\ "launch" \in Ats
  BY <1>1, <1>2 DEF Fits, Calls, Ats
<1> HIDE DEF client
<1>5. /\ r \in Calls
      /\ r.at = "launch" /\ r.client = client /\ r.body = q.body /\ r.step = q.step
      /\ r.n = q.n /\ r.items = q.items /\ r.out = q.out /\ r.refreshed = q.refreshed
      /\ r.retries = q.retries /\ r.todo = q.todo /\ r.whole = q.whole /\ r.kind = q.kind
  BY <1>1, <1>4, Zenon DEF Calls
<1> HIDE DEF r
<1>6. Fits(r, token) /\ Bodies(r) /\ Budget(r) /\ Launched(r)
  BY <1>2, <1>3, <1>4, <1>5 DEF Fits, Bodies, Budget, Launched, Extra
<1>7. \A i \in 1 .. Len(r.items) : r.out[i] # "ok"
  BY <1>2, <1>3, <1>5 DEF Reports
<1>8. \A d \in Callers \ {c} : (writeBatchMu' = d) <=> (writeBatchMu = d)
  BY <1>3, BatchAssumption
<1> QED
  BY <1>1, <1>3, <1>5, <1>6, <1>7, <1>8, CallGoesOn

\* A launch: the next job of the call has the items with a whole session.
LEMMA LaunchStep ==
  ASSUME BatchInv, NEW c \in Callers, Launch(c)
  PROVE  BatchInv'
<1> DEFINE q == call[c]
           n == q.n + 1
           S == {i \in Items(c) : q.kind # "upload" \/ i \in q.whole}
           job == [NoJob EXCEPT !.status = "running", !.entries = Entries(c)]
           row == [jobs[c] EXCEPT ![n] = job]
           r == [q EXCEPT !.at = "poll", !.n = n]
<1>1. /\ CallOK(q, jobs[c], token, writeBatchMu = c)
      /\ q \in Calls /\ token \in Nat /\ cache \in 0 .. token
      /\ jobs[c] \in [Launches -> Jobs]
      /\ Len(q.items) \in Nat
  BY CallFacts
<1>2. /\ Fits(q, token) /\ Bodies(q) /\ Budget(q) /\ Launched(q)
      /\ (writeBatchMu = c) <=> q.at \in {"launch", "poll"}
      /\ \A m \in Launches : JobFits(q, jobs[c][m], m)
      /\ Reports(q, jobs[c])
  BY <1>1 DEF CallOK
<1>3. /\ q.at = "launch" /\ UNCHANGED <<tree, token, cache, writeBatchMu>>
      /\ call' = [call EXCEPT ![c] = r]
      /\ jobs' = [jobs EXCEPT ![c][n] = job]
  BY Zenon DEF Launch, At, Set
<1>4. jobs' = [jobs EXCEPT ![c] = row]
  BY <1>3, Zenon
<1>5. n \in Launches /\ q.n \in Nat /\ q.n <= Extra(q) /\ Extra(q) \in Int
  <2>1. q.n \in {0} \cup Launches /\ q.retries \in 0 .. MaxGenericRetries
    BY <1>1 DEF Calls
  <2>2. Extra(q) \in Int /\ Extra(q) <= 1 + MaxGenericRetries
    BY <2>1, BatchAssumption DEF Extra
  <2>3. q.n <= Extra(q)
    BY <1>2, <1>3 DEF Budget
  <2> QED
    BY <2>1, <2>2, <2>3, BatchAssumption DEF Launches
<1>6. /\ Entries(c) \in Seq(1 .. Len(q.items)) /\ Entries(c) \in Seq(Nat)
      /\ \A j, k \in DOMAIN Entries(c) : Entries(c)[j] = Entries(c)[k] => j = k
      /\ Len(Entries(c)) > 0
  <2>1. S \subseteq 1 .. Len(q.items)
    BY DEF Items
  <2>2. S # {}
    <3>1. CASE q.kind = "upload"
      BY <1>2, <1>3, <3>1 DEF Launched, Fits, Items
    <3>2. CASE q.kind # "upload"
      <4>1. q.items # << >> /\ q.items \in Seq(Paths)
        BY <1>1, <1>2, <1>3, BatchAssumption DEF Launched, Calls
      <4>2. Len(q.items) > 0
        BY <4>1
      <4>3. 1 \in Items(c)
        BY <1>1, <4>2 DEF Items
      <4> QED
        BY <3>2, <4>3
    <3> QED
      BY <3>1, <3>2
  <2>3. Entries(c) = InOrder(S)
    BY DEF Entries
  <2> HIDE DEF S
  <2>4. /\ Cardinality(S) \in Nat /\ Cardinality(S) > 0
        /\ InOrder(S) \in [1 .. Cardinality(S) -> S]
        /\ \A j, k \in 1 .. Cardinality(S) : InOrder(S)[j] = InOrder(S)[k] => j = k
    BY <1>1, <2>1, <2>2, InOrderLists
  <2>5. InOrder(S) \in Seq(S) /\ Len(InOrder(S)) = Cardinality(S)
    BY <2>4
  <2>6. InOrder(S) \in Seq(1 .. Len(q.items)) /\ InOrder(S) \in Seq(Nat)
    <3>1. InOrder(S) \in [1 .. Cardinality(S) -> 1 .. Len(q.items)]
      BY <2>1, <2>4
    <3>2. InOrder(S) \in [1 .. Cardinality(S) -> Nat]
      BY <3>1
    <3> QED
      BY <2>4, <3>1, <3>2
  <2> QED
    BY <2>3, <2>4, <2>5, <2>6
<1>7. /\ job \in Jobs
      /\ job.status = "running" /\ job.entries = Entries(c) /\ job.res = << >>
      /\ job.given = FALSE
  <2>1. << >> \in Seq(Results)
    OBVIOUS
  <2> QED
    BY <1>6, <2>1, Zenon DEF NoJob, Jobs
<1>8. /\ r \in Calls
      /\ r.at = "poll" /\ r.client = q.client /\ r.body = q.body /\ r.step = q.step
      /\ r.n = n /\ r.items = q.items /\ r.out = q.out /\ r.refreshed = q.refreshed
      /\ r.retries = q.retries /\ r.todo = q.todo /\ r.whole = q.whole /\ r.kind = q.kind
  <2>1. "poll" \in Ats /\ n \in {0} \cup Launches
    BY <1>5 DEF Ats
  <2> QED
    BY <1>1, <2>1, Zenon DEF Calls
<1>9. row \in [Launches -> Jobs] /\ row[n] = job /\ \A m \in Launches \ {n} : row[m] = jobs[c][m]
  BY <1>1, <1>5, <1>7
<1> HIDE DEF r, row, job
<1>10. Fits(r, token) /\ Bodies(r) /\ Budget(r) /\ Launched(r)
  <2>1. Extra(r) = Extra(q)
    BY <1>8 DEF Extra
  <2>2. Budget(r)
    BY <1>2, <1>3, <1>5, <1>8, <2>1 DEF Budget
  <2> QED
    BY <1>2, <1>3, <1>8, <2>2 DEF Fits, Bodies, Launched
<1>11. ASSUME NEW m \in Launches
       PROVE  JobFits(r, row[m], m)
  <2>1. JobFits(q, jobs[c][m], m)
    BY <1>2
  <2>2. m \in Nat
    BY BatchAssumption DEF Launches
  <2>3. CASE m = n
    <3>1. Len(job.res) = 0
      BY <1>7
    <3> QED
      BY <1>5, <1>6, <1>7, <1>8, <1>9, <2>3, <3>1 DEF JobFits
  <2>4. CASE m # n
    <3>1. row[m] = jobs[c][m] /\ (m <= q.n <=> m <= r.n)
      BY <1>5, <1>8, <1>9, <2>2, <2>4
    <3>2. q.at = "launch" /\ r.items = q.items
      BY <1>3, <1>8
    <3> QED
      BY <2>1, <3>1, <3>2 DEF JobFits
  <2> QED
    BY <2>3, <2>4
<1>12. Reports(r, row)
  BY <1>2, <1>3, <1>8 DEF Reports
<1>13. CallOK(r, row, token, writeBatchMu = c)
  BY <1>2, <1>3, <1>8, <1>10, <1>11, <1>12 DEF CallOK
<1> QED
  BY <1>1, <1>3, <1>4, <1>8, <1>9, <1>13, CallMoves DEF BatchInv

\* The results of a complete job go to the items they belong to.
LEMMA ReportStep ==
  ASSUME BatchInv, NEW c \in Callers, Report(c)
  PROVE  BatchInv'
<1> DEFINE q == call[c]
           row == jobs[c]
           job == row[q.n]
           out == [i \in Items(c) |->
                     IF \E j \in DOMAIN job.res : job.entries[j] = i
                     THEN job.res[CHOOSE j \in DOMAIN job.res : job.entries[j] = i]
                     ELSE q.out[i]]
           r == [q EXCEPT !.at = "done", !.out = out]
<1>1. /\ CallOK(q, row, token, writeBatchMu = c)
      /\ q \in Calls /\ token \in Nat /\ cache \in 0 .. token
      /\ row \in [Launches -> Jobs]
      /\ Len(q.items) \in Nat
  BY CallFacts
<1>2. /\ Fits(q, token) /\ Bodies(q) /\ Budget(q) /\ Launched(q)
      /\ (writeBatchMu = c) <=> q.at \in {"launch", "poll"}
      /\ \A m \in Launches : JobFits(q, row[m], m)
      /\ Reports(q, row)
  BY <1>1 DEF CallOK
<1>3. /\ q.at = "poll" /\ job.status = "complete"
      /\ UNCHANGED <<tree, token, cache, jobs>> /\ writeBatchMu' = NoCaller
      /\ call' = [call EXCEPT ![c] = r]
  BY Zenon DEF Report, At, Set, Job
<1>4. q.n \in Launches /\ q.n >= 1 /\ q.n \in Nat
  <2>1. q.n \in {0} \cup Launches
    BY <1>1 DEF Calls
  <2>2. q.n \in 1 .. Extra(q) + 1
    BY <1>2, <1>3, Zenon DEF Budget
  <2> QED
    BY <2>1, <2>2 DEF Launches
<1>5. /\ job.res \in Seq(Results) /\ job.entries \in Seq(1 .. Len(q.items))
      /\ Len(job.res) <= Len(job.entries)
      /\ \A j, k \in DOMAIN job.entries : job.entries[j] = job.entries[k] => j = k
  BY <1>1, <1>2, <1>4 DEF JobFits, Jobs
<1>6. /\ DOMAIN job.res \subseteq DOMAIN job.entries
      /\ \A j \in DOMAIN job.res : job.res[j] \in Results
  <2>1. job.res \in Seq(Results) /\ job.entries \in Seq(1 .. Len(q.items))
    BY <1>5
  <2>2. Len(job.res) <= Len(job.entries)
    BY <1>5
  <2> HIDE DEF job
  <2>3. DOMAIN job.res = 1 .. Len(job.res) /\ Len(job.res) \in Nat
    BY <2>1
  <2>4. DOMAIN job.entries = 1 .. Len(job.entries) /\ Len(job.entries) \in Nat
    BY <2>1
  <2>5. \A j \in 1 .. Len(job.res) : job.res[j] \in Results
    BY <2>1
  <2> QED
    BY <2>2, <2>3, <2>4, <2>5
<1>7. ASSUME NEW i \in 1 .. Len(q.items), NEW j \in DOMAIN job.res, job.entries[j] = i
      PROVE  out[i] = job.res[j]
  <2>1. \A k \in DOMAIN job.res : job.entries[k] = i => k = j
    BY <1>5, <1>6, <1>7
  <2>2. (CHOOSE k \in DOMAIN job.res : job.entries[k] = i) = j
    BY <1>7, <2>1
  <2> QED
    BY <1>7, <2>2 DEF Items
<1>8. ASSUME NEW i \in 1 .. Len(q.items), ~ \E j \in DOMAIN job.res : job.entries[j] = i
      PROVE  out[i] = q.out[i]
  BY <1>8 DEF Items
<1>9. out \in Outs(Len(q.items))
  <2>1. ASSUME NEW i \in 1 .. Len(q.items)
        PROVE  out[i] \in Results \cup {"none"}
    <3>1. CASE \E j \in DOMAIN job.res : job.entries[j] = i
      BY <1>6, <1>7, <3>1
    <3>2. CASE ~ \E j \in DOMAIN job.res : job.entries[j] = i
      BY <1>2, <1>8, <3>2 DEF Fits, Outs
    <3> QED
      BY <3>1, <3>2
  <2>2. out = [i \in 1 .. Len(q.items) |-> out[i]]
    BY Zenon DEF Items
  <2> HIDE DEF out
  <2> QED
    BY <2>1, <2>2 DEF Outs
<1>10. /\ "done" \in Ats /\ out \in UNION {Outs(k) : k \in Nat}
  BY <1>1, <1>9 DEF Ats
<1> HIDE DEF out
<1>11. /\ r \in Calls
       /\ r.at = "done" /\ r.client = q.client /\ r.body = q.body /\ r.step = q.step
       /\ r.n = q.n /\ r.items = q.items /\ r.out = out /\ r.refreshed = q.refreshed
       /\ r.retries = q.retries /\ r.todo = q.todo /\ r.whole = q.whole /\ r.kind = q.kind
  BY <1>1, <1>10, Zenon DEF Calls
<1> HIDE DEF r
<1>12. Fits(r, token) /\ Bodies(r) /\ Budget(r) /\ Launched(r)
  BY <1>2, <1>3, <1>9, <1>11 DEF Fits, Bodies, Budget, Launched
<1>13. ASSUME NEW m \in Launches
       PROVE  JobFits(r, row[m], m)
  <2>1. JobFits(q, row[m], m)
    BY <1>2
  <2>2. row[m].status = "running" => m # q.n
    BY <1>3
  <2> QED
    BY <1>11, <2>1, <2>2 DEF JobFits
<1>14. Reports(r, row)
  <2>1. ASSUME NEW i \in 1 .. Len(q.items), out[i] = "ok"
        PROVE  Took(row, i)
    <3>1. q.out[i] # "ok"
      BY <1>2, <1>3 DEF Reports
    <3>2. PICK j \in DOMAIN job.res : job.entries[j] = i
      BY <1>8, <2>1, <3>1
    <3>3. job.res[j] = "ok"
      BY <1>7, <2>1, <3>2
    <3> QED
      BY <1>4, <3>2, <3>3 DEF Took
  <2>2. ASSUME NEW i \in 1 .. Len(q.items), q.n = 1, Took(row, i)
        PROVE  out[i] = "ok"
    <3>1. PICK m \in Launches : \E j \in DOMAIN row[m].res :
                                  row[m].entries[j] = i /\ row[m].res[j] = "ok"
      BY <2>2 DEF Took
    <3>2. PICK j \in DOMAIN row[m].res : row[m].entries[j] = i /\ row[m].res[j] = "ok"
      BY <3>1
    <3>3. m = q.n
      <4>1. ASSUME ~(m <= q.n) PROVE FALSE
        <5>1. row[m].status = "none" /\ row[m] = NoJob
          BY <1>2, <4>1, Zenon DEF JobFits
        <5>2. DOMAIN row[m].res = {}
          BY <5>1 DEF NoJob
        <5> QED
          BY <3>2, <5>2
      <4> QED
        BY <2>2, <4>1 DEF Launches
    <3> QED
      BY <1>7, <3>2, <3>3
  <2> QED
    BY <1>3, <1>11, <2>1, <2>2 DEF Reports
<1>15. writeBatchMu' # c /\ r.at \notin {"launch", "poll"}
  BY <1>3, <1>11, BatchAssumption
<1>16. CallOK(r, row, token, writeBatchMu' = c)
  BY <1>12, <1>13, <1>14, <1>15 DEF CallOK
<1>17. /\ jobs' = [jobs EXCEPT ![c] = row]
       /\ \A d \in Callers \ {c} : (writeBatchMu' = d) <=> (writeBatchMu = d)
  BY <1>2, <1>3, BatchAssumption DEF BatchInv
<1> QED
  BY <1>1, <1>3, <1>11, <1>16, <1>17, CallMoves DEF BatchInv

\* A call that ends its polls, or a request before them, without a result: its
\* job, if it has one, is given up.
LEMMA GivesUp ==
  ASSUME BatchInv, NEW c \in Callers, NEW r \in Calls,
         call' = [call EXCEPT ![c] = r], GiveUp(c), Unlock(c), UNCHANGED <<tree, token, cache>>,
         call[c].at \in {"start", "launch", "poll"},
         r.at \notin {"launch", "poll", "done", "idle"},
         r.n = call[c].n, r.items = call[c].items, r.out = call[c].out,
         Fits(r, token), Bodies(r), Budget(r), Launched(r)
  PROVE  BatchInv'
<1> DEFINE q == call[c]
           job == [jobs[c][q.n] EXCEPT !.given = TRUE]
           row == IF q.n = 0 THEN jobs[c] ELSE [jobs[c] EXCEPT ![q.n] = job]
<1>1. /\ CallOK(q, jobs[c], token, writeBatchMu = c)
      /\ q \in Calls /\ token \in Nat /\ cache \in 0 .. token
      /\ jobs[c] \in [Launches -> Jobs]
      /\ Len(q.items) \in Nat
  BY CallFacts
<1>2. /\ \A m \in Launches : JobFits(q, jobs[c][m], m)
      /\ (writeBatchMu = c) <=> q.at \in {"launch", "poll"}
      /\ Reports(q, jobs[c])
  BY <1>1 DEF CallOK
<1>3. q.n \in {0} \cup Launches
  BY <1>1 DEF Calls
<1>4. jobs' = [jobs EXCEPT ![c] = row]
  <2>1. CASE q.n = 0
    <3>1. jobs' = jobs
      BY <2>1, Zenon DEF GiveUp
    <3> QED
      BY <2>1, <3>1 DEF BatchInv
  <2>2. CASE q.n # 0
    BY <2>2, Zenon DEF GiveUp
  <2> QED
    BY <2>1, <2>2
<1>5. ASSUME q.n # 0
      PROVE  /\ q.n \in Launches /\ job \in Jobs /\ job.given = TRUE
             /\ job.status = jobs[c][q.n].status /\ job.res = jobs[c][q.n].res
             /\ job.entries = jobs[c][q.n].entries
             /\ row \in [Launches -> Jobs] /\ row[q.n] = job
             /\ \A m \in Launches \ {q.n} : row[m] = jobs[c][m]
  <2>1. q.n \in Launches /\ jobs[c][q.n] \in Jobs
    BY <1>1, <1>3, <1>5
  <2>2. /\ job \in Jobs /\ job.given = TRUE
        /\ job.status = jobs[c][q.n].status /\ job.res = jobs[c][q.n].res
        /\ job.entries = jobs[c][q.n].entries
    BY <2>1, Zenon DEF Jobs
  <2> HIDE DEF job
  <2>3. row = [jobs[c] EXCEPT ![q.n] = job]
    BY <1>5
  <2> HIDE DEF row
  <2> QED
    BY <1>1, <2>1, <2>2, <2>3
<1>6. q.n = 0 => row = jobs[c]
  OBVIOUS
<1>7. row \in [Launches -> Jobs]
  BY <1>1, <1>5, <1>6
<1> HIDE DEF row, job
<1>8. ASSUME NEW m \in Launches
      PROVE  JobFits(r, row[m], m)
  <2>1. JobFits(q, jobs[c][m], m) /\ m \in Int /\ m # 0 /\ jobs[c][m] \in Jobs
    BY <1>1, <1>2, BatchAssumption DEF Launches
  <2>2. CASE m = q.n
    <3>1. job.status # "none"
      <4>1. m <= q.n
        BY <2>1, <2>2
      <4>2. jobs[c][m].status # "none"
        BY <2>1, <4>1, Zenon DEF JobFits
      <4> QED
        BY <1>5, <2>1, <2>2, <4>2
    <3>2. /\ row[m] = job /\ job \in Jobs /\ job.given = TRUE /\ job.status = jobs[c][m].status
          /\ job.res = jobs[c][m].res /\ job.entries = jobs[c][m].entries
      BY <1>5, <2>1, <2>2
    <3> QED
      BY <2>1, <3>1, <3>2 DEF JobFits
  <2>3. CASE m # q.n
    <3>1. row[m] = jobs[c][m]
      BY <1>5, <1>6, <2>3
    <3> QED
      BY <2>1, <2>3, <3>1 DEF JobFits
  <2> QED
    BY <2>2, <2>3
<1>9. Reports(r, row)
  BY <1>2 DEF Reports
<1>10. /\ writeBatchMu' # c
       /\ writeBatchMu' \in Callers \cup {NoCaller}
       /\ \A d \in Callers \ {c} : (writeBatchMu' = d) <=> (writeBatchMu = d)
  BY BatchAssumption DEF Unlock, BatchInv
<1>11. CallOK(r, row, token, writeBatchMu' = c)
  BY <1>8, <1>9, <1>10 DEF CallOK
<1> QED
  BY <1>1, <1>4, <1>7, <1>10, <1>11, CallMoves DEF BatchInv

\* The call fails, or its request is answered 401 and it tries once more.
LEMMA EndSteps ==
  ASSUME BatchInv, NEW c \in Callers, Fail(c) \/ Unauthorized(c)
  PROVE  BatchInv'
<1> DEFINE q == call[c]
<1>1. /\ CallOK(q, jobs[c], token, writeBatchMu = c)
      /\ q \in Calls /\ token \in Nat
      /\ Len(q.items) \in Nat
  BY CallFacts
<1>2. /\ Fits(q, token) /\ Bodies(q) /\ Budget(q) /\ Launched(q)
  BY <1>1 DEF CallOK
<1>3. /\ q.at \in {"start", "launch", "poll"} /\ GiveUp(c) /\ Unlock(c)
      /\ UNCHANGED <<tree, token, cache>>
  BY DEF Fail, Unauthorized
<1>4. /\ q.n \in Nat /\ q.retries \in 0 .. MaxGenericRetries /\ q.refreshed \in BOOLEAN
      /\ q.step \in {"start", "finish"} /\ {} \in SUBSET Nat
  BY <1>1, BatchAssumption DEF Calls, Launches
<1>5. CASE Fail(c)
  <2> DEFINE r == [q EXCEPT !.at = "failed", !.body = {}]
  <2>1. "failed" \in Ats
    BY DEF Ats
  <2>2. /\ r \in Calls
        /\ r.at = "failed" /\ r.body = {} /\ r.step = q.step /\ r.n = q.n
        /\ r.items = q.items /\ r.out = q.out /\ r.client = q.client
        /\ r.todo = q.todo /\ r.whole = q.whole
    BY <1>1, <1>4, <2>1, Zenon DEF Calls
  <2>3. call' = [call EXCEPT ![c] = r]
    BY <1>5, Zenon DEF Fail, Set
  <2> HIDE DEF r
  <2>4. Fits(r, token) /\ Bodies(r) /\ Budget(r) /\ Launched(r)
    BY <1>2, <2>2 DEF Fits, Bodies, Budget, Launched
  <2> QED
    BY <1>3, <2>2, <2>3, <2>4, GivesUp
<1>6. CASE Unauthorized(c) /\ ~q.refreshed
  <2> DEFINE r == [q EXCEPT !.at = "refresh", !.refreshed = TRUE]
  <2>1. "refresh" \in Ats /\ TRUE \in BOOLEAN
    BY DEF Ats
  <2>2. /\ r \in Calls
        /\ r.at = "refresh" /\ r.body = q.body /\ r.step = q.step /\ r.n = q.n
        /\ r.items = q.items /\ r.out = q.out /\ r.client = q.client
        /\ r.todo = q.todo /\ r.whole = q.whole /\ r.kind = q.kind
        /\ r.refreshed = TRUE /\ r.retries = q.retries
    BY <1>1, <2>1, Zenon DEF Calls
  <2>3. call' = [call EXCEPT ![c] = r]
    BY <1>6, Zenon DEF Unauthorized, Set
  <2> HIDE DEF r
  <2>4. Extra(r) = Extra(q) + 1 /\ Extra(q) \in Int
    BY <1>4, <1>6, <2>2, BatchAssumption DEF Extra
  <2>5. Budget(r)
    BY <1>2, <1>3, <1>4, <2>2, <2>4 DEF Budget
  <2>6. Fits(r, token) /\ Bodies(r) /\ Launched(r)
    BY <1>2, <1>3, <2>2 DEF Fits, Bodies, Budget, Launched
  <2> QED
    BY <1>3, <2>2, <2>3, <2>5, <2>6, GivesUp
<1>7. CASE Unauthorized(c) /\ q.refreshed
  <2> DEFINE a == IF q.step = "start" THEN "start" ELSE "lock"
             left == q.retries - 1
             r == [q EXCEPT !.at = a, !.retries = left]
  <2>1. a \in Ats /\ left \in 0 .. MaxGenericRetries
    <3>1. q.retries > 0
      BY <1>7, Zenon DEF Unauthorized
    <3> QED
      BY <1>4, <3>1, BatchAssumption DEF Ats
  <2>2. /\ r \in Calls
        /\ r.at = a /\ r.body = q.body /\ r.step = q.step /\ r.n = q.n
        /\ r.items = q.items /\ r.out = q.out /\ r.client = q.client
        /\ r.todo = q.todo /\ r.whole = q.whole /\ r.kind = q.kind
        /\ r.refreshed = q.refreshed /\ r.retries = left
    <3> HIDE DEF a, left
    <3> QED
      BY <1>1, <2>1, Zenon DEF Calls
  <2>3. call' = [call EXCEPT ![c] = r]
    BY <1>7, Zenon DEF Unauthorized, Set
  <2> HIDE DEF r
  <2>4. Extra(r) = Extra(q) + 1 /\ Extra(q) \in Int
    BY <1>4, <1>7, <2>2, BatchAssumption DEF Extra
  <2>5. Budget(r)
    BY <1>2, <1>3, <1>4, <2>2, <2>4 DEF Budget
  <2>6. Fits(r, token) /\ Bodies(r) /\ Launched(r)
    BY <1>2, <1>3, <1>4, <2>2 DEF Fits, Bodies, Budget, Launched
  <2>7. r.at \in {"start", "lock"}
    BY <2>2
  <2> HIDE DEF a, left
  <2> QED
    BY <1>3, <2>2, <2>3, <2>5, <2>6, <2>7, GivesUp
<1> QED
  BY <1>5, <1>6, <1>7

\* A running job goes on by one result, or fails; its caller sees neither.
LEMMA JobMoves ==
  ASSUME BatchInv, NEW c \in Callers, NEW n \in Launches, NEW job \in Jobs,
         jobs' = [jobs EXCEPT ![c][n] = job], UNCHANGED <<token, cache, writeBatchMu, call>>,
         tree' \in [Paths -> {"none", "folder", "file"}],
         jobs[c][n].status = "running", job.status # "none",
         job.given = jobs[c][n].given, job.entries = jobs[c][n].entries,
         Len(job.res) <= Len(job.entries),
         job.status = "running" => Len(job.res) < Len(job.entries),
         \A j \in DOMAIN jobs[c][n].res : j \in DOMAIN job.res /\ job.res[j] = jobs[c][n].res[j]
  PROVE  BatchInv'
<1> DEFINE q == call[c]
           old == jobs[c]
           row == [old EXCEPT ![n] = job]
<1>1. /\ CallOK(q, old, token, writeBatchMu = c)
      /\ q \in Calls /\ token \in Nat /\ cache \in 0 .. token
      /\ old \in [Launches -> Jobs]
  BY CallFacts
<1>2. /\ \A m \in Launches : JobFits(q, old[m], m)
      /\ Fits(q, token) /\ Bodies(q) /\ Budget(q) /\ Launched(q)
      /\ (writeBatchMu = c) <=> q.at \in {"launch", "poll"}
      /\ Reports(q, old)
  BY <1>1 DEF CallOK
<1>3. jobs' = [jobs EXCEPT ![c] = row] /\ call' = [call EXCEPT ![c] = q]
  BY Zenon DEF BatchInv
<1>4. row \in [Launches -> Jobs] /\ row[n] = job /\ \A m \in Launches \ {n} : row[m] = old[m]
  BY <1>1
<1> HIDE DEF row
<1>5. ASSUME NEW m \in Launches
      PROVE  JobFits(q, row[m], m)
  <2>1. JobFits(q, old[m], m)
    BY <1>2
  <2>2. CASE m = n
    BY <1>4, <2>1, <2>2 DEF JobFits
  <2>3. CASE m # n
    BY <1>4, <2>1, <2>3
  <2> QED
    BY <2>2, <2>3
<1>6. ASSUME NEW i, Took(old, i)
      PROVE  Took(row, i)
  <2>1. PICK m \in Launches : \E j \in DOMAIN old[m].res :
                                old[m].entries[j] = i /\ old[m].res[j] = "ok"
    BY <1>6 DEF Took
  <2>2. PICK j \in DOMAIN old[m].res : old[m].entries[j] = i /\ old[m].res[j] = "ok"
    BY <2>1
  <2>3. j \in DOMAIN row[m].res /\ row[m].entries[j] = i /\ row[m].res[j] = "ok"
    BY <1>4, <2>2
  <2> QED
    BY <2>3 DEF Took
<1>7. n <= q.n /\ q.n \in Nat /\ n \in Nat /\ n >= 1
  <2>1. n <= q.n
    BY <1>2, Zenon DEF JobFits
  <2>2. q.n \in {0} \cup Launches
    BY <1>1, Zenon DEF Calls
  <2> QED
    BY <2>1, <2>2, BatchAssumption DEF Launches
<1>8. Reports(q, row)
  <2>1. CASE q.at = "done"
    <3>1. q.n # n /\ q.n # 1
      BY <1>2, <1>7, <2>1 DEF Reports
    <3>2. q.n \in Launches
      BY <1>1, <1>7, <3>1 DEF Calls
    <3>3. row[q.n] = old[q.n]
      BY <1>4, <3>1, <3>2
    <3> QED
      BY <1>2, <1>6, <2>1, <3>1, <3>3 DEF Reports
  <2>2. CASE q.at # "done"
    BY <1>2, <2>2 DEF Reports
  <2> QED
    BY <2>1, <2>2
<1>9. CallOK(q, row, token, writeBatchMu' = c)
  BY <1>2, <1>5, <1>8 DEF CallOK
<1>10. /\ token' = token /\ cache' \in 0 .. token
       /\ writeBatchMu' \in Callers \cup {NoCaller}
       /\ \A d \in Callers \ {c} : (writeBatchMu' = d) <=> (writeBatchMu = d)
  BY <1>1 DEF BatchInv
<1> QED
  BY <1>1, <1>3, <1>4, <1>9, <1>10, CallMoves

\* The job fails as a whole.
LEMMA JobFailsStep ==
  ASSUME BatchInv, NEW c \in Callers, NEW n \in Launches, JobFails(c, n)
  PROVE  BatchInv'
<1> DEFINE old == jobs[c][n]
           job == [old EXCEPT !.status = "failed"]
<1>1. /\ CallOK(call[c], jobs[c], token, writeBatchMu = c) /\ old \in Jobs
  BY CallFacts
<1>2. JobFits(call[c], old, n)
  BY <1>1 DEF CallOK
<1>3. /\ old.status = "running" /\ UNCHANGED <<tree, token, cache, writeBatchMu, call>>
      /\ jobs' = [jobs EXCEPT ![c][n] = job]
  BY Zenon DEF JobFails
<1>4. /\ job \in Jobs /\ job.status = "failed" /\ job.res = old.res
      /\ job.entries = old.entries /\ job.given = old.given
  BY <1>1, Zenon DEF Jobs
<1> HIDE DEF job
<1>5. Len(old.res) <= Len(old.entries)
  BY <1>2 DEF JobFits
<1> QED
  BY <1>3, <1>4, <1>5, JobMoves DEF BatchInv

\* The job has one more result.
LEMMA JobGoesOn ==
  ASSUME BatchInv, NEW c \in Callers, NEW n \in Launches, JobStep(c, n)
  PROVE  BatchInv'
<1> DEFINE old == jobs[c][n]
           q == call[c]
           i == old.entries[Len(old.res) + 1]
<1>1. /\ CallOK(q, jobs[c], token, writeBatchMu = c) /\ old \in Jobs
      /\ q \in Calls /\ Len(q.items) \in Nat
  BY CallFacts
<1>2. JobFits(q, old, n)
  BY <1>1 DEF CallOK
<1>3. old.status = "running" /\ UNCHANGED <<token, cache, writeBatchMu, call>>
  BY DEF JobStep
<1>4. PICK x \in {Outcome(c, i), "throttled"} :
        /\ tree' = IF x = "ok" THEN [tree EXCEPT ![q.items[i]] = Becomes(c)] ELSE tree
        /\ jobs' = [jobs EXCEPT ![c][n].res = Append(@, x),
                                ![c][n].status = IF Len(old.res) + 1 = Len(old.entries)
                                                 THEN "complete" ELSE "running"]
  BY Zenon DEF JobStep
<1> DEFINE res == Append(old.res, x)
           status == IF Len(old.res) + 1 = Len(old.entries) THEN "complete" ELSE "running"
           job == [old EXCEPT !.res = res, !.status = status]
<1>5. Outcome(c, i) \in {"ok", "error"}
  BY Zenon DEF Outcome
<1>6. x \in Results
  BY <1>4, <1>5 DEF Results
<1>7. jobs' = [jobs EXCEPT ![c][n] = job]
  BY <1>4, Zenon DEF BatchInv
<1>8. /\ res \in Seq(Results) /\ Len(res) = Len(old.res) + 1
      /\ \A j \in DOMAIN old.res : j \in DOMAIN res /\ res[j] = old.res[j]
      /\ Len(res) <= Len(old.entries)
      /\ status = "running" => Len(res) < Len(old.entries)
      /\ status \in {"running", "complete"}
  <2>1. old.res \in Seq(Results) /\ old.entries \in Seq(Nat)
    BY <1>1 DEF Jobs
  <2>2. Len(old.res) < Len(old.entries)
    BY <1>2, <1>3 DEF JobFits
  <2>3. /\ res \in Seq(Results) /\ Len(res) = Len(old.res) + 1
        /\ \A j \in DOMAIN old.res : j \in DOMAIN res /\ res[j] = old.res[j]
    BY <1>6, <2>1
  <2> HIDE DEF res
  <2> QED
    BY <2>1, <2>2, <2>3
<1> HIDE DEF res, status
<1>9. /\ job \in Jobs /\ job.status = status /\ job.res = res
      /\ job.entries = old.entries /\ job.given = old.given
  <2>1. status \in {"none", "running", "complete", "failed"}
    BY <1>8
  <2> QED
    BY <1>1, <1>8, <2>1, Zenon DEF Jobs
<1> HIDE DEF job
<1>10. tree' \in [Paths -> {"none", "folder", "file"}]
  <2>1. Becomes(c) \in {"none", "folder", "file"}
    <3>1. q.kind \in Kinds
      BY <1>1 DEF Calls
    <3> QED
      BY <3>1 DEF Becomes, Kinds
  <2> QED
    BY <1>4, <2>1 DEF BatchInv
<1> QED
  BY <1>3, <1>7, <1>8, <1>9, <1>10, JobMoves

\* A client older than the token stays so.
LEMMA ExpireStep ==
  ASSUME BatchInv, Expire
  PROVE  BatchInv'
<1>1. /\ token \in 0 .. MaxExpiries /\ cache \in 0 .. token /\ token < MaxExpiries
      /\ token' = token + 1 /\ UNCHANGED <<tree, cache, jobs, writeBatchMu, call>>
  BY DEF BatchInv, Expire
<1>2. token \in Nat /\ token' \in 0 .. MaxExpiries /\ cache' \in 0 .. token' /\ token <= token'
  BY <1>1, BatchAssumption
<1>3. ASSUME NEW c \in Callers
      PROVE  CallOK(call'[c], jobs'[c], token', writeBatchMu' = c)
  <2>1. CallOK(call[c], jobs[c], token, writeBatchMu = c)
    BY DEF BatchInv
  <2>2. call[c].client \in Nat
    BY CallFacts DEF Calls
  <2>3. Fits(call[c], token')
    BY <1>2, <2>1, <2>2 DEF CallOK, Fits
  <2> QED
    BY <1>1, <2>1, <2>3 DEF CallOK
<1> QED
  BY <1>1, <1>2, <1>3 DEF BatchInv, Calls, Jobs, Outs, Launches, Kinds, Ats, Results

\* Every step keeps the invariant.
LEMMA InvStep ==
  BatchInv /\ [Next]_vars => BatchInv'
<1> SUFFICES ASSUME BatchInv, [Next]_vars
             PROVE  BatchInv'
  OBVIOUS
<1>1. CASE Expire
  BY <1>1, ExpireStep
<1>2. ASSUME NEW c \in Callers, NEW k \in Kinds, NEW b \in Batches, Call(c, k, b)
      PROVE  BatchInv'
  BY <1>2, CallStep
<1>3. ASSUME NEW c \in Callers, Step(c)
      PROVE  BatchInv'
  <2>1. CASE \/ Reject(c) \/ TakeClient(c) \/ StartBatch(c)
             \/ Refresh(c) \/ RefreshFails(c) \/ Collect(c)
    BY <2>1, AsideSteps
  <2>2. CASE \E i \in Items(c) : AppendBody(c, i)
    BY <2>2, AppendStep
  <2>3. CASE Launch(c)
    BY <2>3, LaunchStep
  <2>4. CASE Report(c)
    BY <2>4, ReportStep
  <2>5. CASE Fail(c) \/ Unauthorized(c)
    BY <2>5, EndSteps
  <2> QED
    BY <1>3, <2>1, <2>2, <2>3, <2>4, <2>5 DEF Step
<1>4. ASSUME NEW c \in Callers, Lock(c)
      PROVE  BatchInv'
  BY <1>4, LockStep
<1>5. ASSUME NEW c \in Callers, NEW n \in Launches, JobStep(c, n) \/ JobFails(c, n)
      PROVE  BatchInv'
  BY <1>5, JobGoesOn, JobFailsStep
<1>6. CASE UNCHANGED vars
  <2>1. \A c \in Callers : CallOK(call'[c], jobs'[c], token', writeBatchMu' = c)
    BY <1>6 DEF vars, BatchInv
  <2> QED
    BY <1>6, <2>1 DEF vars, BatchInv, Calls, Jobs, Outs, Launches, Kinds, Ats, Results
<1> QED
  BY <1>1, <1>2, <1>3, <1>4, <1>5, <1>6 DEF Next

\* Nobody has called, and there are no jobs.
LEMMA InvInit ==
  Init => BatchInv
<1> SUFFICES ASSUME Init
             PROVE  BatchInv
  OBVIOUS
<1> DEFINE none == [n \in Launches |-> NoJob]
<1>1. /\ call = [c \in Callers |-> NoCall] /\ jobs = [c \in Callers |-> none]
      /\ token = 0 /\ cache = 0 /\ writeBatchMu = NoCaller
      /\ tree \in [Paths -> {"none", "folder", "file"}]
  BY BatchAssumption DEF Init
<1>2. /\ << >> \in Seq(Nat) /\ << >> \in Seq(Results) /\ Len(<< >>) = 0 /\ DOMAIN << >> = {}
      /\ << >> \in Outs(0) /\ << >> \in UNION {Outs(k) : k \in Nat} /\ 1 .. 0 = {}
      /\ \A S : << >> \in Seq(S)
  BY DEF Outs
<1>3. /\ NoJob \in Jobs /\ NoJob.status = "none" /\ NoJob.entries = << >> /\ NoJob.res = << >>
  BY <1>2 DEF NoJob, Jobs
<1>4. /\ NoCall \in Calls /\ NoCall.at = "idle" /\ NoCall.items = << >> /\ NoCall.out = << >>
      /\ NoCall.body = {} /\ NoCall.todo = {} /\ NoCall.whole = {} /\ NoCall.n = 0
      /\ NoCall.client = 0 /\ NoCall.step = "finish"
  BY <1>2, BatchAssumption DEF NoCall, Calls, Ats, Kinds
<1>5. none \in [Launches -> Jobs] /\ \A n \in Launches : none[n] = NoJob
  BY <1>3
<1> HIDE DEF none
<1>6. ASSUME NEW c \in Callers
      PROVE  CallOK(NoCall, none, 0, NoCaller = c)
  <2>1. NoCaller # c
    BY BatchAssumption
  <2>2. Fits(NoCall, 0) /\ Bodies(NoCall) /\ Budget(NoCall) /\ Launched(NoCall)
    BY <1>2, <1>4 DEF Fits, Bodies, Budget, Launched
  <2>3. \A n \in Launches : JobFits(NoCall, none[n], n)
    <3>1. \A n \in Launches : ~(n <= 0)
      BY BatchAssumption DEF Launches
    <3>2. << >> \in Seq(1 .. Len(NoCall.items)) /\ NoCall.n = 0
      BY <1>4
    <3>3. \A n \in Launches : JobFits(NoCall, NoJob, n)
      BY <1>2, <1>3, <3>1, <3>2 DEF JobFits
    <3> QED
      BY <1>5, <3>3
  <2>4. Reports(NoCall, none)
    BY <1>2, <1>4 DEF Reports
  <2> QED
    BY <1>4, <2>1, <2>2, <2>3, <2>4 DEF CallOK
<1> QED
  BY <1>1, <1>4, <1>5, <1>6, BatchAssumption DEF BatchInv

\* So it always holds.
LEMMA InvHolds == Spec => []BatchInv
BY InvInit, InvStep, PTL DEF Spec
-----------------------------------------------------------------------------
\* For any callers, batches and trees, any number of retries and of tokens that
\* expire: bodies, sessions and results stay positional, a caller is between a
\* launch and the end of its polls exactly when it holds the mutex, a job is
\* there exactly for every launch, and a call that is over has no body open.
THEOREM BatchIsTyped == Spec => []TypeOK
<1>1. BatchInv => TypeOK
  <2> SUFFICES ASSUME BatchInv
               PROVE  TypeOK
    OBVIOUS
  <2>1. ASSUME NEW c \in Callers
        PROVE  /\ call[c].kind \in Kinds /\ call[c].client \in 0 .. token
               /\ call[c].retries \in 0 .. MaxGenericRetries
               /\ call[c].n \in {0} \cup Launches
               /\ call[c].body \cup call[c].todo \cup call[c].whole \subseteq Items(c)
               /\ call[c].out \in [Items(c) -> Results \cup {"none"}]
               /\ (writeBatchMu = c) <=> call[c].at \in {"launch", "poll"}
               /\ \A n \in Launches : jobs[c][n].status # "none" <=> n <= call[c].n
               /\ Over(c) /\ Len(call[c].items) <= MaxEntries => call[c].body = {}
    <3>1. /\ CallOK(call[c], jobs[c], token, writeBatchMu = c)
          /\ call[c] \in Calls /\ token \in Nat /\ Len(call[c].items) \in Nat
      BY CallFacts
    <3>2. /\ call[c].kind \in Kinds /\ call[c].client \in Nat
          /\ call[c].retries \in 0 .. MaxGenericRetries
          /\ call[c].n \in {0} \cup Launches
      BY <3>1 DEF Calls
    <3>3. /\ Fits(call[c], token) /\ Bodies(call[c])
          /\ (writeBatchMu = c) <=> call[c].at \in {"launch", "poll"}
          /\ \A n \in Launches : jobs[c][n].status # "none" <=> n <= call[c].n
      BY <3>1 DEF CallOK, JobFits
    <3>4. /\ call[c].client \in 0 .. token
          /\ call[c].body \cup call[c].todo \cup call[c].whole \subseteq Items(c)
          /\ call[c].out \in [Items(c) -> Results \cup {"none"}]
      BY <3>1, <3>2, <3>3 DEF Fits, Items, Outs
    <3>5. Over(c) /\ Len(call[c].items) <= MaxEntries => call[c].body = {}
      BY <3>1, <3>3, BatchAssumption DEF Bodies, Over
    <3> QED
      BY <3>2, <3>3, <3>4, <3>5
  <2> QED
    BY <2>1 DEF TypeOK, BatchInv, BodiesAreClosed
<1> QED
  BY <1>1, InvHolds, PTL

\* Whatever is launched twice, given up or left unfinished: what a call reports
\* as done its own job did to that very item, and what it reports as not done
\* its only job did not.
THEOREM ReportsAreTrue == Spec => []ReportIsTrue
<1>1. BatchInv => ReportIsTrue
  <2> SUFFICES ASSUME BatchInv
               PROVE  ReportIsTrue
    OBVIOUS
  <2>1. ASSUME NEW c \in Callers
        PROVE  Reports(call[c], jobs[c])
    BY DEF BatchInv, CallOK
  <2>2. \A c \in Callers : \A i : Took(jobs[c], i) <=> Applied(c, i)
    BY DEF Took, Applied
  <2> QED
    BY <2>1, <2>2 DEF ReportIsTrue, SuccessIsApplied, ErrorIsHonest, Reports, At, Items
<1> QED
  BY <1>1, InvHolds, PTL

\* The mutex keeps jobs of this adapter apart except from those nobody waits for.
THEOREM OverlapsAreGivenUp == Spec => []OverlapIsGivenUp
<1>1. BatchInv => OverlapIsGivenUp
  <2> SUFFICES ASSUME BatchInv,
                      NEW c \in Callers, NEW m \in Launches, NEW d \in Callers, NEW n \in Launches,
                      jobs[c][m].status = "running", jobs[d][n].status = "running",
                      ~jobs[c][m].given, ~jobs[d][n].given
               PROVE  c = d /\ m = n
    BY DEF OverlapIsGivenUp
  <2>1. ASSUME NEW e \in Callers, NEW k \in Launches,
               jobs[e][k].status = "running", ~jobs[e][k].given
        PROVE  writeBatchMu = e /\ k = call[e].n
    <3>1. CallOK(call[e], jobs[e], token, writeBatchMu = e)
      BY DEF BatchInv
    <3>2. JobFits(call[e], jobs[e][k], k)
      BY <3>1 DEF CallOK
    <3>3. call[e].at = "poll" /\ k = call[e].n
      BY <2>1, <3>2 DEF JobFits
    <3> QED
      BY <3>1, <3>3 DEF CallOK
  <2> QED
    BY <2>1
<1> QED
  BY <1>1, InvHolds, PTL
=============================================================================
