-------------------------- MODULE ClassifiedRetryProofs --------------------------
(***************************************************************************)
(* The retry loop announces every throttle it sleeps for, and its attempts *)
(* are paid for out of its budgets, whatever the workers, the budgets and  *)
(* the Retry-Afters are.                                                   *)
(***************************************************************************)
EXTENDS ClassifiedRetry, SequenceTheorems, TLAPS

\* What the loop of a worker may hold.
Jobs == [at: Ats, i: Nat, refreshed: BOOLEAN, rate: Nat, ambiguous: Nat, generic: Nat,
         after: RetryAfters \cup {0}, left: Nat]

\* What the tracker may hold.
Evidences == [highWorkers: Nat, lowWorkers: Nat, gaps: Seq(0 .. BurstWindow + 1)]

\* The tracker remembers the latest of the errors it has counted.
EvidenceOK ==
  evidence \in Evidences /\ Len(evidence.gaps) = Least(Total(evidence), MaxTimestamps)

\* The attempts a job has paid for when its run of rate limit waits is r long.
Budget(j, r) == 1 + RefreshesOf(j) + (adapter.waits + 1) * (j.ambiguous + j.generic) + r

\* How the counters of one loop stand to each other at each place.
Paid(j) ==
  /\ j.i <= Budget(j, IF j.at \in {"ambiguousSleep", "genericSleep"}
                      THEN adapter.waits ELSE j.rate)
  /\ j.rate <= adapter.waits
  /\ j.at = "rateSleep" => j.rate < adapter.waits
  /\ j.at = "refresh" => ~j.refreshed
  /\ j.at \in {"ambiguousSleep", "genericSleep"} => j.rate = 0

\* What is left of the window covers what is left of a throttle's sleep.
Covered(j, d) == j.at \in {"rateSleep", "ambiguousSleep", "limited"} => d >= j.left

\* The inductive invariant.
RetryInv == TypeOK /\ \A w \in Workers : Paid(job[w]) /\ Covered(job[w], window)
-----------------------------------------------------------------------------
\* The backoff is a number of seconds at every streak the code lets it reach.
LEMMA BackoffIsNat == \A n \in 1 .. MaxStreak : Backoff(n) \in Nat
<1>1. MaxStreak \in 1 .. 6
  BY RetryAssumption
<1>2. {2 ^ 0, 2 ^ 1, 2 ^ 2, 2 ^ 3, 2 ^ 4, 2 ^ 5} \subseteq Nat
  OBVIOUS
<1>3. ASSUME NEW n \in 1 .. MaxStreak
      PROVE  2 ^ (n - 1) \in Nat
  <2>1. n - 1 \in {0, 1, 2, 3, 4, 5}
    BY <1>1
  <2>2. \A k : k \in {0, 1, 2, 3, 4, 5} => 2 ^ k \in {2 ^ 0, 2 ^ 1, 2 ^ 2, 2 ^ 3, 2 ^ 4, 2 ^ 5}
    BY Zenon
  <2>3. 2 ^ (n - 1) \in {2 ^ 0, 2 ^ 1, 2 ^ 2, 2 ^ 3, 2 ^ 4, 2 ^ 5}
    BY <2>1, <2>2, Zenon
  <2> QED
    BY <1>2, <2>3, Zenon
<1> QED
  BY <1>3, Zenon DEF Backoff

\* The type invariant in the names of this module.
LEMMA TypeParts ==
  /\ TypeOK <=> /\ adapter \in Adapters /\ streak \in 0 .. MaxStreak /\ window \in Nat
                /\ EvidenceOK /\ job \in [Workers -> Jobs]
  /\ adapter \in Adapters => adapter.scheduled \in BOOLEAN /\ adapter.waits \in Nat
  BY RetryAssumption DEF TypeOK, EvidenceOK, Evidences, Jobs

\* A step of one worker that leaves the window at least as long.
LEMMA SetStep ==
  ASSUME RetryInv, NEW w \in Workers, NEW j, Set(w, j), j \in Jobs, Paid(j), Covered(j, window'),
         adapter' = adapter, streak' \in 0 .. MaxStreak, window' \in Nat, window' >= window,
         EvidenceOK'
  PROVE  RetryInv'
<1>1. job' \in [Workers -> Jobs] /\ \A v \in Workers : job'[v] = IF v = w THEN j ELSE job[v]
  BY TypeParts DEF Set, RetryInv
<1>2. TypeOK'
  BY <1>1, TypeParts DEF RetryInv, TypeOK, EvidenceOK, Evidences, Jobs
<1>3. ASSUME NEW v \in Workers
      PROVE  Paid(job[v])' /\ Covered(job[v], window)'
  <2>1. Paid(job[v]) /\ Covered(job[v], window)
    BY DEF RetryInv
  <2>2. CASE v = w
    BY <1>1, <2>2 DEF Paid, Budget, RefreshesOf, Covered
  <2>3. CASE v # w
    <3>1. job'[v] = job[v] /\ job[v] \in Jobs
      BY <1>1, <2>3, TypeParts DEF RetryInv
    <3>2. job[v].left \in Nat /\ window \in Nat
      BY <3>1, TypeParts DEF Jobs, RetryInv
    <3> QED
      BY <2>1, <3>1, <3>2 DEF Paid, Budget, RefreshesOf, Covered
  <2> QED
    BY <2>2, <2>3
<1> QED
  BY <1>2, <1>3 DEF RetryInv

\* A step of one worker that touches nothing the others share.
LEMMA OwnStep ==
  ASSUME RetryInv, NEW w \in Workers, NEW j, Set(w, j), j \in Jobs, Paid(j),
         j.at \notin {"rateSleep", "ambiguousSleep", "limited"} \/ j.left = 0,
         adapter' = adapter, streak' \in 0 .. MaxStreak, UNCHANGED <<window, evidence>>
  PROVE  RetryInv'
<1>1. window \in Nat /\ EvidenceOK
  BY TypeParts DEF RetryInv
<1>2. EvidenceOK' /\ window' = window
  BY <1>1 DEF EvidenceOK, Total
<1>3. Covered(j, window')
  BY <1>1, <1>2 DEF Covered
<1> QED
  BY <1>1, <1>2, <1>3, SetStep

\* A worker between two calls owes nothing.
LEMMA ReturnedJob ==
  ASSUME RetryInv
  PROVE  /\ Returned \in Jobs /\ Paid(Returned) /\ Returned.at = "returned"
         /\ Idle \in Jobs /\ Paid(Idle) /\ Idle.at = "idle"
         /\ \A d \in Nat : [Idle EXCEPT !.at = "limited", !.left = d] \in Jobs
                           /\ Paid([Idle EXCEPT !.at = "limited", !.left = d])
<1>1. 0 \in Nat /\ 0 \in RetryAfters \cup {0} /\ FALSE \in BOOLEAN
      /\ {"idle", "returned", "limited"} \subseteq Ats
  BY DEF Ats
<1>2. adapter.waits \in Nat
  BY TypeParts DEF RetryInv
<1>3. ASSUME NEW r \in Jobs, r.at \in {"idle", "returned", "limited"}, r.i = 0, r.rate = 0,
             r.refreshed = FALSE, r.ambiguous = 0, r.generic = 0
      PROVE  Paid(r)
  BY <1>2, <1>3 DEF Paid, Budget, RefreshesOf
<1>4. /\ Returned \in Jobs /\ Returned.at = "returned" /\ Returned.i = 0 /\ Returned.rate = 0
      /\ Returned.refreshed = FALSE /\ Returned.ambiguous = 0 /\ Returned.generic = 0
  BY <1>1, Zenon DEF Returned, Idle, Jobs
<1>5. /\ Idle \in Jobs /\ Idle.at = "idle" /\ Idle.i = 0 /\ Idle.rate = 0
      /\ Idle.refreshed = FALSE /\ Idle.ambiguous = 0 /\ Idle.generic = 0
  BY <1>1, Zenon DEF Idle, Jobs
<1>6. ASSUME NEW d \in Nat
      PROVE  /\ [Idle EXCEPT !.at = "limited", !.left = d] \in Jobs
             /\ Paid([Idle EXCEPT !.at = "limited", !.left = d])
  <2> DEFINE r == [Idle EXCEPT !.at = "limited", !.left = d]
  <2>1. /\ r \in Jobs /\ r.at = "limited" /\ r.i = 0 /\ r.rate = 0 /\ r.refreshed = FALSE
        /\ r.ambiguous = 0 /\ r.generic = 0
    BY <1>1, <1>6, Zenon DEF Idle, Jobs
  <2> HIDE DEF r
  <2>2. Paid(r)
    BY <1>3, <2>1
  <2> QED
    BY <2>1, <2>2 DEF r
<1> QED
  BY <1>3, <1>4, <1>5, <1>6

\* The next iteration is paid for by whatever the last one was charged to.
LEMMA AgainJob ==
  ASSUME RetryInv, NEW j \in Jobs, j.rate <= adapter.waits, j.i + 1 <= Budget(j, j.rate)
  PROVE  /\ Again(j) \in Jobs /\ Paid(Again(j)) /\ Again(j).at \in {"op", "returned"}
<1>1. CASE j.i < MaxIterations
  <2> DEFINE i == j.i + 1
             r == [j EXCEPT !.at = "op", !.i = i]
  <2>1. i \in Nat /\ "op" \in Ats
    BY DEF Jobs, Ats
  <2> HIDE DEF i
  <2>2. /\ r \in Jobs /\ r.at = "op" /\ r.i = i /\ r.rate = j.rate /\ r.refreshed = j.refreshed
        /\ r.ambiguous = j.ambiguous /\ r.generic = j.generic
    BY <2>1, Zenon DEF Jobs
  <2>3. Again(j) = r
    BY <1>1 DEF Again, i
  <2> HIDE DEF r
  <2>4. Paid(r)
    BY <2>2 DEF Paid, Budget, RefreshesOf, i
  <2> QED
    BY <2>2, <2>3, <2>4
<1>2. CASE ~(j.i < MaxIterations)
  <2>1. Again(j) = Returned
    BY <1>2 DEF Again, Returned
  <2> QED
    BY <2>1, ReturnedJob
<1> QED
  BY <1>1, <1>2

\* Two jobs with the same counters.
Alike(j, k) == /\ k.i = j.i /\ k.rate = j.rate /\ k.refreshed = j.refreshed
               /\ k.ambiguous = j.ambiguous /\ k.generic = j.generic

\* From the loop to another place in it, with the counters as they are.
LEMMA MovedJob ==
  ASSUME NEW j, NEW k, Paid(j), Alike(j, k), j.at \notin {"ambiguousSleep", "genericSleep"},
         k.at \in {"refresh", "throttled", "rateSleep", "exhausted"},
         k.at = "refresh" => ~j.refreshed, k.at = "rateSleep" => j.rate < adapter.waits
  PROVE  Paid(k)
  BY DEF Alike, Paid, Budget, RefreshesOf

\* From an attempt to the sleep after an error; it starts a new run of waits.
LEMMA SleepJob ==
  ASSUME RetryInv, NEW j \in Jobs, Paid(j), j.at = "op",
         NEW a \in {"ambiguousSleep", "genericSleep"}, NEW d \in Nat
  PROVE  /\ [j EXCEPT !.at = a, !.rate = 0, !.left = d] \in Jobs
         /\ Paid([j EXCEPT !.at = a, !.rate = 0, !.left = d])
         /\ [j EXCEPT !.at = a, !.rate = 0, !.left = d].at = a
         /\ [j EXCEPT !.at = a, !.rate = 0, !.left = d].left = d
<1> DEFINE r == [j EXCEPT !.at = a, !.rate = 0, !.left = d]
<1>1. a \in Ats /\ 0 \in Nat
  BY DEF Ats
<1>2. /\ r \in Jobs /\ r.at = a /\ r.i = j.i /\ r.rate = 0 /\ r.refreshed = j.refreshed
      /\ r.ambiguous = j.ambiguous /\ r.generic = j.generic /\ r.left = d
  BY <1>1, Zenon DEF Jobs
<1>3. /\ adapter.waits \in Nat /\ j.rate \in Nat /\ j.rate <= adapter.waits
      /\ j.i \in Nat /\ j.i <= Budget(j, j.rate)
  BY TypeParts DEF RetryInv, Jobs, Paid
<1> HIDE DEF r
<1>4. /\ Budget(r, adapter.waits) = Budget(j, adapter.waits)
      /\ Budget(j, j.rate) <= Budget(j, adapter.waits)
  <2> DEFINE m == (adapter.waits + 1) * (j.ambiguous + j.generic)
  <2>1. m \in Nat
    BY <1>3 DEF Jobs
  <2> HIDE DEF m
  <2>2. /\ Budget(j, j.rate) = 1 + RefreshesOf(j) + m + j.rate
        /\ Budget(j, adapter.waits) = 1 + RefreshesOf(j) + m + adapter.waits
    BY DEF Budget, m
  <2>3. RefreshesOf(j) \in Nat
    BY DEF RefreshesOf
  <2> QED
    BY <1>2, <1>3, <2>1, <2>2, <2>3 DEF Budget, RefreshesOf
<1>5. Budget(j, j.rate) \in Int /\ Budget(j, adapter.waits) \in Int
  BY <1>3 DEF Budget, RefreshesOf, Jobs
<1>6. Paid(r)
  BY <1>2, <1>3, <1>4, <1>5 DEF Paid
<1> QED
  BY <1>2, <1>6 DEF r

\* What each way back into the loop charges the next attempt to.
LEMMA ChargedJob ==
  ASSUME RetryInv, NEW j \in Jobs, Paid(j)
  PROVE  /\ j.at = "refresh" => LET k == [j EXCEPT !.refreshed = TRUE] IN
              k \in Jobs /\ k.rate <= adapter.waits /\ k.i + 1 <= Budget(k, k.rate)
         /\ j.at = "rateSleep" => LET k == [j EXCEPT !.rate = @ + 1] IN
              k \in Jobs /\ k.rate <= adapter.waits /\ k.i + 1 <= Budget(k, k.rate)
         /\ j.at = "ambiguousSleep" => LET k == [j EXCEPT !.ambiguous = @ + 1] IN
              k \in Jobs /\ k.rate <= adapter.waits /\ k.i + 1 <= Budget(k, k.rate)
         /\ j.at = "genericSleep" => LET k == [j EXCEPT !.generic = @ + 1] IN
              k \in Jobs /\ k.rate <= adapter.waits /\ k.i + 1 <= Budget(k, k.rate)
<1>1. adapter.waits \in Nat
  BY TypeParts DEF RetryInv
<1>2. /\ j.i \in Nat /\ j.rate \in Nat /\ j.ambiguous \in Nat /\ j.generic \in Nat
      /\ j.refreshed \in BOOLEAN
  BY DEF Jobs
<1>3. \A m, n \in Nat : (adapter.waits + 1) * (m + n) \in Nat
  BY <1>1
<1>4. \A m, n \in Nat :
        /\ (adapter.waits + 1) * ((m + 1) + n) = (adapter.waits + 1) * (m + n) + adapter.waits + 1
        /\ (adapter.waits + 1) * (m + (n + 1)) = (adapter.waits + 1) * (m + n) + adapter.waits + 1
  BY <1>1
<1>5. ASSUME j.at = "refresh"
      PROVE  LET k == [j EXCEPT !.refreshed = TRUE] IN
             k \in Jobs /\ k.rate <= adapter.waits /\ k.i + 1 <= Budget(k, k.rate)
  <2> DEFINE k == [j EXCEPT !.refreshed = TRUE]
  <2>1. /\ k \in Jobs /\ k.i = j.i /\ k.rate = j.rate /\ k.refreshed = TRUE
        /\ k.ambiguous = j.ambiguous /\ k.generic = j.generic
    BY Zenon DEF Jobs
  <2> HIDE DEF k
  <2>2. k.rate <= adapter.waits /\ k.i + 1 <= Budget(k, k.rate)
    BY <1>1, <1>2, <1>3, <1>5, <2>1 DEF Paid, Budget, RefreshesOf
  <2> QED
    BY <2>1, <2>2 DEF k
<1>6. ASSUME j.at = "rateSleep"
      PROVE  LET k == [j EXCEPT !.rate = @ + 1] IN
             k \in Jobs /\ k.rate <= adapter.waits /\ k.i + 1 <= Budget(k, k.rate)
  <2> DEFINE n == j.rate + 1
             k == [j EXCEPT !.rate = n]
  <2>1. n \in Nat
    BY <1>2
  <2> HIDE DEF n
  <2>2. /\ k \in Jobs /\ k.i = j.i /\ k.rate = n /\ k.refreshed = j.refreshed
        /\ k.ambiguous = j.ambiguous /\ k.generic = j.generic
    BY <2>1, Zenon DEF Jobs
  <2> HIDE DEF k
  <2>3. k.rate <= adapter.waits /\ k.i + 1 <= Budget(k, k.rate)
    BY <1>1, <1>2, <1>3, <1>6, <2>2 DEF Paid, Budget, RefreshesOf, n
  <2> QED
    BY <2>2, <2>3 DEF k, n
<1>7. ASSUME j.at = "ambiguousSleep"
      PROVE  LET k == [j EXCEPT !.ambiguous = @ + 1] IN
             k \in Jobs /\ k.rate <= adapter.waits /\ k.i + 1 <= Budget(k, k.rate)
  <2> DEFINE n == j.ambiguous + 1
             k == [j EXCEPT !.ambiguous = n]
  <2>1. n \in Nat
    BY <1>2
  <2> HIDE DEF n
  <2>2. /\ k \in Jobs /\ k.i = j.i /\ k.rate = j.rate /\ k.refreshed = j.refreshed
        /\ k.ambiguous = n /\ k.generic = j.generic
    BY <2>1, Zenon DEF Jobs
  <2> HIDE DEF k
  <2>3. /\ j.rate = 0 /\ k.rate <= adapter.waits
        /\ j.i <= 1 + RefreshesOf(j) + (adapter.waits + 1) * (j.ambiguous + j.generic)
                  + adapter.waits
    BY <1>1, <1>7, <2>2 DEF Paid, Budget
  <2>4. (adapter.waits + 1) * (n + j.generic)
          = (adapter.waits + 1) * (j.ambiguous + j.generic) + adapter.waits + 1
    BY <1>2, <1>4 DEF n
  <2>5. k.i + 1 <= 1 + RefreshesOf(k) + (adapter.waits + 1) * (n + j.generic) + 0
    BY <1>1, <1>2, <1>3, <2>2, <2>3, <2>4 DEF RefreshesOf
  <2> QED
    BY <2>2, <2>3, <2>5 DEF k, n, Budget
<1>8. ASSUME j.at = "genericSleep"
      PROVE  LET k == [j EXCEPT !.generic = @ + 1] IN
             k \in Jobs /\ k.rate <= adapter.waits /\ k.i + 1 <= Budget(k, k.rate)
  <2> DEFINE n == j.generic + 1
             k == [j EXCEPT !.generic = n]
  <2>1. n \in Nat
    BY <1>2
  <2> HIDE DEF n
  <2>2. /\ k \in Jobs /\ k.i = j.i /\ k.rate = j.rate /\ k.refreshed = j.refreshed
        /\ k.ambiguous = j.ambiguous /\ k.generic = n
    BY <2>1, Zenon DEF Jobs
  <2> HIDE DEF k
  <2>3. /\ j.rate = 0 /\ k.rate <= adapter.waits
        /\ j.i <= 1 + RefreshesOf(j) + (adapter.waits + 1) * (j.ambiguous + j.generic)
                  + adapter.waits
    BY <1>1, <1>8, <2>2 DEF Paid, Budget
  <2>4. (adapter.waits + 1) * (j.ambiguous + n)
          = (adapter.waits + 1) * (j.ambiguous + j.generic) + adapter.waits + 1
    BY <1>2, <1>4 DEF n
  <2>5. k.i + 1 <= 1 + RefreshesOf(k) + (adapter.waits + 1) * (j.ambiguous + n) + 0
    BY <1>1, <1>2, <1>3, <2>2, <2>3, <2>4 DEF RefreshesOf
  <2> QED
    BY <2>2, <2>3, <2>5 DEF k, n, Budget
<1> QED
  BY <1>5, <1>6, <1>7, <1>8

\* What the tracker remembers stays in bounds.
LEMMA RecordedEvidence ==
  ASSUME EvidenceOK, NEW high \in BOOLEAN
  PROVE  /\ Record(evidence, high) \in Evidences
         /\ Len(Record(evidence, high).gaps) = Least(Total(Record(evidence, high)), MaxTimestamps)
<1> DEFINE S == 0 .. BurstWindow + 1
           all == Append(evidence.gaps, 0)
           h == evidence.highWorkers + (IF high THEN 1 ELSE 0)
           l == evidence.lowWorkers + (IF high THEN 0 ELSE 1)
           g == IF Len(all) > MaxTimestamps THEN Tail(all) ELSE all
<1>1. 0 \in S /\ MaxTimestamps \in Nat \ {0}
  BY TrackerAssumption
<1>2. /\ evidence.gaps \in Seq(S) /\ evidence.highWorkers \in Nat
      /\ evidence.lowWorkers \in Nat
      /\ Len(evidence.gaps) = Least(evidence.highWorkers + evidence.lowWorkers, MaxTimestamps)
  BY DEF EvidenceOK, Evidences, Total
<1> HIDE DEF S
<1>3. all \in Seq(S) /\ Len(all) = Len(evidence.gaps) + 1 /\ Len(evidence.gaps) \in Nat
  BY <1>1, <1>2, AppendProperties
<1>4. g \in Seq(S) /\ Len(g) = Least(Len(all), MaxTimestamps)
  <2>1. CASE Len(all) > MaxTimestamps
    <3>1. all # << >> /\ Tail(all) \in Seq(S) /\ Len(Tail(all)) = Len(all) - 1
      BY <1>3, HeadTailProperties
    <3> QED
      BY <1>1, <1>2, <1>3, <2>1, <3>1 DEF Least
  <2>2. CASE ~(Len(all) > MaxTimestamps)
    BY <1>1, <1>2, <1>3, <2>2 DEF Least
  <2> QED
    BY <2>1, <2>2
<1>5. h \in Nat /\ l \in Nat /\ h + l = evidence.highWorkers + evidence.lowWorkers + 1
  BY <1>2
<1>6. Len(g) = Least(h + l, MaxTimestamps)
  <2> HIDE DEF g, all, h, l
  <2> DEFINE n == evidence.highWorkers + evidence.lowWorkers
  <2>1. n \in Nat /\ h + l = n + 1
    BY <1>2, <1>5
  <2> HIDE DEF n
  <2>2. Len(evidence.gaps) = Least(n, MaxTimestamps)
    BY <1>2 DEF n
  <2> QED
    BY <1>1, <1>3, <1>4, <2>1, <2>2 DEF Least
<1>7. Record(evidence, high) = [highWorkers |-> h, lowWorkers |-> l, gaps |-> g]
  BY DEF Record
<1> HIDE DEF h, l, g, all
<1> QED
  BY <1>4, <1>5, <1>6, <1>7 DEF Evidences, Total, S

\* And so it does when a second passes.
LEMMA PassedEvidence ==
  ASSUME EvidenceOK
  PROVE  /\ Passes(evidence) \in Evidences
         /\ Len(Passes(evidence).gaps) = Least(Total(Passes(evidence)), MaxTimestamps)
<1> DEFINE S == 0 .. BurstWindow + 1
           q == evidence.gaps
           g == [i \in DOMAIN q |-> IF i = Len(q) /\ q[i] <= BurstWindow THEN q[i] + 1 ELSE q[i]]
           e == [evidence EXCEPT !.gaps = g]
<1>1. BurstWindow \in Nat
  BY TrackerAssumption
<1>2. q \in Seq(S) /\ Len(q) \in Nat /\ DOMAIN q = 1 .. Len(q)
  BY DEF EvidenceOK, Evidences
<1>3. \A i \in 1 .. Len(q) : q[i] \in S
  <2> HIDE DEF S, q
  <2> QED
    BY <1>2, ElementOfSeq
<1>4. g \in [1 .. Len(q) -> 0 .. BurstWindow + 1]
  BY <1>1, <1>2, <1>3
<1>5. g \in Seq(0 .. BurstWindow + 1) /\ Len(g) = Len(q)
  BY <1>2, <1>4
<1>6. Passes(evidence) = e
  BY DEF Passes
<1> HIDE DEF g
<1>7. /\ e \in Evidences /\ e.gaps = g
      /\ e.highWorkers = evidence.highWorkers /\ e.lowWorkers = evidence.lowWorkers
  BY <1>5, Zenon DEF Evidences, EvidenceOK
<1> QED
  BY <1>5, <1>6, <1>7 DEF EvidenceOK, Total

\* Every step of one worker keeps the invariant.
LEMMA WorkerStep ==
  ASSUME RetryInv, NEW w \in Workers, Call(w) \/ Cancel(w) \/ InLoop(w) \/ Leave(w)
  PROVE  RetryInv'
<1> DEFINE j == job[w]
<1>1. /\ j \in Jobs /\ Paid(j) /\ Covered(j, window) /\ window \in Nat /\ EvidenceOK
      /\ streak \in 0 .. MaxStreak /\ MaxStreak \in 1 .. 6 /\ adapter.waits \in Nat
  BY RetryAssumption, TypeParts DEF RetryInv
<1>2. Advanced \in 1 .. MaxStreak /\ Backoff(Advanced) \in Nat
  BY <1>1, BackoffIsNat DEF Advanced, Least
<1>3. j.left \in Nat /\ j.after \in RetryAfters \cup {0} /\ j.i \in Nat /\ j.rate \in Nat
  BY <1>1 DEF Jobs
<1>4. CASE Call(w)
  <2>1. Again(Idle) \in Jobs /\ Paid(Again(Idle)) /\ Again(Idle).at \in {"op", "returned"}
    <3>1. /\ Idle.i = 0 /\ Idle.rate = 0 /\ Idle.refreshed = FALSE
          /\ Idle.ambiguous = 0 /\ Idle.generic = 0
      BY DEF Idle
    <3>2. Idle.rate <= adapter.waits /\ Idle.i + 1 <= Budget(Idle, Idle.rate)
      BY <1>1, <3>1 DEF Budget, RefreshesOf
    <3> QED
      BY <3>2, ReturnedJob, AgainJob
  <2> QED
    BY <1>1, <1>4, <2>1, OwnStep DEF Call
<1>5. CASE Cancel(w) \/ Succeed(w) \/ Fatal(w) \/ RefreshFails(w)
  <2>1. Set(w, Returned) /\ streak' \in 0 .. MaxStreak /\ UNCHANGED <<adapter, window, evidence>>
    BY <1>1, <1>5 DEF Cancel, Succeed, Fatal, RefreshFails
  <2> QED
    BY <2>1, ReturnedJob, OwnStep
<1>6. CASE AuthFailure(w)
  <2>1. j.at = "op" /\ ~j.refreshed
    BY <1>6 DEF AuthFailure, At
  <2> DEFINE k == [j EXCEPT !.at = "refresh"]
  <2>2. k \in Jobs /\ k.at = "refresh" /\ Alike(j, k)
    BY <1>1, <1>3, Zenon DEF Jobs, Ats, Alike
  <2>3. Set(w, k) /\ UNCHANGED <<adapter, streak, window, evidence>>
    BY <1>6 DEF AuthFailure
  <2> HIDE DEF k
  <2>4. Paid(k)
    BY <1>1, <2>1, <2>2, MovedJob
  <2> QED
    BY <1>1, <2>2, <2>3, <2>4, OwnStep
<1>7. CASE Refresh(w)
  <2> DEFINE k == [j EXCEPT !.refreshed = TRUE]
  <2>1. j.at = "refresh"
    BY <1>7 DEF Refresh, At
  <2>2. k \in Jobs /\ k.rate <= adapter.waits /\ k.i + 1 <= Budget(k, k.rate)
    BY <1>1, <2>1, ChargedJob
  <2>3. Set(w, Again(k)) /\ UNCHANGED <<adapter, streak, window, evidence>>
    BY <1>7 DEF Refresh
  <2> HIDE DEF k
  <2> QED
    BY <1>1, <2>2, <2>3, AgainJob, OwnStep
<1>8. ASSUME NEW after \in RetryAfters, Throttled(w, after)
      PROVE  RetryInv'
  <2>1. j.at = "op" /\ after \in Nat /\ UNCHANGED <<adapter, window, evidence>>
    BY <1>8, RetryAssumption DEF Throttled, At
  <2>2. ASSUME NEW t \in RetryAfters \cup {0}, NEW d \in Nat, streak' \in 0 .. MaxStreak,
               Set(w, [j EXCEPT !.at = "throttled", !.after = t, !.left = d])
        PROVE  RetryInv'
    <3> DEFINE k == [j EXCEPT !.at = "throttled", !.after = t, !.left = d]
    <3>1. k \in Jobs /\ k.at = "throttled" /\ Alike(j, k)
      BY <1>1, <2>2, Zenon DEF Jobs, Ats, Alike
    <3>2. Set(w, k)
      BY <2>2
    <3> HIDE DEF k
    <3>3. Paid(k)
      BY <1>1, <2>1, <3>1, MovedJob
    <3> QED
      BY <2>1, <2>2, <3>1, <3>2, <3>3, OwnStep
  <2>3. CASE adapter.scheduled /\ after = 0
    <3>1. /\ streak' = Advanced
          /\ Set(w, [j EXCEPT !.at = "throttled", !.after = 0, !.left = Backoff(Advanced)])
      BY <1>8, <2>3, Zenon DEF Throttled
    <3>2. streak' \in 0 .. MaxStreak /\ 0 \in RetryAfters \cup {0}
      BY <1>1, <1>2, <3>1
    <3> QED
      BY <1>2, <2>2, <3>1, <3>2, Zenon
  <2>4. CASE ~(adapter.scheduled /\ after = 0)
    BY <1>1, <1>8, <2>1, <2>2, <2>4 DEF Throttled
  <2> QED
    BY <2>3, <2>4
<1>9. CASE Wait(w)
  <2> DEFINE sleep == Least(j.left, MaxRateLimitSleep)
             k == [j EXCEPT !.at = "rateSleep", !.left = sleep]
  <2>1. sleep \in Nat
    BY <1>3, RetryAssumption DEF Least
  <2>2. /\ j.at = "throttled" /\ j.rate < adapter.waits /\ window' = Most(window, sleep)
        /\ Set(w, k) /\ UNCHANGED <<adapter, streak, evidence>>
    BY <1>9 DEF Wait, At, RecordSignal
  <2> HIDE DEF sleep
  <2>3. k \in Jobs /\ k.at = "rateSleep" /\ k.left = sleep /\ Alike(j, k)
    BY <1>1, <2>1, Zenon DEF Jobs, Ats, Alike
  <2> HIDE DEF k
  <2>5. Paid(k)
    BY <1>1, <2>2, <2>3, MovedJob
  <2>4. window' \in Nat /\ window' >= window /\ window' >= sleep
    BY <1>1, <2>1, <2>2 DEF Most
  <2> QED
    BY <1>1, <2>2, <2>3, <2>4, <2>5, SetStep DEF Covered, EvidenceOK, Total
<1>10. CASE Exhaust(w)
  <2>1. j.at = "throttled" /\ UNCHANGED <<adapter, window, evidence>>
    BY <1>10 DEF Exhaust, At
  <2>4. CASE ~adapter.scheduled
    BY <1>1, <1>10, <2>1, <2>4, ReturnedJob, OwnStep DEF Exhaust
  <2>5. CASE adapter.scheduled /\ j.after = 0
    <3> DEFINE k == [j EXCEPT !.at = "exhausted", !.left = Backoff(Advanced)]
    <3>1. Set(w, k) /\ streak' = Advanced
      BY <1>10, <2>5 DEF Exhaust
    <3>2. k \in Jobs /\ k.at = "exhausted" /\ Alike(j, k)
      BY <1>1, <1>2, Zenon DEF Jobs, Ats, Alike
    <3> HIDE DEF k
    <3>3. Paid(k)
      BY <1>1, <2>1, <3>2, MovedJob
    <3> QED
      BY <1>1, <1>2, <2>1, <3>1, <3>2, <3>3, OwnStep
  <2>6. CASE adapter.scheduled /\ j.after # 0
    <3> DEFINE k == [j EXCEPT !.at = "exhausted"]
    <3>1. Set(w, k) /\ streak' = streak
      BY <1>10, <2>6 DEF Exhaust
    <3>2. k \in Jobs /\ k.at = "exhausted" /\ Alike(j, k)
      BY <1>1, Zenon DEF Jobs, Ats, Alike
    <3> HIDE DEF k
    <3>3. Paid(k)
      BY <1>1, <2>1, <3>2, MovedJob
    <3> QED
      BY <1>1, <2>1, <3>1, <3>2, <3>3, OwnStep
  <2> QED
    BY <2>4, <2>5, <2>6
<1>11. CASE Report(w)
  <2> DEFINE k == [Idle EXCEPT !.at = "limited", !.left = j.left]
  <2>1. window' = Most(window, j.left) /\ Set(w, k) /\ UNCHANGED <<adapter, streak, evidence>>
    BY <1>11 DEF Report, RecordSignal
  <2>2. k \in Jobs /\ Paid(k)
    BY <1>3, ReturnedJob
  <2>3. k.at = "limited" /\ k.left = j.left
    BY Zenon DEF Idle
  <2>4. window' \in Nat /\ window' >= window /\ window' >= j.left
    BY <1>1, <1>3, <2>1 DEF Most
  <2> HIDE DEF k
  <2> QED
    BY <1>1, <2>1, <2>2, <2>3, <2>4, SetStep DEF Covered, EvidenceOK, Total
<1>12. ASSUME NEW high \in BOOLEAN, Ambiguous(w, high)
       PROVE  RetryInv'
  <2>1. j.at = "op" /\ UNCHANGED <<adapter, streak>>
    BY <1>12 DEF Ambiguous, At
  <2>2. CASE j.ambiguous >= MaxAmbiguousRetries
    BY <1>1, <1>12, <2>1, <2>2, ReturnedJob, OwnStep DEF Ambiguous
  <2>3. CASE ~(j.ambiguous >= MaxAmbiguousRetries)
    <3> DEFINE d == IF SuspectedThrottle(evidence') THEN 1 ELSE 0
               k == [j EXCEPT !.at = "ambiguousSleep", !.rate = 0, !.left = d]
    <3>1. /\ evidence' = Record(evidence, high) /\ Set(w, k)
          /\ window' = IF SuspectedThrottle(evidence') THEN Most(window, 1) ELSE window
      BY <1>12, <2>3 DEF Ambiguous, RecordSignal
    <3>2. EvidenceOK'
      BY <1>1, <3>1, RecordedEvidence DEF EvidenceOK, Total
    <3>3. window' \in Nat /\ window' >= window /\ window' >= d /\ d \in Nat
      BY <1>1, <3>1 DEF Most
    <3> HIDE DEF d
    <3>4. k \in Jobs /\ Paid(k) /\ k.left = d
      BY <1>1, <2>1, <3>3, SleepJob
    <3> HIDE DEF k
    <3> QED
      BY <1>1, <2>1, <3>1, <3>2, <3>3, <3>4, SetStep DEF Covered
  <2> QED
    BY <2>2, <2>3
<1>13. CASE Generic(w)
  <2> DEFINE k == [j EXCEPT !.at = "genericSleep", !.rate = 0, !.left = 0]
  <2>1. j.at = "op" /\ UNCHANGED <<adapter, streak, window, evidence>>
    BY <1>13 DEF Generic, At
  <2>2. k \in Jobs /\ Paid(k) /\ k.at = "genericSleep"
    BY <1>1, <2>1, SleepJob
  <2>3. CASE j.generic >= MaxGenericRetries
    BY <1>1, <1>13, <2>1, <2>3, ReturnedJob, OwnStep DEF Generic
  <2>4. CASE ~(j.generic >= MaxGenericRetries)
    <3>1. Set(w, k)
      BY <1>13, <2>4 DEF Generic
    <3> HIDE DEF k
    <3> QED
      BY <1>1, <2>1, <2>2, <3>1, OwnStep
  <2> QED
    BY <2>3, <2>4
<1>14. CASE Wake(w)
  <2>1. PICK k \in {[j EXCEPT !.rate = @ + 1], [j EXCEPT !.ambiguous = @ + 1],
                    [j EXCEPT !.generic = @ + 1]} :
          /\ Set(w, Again(k)) /\ UNCHANGED <<adapter, streak, window, evidence>>
          /\ k \in Jobs /\ k.rate <= adapter.waits /\ k.i + 1 <= Budget(k, k.rate)
    BY <1>1, <1>14, ChargedJob DEF Wake, At
  <2> QED
    BY <1>1, <2>1, AgainJob, OwnStep
<1>15. CASE Leave(w)
  BY <1>1, <1>15, ReturnedJob, OwnStep DEF Leave
<1> QED
  BY <1>4, <1>5, <1>6, <1>7, <1>8, <1>9, <1>10, <1>11, <1>12, <1>13, <1>14, <1>15
  DEF InLoop, Attempt

\* A second passes for the window and for every sleep under it alike.
LEMMA TickStep ==
  ASSUME RetryInv, Tick
  PROVE  RetryInv'
<1>1. /\ adapter \in Adapters /\ streak \in 0 .. MaxStreak /\ window \in Nat /\ EvidenceOK
      /\ job \in [Workers -> Jobs]
  BY TypeParts DEF RetryInv
<1>2. /\ window' = Most(window - 1, 0) /\ evidence' = Passes(evidence)
      /\ UNCHANGED <<adapter, streak>>
  BY DEF Tick
<1>3. window' \in Nat /\ EvidenceOK'
  BY <1>1, <1>2, PassedEvidence DEF Most, EvidenceOK, Total
<1>4. ASSUME NEW w \in Workers
      PROVE  job'[w] \in Jobs /\ Paid(job[w])' /\ Covered(job[w], window)'
  <2> DEFINE j == job[w]
             d == Most(j.left - 1, 0)
             k == [j EXCEPT !.left = d]
  <2>1. /\ j \in Jobs /\ Paid(j) /\ Covered(j, window) /\ j.left \in Nat
    BY <1>1 DEF RetryInv, Jobs
  <2>2. job'[w] = IF j.at \in {"rateSleep", "ambiguousSleep", "limited"} THEN k ELSE j
    BY DEF Tick
  <2>3. d \in Nat
    BY <2>1 DEF Most
  <2>4. d >= j.left - 1 /\ (window >= j.left => window' >= d)
    BY <1>1, <1>2, <2>1 DEF Most
  <2> HIDE DEF d
  <2>5. /\ k \in Jobs /\ k.at = j.at /\ k.i = j.i /\ k.rate = j.rate /\ k.refreshed = j.refreshed
        /\ k.ambiguous = j.ambiguous /\ k.generic = j.generic /\ k.left = d
    BY <2>1, <2>3, Zenon DEF Jobs
  <2> HIDE DEF k, j
  <2>6. CASE j.at \in {"rateSleep", "ambiguousSleep", "limited"}
    BY <1>2, <2>1, <2>2, <2>4, <2>5, <2>6 DEF Paid, Budget, RefreshesOf, Covered
  <2>7. CASE j.at \notin {"rateSleep", "ambiguousSleep", "limited"}
    BY <1>2, <2>1, <2>2, <2>7 DEF Paid, Budget, RefreshesOf, Covered
  <2> QED
    BY <2>6, <2>7
<1>5. DOMAIN job' = Workers /\ job' = [w \in Workers |-> job'[w]]
  BY DEF Tick
<1>6. TypeOK'
  BY <1>1, <1>2, <1>3, <1>4, <1>5 DEF TypeOK, EvidenceOK, Evidences, Jobs
<1> QED
  BY <1>4, <1>6 DEF RetryInv

\* The invariant holds before the first call,
LEMMA InvInit == Init => RetryInv
<1> SUFFICES ASSUME Init
             PROVE  RetryInv
  OBVIOUS
<1>1. adapter \in Adapters /\ adapter.waits \in Nat
  BY RetryAssumption DEF Init
<1>2. /\ 0 \in Nat /\ 0 \in RetryAfters \cup {0} /\ FALSE \in BOOLEAN /\ "idle" \in Ats
  BY DEF Ats
<1>3. /\ Idle \in Jobs /\ Idle.at = "idle" /\ Idle.i = 0 /\ Idle.rate = 0
      /\ Idle.refreshed = FALSE /\ Idle.ambiguous = 0 /\ Idle.generic = 0
  BY <1>2, Zenon DEF Idle, Jobs
<1>4. Paid(Idle)
  BY <1>1, <1>3 DEF Paid, Budget, RefreshesOf
<1>5. EvidenceOK
  BY TrackerAssumption DEF Init, NoEvidence, EvidenceOK, Evidences, Total, Least
<1>6. \A w \in Workers : job[w] = Idle
  BY DEF Init
<1>7. TypeOK
  BY <1>1, <1>3, <1>5, RetryAssumption, TypeParts DEF Init
<1> QED
  BY <1>3, <1>4, <1>6, <1>7 DEF RetryInv, Covered

\* and in every reachable state.
LEMMA InvHolds == Spec => []RetryInv
<1>1. RetryInv /\ [Next]_vars => RetryInv'
  <2> SUFFICES ASSUME RetryInv, [Next]_vars
               PROVE  RetryInv'
    OBVIOUS
  <2>1. CASE UNCHANGED vars
    BY <2>1 DEF vars, RetryInv, TypeOK, Total, Paid, Budget, RefreshesOf, Covered
  <2> QED
    BY <2>1, WorkerStep, TickStep DEF Next
<1> QED
  BY <1>1, InvInit, PTL DEF Spec

\* Every variable keeps its type. (Not only a formality: the streak stays where the
\* backoff is defined, and the tracker never remembers more than MaxTimestamps.)
THEOREM RetryIsTyped == Spec => []TypeOK
<1>1. RetryInv => TypeOK
  BY DEF RetryInv
<1> QED
  BY <1>1, InvHolds, PTL

\* A worker that sleeps for a throttle, or was turned away by one, is covered by
\* the window all workers and the engine read (degradation.go RecordSignal), for
\* any number of workers, any Retry-Afters and any order of their reports.
THEOREM ThrottlesAreAnnounced == Spec => []ThrottleIsAnnounced
<1>1. RetryInv => ThrottleIsAnnounced
  BY DEF RetryInv, ThrottleIsAnnounced, Covered
<1> QED
  BY <1>1, InvHolds, PTL

\* The attempts of one call are bounded by its budgets alone, whatever mix of
\* errors the provider answers with (classified_retry.go
\* DoWithClassifiedRetry).
THEOREM BudgetsBoundAttempts == Spec => []AttemptsAreBudgeted
<1>1. RetryInv => AttemptsAreBudgeted
  BY DEF RetryInv, AttemptsAreBudgeted, Paid, Budget
<1> QED
  BY <1>1, InvHolds, PTL
=============================================================================
