-------------------------- MODULE TokenRefreshProofs --------------------------
(***************************************************************************)
(* What TokenRefresh keeps for any number of callers, any provider, any    *)
(* number of retries and of tokens issued: nobody presents a refresh token *)
(* that was spent, and a rotated one is kept where it will be looked for.  *)
(***************************************************************************)
EXTENDS TokenRefresh, TLAPS

Critical == {"asking", "rotate", "persist"}

\* refreshMu is one caller's, or nobody's, and there is a refresh token to put
\* away only where refresh tokens rotate.
MutexInv ==
  /\ refreshMu \in Callers \cup {NoCaller}
  /\ \A c \in Callers : job[c].at \in {"rotate", "persist"} => provider.rotates

\* Only a session that probes speaks for a team, and a call that is past its
\* probe knows the member, unless the session was closed.
MemberInv ==
  /\ team => provider.probes
  /\ \A c \in Callers :
       team /\ job[c].at \notin {"idle", "done", "failed"} /\ job[c].for = "op" => member \/ closed

\* The session and, unless the last rotation was not persisted, the database
\* have the refresh token the provider accepts.
Kept == stored = grant /\ (unsaved \/ saved = grant)

\* Where the accepted refresh token is while a refresh is going on: in the
\* session until the answer is there, then with the caller until it has put it
\* into the session.
TokenInv ==
  ~lost =>
    /\ refreshMu = NoCaller => Kept
    /\ \A c \in Callers : At(c, "asking") => Kept /\ job[c].spend = grant
    /\ \A c \in Callers : At(c, "rotate") => job[c].got = grant
    /\ \A c \in Callers : At(c, "persist") => Kept /\ job[c].got = grant

RefreshInv == TypeOK /\ MutexInv /\ MemberInv /\ TokenInv

\* The calls there can be once n tokens were issued.
Jobs(n) == [at: Ats, token: 0 .. n, for: {"op", "probe"}, why: {"client", "401"},
            spend: 0 .. n, got: 0 .. n, refreshed: BOOLEAN, named: BOOLEAN,
            retries: 0 .. MaxGenericRetries]

Over == {"idle", "done", "failed"}

\* c goes on to j, and the others stay where they are.
Moved(c, j) == j \in Jobs(issued') /\ job' = [job EXCEPT ![c] = j]

\* Jobs that name tokens below n name tokens below a larger n too.
LEMMA JobsGrow ==
  ASSUME NEW n \in Nat, NEW m \in Nat, n <= m, NEW j \in Jobs(n)
  PROVE  j \in Jobs(m)
<1>1. 0 .. n \subseteq 0 .. m
  OBVIOUS
<1> QED
  BY <1>1, Zenon DEF Jobs

\* A step that moves one caller leaves jobs, of one caller a new one.
LEMMA MovedJobs ==
  ASSUME TypeOK, issued' \in Nat, issued <= issued',
         NEW c \in Callers, NEW j, Moved(c, j)
  PROVE  /\ job' \in [Callers -> Jobs(issued')]
         /\ job'[c] = j
         /\ \A d \in Callers : d # c => job'[d] = job[d]
<1>1. job \in [Callers -> Jobs(issued)] /\ issued \in Nat
  BY TokenAssumption DEF TypeOK, Jobs
<1>2. \A d \in Callers : job[d] \in Jobs(issued')
  BY <1>1, JobsGrow
<1> QED
  BY <1>1, <1>2 DEF Moved

\* What TypeOK says of a call.
LEMMA JobFields ==
  ASSUME TypeOK, NEW c \in Callers
  PROVE  /\ job[c] \in Jobs(issued) /\ issued \in Nat
         /\ job[c].at \in Ats /\ job[c].for \in {"op", "probe"}
         /\ job[c].got \in 0 .. issued /\ job[c].spend \in 0 .. issued
         /\ job[c].retries \in 0 .. MaxGenericRetries
<1>1. job[c] \in Jobs(issued) /\ issued \in Nat
  BY TokenAssumption DEF TypeOK, Jobs
<1> QED
  BY <1>1 DEF Jobs

\* The jobs the steps of a caller build are jobs: the idle one, ...
LEMMA IdleJob == ASSUME NEW n \in Nat PROVE Idle \in Jobs(n) /\ Idle.at = "idle"
  BY TokenAssumption DEF Idle, Jobs, Ats

\* A step of a call that is not in its refresh and does not go into it.
LEMMA Aside ==
  ASSUME RefreshInv, NEW c \in Callers, NEW j, Moved(c, j),
         UNCHANGED <<provider, team, tokens, held, closed, refreshMu>>,
         cache' \in 0 .. issued, member' \in BOOLEAN, member => member',
         job[c].at \notin Critical, j.at \notin Critical,
         team /\ j.at \notin Over /\ j.for = "op" => member' \/ closed,
         team /\ j.at = "op" /\ ~j.named => closed
  PROVE  RefreshInv'
<1>1. issued' = issued /\ issued \in Nat
  BY TokenAssumption DEF RefreshInv, TypeOK, tokens
<1>2. /\ job' \in [Callers -> Jobs(issued')]
      /\ job'[c] = j
      /\ \A d \in Callers : d # c => job'[d] = job[d]
  BY <1>1, MovedJobs DEF RefreshInv
<1>3. MemberIsNamed'
  BY <1>2 DEF MemberIsNamed, At, RefreshInv, TypeOK
<1>4. \A d \in Callers : (refreshMu' = d) <=> provider' .rotates /\ job'[d].at \in Critical
  BY <1>2 DEF RefreshInv, TypeOK, Critical
<1>5. TypeOK'
  BY <1>1, <1>2, <1>3, <1>4 DEF RefreshInv, TypeOK, Jobs, Critical, tokens, held
<1>6. MutexInv'
  BY <1>2 DEF RefreshInv, MutexInv, Critical
<1>7. MemberInv'
  BY <1>2 DEF RefreshInv, MemberInv, Over
<1>8. TokenInv'
  BY <1>2 DEF RefreshInv, TokenInv, Kept, At, Critical, tokens, held
<1> QED
  BY <1>5, <1>6, <1>7, <1>8 DEF RefreshInv

\* ... the one that goes for its next attempt, ...
LEMMA AttemptedJob ==
  ASSUME NEW n \in Nat, NEW j, j.refreshed \in BOOLEAN, j.retries \in 0 .. MaxGenericRetries
  PROVE  /\ Attempted(j) \in Jobs(n)
         /\ Attempted(j).at = "client"
         /\ Attempted(j).for = IF NeedsProbe THEN "probe" ELSE "op"
<1> USE TokenAssumption
<1>1. 0 \in 0 .. n /\ "client" \in Ats
  BY DEF Ats
<1> QED
  BY <1>1, Zenon DEF Attempted, Idle, Jobs

\* ... and the one that has ended.
LEMMA OverJob ==
  ASSUME NEW n \in Nat, NEW a \in Over
  PROVE  [Idle EXCEPT !.at = a] \in Jobs(n) /\ [Idle EXCEPT !.at = a].at = a
<1> USE TokenAssumption
<1>1. 0 \in 0 .. n /\ a \in Ats /\ MaxGenericRetries \in 0 .. MaxGenericRetries
  BY DEF Ats, Over
<1> QED
  BY <1>1, Zenon DEF Idle, Jobs

\* The steps of a call outside its refresh.
LEMMA AsideSteps ==
  ASSUME RefreshInv, NEW c \in Callers,
         \/ Call(c) \/ TakeClient(c) \/ StoreToken(c) \/ Recheck(c) \/ Probe(c)
         \/ Served(c) \/ Unauthorized(c) \/ Clear(c) \/ Return(c)
  PROVE  RefreshInv'
<1> USE DEF At, Set, Goto
<1>1. TypeOK /\ MemberInv
  BY DEF RefreshInv
<1>2. /\ job[c] \in Jobs(issued) /\ issued \in Nat
      /\ job[c].at \in Ats /\ job[c].for \in {"op", "probe"}
      /\ job[c].got \in 0 .. issued /\ job[c].retries \in 0 .. MaxGenericRetries
  BY <1>1, JobFields
<1>3. /\ cache \in 0 .. issued /\ member \in BOOLEAN /\ team \in BOOLEAN
      /\ team => provider.probes
  BY <1>1 DEF TypeOK, MemberInv
<1>4. CASE Call(c)
  <2>1. Moved(c, Attempted(job[c])) /\ issued' = issued
    BY <1>2, <1>4, AttemptedJob DEF Call, Moved, Jobs, tokens
  <2>2. Attempted(job[c]).at = "client" /\ (Attempted(job[c]).for = "op" => ~NeedsProbe)
    BY <1>2, AttemptedJob DEF Jobs
  <2> QED
    BY <1>2, <1>3, <1>4, <2>1, <2>2, Aside DEF Call, Critical, NeedsProbe
<1>5. ASSUME job[c].at \in {"client", "recheck"}, cache # 0,
             Set(c, [job[c] EXCEPT !.at = job[c].for, !.token = cache, !.named = member]),
             UNCHANGED <<provider, team, tokens, held, cache, member, closed, refreshMu>>
      PROVE  RefreshInv'
  <2> DEFINE j == [job[c] EXCEPT !.at = job[c].for, !.token = cache, !.named = member]
  <2>1. j \in Jobs(issued) /\ j.at = job[c].for /\ j.for = job[c].for /\ j.named = member
    <3>1. job[c].for \in Ats
      BY <1>2 DEF Ats
    <3> QED
      BY <1>2, <1>3, <3>1, Zenon DEF Jobs
  <2>2. Moved(c, j) /\ issued' = issued
    BY <1>5, <2>1 DEF Moved, tokens
  <2> HIDE DEF j
  <2>3. team /\ job[c].for = "op" => member \/ closed
    BY <1>1, <1>5 DEF MemberInv
  <2> QED
    BY <1>2, <1>3, <1>5, <2>1, <2>2, <2>3, Aside DEF Critical
<1>6. ASSUME NEW j \in Jobs(issued), Set(c, j), j.at \in Over, job[c].at \notin Critical,
             UNCHANGED <<provider, team, tokens, held, cache, member, closed, refreshMu>>
      PROVE  RefreshInv'
  <2>1. Moved(c, j)
    BY <1>6 DEF Moved, tokens
  <2> QED
    BY <1>2, <1>3, <1>6, <2>1, Aside DEF Critical, Over
<1>7. CASE TakeClient(c)
  <2>1. CASE cache # 0
    BY <1>5, <1>7, <2>1 DEF TakeClient
  <2>2. CASE cache = 0
    <3> DEFINE j == [job[c] EXCEPT !.at = "refresh"]
    <3>1. j \in Jobs(issued) /\ j.at = "refresh" /\ j.for = job[c].for
      BY <1>2 DEF Jobs, Ats
    <3>2. Moved(c, j)
      BY <1>7, <2>2, <3>1 DEF TakeClient, Moved, tokens
    <3> HIDE DEF j
    <3>3. team /\ job[c].for = "op" => member \/ closed
      BY <1>1, <1>7 DEF MemberInv, TakeClient
    <3> QED
      BY <1>2, <1>3, <1>7, <3>1, <3>2, <3>3, Aside DEF Critical, TakeClient
  <2> QED
    BY <2>1, <2>2
<1>8. CASE StoreToken(c)
  <2>1. job[c].at = "store" /\ cache' = job[c].got /\ cache' \in 0 .. issued
    BY <1>2, <1>8 DEF StoreToken
  <2>2. CASE job[c].why = "client"
    <3> DEFINE j == [job[c] EXCEPT !.at = "recheck", !.spend = 0, !.got = 0]
    <3>1. j \in Jobs(issued) /\ j.at = "recheck" /\ j.for = job[c].for
      <4>1. "recheck" \in Ats /\ 0 \in 0 .. issued
        BY <1>2 DEF Ats
      <4> QED
        BY <1>2, <4>1, Zenon DEF Jobs
    <3>2. Moved(c, j)
      BY <1>8, <2>2, <3>1 DEF StoreToken, Moved, tokens
    <3> HIDE DEF j
    <3>3. team /\ job[c].for = "op" => member \/ closed
      BY <1>1, <2>1 DEF MemberInv
    <3> QED
      BY <1>2, <1>3, <1>8, <2>1, <3>1, <3>2, <3>3, Aside DEF Critical, StoreToken
  <2>3. CASE job[c].why # "client"
    <3> DEFINE j == [job[c] EXCEPT !.refreshed = TRUE]
    <3>1. j.refreshed \in BOOLEAN /\ j.retries \in 0 .. MaxGenericRetries
      BY <1>2 DEF Jobs
    <3>2. Set(c, Attempted(j))
      BY <1>8, <2>3, Zenon DEF StoreToken
    <3> HIDE DEF j
    <3>3. Moved(c, Attempted(j))
      <4>1. Attempted(j) \in Jobs(issued)
        BY <1>2, <3>1, AttemptedJob
      <4>2. issued' = issued
        BY <1>8 DEF StoreToken, tokens
      <4> QED
        BY <3>2, <4>1, <4>2 DEF Moved
    <3> QED
      BY <1>2, <1>3, <1>8, <2>1, <3>1, <3>3, AttemptedJob, Aside
      DEF Critical, StoreToken, NeedsProbe
  <2> QED
    BY <2>2, <2>3
<1>9. CASE Recheck(c)
  <2>1. CASE cache # 0
    BY <1>5, <1>9, <2>1 DEF Recheck
  <2>2. CASE cache = 0
    BY <1>2, <1>6, <1>9, <2>2, OverJob DEF Recheck, Fail, Over, Critical
  <2> QED
    BY <2>1, <2>2
<1>10. CASE Probe(c)
  <2> DEFINE j == [job[c] EXCEPT !.at = "client", !.for = "op", !.token = 0, !.named = FALSE]
  <2>1. j \in Jobs(issued) /\ j.at = "client" /\ j.for = "op"
    <3>1. "client" \in Ats /\ 0 \in 0 .. issued
      BY <1>2 DEF Ats
    <3> QED
      BY <1>2, <3>1, Zenon DEF Jobs
  <2>2. Moved(c, j)
    BY <1>10, <2>1, Zenon DEF Probe, Moved, tokens
  <2> HIDE DEF j
  <2>3. member' = (member \/ team)
    BY <1>10 DEF Probe
  <2> QED
    BY <1>2, <1>3, <1>10, <2>1, <2>2, <2>3, Aside DEF Critical, Probe
<1>11. CASE Served(c)
  BY <1>2, <1>6, <1>11, OverJob DEF Served, Fail, Over, Critical
<1>12. CASE Unauthorized(c)
  <2>1. CASE ~job[c].refreshed
    <3> DEFINE j == [job[c] EXCEPT !.at = "clear"]
    <3>1. j \in Jobs(issued) /\ j.at = "clear" /\ j.for = job[c].for
      BY <1>2 DEF Jobs, Ats
    <3>2. Moved(c, j)
      BY <1>12, <2>1, <3>1 DEF Unauthorized, Moved, tokens
    <3> HIDE DEF j
    <3>3. team /\ job[c].for = "op" => member \/ closed
      BY <1>1, <1>12 DEF MemberInv, Unauthorized
    <3> QED
      BY <1>2, <1>3, <1>12, <3>1, <3>2, <3>3, Aside DEF Critical, Unauthorized
  <2>2. CASE job[c].refreshed /\ job[c].retries > 0
    <3> DEFINE j == [job[c] EXCEPT !.retries = @ - 1]
    <3>1. j.refreshed \in BOOLEAN /\ j.retries \in 0 .. MaxGenericRetries
      BY <1>2, <2>2, TokenAssumption DEF Jobs
    <3>2. Set(c, Attempted(j))
      BY <1>12, <2>2 DEF Unauthorized
    <3> HIDE DEF j
    <3>3. Moved(c, Attempted(j))
      BY <1>2, <1>12, <3>1, <3>2, AttemptedJob DEF Unauthorized, Moved, tokens
    <3> QED
      BY <1>2, <1>3, <1>12, <3>1, <3>3, AttemptedJob, Aside
      DEF Critical, Unauthorized, NeedsProbe
  <2>3. CASE job[c].refreshed /\ ~(job[c].retries > 0)
    BY <1>2, <1>6, <1>12, <2>3, OverJob DEF Unauthorized, Fail, Over, Critical
  <2> QED
    BY <2>1, <2>2, <2>3
<1>13. CASE Clear(c)
  <2> DEFINE j == [job[c] EXCEPT !.at = "refresh", !.why = "401"]
  <2>1. j \in Jobs(issued) /\ j.at = "refresh" /\ j.for = job[c].for
    <3>1. "refresh" \in Ats
      BY DEF Ats
    <3> QED
      BY <1>2, <3>1, Zenon DEF Jobs
  <2>2. Moved(c, j)
    BY <1>13, <2>1, Zenon DEF Clear, Moved, tokens
  <2> HIDE DEF j
  <2>3. team /\ job[c].for = "op" => member \/ closed
    BY <1>1, <1>13 DEF MemberInv, Clear
  <2>4. cache' \in 0 .. issued
    BY <1>2, <1>13 DEF Clear
  <2> QED
    BY <1>2, <1>3, <1>13, <2>1, <2>2, <2>3, <2>4, Aside DEF Critical, Clear
<1>14. CASE Return(c)
  BY <1>2, <1>6, <1>14, IdleJob DEF Return, Over, Critical
<1> QED
  BY <1>4, <1>7, <1>8, <1>9, <1>10, <1>11, <1>12, <1>13, <1>14

\* A step of a call that is in its refresh, begins or ends it: what refreshMu
\* has to do for the types and for MemberInv.
LEMMA Inside ==
  ASSUME RefreshInv, NEW c \in Callers, NEW j, Moved(c, j),
         UNCHANGED <<provider, team, cache, member, closed>>,
         issued' \in {issued, issued + 1}, issued' <= MaxIssued,
         grant' \in 0 .. issued', live' \subseteq 1 .. issued',
         stored' \in 0 .. issued', saved' \in 0 .. issued',
         wired' \in BOOLEAN, lost' \in BOOLEAN, unsaved' \in BOOLEAN,
         j.at # "op", job[c].at \notin Over, j.at \in Over \/ j.for = job[c].for,
         provider.rotates => /\ refreshMu \in {c, NoCaller}
                             /\ refreshMu' = IF j.at \in Critical THEN c ELSE NoCaller,
         ~provider.rotates => refreshMu' = refreshMu /\ j.at \notin {"rotate", "persist"}
  PROVE  TypeOK' /\ MutexInv' /\ MemberInv'
<1>1. issued \in Nat /\ issued' \in Nat /\ issued <= issued'
  BY TokenAssumption DEF RefreshInv, TypeOK
<1>2. /\ job' \in [Callers -> Jobs(issued')]
      /\ job'[c] = j
      /\ \A d \in Callers : d # c => job'[d] = job[d]
  BY <1>1, MovedJobs DEF RefreshInv
<1>3. MemberIsNamed'
  BY <1>2 DEF MemberIsNamed, At, RefreshInv, TypeOK
<1>4. \A d \in Callers : (refreshMu' = d) <=> provider'.rotates /\ job'[d].at \in Critical
  BY <1>2, TokenAssumption DEF RefreshInv, TypeOK, Critical
<1>5. cache' \in 0 .. issued'
  BY <1>1 DEF RefreshInv, TypeOK
<1>6. TypeOK'
  <2>1. issued' \in 0 .. MaxIssued
    BY <1>1, TokenAssumption
  <2> QED
    BY <1>2, <1>3, <1>4, <1>5, <2>1 DEF RefreshInv, TypeOK, Jobs, Critical
<1>7. MutexInv'
  BY <1>2 DEF RefreshInv, MutexInv
<1>8. MemberInv'
  BY <1>2 DEF RefreshInv, MemberInv, Over
<1> QED
  BY <1>6, <1>7, <1>8

\* While c is in its refresh no other caller of a rotating session is, and what
\* TokenInv says of the others holds on as long as the tokens do.
LEMMA OthersInRefresh ==
  ASSUME RefreshInv, NEW c \in Callers, provider.rotates, refreshMu \in {c, NoCaller}
  PROVE  \A d \in Callers : d # c => job[d].at \notin Critical
  BY TokenAssumption DEF RefreshInv, TypeOK, Critical

\* The steps of a refresh.
LEMMA RefreshSteps ==
  ASSUME RefreshInv, NEW c \in Callers,
         \/ BeginRefresh(c) \/ Granted(c) \/ GrantLost(c) \/ RefreshFails(c)
         \/ Rotate(c) \/ Persist(c) \/ PersistFails(c)
  PROVE  RefreshInv'
<1> USE DEF At, Set, Goto
<1>1. TypeOK /\ MutexInv /\ MemberInv /\ TokenInv
  BY DEF RefreshInv
<1>2. /\ job[c] \in Jobs(issued) /\ issued \in Nat
      /\ job[c].at \in Ats /\ job[c].for \in {"op", "probe"}
      /\ job[c].got \in 0 .. issued /\ job[c].retries \in 0 .. MaxGenericRetries
  BY <1>1, JobFields
<1>3. /\ issued <= MaxIssued /\ grant \in 0 .. issued /\ live \subseteq 1 .. issued
      /\ stored \in 0 .. issued /\ saved \in 0 .. issued
      /\ {wired, lost, unsaved} \subseteq BOOLEAN /\ provider.rotates \in BOOLEAN
  BY <1>1, TokenAssumption DEF TypeOK
<1>4. NoCaller \notin Callers /\ MaxIssued \in Nat
  BY TokenAssumption
<1>5. refreshMu = c <=> provider.rotates /\ job[c].at \in Critical
  BY <1>1 DEF TypeOK, Critical
<1>6. ASSUME NEW j, job' = [job EXCEPT ![c] = j]
      PROVE  job'[c] = j /\ \A d \in Callers : d # c => job'[d] = job[d]
  BY <1>1, <1>6 DEF TypeOK
<1>7. ~provider.rotates => job[c].at \notin {"rotate", "persist"}
  BY <1>1 DEF MutexInv
<1>8. CASE BeginRefresh(c)
  <2> DEFINE j == [job[c] EXCEPT !.at = "asking", !.spend = stored]
  <2>1. j \in Jobs(issued) /\ j.at = "asking" /\ j.for = job[c].for /\ j.spend = stored
    <3>1. "asking" \in Ats
      BY DEF Ats
    <3> QED
      BY <1>2, <1>3, <3>1, Zenon DEF Jobs
  <2>2. Moved(c, j)
    BY <1>8, <2>1, Zenon DEF BeginRefresh, Moved, tokens
  <2>3. job' = [job EXCEPT ![c] = j]
    BY <1>8 DEF BeginRefresh
  <2> HIDE DEF j
  <2>4. /\ job[c].at = "refresh"
        /\ UNCHANGED <<provider, team, tokens, held, cache, member, closed>>
        /\ IF provider.rotates THEN refreshMu = NoCaller /\ refreshMu' = c ELSE UNCHANGED refreshMu
    BY <1>8 DEF BeginRefresh
  <2>5. TypeOK' /\ MutexInv' /\ MemberInv'
    BY <1>2, <1>3, <2>1, <2>2, <2>4, Inside DEF Critical, Over, tokens, held
  <2>6. ~lost => Kept
    BY <1>1, <1>4, <1>5, <2>4 DEF TokenInv, MutexInv, TypeOK
  <2>7. TokenInv'
    BY <1>1, <1>6, <2>1, <2>3, <2>4, <2>6 DEF TokenInv, Kept, tokens, held
  <2> QED
    BY <2>5, <2>7 DEF RefreshInv
<1>9. CASE Granted(c)
  <2> DEFINE j == [job[c] EXCEPT !.at = IF provider.rotates THEN "rotate" ELSE "store",
                                 !.got = issued + 1]
  <2>1. /\ j \in Jobs(issued + 1) /\ j.at = (IF provider.rotates THEN "rotate" ELSE "store")
        /\ j.for = job[c].for /\ j.got = issued + 1
    <3>1. {"rotate", "store"} \subseteq Ats /\ issued + 1 \in 0 .. issued + 1
      BY <1>2 DEF Ats
    <3>2. job[c] \in Jobs(issued + 1)
      BY <1>2, JobsGrow
    <3> QED
      BY <1>3, <3>1, <3>2, Zenon DEF Jobs
  <2>2. /\ job[c].at = "asking" /\ issued < MaxIssued /\ issued' = issued + 1
        /\ live' = live \cup {issued + 1}
        /\ grant' = (IF provider.rotates THEN issued + 1 ELSE grant)
        /\ UNCHANGED <<provider, team, held, cache, member, closed, refreshMu>>
    BY <1>9 DEF Granted, Issue
  <2>3. Moved(c, j) /\ job' = [job EXCEPT ![c] = j]
    BY <1>9, <2>1, <2>2, Zenon DEF Granted, Moved
  <2> HIDE DEF j
  <2>4. grant' \in 0 .. issued' /\ live' \subseteq 1 .. issued' /\ issued' <= MaxIssued
    BY <1>2, <1>3, <1>4, <2>2
  <2>5. stored' \in 0 .. issued' /\ saved' \in 0 .. issued'
    BY <1>2, <1>3, <2>2 DEF held
  <2>6. provider.rotates => refreshMu = c
    BY <1>5, <2>2 DEF Critical
  <2>7. TypeOK' /\ MutexInv' /\ MemberInv'
    BY <1>2, <1>3, <2>1, <2>2, <2>3, <2>4, <2>5, <2>6, Inside DEF Critical, Over, held
  <2>8. ASSUME provider.rotates PROVE TokenInv'
    <3>1. \A d \in Callers : d # c => job'[d].at \notin Critical
      BY <1>6, <2>3, <2>6, <2>8, OthersInRefresh
    <3> QED
      BY <1>4, <1>6, <2>1, <2>2, <2>3, <2>6, <2>8, <3>1 DEF TokenInv, Critical
  <2>9. ASSUME ~provider.rotates PROVE TokenInv'
    BY <1>1, <1>6, <2>1, <2>2, <2>3, <2>9 DEF TokenInv, Kept, held
  <2> QED
    BY <2>7, <2>8, <2>9 DEF RefreshInv
<1>10. CASE GrantLost(c)
  <2> DEFINE j == [Idle EXCEPT !.at = "failed"]
  <2>1. j \in Jobs(issued) /\ j \in Jobs(issued + 1) /\ j.at = "failed"
    BY <1>2, OverJob DEF Over
  <2> HIDE DEF j
  <2>2. /\ job[c].at = "asking" /\ issued < MaxIssued /\ issued' = issued + 1
        /\ live' = live \cup {issued + 1}
        /\ grant' = (IF provider.rotates THEN issued + 1 ELSE grant)
        /\ lost' = (lost \/ provider.rotates)
        /\ refreshMu' = (IF refreshMu = c THEN NoCaller ELSE refreshMu)
        /\ UNCHANGED <<provider, team, stored, saved, wired, unsaved, cache, member, closed>>
    BY <1>10, Zenon DEF GrantLost, Issue, Unlock
  <2>a. issued' = issued + 1 /\ live' = live \cup {issued + 1} /\ issued < MaxIssued
        /\ grant' = (IF provider.rotates THEN issued + 1 ELSE grant)
    BY <2>2
  <2>3. Moved(c, j) /\ job' = [job EXCEPT ![c] = j]
    BY <1>10, <2>1, <2>2, Zenon DEF GrantLost, Fail, Moved, j
  <2>4. grant' \in 0 .. issued' /\ live' \subseteq 1 .. issued' /\ issued' <= MaxIssued
    BY <1>2, <1>3, <1>4, <2>a
  <2>5. stored' \in 0 .. issued' /\ saved' \in 0 .. issued' /\ lost' \in BOOLEAN
    BY <1>2, <1>3, <2>2
  <2>6. provider.rotates <=> refreshMu = c
    BY <1>5, <2>2 DEF Critical
  <2>7. TypeOK' /\ MutexInv' /\ MemberInv'
    BY <1>2, <1>3, <2>1, <2>2, <2>3, <2>4, <2>5, <2>6, Inside DEF Critical, Over
  <2>8. ASSUME provider.rotates PROVE TokenInv'
    BY <2>2, <2>8 DEF TokenInv
  <2>9. ASSUME ~provider.rotates PROVE TokenInv'
    BY <1>1, <1>6, <2>1, <2>2, <2>3, <2>6, <2>9, ZenonT(60) DEF TokenInv, Kept
  <2> QED
    BY <2>7, <2>8, <2>9 DEF RefreshInv
<1>11. CASE RefreshFails(c) \/ PersistFails(c)
  <2> DEFINE j == [Idle EXCEPT !.at = "failed"]
  <2>1. j \in Jobs(issued) /\ j \in Jobs(issued + 1) /\ j.at = "failed"
    BY <1>2, OverJob DEF Over
  <2> HIDE DEF j
  <2>2. /\ job[c].at \in {"asking", "persist"}
        /\ refreshMu' = (IF refreshMu = c THEN NoCaller ELSE refreshMu)
        /\ UNCHANGED <<provider, team, tokens, held, cache, member, closed>>
    BY <1>11, Zenon DEF RefreshFails, PersistFails, Unlock
  <2>3. Moved(c, j) /\ job' = [job EXCEPT ![c] = j]
    BY <1>11, <2>1, <2>2, Zenon DEF RefreshFails, PersistFails, Fail, Moved, tokens, j
  <2>4. provider.rotates <=> refreshMu = c
    BY <1>5, <2>2 DEF Critical
  <2>5. TypeOK' /\ MutexInv' /\ MemberInv'
    BY <1>2, <1>3, <2>1, <2>2, <2>3, <2>4, Inside DEF Critical, Over, tokens, held
  <2>6. ~lost => Kept
    BY <1>1, <2>2 DEF TokenInv
  <2>7. TokenInv'
    BY <1>1, <1>6, <2>1, <2>2, <2>3, <2>6 DEF TokenInv, Kept, tokens, held
  <2> QED
    BY <2>5, <2>7 DEF RefreshInv
<1>12. CASE Rotate(c)
  <2> DEFINE j == [job[c] EXCEPT !.at = IF wired THEN "persist" ELSE "store"]
  <2>1. /\ j \in Jobs(issued) /\ j.at = (IF wired THEN "persist" ELSE "store")
        /\ j.for = job[c].for /\ j.got = job[c].got
    BY <1>2 DEF Jobs, Ats
  <2>2. /\ job[c].at = "rotate" /\ stored' = job[c].got /\ unsaved' = TRUE
        /\ refreshMu' = (IF wired THEN refreshMu ELSE IF refreshMu = c THEN NoCaller ELSE refreshMu)
        /\ UNCHANGED <<provider, team, tokens, saved, wired, lost, cache, member, closed>>
    BY <1>12 DEF Rotate, Unlock
  <2>3. Moved(c, j) /\ job' = [job EXCEPT ![c] = j]
    BY <1>12, <2>1, <2>2, Zenon DEF Rotate, Moved, tokens
  <2> HIDE DEF j
  <2>4. provider.rotates /\ refreshMu = c
    BY <1>5, <1>7, <2>2 DEF Critical
  <2>5. TypeOK' /\ MutexInv' /\ MemberInv'
    BY <1>2, <1>3, <2>1, <2>2, <2>3, <2>4, Inside DEF Critical, Over, tokens
  <2>6. \A d \in Callers : d # c => job'[d].at \notin Critical
    BY <1>6, <2>3, <2>4, OthersInRefresh
  <2>7. ~lost => Kept' /\ job[c].got = grant'
    BY <1>1, <2>2 DEF TokenInv, Kept, tokens
  <2>8. TokenInv'
    BY <1>6, <2>1, <2>2, <2>3, <2>6, <2>7 DEF TokenInv, Critical
  <2> QED
    BY <2>5, <2>8 DEF RefreshInv
<1>13. CASE Persist(c)
  <2> DEFINE j == [job[c] EXCEPT !.at = "store"]
  <2>1. j \in Jobs(issued) /\ j.at = "store" /\ j.for = job[c].for
    BY <1>2 DEF Jobs, Ats
  <2>2. /\ job[c].at = "persist" /\ saved' = job[c].got /\ unsaved' = FALSE
        /\ refreshMu' = (IF refreshMu = c THEN NoCaller ELSE refreshMu)
        /\ UNCHANGED <<provider, team, tokens, stored, wired, lost, cache, member, closed>>
    BY <1>13 DEF Persist, Unlock
  <2>3. Moved(c, j) /\ job' = [job EXCEPT ![c] = j]
    BY <1>13, <2>1, <2>2, Zenon DEF Persist, Moved, tokens
  <2> HIDE DEF j
  <2>4. provider.rotates /\ refreshMu = c
    BY <1>5, <1>7, <2>2 DEF Critical
  <2>5. TypeOK' /\ MutexInv' /\ MemberInv'
    BY <1>2, <1>3, <2>1, <2>2, <2>3, <2>4, Inside DEF Critical, Over, tokens
  <2>6. \A d \in Callers : d # c => job'[d].at \notin Critical
    BY <1>6, <2>3, <2>4, OthersInRefresh
  <2>7. ~lost => Kept'
    BY <1>1, <2>2 DEF TokenInv, Kept, tokens
  <2>8. TokenInv'
    BY <1>6, <2>1, <2>2, <2>3, <2>6, <2>7 DEF TokenInv, Critical
  <2> QED
    BY <2>5, <2>8 DEF RefreshInv
<1> QED
  BY <1>8, <1>9, <1>10, <1>11, <1>12, <1>13

\* The steps of the provider, the migration and the process.
LEMMA OutsideSteps ==
  ASSUME RefreshInv, Expire \/ Close \/ Wire \/ Export
  PROVE  RefreshInv'
<1>1. TypeOK /\ MutexInv /\ MemberInv /\ TokenInv
  BY DEF RefreshInv
<1>2. CASE Expire
  <2>1. /\ live' \subseteq live
        /\ UNCHANGED <<provider, team, issued, grant, held, cache, member, closed, refreshMu, job>>
    BY <1>2 DEF Expire
  <2> QED
    BY <1>1, <2>1
    DEF RefreshInv, TypeOK, MemberIsNamed, MutexInv, MemberInv, TokenInv, Kept, At, held
<1>3. CASE Close
  <2>1. /\ closed' = TRUE /\ cache' = 0
        /\ UNCHANGED <<provider, team, tokens, held, member, refreshMu, job>>
    BY <1>3 DEF Close
  <2>2. 0 \in 0 .. issued
    BY <1>1, TokenAssumption DEF TypeOK
  <2> QED
    BY <1>1, <2>1, <2>2
    DEF RefreshInv, TypeOK, MemberIsNamed, MutexInv, MemberInv, TokenInv, Kept, At, tokens, held
<1>4. CASE Wire
  <2>1. /\ wired' = TRUE
        /\ UNCHANGED <<provider, team, tokens, stored, saved, lost, unsaved, cache, member, closed,
                       refreshMu, job>>
    BY <1>4 DEF Wire
  <2> QED
    BY <1>1, <2>1
    DEF RefreshInv, TypeOK, MemberIsNamed, MutexInv, MemberInv, TokenInv, Kept, At, tokens
<1>5. CASE Export
  <2>1. /\ saved' = stored /\ unsaved' = FALSE
        /\ UNCHANGED <<provider, team, tokens, stored, wired, lost, cache, member, closed,
                       refreshMu, job>>
    BY <1>5 DEF Export
  <2> QED
    BY <1>1, <2>1
    DEF RefreshInv, TypeOK, MemberIsNamed, MutexInv, MemberInv, TokenInv, Kept, At, tokens
<1> QED
  BY <1>2, <1>3, <1>4, <1>5

\* All calls idle, and nobody has refreshMu.
LEMMA Fresh ==
  ASSUME NEW n \in Nat, job' = [c \in Callers |-> Idle], refreshMu' = NoCaller
  PROVE  /\ job' \in [Callers -> Jobs(n)] /\ MutexInv' /\ MemberIsNamed'
         /\ \A c \in Callers : job'[c].at = "idle" /\ refreshMu' # c
<1>1. Idle \in Jobs(n) /\ Idle.at = "idle" /\ NoCaller \notin Callers
  BY IdleJob, TokenAssumption
<1> QED
  BY <1>1 DEF MutexInv, MemberIsNamed, At

\* A restart of the process, which reads the token back from where the host saved
\* it, keeps the invariant.
LEMMA RestartStep ==
  ASSUME RefreshInv, Restart
  PROVE  RefreshInv'
<1>1. TypeOK /\ MemberInv
  BY DEF RefreshInv
<1>2. /\ stored' = saved /\ lost' = (saved # grant) /\ unsaved' = FALSE
      /\ wired' = provider.rotates /\ cache' = 0 /\ member' = FALSE /\ closed' = FALSE
      /\ UNCHANGED <<provider, team, tokens, saved>>
  BY DEF Restart
<1>3. issued \in Nat /\ 0 \in 0 .. issued /\ provider.rotates \in BOOLEAN
  BY <1>1, TokenAssumption DEF TypeOK
<1>4. /\ job' \in [Callers -> Jobs(issued)] /\ MutexInv' /\ MemberIsNamed'
      /\ \A c \in Callers : job'[c].at = "idle" /\ refreshMu' # c
  BY <1>3, Fresh DEF Restart
<1>5. TypeOK'
  BY <1>1, <1>2, <1>3, <1>4 DEF TypeOK, Jobs, tokens
<1>6. MemberInv'
  BY <1>1, <1>2, <1>4 DEF MemberInv
<1>7. TokenInv'
  BY <1>2, <1>4 DEF TokenInv, Kept, At, tokens
<1> QED
  BY <1>4, <1>5, <1>6, <1>7 DEF RefreshInv

\* Every step keeps the inductive invariant.
LEMMA InvStep ==
  ASSUME RefreshInv, [Next]_vars
  PROVE  RefreshInv'
<1>1. ASSUME NEW c \in Callers, Call(c) \/ Step(c) \/ Return(c)
      PROVE  RefreshInv'
  BY <1>1, AsideSteps, RefreshSteps DEF Step
<1>2. CASE Expire \/ Close \/ Wire \/ Export
  BY <1>2, OutsideSteps
<1>3. CASE Restart
  BY <1>3, RestartStep
<1>4. CASE UNCHANGED vars
  BY <1>4
  DEF RefreshInv, TypeOK, MemberIsNamed, MutexInv, MemberInv, TokenInv, Kept, At, vars, tokens, held
<1> QED
  BY <1>1, <1>2, <1>3, <1>4 DEF Next

\* It holds of a process that has just started,
LEMMA InvInit == Init => RefreshInv
<1> SUFFICES ASSUME Init PROVE RefreshInv
  OBVIOUS
<1>1. Idle \in Jobs(0) /\ Idle.at = "idle" /\ NoCaller \notin Callers
  BY IdleJob, TokenAssumption
<1>2. job \in [Callers -> Jobs(0)] /\ \A c \in Callers : job[c].at = "idle"
  BY <1>1 DEF Init
<1>3. /\ provider \in Providers /\ provider.rotates \in BOOLEAN /\ provider.probes \in BOOLEAN
      /\ team \in BOOLEAN /\ (team => provider.probes) /\ wired \in BOOLEAN
  BY TokenAssumption DEF Init
<1>4. TypeOK
  <2>1. issued = 0 /\ 0 \in 0 .. MaxIssued /\ grant \in 0 .. issued /\ live \subseteq 1 .. issued
        /\ {stored, saved, cache} \subseteq 0 .. issued
    BY TokenAssumption DEF Init
  <2>2. {wired, member, closed, lost, unsaved} \subseteq BOOLEAN
    BY <1>3 DEF Init
  <2>3. \A c \in Callers : refreshMu # c
    BY <1>1 DEF Init
  <2> QED
    BY <1>2, <1>3, <2>1, <2>2, <2>3 DEF TypeOK, MemberIsNamed, At, Jobs
<1>5. MutexInv /\ MemberInv
  BY <1>2, <1>3 DEF Init, MutexInv, MemberInv
<1>6. TokenInv
  BY <1>2 DEF Init, TokenInv, Kept, At
<1> QED
  BY <1>4, <1>5, <1>6 DEF RefreshInv

\* and so of every reachable state.
LEMMA InvHolds == Spec => []RefreshInv
<1>1. RefreshInv /\ [Next]_vars => RefreshInv'
  BY InvStep
<1> QED
  BY <1>1, InvInit, PTL DEF Spec

\* Every variable keeps its type, refreshMu is held exactly inside Box's
\* refreshToken, and a request that speaks for a team names a member.
THEOREM RefreshIsTyped == Spec => []TypeOK
<1>1. RefreshInv => TypeOK
  BY DEF RefreshInv
<1> QED
  BY <1>1, InvHolds, PTL

\* Nobody presents a refresh token that was already spent, however many callers
\* refresh at once.
THEOREM NoTokenIsSpentTwice == Spec => []NoSpentToken
<1>1. RefreshInv => NoSpentToken
  BY DEF RefreshInv, TokenInv, NoSpentToken
<1> QED
  BY <1>1, InvHolds, PTL

\* A rotated refresh token is kept in the session once its refresh is over, and
\* in the database unless nobody took it there.
THEOREM RotatedTokensAreKept == Spec => []RotationIsKept
<1>1. RefreshInv => RotationIsKept
  BY DEF RefreshInv, TokenInv, Kept, RotationIsKept
<1> QED
  BY <1>1, InvHolds, PTL
=============================================================================
