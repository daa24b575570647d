----------------------------- MODULE DropboxBatch -----------------------------
(***************************************************************************)
(* Batches of one Dropbox adapter: CreateFolderBatch, DeleteBatch and      *)
(* UploadFilesBatch. A batch is launched at the provider under             *)
(* writeBatchMu and polled until its job is over; a 401 refreshes the      *)
(* access token and launches again. The provider works through the entries *)
(* of a job by itself, also when nobody polls for it any more.             *)
(*                                                                         *)
(* Access tokens are numbers: token is the one the provider accepts, cache *)
(* the one in the TokenStore. What a throttled entry does to the           *)
(* degradation state is modelled in ClassifiedRetry.                       *)
(***************************************************************************)
EXTENDS Integers, Sequences, FiniteSets

CONSTANTS
  Callers,            \* goroutines that share the adapter
  NoCaller,           \* nobody holds writeBatchMu
  Paths,              \* resolved item paths; an item is its path
  Batches,            \* the sequences of items to call with
  Trees,              \* what is there to begin with
  MaxEntries,         \* dropboxBatchMaxEntries, dropboxUploadBatchMaxEntries
  MaxGenericRetries,  \* attempts after the one a refresh pays for
  MaxExpiries         \* bound: times the access token expires

ASSUME BatchAssumption ==
  /\ NoCaller \notin Callers
  /\ Trees \subseteq [Paths -> {"none", "folder", "file"}]
  /\ Batches \subseteq Seq(Paths) \ {<< >>}
  /\ MaxEntries \in Nat /\ MaxGenericRetries \in Nat /\ MaxExpiries \in Nat

Kinds == {"create", "delete", "upload"}

\* One attempt, one for the refresh and the retries.
Launches == 1 .. 2 + MaxGenericRetries

VARIABLES
  tree,         \* what is at each path
  token,        \* the access token the provider accepts
  cache,        \* the access token in the TokenStore
  jobs,         \* the provider's jobs, by caller and launch
  writeBatchMu,
  call          \* the call of each caller

vars == <<tree, token, cache, jobs, writeBatchMu, call>>

\* entries: the items launched, by index. res: the results so far.
\* given: the caller stopped waiting for it.
NoJob == [status |-> "none", entries |-> << >>, res |-> << >>, given |-> FALSE]

\* client: the token of the client in hand. step: the retry loop the call is in.
\* body: the bodies not yet closed. whole: the upload sessions that hold the
\* whole body. n: launches. out: the result of each item.
NoCall == [at |-> "idle", kind |-> "create", items |-> << >>, step |-> "finish", client |-> 0,
           refreshed |-> FALSE, retries |-> MaxGenericRetries, body |-> {}, whole |-> {},
           todo |-> {}, n |-> 0, out |-> << >>]

Init ==
  /\ tree \in Trees
  /\ token = 0 /\ cache = 0
  /\ jobs = [c \in Callers |-> [n \in Launches |-> NoJob]]
  /\ writeBatchMu = NoCaller
  /\ call = [c \in Callers |-> NoCall]
-----------------------------------------------------------------------------
At(c, a)   == call[c].at = a
Set(c, r)  == call' = [call EXCEPT ![c] = r]
Goto(c, a) == Set(c, [call[c] EXCEPT !.at = a])
Items(c)   == 1 .. Len(call[c].items)
Job(c)     == jobs[c][call[c].n]

\* The members of a set of numbers, in their order.
InOrder(S) == [j \in 1 .. Cardinality(S) |->
                 CHOOSE i \in S : Cardinality({k \in S : k < i}) = j - 1]

\* What is launched: every item, or those whose session took its whole body.
Entries(c) == InOrder({i \in Items(c) : call[c].kind # "upload" \/ i \in call[c].whole})

Call(c, k, items) ==
  /\ At(c, "idle")
  /\ LET j == [NoCall EXCEPT !.kind = k, !.items = items,
                             !.body = IF k = "upload" THEN 1 .. Len(items) ELSE {},
                             !.out = [i \in 1 .. Len(items) |-> "none"]]
     IN Set(c, IF Len(items) > MaxEntries THEN [j EXCEPT !.at = "failed"]
               ELSE [j EXCEPT !.at = IF k = "upload" THEN "client" ELSE "lock",
                              !.step = IF k = "upload" THEN "start" ELSE "finish"])
  /\ UNCHANGED <<tree, token, cache, jobs, writeBatchMu>>

\* Mutant: the bodies are forgotten when the batch is turned away early.
RejectKeepsBodies(c) ==
  /\ At(c, "client")
  /\ Goto(c, "failed")
  /\ UNCHANGED <<tree, token, cache, jobs, writeBatchMu>>

\* An item that cannot be placed, or no client: every body is closed.
Reject(c) ==
  /\ At(c, "client")
  /\ Set(c, [call[c] EXCEPT !.at = "failed", !.body = {}])
  /\ UNCHANGED <<tree, token, cache, jobs, writeBatchMu>>

\* UploadFilesBatch takes its client once, for everything that follows.
TakeClient(c) ==
  /\ At(c, "client")
  /\ Set(c, [call[c] EXCEPT !.at = "start", !.client = cache])
  /\ UNCHANGED <<tree, token, cache, jobs, writeBatchMu>>

\* start_batch opens one upload session per item.
StartBatch(c) ==
  /\ At(c, "start") /\ call[c].client = token
  /\ Set(c, [call[c] EXCEPT !.at = "append", !.todo = Items(c), !.refreshed = FALSE,
                            !.retries = MaxGenericRetries, !.step = "finish"])
  /\ UNCHANGED <<tree, token, cache, jobs, writeBatchMu>>

\* One of the concurrent appends ends; its body is closed whatever happened.
AppendBody(c, i) ==
  /\ At(c, "append") /\ i \in call[c].todo
  /\ \E ok \in (IF call[c].client = token THEN BOOLEAN ELSE {FALSE}) :
       Set(c, [call[c] EXCEPT !.todo = @ \ {i}, !.body = @ \ {i},
                              !.whole = IF ok THEN @ \cup {i} ELSE @,
                              !.out[i] = IF ok THEN @ ELSE "error"])
  /\ UNCHANGED <<tree, token, cache, jobs, writeBatchMu>>

\* wg.Wait: with nothing to finish the call is over.
Collect(c) ==
  /\ At(c, "append") /\ call[c].todo = {}
  /\ Goto(c, IF call[c].whole = {} THEN "done" ELSE "lock")
  /\ UNCHANGED <<tree, token, cache, jobs, writeBatchMu>>

\* writeBatchMu is held for the launch and all its polls. A client for
\* create_folder_batch and delete_batch is made under it, on every attempt.
Lock(c) ==
  /\ At(c, "lock") /\ writeBatchMu = NoCaller
  /\ writeBatchMu' = c
  /\ Set(c, [call[c] EXCEPT !.at = "launch",
                            !.client = IF call[c].kind = "upload" THEN @ ELSE cache])
  /\ UNCHANGED <<tree, token, cache, jobs>>

\* Mutant: the mutex guards the launch and not the polls.
LaunchUnlocks(c) ==
  /\ At(c, "launch") /\ call[c].client = token
  /\ jobs' = [jobs EXCEPT ![c][call[c].n + 1] =
                [NoJob EXCEPT !.status = "running", !.entries = Entries(c)]]
  /\ Set(c, [call[c] EXCEPT !.at = "poll", !.n = @ + 1])
  /\ writeBatchMu' = NoCaller
  /\ UNCHANGED <<tree, token, cache>>

\* The job is the provider's from here on, whether or not its id arrives.
Launch(c) ==
  /\ At(c, "launch") /\ call[c].client = token
  /\ jobs' = [jobs EXCEPT ![c][call[c].n + 1] =
                [NoJob EXCEPT !.status = "running", !.entries = Entries(c)]]
  /\ Set(c, [call[c] EXCEPT !.at = "poll", !.n = @ + 1])
  /\ UNCHANGED <<tree, token, cache, writeBatchMu>>

\* Mutant: the results are taken in the order of the items.
ReportUnmapped(c) ==
  /\ At(c, "poll") /\ call[c].client = token /\ Job(c).status = "complete"
  /\ Set(c, [call[c] EXCEPT !.at = "done",
                            !.out = [i \in Items(c) |-> IF i <= Len(Job(c).res) THEN Job(c).res[i]
                                                        ELSE call[c].out[i]]])
  /\ writeBatchMu' = NoCaller
  /\ UNCHANGED <<tree, token, cache, jobs>>

\* "complete": entry j is the result of item finishIdx[j]; lock contention
\* becomes a throttle, every other failure an error of that item.
Report(c) ==
  /\ At(c, "poll") /\ call[c].client = token /\ Job(c).status = "complete"
  /\ Set(c, [call[c] EXCEPT !.at = "done",
               !.out = [i \in Items(c) |->
                          IF \E j \in DOMAIN Job(c).res : Job(c).entries[j] = i
                          THEN Job(c).res[CHOOSE j \in DOMAIN Job(c).res : Job(c).entries[j] = i]
                          ELSE call[c].out[i]]])
  /\ writeBatchMu' = NoCaller
  /\ UNCHANGED <<tree, token, cache, jobs>>

GiveUp(c) == IF call[c].n = 0 THEN UNCHANGED jobs
             ELSE jobs' = [jobs EXCEPT ![c][call[c].n].given = TRUE]

Unlock(c) == writeBatchMu' = IF writeBatchMu = c THEN NoCaller ELSE writeBatchMu

\* Mutant: the call ends under the mutex.
FailLocked(c) ==
  /\ call[c].at \in {"start", "launch", "poll"}
  /\ Set(c, [call[c] EXCEPT !.at = "failed", !.body = {}])
  /\ GiveUp(c)
  /\ UNCHANGED <<tree, token, cache, writeBatchMu>>

\* The request fails, is throttled or cancelled, the answer makes no sense, the
\* job failed or its ten minutes are over: the call fails as a whole.
Fail(c) ==
  /\ call[c].at \in {"start", "launch", "poll"}
  /\ Set(c, [call[c] EXCEPT !.at = "failed", !.body = {}])
  /\ GiveUp(c) /\ Unlock(c)
  /\ UNCHANGED <<tree, token, cache>>

\* 401: one refresh, then a few plain retries; each is a launch of its own.
Unauthorized(c) ==
  /\ call[c].at \in {"start", "launch", "poll"} /\ call[c].client # token
  /\ IF ~call[c].refreshed
     THEN /\ Set(c, [call[c] EXCEPT !.at = "refresh", !.refreshed = TRUE])
     ELSE /\ call[c].retries > 0
          /\ Set(c, [call[c] EXCEPT !.at = IF call[c].step = "start" THEN "start" ELSE "lock",
                                    !.retries = @ - 1])
  /\ GiveUp(c) /\ Unlock(c)
  /\ UNCHANGED <<tree, token, cache>>

Refresh(c) ==
  /\ At(c, "refresh")
  /\ cache' = token
  /\ Goto(c, IF call[c].step = "start" THEN "start" ELSE "lock")
  /\ UNCHANGED <<tree, token, jobs, writeBatchMu>>

RefreshFails(c) ==
  /\ At(c, "refresh")
  /\ Set(c, [call[c] EXCEPT !.at = "failed", !.body = {}])
  /\ UNCHANGED <<tree, token, cache, jobs, writeBatchMu>>
-----------------------------------------------------------------------------
Applied(c, i) ==
  \E n \in Launches : \E j \in DOMAIN jobs[c][n].res :
    jobs[c][n].entries[j] = i /\ jobs[c][n].res[j] = "ok"

\* What the provider makes of an entry: autorename is off, an upload overwrites
\* files, and a session is finished once.
Outcome(c, i) ==
  LET p == call[c].items[i] IN
  CASE call[c].kind = "create" -> IF tree[p] = "none" THEN "ok" ELSE "error"
    [] call[c].kind = "delete" -> IF tree[p] = "none" THEN "error" ELSE "ok"
    [] OTHER -> IF tree[p] = "folder" \/ Applied(c, i) THEN "error" ELSE "ok"

Becomes(c) == [create |-> "folder", delete |-> "none", upload |-> "file"][call[c].kind]

JobStep(c, n) ==
  LET job == jobs[c][n]  i == job.entries[Len(job.res) + 1] IN
  /\ job.status = "running"
  /\ \E r \in {Outcome(c, i), "throttled"} :
       /\ tree' = IF r = "ok" THEN [tree EXCEPT ![call[c].items[i]] = Becomes(c)] ELSE tree
       /\ jobs' = [jobs EXCEPT ![c][n].res = Append(@, r),
                               ![c][n].status = IF Len(job.res) + 1 = Len(job.entries)
                                                THEN "complete" ELSE "running"]
  /\ UNCHANGED <<token, cache, writeBatchMu, call>>

JobFails(c, n) ==
  /\ jobs[c][n].status = "running"
  /\ jobs' = [jobs EXCEPT ![c][n].status = "failed"]
  /\ UNCHANGED <<tree, token, cache, writeBatchMu, call>>

Expire ==
  /\ token < MaxExpiries
  /\ token' = token + 1
  /\ UNCHANGED <<tree, cache, jobs, writeBatchMu, call>>

Step(c) ==
  \/ Reject(c) \/ TakeClient(c) \/ StartBatch(c) \/ \E i \in Items(c) : AppendBody(c, i)
  \/ Collect(c) \/ Launch(c) \/ Report(c) \/ Fail(c) \/ Unauthorized(c) \/ Refresh(c)
  \/ RefreshFails(c)

Next ==
  \/ \E c \in Callers : \/ \E k \in Kinds, b \in Batches : Call(c, k, b)
                        \/ Step(c) \/ Lock(c)
                        \/ \E n \in Launches : JobStep(c, n) \/ JobFails(c, n)
  \/ Expire

Spec == Init /\ [][Next]_vars

\* A goroutine that can go on does and gets the mutex in the end; a request is
\* answered or the watchdog cancels its context. Nothing is asked of the jobs.
FairSpec == Spec /\ \A c \in Callers : WF_vars(Step(c)) /\ SF_vars(Lock(c))
-----------------------------------------------------------------------------
Over(c) == call[c].at \in {"done", "failed"}

Results == {"ok", "error", "throttled"}

\* The bodies are closed when the call returns, except those of a batch that is
\* too long.
BodiesAreClosed ==
  \A c \in Callers : Over(c) /\ Len(call[c].items) <= MaxEntries => call[c].body = {}

\* Every variable keeps its type, the mutex is held exactly from a launch to
\* the end of its polls, and results are positional; and BodiesAreClosed.
TypeOK ==
  /\ tree \in [Paths -> {"none", "folder", "file"}]
  /\ token \in 0 .. MaxExpiries /\ cache \in 0 .. token
  /\ \A c \in Callers :
       /\ call[c].kind \in Kinds /\ call[c].client \in 0 .. token
       /\ call[c].retries \in 0 .. MaxGenericRetries
       /\ call[c].n \in {0} \cup Launches
       /\ call[c].body \cup call[c].todo \cup call[c].whole \subseteq Items(c)
       /\ call[c].out \in [Items(c) -> Results \cup {"none"}]
       /\ (writeBatchMu = c) <=> call[c].at \in {"launch", "poll"}
       /\ \A n \in Launches : jobs[c][n].status # "none" <=> n <= call[c].n
  /\ BodiesAreClosed

\* What a call reports as done was done, by itself, to that very item: also when
\* some sessions never took their body and the finished entries are fewer.
SuccessIsApplied ==
  \A c \in Callers : Over(c) => \A i \in Items(c) : call[c].out[i] = "ok" => Applied(c, i)

\* What a call reports as not done was not done by it, unless it launched twice
\* because a poll was turned away: then the second job meets what the first did.
ErrorIsHonest ==
  \A c \in Callers : At(c, "done") /\ call[c].n = 1 =>
    \A i \in Items(c) : call[c].out[i] # "ok" => ~Applied(c, i)

\* So what a batch reports of an item is what became of it.
ReportIsTrue == SuccessIsApplied /\ ErrorIsHonest

\* Two jobs run at once only if all but one were given up by their callers: the
\* mutex cannot wait for a job nobody polls for.
OverlapIsGivenUp ==
  \A a, b \in Callers \X Launches :
    /\ a # b
    /\ jobs[a[1]][a[2]].status = "running" /\ jobs[b[1]][b[2]].status = "running"
    => jobs[a[1]][a[2]].given \/ jobs[b[1]][b[2]].given

\* pkg/fs/dropbox/batch.go says "Bodies are closed by this method"; of any batch.
AllBodiesAreClosed == \A c \in Callers : Over(c) => call[c].body = {}

\* pkg/fs/dropbox/adapter.go says "writeBatchMu serializes mutating batch RPCs".
OneBatchAtATime ==
  Cardinality({a \in Callers \X Launches : jobs[a[1]][a[2]].status = "running"}) <= 1

\* Every call returns, however long its jobs run and whoever holds the mutex.
CallReturns == \A c \in Callers : ~At(c, "idle") ~> Over(c)
=============================================================================
