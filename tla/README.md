# Sylos-FS in TLA+

A verification development for Sylos-FS, the Go library that gives a migration
engine one interface over local disks, SFTP, Spectra and five cloud providers.
It consists of TLA+ modules translated from the code under `src/pkg`, TLC
configurations that check them on small instances, and TLAPS proofs of the
theorems that matter most for every instance. `PROJECT.json` maps every
definition to the source lines it stands for and lists runs, hazards, findings
and theorems in machine-readable form.

All line numbers below refer to files under `src/`.

## 1. The system

A program creates one `ServiceManager` (`pkg/fs/manager.go`). It registers
*connections* (a Spectra configuration, or a credential of a cloud provider)
under string ids, acquires *adapters* on them together with a *release
function*, and calls `ListChildren`, `OpenRead`, `OpenWrite`, `CreateFolder`,
`Rename`, `Delete` and batch variants on the adapter. Many goroutines of the
migration engine do this at once, against providers that throttle, time out,
expire tokens and lose answers.

### Components

| Component | State it keeps | Operations | What makes it correct | Modelled |
|---|---|---|---|---|
| Connection pool (`fs/manager.go`, `fs/manager_cloud.go`) | `connections` map: id to session, type and reference count, under `mu` | register (named, generated id, replace-or-register), acquire, release, revoke, browse without a reference | a session in the map is open; a session is closed by one caller only; the count is the number of users; the last user closes; nothing leaks | `ConnectionPool` |
| Access token store (`cloud/token_store.go`) | one cached access token per connection id, process wide | set, get, clear | a connection uses a token of its own account | `ConnectionPool` (whose it is), `TokenRefresh` (its use) |
| Provider sessions (`fs/*/session.go`) | refresh token, selected team member, closed flag, `refreshMu` | client factory, `RefreshAccessToken`, `SetCredentialsPersist`, `ExportStoredCredentials`, `Close` | no single-use token is spent twice; a rotated refresh token is never lost | `TokenRefresh` |
| Graph upload writer, OneDrive and SharePoint (`fs/msgraph`) | buffer, offset, upload session URL | `Write`, `Close`, `Suspend`, resume from a token | the file appears whole or not at all; `Close` without error means it is there | `GraphUpload`, `AtomicUpload` |
| Pipe upload writers, Dropbox, Box and Google Drive (`fs/*/transfer.go`) | an `io.Pipe`, an upload goroutine, `closed`, `done` | `Write`, `Close`, the goroutine's session or multipart upload | the same, and nobody waits for ever for the goroutine | `PipeUpload` |
| ctxstream (`fs/ctxstream`) | goroutines left behind by a read or write whose deadline passed | timed `Read`, `Write`, `Close` | bounded waits; abandoned goroutines end or do no harm | around pipes in `PipeUpload`, around files in `Files` |
| Classified retry (`credentials/classified_retry.go`) | loop counters per error bucket | `DoWithClassifiedRetry` with refresh, throttle waits, ambiguous and generic retries | attempts are bounded for every order of errors; a throttle is announced | `ClassifiedRetry` |
| Degradation state (`types/degradation.go`) | rate limit window, throttle streak, shared by all workers of a backend | record signal, clear, schedule backoff | the window is never shortened | `ClassifiedRetry` |
| Ambiguous tracker (`types/ambiguous_tracker.go`) | counts and timestamps of recent ambiguous errors | record, suspect a hidden throttle | only bursts under load are taken for throttling | `AmbiguousTracker`, inside `ClassifiedRetry` |
| Pagination (`fs/manager.go`) | none: offset and limit come with each call | `applyPagination` | a walk page by page sees every entry once | `Page`, `Listing` |
| Listings (`ListChildren` of every adapter) | none between calls | read in requests or batches, sort out, cut a page | what a walk misses or repeats is only what a change can cause | `Listing` |
| Dropbox batches (`fs/dropbox/batch.go`) | `writeBatchMu`, job ids being polled, upload sessions, open bodies | create, delete and upload in batches | what is reported of an item is what became of it; two batches do not run at once | `DropboxBatch` |
| Browse and roots (`cloud/browse.go`, `cloud/roots.go`), cloud adapters | an adapter's root: namespace, drive, folder | list roots, list a folder by id, acquire an adapter, list, create, rename, delete | a reference addresses one folder, the same for browsing, listing and creating | `CloudFolders` |
| Local file system, SFTP (`fs/local`, `fs/sftp`) | open files; one SSH connection | create, open, write, resume, rename, recursive delete | a resumed copy is whole; success is real; failure has a cause | `Files` |
| Mutations (`fs/manager_mutations.go`) | none | create, rename, delete many nodes | one failure stays with its entry | `CloudFolders`, `Files`, partly |
| Spectra adapter | an SDK instance | node operations | | creation from a session only |
| Google Drive long-running downloads, storage info, credentials, path policy, drive discovery | none or files | one request each; cryptography; string functions; OS queries | | no |

### How they interact

- A caller enters the manager, which holds `mu` for each map operation and
  releases it before it opens or closes a session, makes an adapter or calls a
  provider. Everything between two critical sections is open to other callers.
- Sessions made from the same connection id share the process-wide token store
  by that id, so a successor and its predecessor meet there although neither
  knows the other.
- Every adapter call runs in the classified retry loop; the loop asks the
  session to refresh, reports throttles to the backend's degradation state,
  reads backoffs from it, and asks the ambiguous tracker what to make of errors
  that might be throttling. Each attempt takes its client from the session
  anew, except in `UploadFilesBatch`.
- An upload writer sits between the engine's copy loop and the provider. Graph
  uploads are synchronous: `Write` sends fragments. The others hand bytes to a
  goroutine through a pipe whose two ends are wrapped by ctxstream.
- An engine that stops may suspend a Graph upload and resume it from a
  persisted token in another process, or resume a local file from an offset.
- The browser of the engine's UI lists roots and folders with one adapter per
  listing and remembers ids; the migration later opens an adapter on the folder
  that was chosen, and addresses everything below by what listings returned.
- A Dropbox batch is launched at the provider and polled. From the launch on it
  is the provider's, whether or not anybody polls.

### What is hard

- *Concurrency*: check-then-act across two critical sections of `mu` (generated
  ids, lookup then increment), closes outside the lock, a token looked up,
  refreshed and looked up again, reads and writes left behind by a deadline,
  workers that report throttles in any order, recursive deletes under writers.
- *Failure*: an adapter that cannot be made after its reference was counted, a
  fragment request that fails after its bytes left the buffer, a source that
  stops half way, a crash between a token's rotation and its persisting, a
  retried body that is half consumed, bodies of a batch that never arrive.
- *Unreliable delivery*: a request that timed out and is delivered later,
  before or after its retry; a lost answer to the request that committed,
  created or deleted; a relaunched batch that meets what its first launch did.
- *Addressing*: aliases, namespace ids, drive ids and item ids mean different
  things to different providers, operations and roots.
- *Numeric edges*: page boundaries at the last folder, sources that are empty
  or end on a fragment boundary, interacting retry budgets.

`PROJECT.json` has the full list of hazards, each at its line.

## 2. Modules

| Module | Models | Extends or instantiates |
|---|---|---|
| `SessionLease` | what the pool promises: publish, take a lease, return it | |
| `ConnectionPool` | the pool, its sessions and the token store | refines `SessionLease` |
| `ConnectionPoolProofs` | theorems about the pool's sessions and counts, and the refinement of `SessionLease` | `ConnectionPool`, `TLAPS` |
| `TokenRefresh` | one session's refresh token, access tokens and clients | |
| `AtomicUpload` | what an upload writer promises | |
| `GraphUpload` | the Graph writer, the network, the provider's upload session | refines `AtomicUpload` |
| `PipeUpload` | pipe writers, upload goroutine, ctxstream, retries | |
| `AmbiguousTracker` | the evidence for hidden throttling and the decision on it | |
| `ClassifiedRetry` | retry loop and degradation state of one backend | `AmbiguousTracker` |
| `DropboxBatch` | batches of one adapter, their jobs and the provider's tree | |
| `CloudFolders` | how five providers' adapters and the browser address folders | |
| `Files` | the local and the SFTP adapter over a shared tree | |
| `Page` | `applyPagination` as a function | |
| `Listing` | a page-wise walk of a directory read in batches, which others change | `Page` |
| `CloudFoldersProofs` | theorems about `CloudFolders`, and about the pages listings are cut into | `CloudFolders`, `Page`, `TLAPS` |
| `GraphUploadProofs`, `PipeUploadProofs`, `TokenRefreshProofs`, `ClassifiedRetryProofs`, `DropboxBatchProofs`, `FilesProofs` | theorems about the module named, for every value of its constants | the module named, `TLAPS` |
| `MC*` | instances for TLC: operation sets, configurations, symmetry | the module named |

### ConnectionPool

`connections` is `m.connections`. `conn[s]` joins the `serviceConnection` of a
session (`typ`, `refCount`) with the session's life (`unused`, `open`,
`closed`) and the id it was opened for (`home`); the code makes the two
together and never parts them. `token[c]` is whose access token
`DefaultTokenStore` caches under id `c`. `job[w]` is the call a goroutine is
in the middle of: the operation, the place, the id, and the session it holds a
local reference to.

One critical section under `mu` is one step, and so is one call on a session or
on the token store. `RegisterSpectraSession` is thus `GenerateId`, any number of
`CandidateTaken`, `CandidateFree`, `OpenSpectra`, `RegisterSpectra`, and
`CloseSession` when the id was taken meanwhile; `RegisterCloudConnection` is
`OpenCloud`, `Prime`, `RegisterCloud`; `acquireSpectraAdapter` is
`LookupSpectra`, `ValidateSpectra`, `IncrementSpectra`, `MakeAdapter` or
`MakeAdapterFails`, `UndoAcquire`; `acquireCloudAdapter` is the same without
the first two steps. `Release`, `Drop` and `Revoke` decrement in one step and
close in another. `StartRefresh`, `StoreToken` and `RefreshFails` are a token
refresh by a holder. `Ops` selects the operations an instance's callers issue;
the theorems hold for every `Ops`.

Left out: SFTP connections and the browse of mutations go through the same
helpers; token expiry times; the text of errors. A failed registration or lookup
that changes nothing is a stuttering step.

### GraphUpload

`w` is the `Writer`; its buffer is the range `lo .. hi-1` of the source, `offset`
what it believes the provider has. `call`, `request`, `reply`, `tries` are the
method in progress and the request it waits for. `wire` holds the requests the
provider may still receive: `Retry` adds the same request while the first may
still be there, so a late duplicate is a step like any other. `upload` and
`file` are the provider's session and the destination, seen through the answers
the client handles: a fragment is accepted only at the next expected offset, and
ends the file when it reaches the total it names.
`Crash` may come anywhere; `Resume` asks the provider for its offset
(`OpenWriteFromResumeToken`) and refuses an unknown size.
`Content(len, intact)` says how many bytes there are and whether each is at its
own source position, which is all the properties need.

### PipeUpload

`pipe` is the `io.Pipe` (`blocked`: a `Write` waits for a reader; `eof`: the
writing end is closed; `strays`: reads whose caller no longer waits). `up` is the
upload goroutine with its attempt count, `session` what the provider holds for
the attempt, `file` the destination. `writer` chooses, initially, how an
adapter's goroutine works: append until the body ends (Dropbox, Google Drive),
parts up to the declared size (Box), or the body of one request (small Box files
and its multipart upload). A write's deadline is `WriteFails`, a read's is
`ReadFails`; both leave the blocked operation behind.

### TokenRefresh

Tokens are numbers in the order they were issued. `grant` and `live` are the
refresh token and the access tokens the provider accepts, `stored` is
`s.stored.RefreshToken`, `saved` what the migration database holds, `cache` the
access token in the `TokenStore`, `member` whether Dropbox's `selectUser` is
known. `provider` chooses, initially, a session that rotates its refresh tokens
under `refreshMu` (Box), one that probes the account before each client until
it knows for whom it speaks (Dropbox), or a plain one (Google Drive, Graph).

`job[c]` is a call inside the retry loop: `TakeClient` is the session's
`httpClient`, which falls into `BeginRefresh`, `Granted` (or `GrantLost`,
`RefreshFails`), `Rotate`, `Persist` (or `PersistFails`), `StoreToken` and
`Recheck`; then `Probe` or `Served`; a 401 is `Unauthorized`, `Clear` and the
same refresh once more. `Expire`, `Close`, `Wire` (`SetCredentialsPersist`),
`Export` (`ExportStoredCredentials`) and `Restart` come at any time. How a
session under an id meets its successor's token is the matter of
`ConnectionPool`; the budgets of the loop are the matter of `ClassifiedRetry`.

### ClassifiedRetry and AmbiguousTracker

`job[w]` is the loop of one worker with all its counters. `window` is what is
left of `rateLimitedUntil`, `streak` the throttle streak at which backoff stops
doubling; `Tick` passes time. `Throttled`, `Wait`, `Exhaust` and `Report` are
the throttle bucket with the callbacks of the adapters (`classifyError`,
`OnRateLimitWait`, `OnRateLimitExhausted`), which advance the streak where the
code does. `adapter`, chosen initially, says whether the callbacks schedule
backoff and how many waits happen in the loop.

`evidence` is what the backend's tracker has recorded, for one operation and
one code. `Record` adds an error, with or without many workers at work;
`SuspectedThrottle` decides, as the code does, from the numbers under high and
low concurrency and from a burst among the remembered times. Of the times only
the gaps between neighbours matter, so those are kept; `Passes` widens the one
since the last error. An ambiguous error that is suspected goes the way of a
throttle.

### DropboxBatch

`call[c]` is a batch call; `jobs[c][n]` the job of its `n`-th launch at the
provider, which goes through its entries by itself (`JobStep`) and may fail. A
create or delete is `Lock` (`writeBatchMu`), `Launch`, polls, and `Report`. An
upload is first `TakeClient`, `StartBatch`, one concurrent `AppendBody` for
each body and `Collect`; only the sessions that took their whole body are
launched, and `Report` maps results back through `Entries`. `Fail` is every
way a request or job can end the call, `Unauthorized` a 401 anywhere, `Refresh`
the loop's refresh; both roads lead to another launch. `token` and `cache` are
numbers again: a client made from an old one is refused.

### CloudFolders

One tree serves for all five providers: `Home` holds `Plain` and `Shared`,
`Shared` holds `Inner` and `Nested`. Which of them are namespaces, drives or
sites depends on the provider. A reference is what a ServiceID or ParentID can
be: the id of an item, of a namespace or drive, the alias "root", or empty.
`Entry` is what a listing shows of a folder. `Adapter` records are made by
`CreateAdapter`, per provider; `ListTarget`, `CreateTarget` and `NodeTarget`
say which folder an adapter's request reaches, each translated from the code of
that provider and that operation: `DropboxList` from `resolveListTarget`,
`DropboxCreate` from `createUnderNamespaceRoot`, and so on.

The browser (`shown`) goes from `ListRoots` down by `Browse`, with
`IsVirtualRootListing` and `BrowseFolder` as in `ListCloudChildren`. At some
point `Open` makes the migration's adapter of a folder that was shown;
from then on callers list, create, rename and delete by the references in
`known`. A create, rename or delete whose answer is lost is repeated by the
retry loop. Other users move folders.

### Files

The tree is `parent`, `name` and `data`; a file that was unlinked lives on
while a handle or a late write holds it. `call[c]` is one operation of the
adapter, and each step is one system call or SFTP request: `MkdirAll` folder by
folder, `Lstat` then `Remove` or `RemoveAll`, the walk of `removeAll` with its
stack of folders, `Rename`, `OpenWrite`, `OpenWriteFromOffset`, each `Write`,
and `Close`. `Again` is the retry loop, which begins the operation anew for
what the classifiers call retryable; `Fatal` is the rest. Faults come before
or after a request had its effect. `WriteFails` is the deadline of ctxstream: the
write is left on its way and may land (`LateWrite`) whenever it likes.
`Abandon` is a worker cancelled or dead; the local copy then resumes from
the offset it was told, the remote one begins again.

### Page and Listing

`Page` is `applyPagination`: `FolderPage` and `FilePage` are the positions cut
from each list, `HasMore` what the page says of the rest. In `Listing` a caller
steps by the page's limit while `HasMore` holds. Each call reads the
directory again (`Begin`, `ReadBatch`, `NextPage`), in requests or `ReadDir`
batches; a listing may fail on the way and is begun again. `service` chooses an
adapter that looks at every entry by itself and drops those it cannot look at
(local), one that pages through requests (Dropbox, Box, Graph), or one that
takes the first request for all (Google Drive). Others create and delete
entries at any position, between pages and while one is read.

## 3. Runs

Every property of a passing run has a mutant in `PROJECT.json`: a plausible bug
in the code's place, under which TLC finds that property violated with the same
configuration. `TypeOK` of a module types its variables and says, where there is
one, how its state hangs together (who holds a mutex, that a tree is a tree).

### Passing runs

**PoolSafety** (`TypeOK`, `RegisteredIsOpen`, `SoleCloser`). Three callers, two
ids, two sessions, all eight operations. Although sessions are closed outside
the lock, a session in the map is open and under its own id, at most one caller
is about to close any session, and none is closed twice, even when callers drop
or revoke what they never acquired.

**PoolCounts** (`CountIsHolders`, `CloudLease`, `ImplementsLease`). Three
callers, three sessions, one id, all operations but revoke and drop, which by
design take references that are not the caller's. The count is the number of
callers between their increment and their decrement; a cloud adapter's session
stays registered and open as long as it is held; every step of the pool is a
step of `SessionLease` or a stutter.

**PoolLiveness** (`NoLeak`, `SessionsEnd`). Spectra connections under
`FairSpec`: an open session that is not in the map has a caller about to register
or close it; a session that left the map is closed, and so in the end is one
that was held, unless somebody else is acquiring it.

**Refresh** (`TypeOK`, `NoSpentToken`, `RotationIsKept`, `CallReturns`). Two
callers of one session of each kind; tokens expire, grants and answers are
lost, persisting fails, the session is closed, the process restarted. Nobody
presents a refresh token that was spent, unless the provider's answer was lost
or a process died with it; a rotated token is in the session, and in the
database unless nobody took it there or that failed; every call returns, also
after a persist failed under `refreshMu`.

**Upload** (`TypeOK`, `CommittedIsWhole`, `SessionIsPrefix`, `CallReturns`,
`ImplementsAtomicUpload`). Declared sizes, callers that do not close after an
error. Whatever is lost, late, refused, abandoned or resumed: the destination is
the whole source or absent, the session holds a prefix of the source at least as
long as the writer's offset, `Close` reports success only with the file in
place (by the refinement), and a call on the writer returns.

**Pipe** (`TypeOK`, `CommittedIsWhole`, `CloseReportsCommit`, `NothingHangs`).
All four writer kinds. The first two properties name, in `Trusted`, the two
things the upload cannot see in its body: a caller that gave up and closed, and
an earlier attempt that consumed the beginning. Box with a declared size sees
both, once something was written. `NothingHangs` says that a call returns, the
goroutine ends and a write left behind is released; the last excepts a
cancelled context, because then `timedCloser.Close` returns before it closes
the pipe (`ctxstream/stream.go:118`).

**Retry** (`TypeOK`, `ThrottleIsAnnounced`, `AttemptsAreBudgeted`). Two workers
on one backend and its tracker, in the configuration of the cloud adapters
(backoff scheduled by the adapter, no wait in the loop) and in one that waits
in the loop. The attempts of a call are bounded by the sum of its budgets,
`MaxIterations` apart, for every order of errors, ambiguous ones promoted to
throttles included; a worker that sleeps for a throttle, or was just turned away
by one, announced a window at least that long.

**Batch** (`TypeOK`, `ReportIsTrue`, `OverlapIsGivenUp`, `CallReturns`). Two
callers with batches of two items over the same two paths, and one that is too
long; tokens expire, bodies and jobs fail, polls are turned away, answers lost.
What a call reports as done was done by it to that very item; what it reports
as not done was not, unless it had to launch twice; two jobs run at once only if
all but one were given up; every call returns.

**Folders** (`TypeOK`, `BrowseIsFaithful`, `FoldersAreAddressed`,
`CreatedWhereListed`, `RenameIsInPlace`). Each of the five providers, with all
folders reached by browsing and every shown folder as a migration's root. The
browser gets the children of the folder it asked for; the references a
migration was given go on addressing their folders, whatever is renamed, moved
or made; a folder is made where a listing by the same reference shows it, or
the call is refused; a rename changes one name and moves nothing. The exceptions
are `NotListable` and `NotWritable`: namespace ids below My Dropbox, below
another namespace, and the drive id of a SharePoint library.

**Files** (`TypeOK`, `CopyIsWhole`, `FailsForCause`, `SuccessIsReal`). Two
callers of the local or the SFTP adapter, three calls, one fault before or after
any request has its effect, one retry. A copy that is closed is the source,
whatever was abandoned with a write on its way; an operation that could be done
fails only for its faults or, when deleting and renaming, for having met its own
work; what is reported as done is so at that moment.

**Listing** (`TypeOK`, `SeenOnce`, `WalkEnds`). Every directory of up to three
entries, every limit from below zero to above the maximum, one entry created,
one deleted and one failure at any time. The pages put together are the
directory but for what changed in it: creations may repeat an entry but not hide
one, deletions may hide one but not repeat it, an entry that could not be looked
at may do both; the walk ends.

### A run that shows a disagreement

**ListingCut** checks `AllResults`, "Check `HasMore` and adjust `Offset` to get
all results" (`pkg/fs/README.md:570`), of a service that takes its first
request for all, as Google Drive's `ListChildren` does
(`pkg/fs/googledrive/adapter.go:51`). TLC finds a walk that follows `HasMore` to
its end and has missed what did not fit the request.

### Claims that do not hold

Other statements of the repository about itself that the models refute. They
are kept as definitions; to see one violated, put it into the configuration
named, changed as said.

| Definition | Statement | What the code does | Configuration |
|---|---|---|---|
| `SpectraLease` (`ConnectionPool`) | "Create adapter from the registered session" (`pkg/fs/manager.go:896`) | the session is looked up, then counted by id under a second lock; when the id was given to another session in between, the adapter is made from the closed one and the count taken on the new one | `PoolCounts.cfg` |
| `UsedTokenIsOwn` (`ConnectionPool`) | "registers a connection or replaces an existing idle session (refCount 0)" (`pkg/fs/manager.go:138`) | the new session primes its access token under the id before the registration is refused (`manager_cloud.go:110`) | `PoolCounts.cfg` |
| `FailsForCause` (`TokenRefresh`, a `PROPERTY`) | workers "block until success or a classified error (including auth after refresh fails)" (`pkg/fs/README.md:24`) | between a refresh and the second look at the cache another caller, after a 401 of its own, clears it: "no access token after refresh" (`googledrive/session.go:197`) | `Refresh.cfg` |
| `CloseCommits` (`GraphUpload`) | "Close commits the write" (`README.md:154`) | with an unknown size and a source that ends on a fragment boundary, `Close` has nothing to flush and returns nil; no fragment ever named the total, so the file is never completed (`msgraph/transfer.go:195`) | `Upload.cfg` with `Declared = FALSE` |
| `CommittedIsIntact` (`GraphUpload`) | "Use `Close` to finish/commit the session (and flush a trailing partial fragment)" (`README.md:41`) | a fragment is sliced off the buffer before it is sent; when that fails, a deferred `Close` sends what follows at the old offset (`msgraph/transfer.go:216`) | `Upload.cfg` with `CloseAfterError = TRUE` |
| `CloseCommits` (`PipeUpload`) | "Close commits the write" (`README.md:154`) | a retried upload reads on from the half-consumed pipe; the file is truncated and `Close` reports success (`dropbox/transfer.go:193`, `box/transfer.go:176`) | `Pipe.cfg` |
| `AllBodiesAreClosed` (`DropboxBatch`) | "Bodies are closed by this method" (`dropbox/batch.go:406`) | not those of a batch that is too long: it returns first (`batch.go:415`) | `Batch.cfg` |
| `OneBatchAtATime` (`DropboxBatch`) | "writeBatchMu serializes mutating batch RPCs" (`dropbox/adapter.go:29`) | a job whose poll failed runs on at the provider while the mutex is free | `Batch.cfg` |
| `ListedIsListable` (`CloudFolders`) | shared folders "still appear under that home listing" and "remain valid adapter contexts" (`docs/cloud_provider_checklist.md:33`) | an adapter of My Dropbox lists a shared folder by its namespace id and cannot list what is in it (`dropbox/adapter.go:143`) | `Folders.cfg` |
| `BrowseIsFaithful` (`CloudFolders`) | "callers should keep passing driveId (and rootType)" for nested folders (`manager_cloud.go:202`) | with the root's type a nested folder's id is taken for the root of its namespace; that is why the UI's requests in the model leave it out | `Folders.cfg` with `KeepRootType = TRUE` and `SharedRoots = {"team_folder"}` |
| `RenameIsInPlace` (`CloudFolders`) | "can rename a file or folder in place" (`types/rename.go:22`) | Dropbox moves the folder to the parent it was listed under, and so back there when somebody has moved it (`dropbox/adapter.go:360`) | `Folders.cfg` with `Movers = {"dropbox"}` |

### Further observations

Met while modelling, in the models where they are within their scope:

- A generated Spectra id is checked under one lock and used under another
  (`manager.go:766`). Two callers may pick the same id; the registration of the
  later one then fails, although it asked for any free id, and it closes its
  own session.
- Revoking a connection that is in use decrements somebody else's reference
  (`manager_cloud.go:248`): with one user its session is closed under it; with
  two the connection stays, and the first release closes it under the other.
- A cloud acquire whose adapter cannot be made decrements without closing
  (`manager_cloud.go:282`): if that removes the connection, its session is
  never closed. `NoLeak` is therefore checked for Spectra connections.
- A session's `Close` clears the token cached under its id, whoever it belongs
  to by then: a replaced predecessor clears the one its successor has just
  primed, a refused newcomer that of the connection in use
  (`manager_cloud.go:93`).
- Replacing an idle Spectra session by a cloud connection under the same id
  leaves the Spectra session open (`manager.go:146`).
- A refresh does not reset the count of rate limit waits
  (`classified_retry.go:96`); every other bucket does. The budget is the
  smaller for it.
- When a throttle exhausts the loop at once, the streak is advanced twice for
  one throttle (`dropbox/classify.go:152`), so the first reported backoff is the
  second of the sequence.
- A burst in the tracker counts for ever: its times are compared with each other
  and never with the present (`ambiguous_tracker.go:116`).
- `UploadFilesBatch` takes its client before its loops (`batch.go:445`): after a
  401 and a refresh, `finish_batch` is repeated with the client of the old
  token until the retries are spent. Its comment says that whole-batch retry is
  not applied; the loops around `start_batch` and `finish_batch` repeat those.
  It clears the throttle streak also when every entry was throttled
  (`batch.go:528`).
- A create whose answer was lost makes a second folder of the same name in
  Google Drive, where names are not unique.
- A SharePoint library lists by its drive id, but nothing can be created in it
  by that id; Box lists the alias "root" and does not create in it.
- A local delete or rename whose answer is lost reports failure: the second
  attempt does not find what the first removed. "node not found" is classed as
  retryable there, so the loop spends its budget on it.
- A local rename replaces a file that has the new name (`os.Rename`); SFTP
  refuses it. Local `DeleteNode` looks at the type and then removes: what was
  put in the place in between is removed too. SFTP's removes an empty folder
  when told it is a file.
- A local listing leaves out entries it could not look at, without an error
  (`local.go:152`); pages cut after it are shifted.
- An SFTP connection that is lost is not made again by any retry; `root` as an
  alias of `ListChildren` there is dead code, for the resolver came before it.
- `HasMore` counts files when only folders are asked for (`manager.go:404`), so
  a walk of folders ends with empty pages.
- The pipe writers commit what they have when the caller closes after giving
  up (`dropbox/transfer.go:134`, `googledrive/transfer.go:95`); `Trusted` names
  this case.

### Bounds

| Bound | Value | Why it is enough |
|---|---|---|
| `Workers` (pool) | 3 | one caller at each side of a race and a third that replaces, drops or shares; counts of 0 to 3 pass the threshold at 1 from both sides |
| `Sessions` | 2 or 3 | a registered one, its rival or successor, and a third that succeeds that |
| `MaxId` | 0 or 1 | ids meet only in the token store and in id generation; with two, the count-up loop takes a second candidate and closes of one id run beside uses of the other. Where it is 0, callers contend on one id |
| `Callers` (refresh), `MaxIssued`, `MaxGenericRetries` | 2; 3; 1 | one refreshes while the other is turned away; a token for each and one after an expiry or restart; a retry after the refresh |
| `MaxSize`, `ChunkSize`, `SimpleMax` (Graph) | 10, 3, 2 | empty, below, at and above the simple limit; zero to three whole fragments, with and without a rest |
| `Attempts` | 3 | the request, its retry, and one more after an answer to the former |
| `MaxResumes` | 2 | a resumed upload is itself abandoned and resumed |
| `MaxSize`, `Chunk` (pipe) | 5, 2 | two whole chunks and a rest, and every earlier end |
| `Writer.attempts` | 1 to 3 | no retry, one, and a retry of a retry (8 in the code) |
| `Workers` (retry) | 2 | one sleeps while the other succeeds, reports or throttles |
| `MaxIterations`, retries, `MaxStreak`, sleep cap | 10; 1 each; 3; 3 | budgets add up to less than ten iterations, so `MaxIterations` does not hide an unbounded loop; three backoffs reach the cap on sleep and on the streak |
| `RetryAfters` | 0, 3 | none, and one longer than the first backoff |
| `MinSamples`, `BurstCount`, `BurstWindow`, `MaxTimestamps` | 2, 2, 0, 2 (4, 3, 2, 32) | one error is too few and two suffice; a burst is there or is not, and is forgotten when a third error comes; low concurrency outweighs high and the reverse |
| `MaxEvidence` | 3 | errors recorded; enough for either outcome of each test |
| `Callers`, `Batches`, paths, `MaxEntries` (batch) | 2; two items and three; 2; 2 | two batches over the same items, one entry that fails beside one that does not, a batch at the limit and one above it |
| `MaxGenericRetries`, `MaxExpiries` (batch) | 0; 1 | one refresh and relaunch; the token expires before, between or after any two requests |
| folders, `New`, `Names`, `MaxTries` | 5; 1; 1; 2 | every depth relation of root, namespace and item that the adapters tell apart; a name that may be taken; one lost answer |
| `Callers`, `MaxMoves` (folders) | 1; 1 | references are resolved against the tree at the time of the request; calls interact only through the tree, and a foreign move changes it as another caller would |
| `Callers`, `Dirs`, `FileNodes`, `Names`, `MaxCalls` (files) | 2; 2; 2; 2; 3 | an operation, one in its way, and one after; a folder in a folder with a file, a name that is free and one that is taken |
| `SourceLen`, `MaxTries`, `MaxFaults` | 2; 1; 1 | a resume in the middle; more attempts than faults and the reverse |
| `Entries`, `BatchSize`, `Creates`, `Deletes`, `Failures` | 3; 2; 1; 1; 1 | a page boundary before, at and after the last folder and entries on both sides of a change; a request that is full, one that is not and two |
| `DefaultLimit`, `MaxLimit` | 2, 3 | every clamp of the limit is taken |

`CHECK_DEADLOCK FALSE` appears where the system really ends: a writer that was
closed, a walk that is over, a batch that returned, or bounds on calls and tokens
that are used up. The pool and the retry loop never end, and are checked for
deadlock.

### Fairness

- Pool: `WF_vars(Continue(w))`, a goroutine inside a manager call is scheduled
  and its calls return; `WF_vars(Release(w))`, the README's obligation to
  call the release function. Starting a call and `Drop` are not fair.
- Refresh: `SF_vars(Step(c))`, a goroutine that can go on does; strong because
  Go's mutex hands over to a goroutine that has waited, so `refreshMu` is not
  lost to others for ever. Requests may fail at any time, but are answered
  or cancelled.
- Batch: `WF_vars(Step(c))`, and `SF_vars(Lock(c))` for `writeBatchMu`, for the
  same reason. The provider's jobs owe nothing: the watchdog of a poll ends it.
- Graph writer: `WF_vars(InMethod)`, a method goes on when it has its answer or
  its deadline passed (`optimeout.DoIf`). The network owes nothing: a request
  may stay on the wire for ever.
- Pipe: the goroutine, deadlines of reads and writes (ctxstream), the return
  of `Close`, and the caller's `Close` (`defer`). A provider need not answer a
  request early.
- Listing: `Begin`, `ReadBatch` and `NextPage`, the caller asks for the next
  page while there is one and its requests are answered; failures are bounded.
- Retry, Folders and Files are checked for safety only. That a retried call
  ends follows, for the loop, from `AttemptsAreBudgeted`.

## 4. Proofs

TLC checks each property on a small instance. The theorems below state the same
definitions for every value of the constants: any number of callers, workers,
sessions, ids and attempts, sources and fragments of any size. All proofs are
checked to the last leaf by TLAPS.

| Module | Theorem | States | Under |
|---|---|---|---|
| `ConnectionPoolProofs` | `TypeCorrect` | `Spec => []TypeOK` | |
| | `PoolInvariant` | `Spec => []PoolInv` | |
| | `RegisteredSessionsAreOpen` | `Spec => []RegisteredIsOpen` | |
| | `SessionsHaveOneCloser` | `Spec => []SoleCloser` | |
| | `CountsAreNatural` | `Spec => []CountNotNegative` | |
| | `CountsAreHolders` | `Spec => []CountIsHolders` | `LawfulCallers` |
| | `CloudSessionsStay` | `Spec => []CloudLease` | `LawfulCallers` |
| | `PoolIsLease` | `Spec => ImplementsLease` | `LawfulCallers` |
| | `NothingLeaks` | `Spec => []NoLeak` | `SpectraOnly` |
| `GraphUploadProofs` | `WriterIsTyped` | `Spec => []TypeOK` | |
| | `CommittedFilesAreWhole` | `Spec => []CommittedIsWhole` | `~CloseAfterError` |
| | `SessionsArePrefixes` | `Spec => []SessionIsPrefix` | `~CloseAfterError` |
| | `UploadIsAtomic` | `Spec => ImplementsAtomicUpload` | `~CloseAfterError`, `Declared` |
| `PipeUploadProofs` | `PipeIsTyped` | `Spec => []TypeOK` | |
| | `TrustedFilesAreWhole` | `Spec => []CommittedIsWhole` | |
| | `ReportedFilesAreWhole` | `Spec => []CloseReportsCommit` | |
| `TokenRefreshProofs` | `RefreshIsTyped` | `Spec => []TypeOK` | |
| | `NoTokenIsSpentTwice` | `Spec => []NoSpentToken` | |
| | `RotatedTokensAreKept` | `Spec => []RotationIsKept` | |
| `ClassifiedRetryProofs` | `RetryIsTyped` | `Spec => []TypeOK` | |
| | `ThrottlesAreAnnounced` | `Spec => []ThrottleIsAnnounced` | |
| | `BudgetsBoundAttempts` | `Spec => []AttemptsAreBudgeted` | |
| `DropboxBatchProofs` | `BatchIsTyped` | `Spec => []TypeOK` | |
| | `ReportsAreTrue` | `Spec => []ReportIsTrue` | |
| | `OverlapsAreGivenUp` | `Spec => []OverlapIsGivenUp` | |
| `FilesProofs` | `FilesTypes` | `Spec => []TypeOK` | |
| | `CopiesAreWhole` | `Spec => []CopyIsWhole` | |
| | `FailuresHaveCause` | `Spec => []FailsForCause` | |
| | `SuccessesAreReal` | `Spec => SuccessIsReal` | |
| `CloudFoldersProofs` | `FoldersInvariant` | `Spec => []FoldersInv` | |
| | `TypeCorrect` | `Spec => []TypeOK` | |
| | `MadeWhereListedAlways` | `Spec => CreatedWhereListed` | |
| | `FoldersStayAddressed` | `Spec => []FoldersAreAddressed` | `"dropbox" \notin Movers` |
| | `RenamesStayInPlace` | `Spec => RenameIsInPlace` | `"dropbox" \notin Movers` |
| | `BrowseStaysFaithful` | `Spec => []BrowseIsFaithful` | `"dropbox" \notin Movers`, `~KeepRootType` |
| | `PageIsContiguous`, `HasMoreIsExact` | a page is one stretch of the listing, and `HasMore` is exact | |

### Assumptions

Every module names the assumptions on its constants (`PoolAssumption`,
`UploadAssumption`, and so on), and TLC evaluates them in its runs. Most say only
that a bound is a natural number or that a model value is none of the others.
Those that say more:

- `WorkersAssumption` (pool): there are finitely many callers. `CountIsHolders`
  compares a count with a cardinality, which is defined for finite sets.
- `RetryAssumption` has `MaxStreak` in 1 .. 6, for 6 is the length of the code's
  backoff sequence; the run takes 3. The provers know the powers of two one by
  one and not the law of exponents.
- `FoldersAssumption` says that the five folders differ, that finitely many are
  still to be made, and that a folder is never made with an empty name, which
  `sanitizeFolderName` refuses (`manager_mutations.go:76`). That the first
  folders of one folder have different names is a choice of the first tree.
- `FilesAssumption` wants a folder and a file besides the root, for the tree
  begins with a file in a folder.

The column "Under" has the hypotheses of the theorem itself. Each is a choice of
instance that states what callers do, and each is needed, for the code does
not keep the property without it:

- `LawfulCallers`: nobody calls `RevokeCloudConnection` or releases an id it did
  not acquire. Both decrement a count that is somebody else's; section 3 has
  what comes of it. With such callers it is exactly the counts that go wrong:
  `RegisteredSessionsAreOpen`, `SessionsHaveOneCloser` and `CountsAreNatural`
  need no hypothesis.
- `SpectraOnly`: no cloud connection is registered, acquired or revoked. A cloud
  acquire that cannot make its adapter may leave a session open for ever
  (`manager_cloud.go:282`). Dropping ids that were not acquired is allowed here.
- `~CloseAfterError`: the copy loop does not call `Close` on a Graph writer whose
  `Write` failed. `Declared`: the size of the source was declared. The two
  entries on `GraphUpload` under "Claims that do not hold" are what happens
  otherwise.
- `"dropbox" \notin Movers`: nobody else moves folders in a Dropbox account; in
  the accounts of the other four others may. A Dropbox rename is a move to the
  folder the item was listed under, and brings back what was moved; and what is
  moved out of a namespace is not found by an adapter of that namespace.
  `TypeCorrect`, `FoldersInvariant` and `MadeWhereListedAlways` need no such
  hypothesis. `~KeepRootType`: the browser does not go on sending the type of the
  root for nested folders. Section 3 has what happens otherwise.

### The arguments

**Pool, sessions.** `RegisteredIsOpen` alone is not inductive, for a session
might be registered after it was closed, and `SoleCloser` alone is not, for a
caller that takes a session out of the map must be the only one to have it. The
two hold each other up. `PendingIsFresh` closes the circle: a session about to
be registered was opened for the id it is registered under and carries no
count, so that publishing it establishes `RegisteredIsOpen` and
`CountNotNegative` for its entry. `PoolInv` is their conjunction with `TypeOK`.
Instead of repeating one argument in every action there is one lemma for each way
a step touches the map, the sessions and the right to close (`QuietStep`,
`OpenStep`, `KeepStep`, `PublishStep`, the removal and close steps), and the
actions are sorted among them.

**Pool, counts.** To the counts a step does one of four things: `Passes`,
`Publishes`, `Takes`, `Returns` (`CountKinds` sorts the actions). The set of
callers that use an id then keeps its members, or gains or loses one, and so
does its cardinality (`CountStep`). `LeaseInv` adds to `PoolInv` which
operations pass which places (`StageInv`) and that a cloud caller has the session
its id names (`CloudInv`), which follows from the counts: while somebody holds
the id the count is positive, and only an idle session is replaced
(`HeldStays`). `LeaseStep` maps the same four things to the actions of
`SessionLease`. `NothingLeaks` shows that whoever takes a session out of the map,
or opens one, is the caller that still has to close or register it.

**Graph writer.** `UploadInv` relates four places the bytes are in: the
writer's buffer, the request in flight, every request still on the wire, and the
session. The core is `RequestInv` and `WireInv`: whatever is on the wire, even
if its caller gave up on it long ago, carries bytes of the source to their own
place (`Sound`) and names no end but the source's. Late duplicates are then
harmless: at the expected offset they are the right bytes, and at any other the
provider refuses them. `ReplyInv` says what an answer that is on its way back
proves about the session, and `BufferInv` that the buffer goes on where session
and request end, for as long as nothing failed; that is where
`~CloseAfterError` is used. For the refinement each action is shown to be the
step of `AtomicUpload` in which the file appears, or success or failure is
reported, or a stutter.

**Pipe writers.** `CallerInv` counts units: what the caller has put is taken,
blocked in the pipe, or lost with an error. `ReadInv` is the strengthening: an
attempt can have read as many units as were taken only if it has read every one
of them in its place. At the first attempt that is always so; after a retry, or
when a read was left behind that takes units nobody keeps, it is not, and the
number of units tells. `FileInv` concludes what may be committed, by the
three ways the writers decide that a body is complete.

**Token refresh.** `TokenInv` says where the refresh token that the provider
accepts is at each moment: in the session while nobody refreshes or the request
is on its way, with the caller that got the answer until it has put it into the
session, and in the session and the database afterwards, unless persisting
failed, nobody took it there, or the answer was lost. `MutexInv` makes that
caller the only one. A refresh moves one caller along these places
(`RefreshSteps`); all other steps leave the token where it is (`AsideSteps`).

**Retry.** `Paid` is the account of one worker: its attempts so far are at most
what the buckets it has drawn on allow, counting a whole run of rate limit waits
for each ambiguous or generic retry, because those start a new run. `Covered`
says that the shared window is at least as long as what is left of a worker's
sleep; since no step of anybody shortens the window but time, and time shortens
the sleeps as well, it is kept.

**Batches.** `CallOK` says of one call that its bodies, sessions and results are
positions of its items (`Fits`), where bodies can still be open (`Bodies`), how
many launches its attempts allow (`Budget`), that it is between a launch and its
last poll exactly if it holds the mutex, and for each of its jobs that its
entries are items of this call, each once (`JobFits`). So the result at a
position of a job is an outcome of the item that `Report` writes it to
(`Reports`), which is `ReportIsTrue`. Only the holder of the mutex has a job
that runs and was not given up, and only its last one, which is
`OverlapIsGivenUp`.

**Files.** All that is used of `Lookup`, a recursive function, is that a path
leads to a node exactly if there is a way from the root to it along the path
(`FindIs`, with `IsWalk` for the way). That the function obeys its recursive
definition along any path (`FindUnfolds`) is shown from a least length for
which it would not. `Find` is `Lookup` with the tree as an argument, so that a
path can be followed before and after a step; `MakeLooks`, `UnlinkLooks` and
`RenameLooks` say what the three changes of a tree do to what paths lead to.
`FilesInv` says of each call where it can be (`Stage`), that the file of a copy
nobody interfered with holds the source up to its offset (`Kept`), and that a
call which is owed success, because it could be done and nobody came in its way,
has found or made what its place requires and has as many attempts left as
faults may come (`Succeeds`, `Able`). `Late` is why an abandoned write does no
harm: whatever is on its way carries the unit of its own position. A step
that leaves the tree alone has to answer for its own call only (`QuietStep`); a
step that changes it touches everybody else, whose claims lapse (`ChangeStep`).
`SuccessIsReal` follows from which actions can end a call.

**Cloud folders.** `Path` is a recursive function; all that is used of it is
that it is the least set that holds a folder and, with each folder, the one
above it (`PathIsUp`). It takes an argument to see that as many steps as there
are folders reach the top: a way that did not would be closed, and so hold more
folders than there are (`ClimbIsUp`). From there on paths are sets: `Hanging`
and `Cutting` say what becomes of all of them when a folder is hung
elsewhere or deleted with what is below it. `FoldersInv` says which forms a
folder, an adapter and a known reference can have for each provider
(`FolderOK`, `AdapterOK`, `KnownOK`), that the mounts of Dropbox and
SharePoint stay where they are (`FixedOK`), that a call is made with references of
known folders (`CallFits`), and that names stay unique. `ItemTargets`,
`MountTargets` and `AliasTargets` then say what listing, creating and renaming make
of each form of reference, which is all that `MadeWhereListedAlways` needs: the
two agree, although different code resolves them. For `FoldersStayAddressed` the
invariant must also say that a known folder is still in the namespace of
the adapter, and for `RenamesStayInPlace` that the parent it was listed under, where
there is one to be written into, is still its parent (`AddressInv`). The two need
each other: a rename keeps folders in the namespace because it moves them to
where they are. Only Dropbox has more than one namespace, so `AddressInv` is about
Dropbox, and for the others `OneSpace` suffices. `BrowseInv` gives the form
of each request that the browser sends; `BrowseFinds` shows that the adapter made
of it, and nothing else, lists the folder meant, `FoundIsSent` that what this
listing shows is again sent in such a form. The namespace that is
passed down with nested folders is the reason why this is an invariant at all:
it has to be above the folder, however deep that is.

**Pages.** `PageIsContiguous`: a page is the contiguous cut of folders followed
by files at its offset, for every listing, offset and limit as the code clamps
them; `HasMoreIsExact`: `HasMore` holds exactly if something is left behind the
page. These are the facts `SeenOnce` rests on.

### What stays with TLC

- Liveness under fairness and whatever needs ENABLED: `SessionsEnd`, `WalkEnds`,
  `NothingHangs` and `CallReturns` of three modules. What a bound on attempts can
  say about ending, `AttemptsAreBudgeted`, is proved.
- `Listing`: the directory is a sequence that is filtered with `SelectSeq` and
  changed with the community modules' `Remove` and `InsertAt`, all of which
  take an operator or are defined by recursion; what they return for every
  sequence is an induction over data, which the installed provers cannot do.
  What can be said of one page is proved in `CloudFoldersProofs`.
- `AmbiguousTracker`'s decision (`SuspectedThrottle`) is an input of the retry
  loop's theorems, which hold whatever it decides.

## 5. Not modelled

Listed with reasons under "components" in `PROJECT.json`. In short:

- Google Drive's long-running downloads and exports, and downloads in general:
  a poll loop or one request whose body is passed on, with no state shared.
- Spectra's node operations, which forward to its SDK; storage info and account
  identity, one request each.
- "Shared with me" roots and shared drives: other requests list them, and they
  hold foreign trees.
- Connecting over SSH, host keys; credentials, which are cryptography and
  files; path policy, containment and name validation, which are string
  functions with tests of their own; drive discovery, which asks the operating
  system.

The contents of requests, headers, paths and names are abstracted throughout.

## 6. Plan

What is modelled is complete along the components above but for those of
section 5, and so are the proofs of its safety and action properties, but for
those of `Listing`. What remains:

1. `TypeOK` and `SeenOnce` of `Listing`, over a model of the directory as a set of
   positions instead of a sequence, from which the sequences could be shown to
   be refinements.
2. The number of pages of a walk in a directory that does not change.
