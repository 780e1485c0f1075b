# Verification of asanypath

asanypath is a Python library (`src/src/asanypath`, with native request code in
Rust, `src/rust/src`) that gives local files, S3, Google Cloud Storage, Azure
Blob Storage, HTTP, Artifactory, FTP and SFTP one `pathlib`-like asynchronous
interface, a synchronous facade and a command line (`cp`, `mv`, `sync`, `rm`, ...).
This directory holds TLA+ models of its concurrent and failure-prone parts, TLC
configurations for small instances, and TLAPS proofs.

## 1. Inventory

Paths below are relative to `src/src/asanypath` (`.py`) and `src/rust/src` (`.rs`).

| Component | State it keeps | Operations | Interacts with | Module |
|---|---|---|---|---|
| Transfer budget and part uploads, `_transfer.py` | `TransferBudget.active_files`, the semaphore `_slots`; per upload the read lock, the part counter, the results | `transfer_scope`, `_file_io`, `upload_parts` | called by the `_upload_buffer` of each cloud backend; one budget is shared by every transfer of an event loop | `UploadParts` |
| S3 / Azure / GCS uploads, `s3.py`, `azure.py`, `gcs.py` and their `.rs` | the multipart upload, the staged blocks, the resumable session, all on the server | create, send parts, complete or commit, abort | `upload_parts`; the server | `CloudUpload`, `S3Multipart`, `AzureBlocks`, `GcsResumable`, `BackendUploads`, `AtomicUpload` |
| Ranged reads, `_transfer.py` `iter_transfer_chunks` | windows in flight, the metadata of the start | probe, window reads, final comparison | budget; `_range_read` of the source | `RangedTransfer` |
| Resumable download, `cloud.py`, `_resume.py` | `<dst>.part`, `<dst>.part.meta`, `dst` | probe, resume or restart, windows, rename | range reads of the backend; the local file system survives a kill | `ResumableDownload` |
| Local copy, move, rename, `local.py`, `_transfer.py` | the file system; a temporary file for `atomic=True` | inspect destination, stage, copy, commit, remove source | callers in other tasks, threads or processes | `LocalCopy` |
| Remote copy, move, rename, replace, `cloud.py`, `local.py` | objects on the servers | compare, server-side copy or read and write, remove | ranged reads, uploads | `Moves` |
| Trees, `local.py`, `cloud.py` | what was listed, what was copied | walk, copy each, remove | the above; the listing cache | `TreeMoves` |
| Cloud files, `cloud.py` `_CloudFile` | window of a reader, spool of a writer | open, read, seek, write, close | `_upload_buffer`, `_range_read` | `CloudFile` |
| Micro batcher, `batcher.py`, `backend.rs` | `_pending`: key -> items and futures | `_submit`, `_flush`, answering the futures | every cloud `read_bytes`, `unlink`, `exists`, ... goes through it | `MicroBatcher` |
| Download cache, `cache.py`, `cache.rs` | SQLite table of entries (value, expiry, recency), per-key locks, the shared instance | `get_or_fetch`, `set` with LRU eviction, `delete`, `clear`, `configure_cache` | cloud `read_bytes(use_cache=True)`; other processes share the file | `DownloadCache` |
| Listing cache, `cloud.py` | path -> identity -> (time, rows) | `_list_entries`, `_invalidate_listing`, `_invalidate_tree` | batcher `list`; writes and deletes | `ListingCache` |
| Command line, `cli.py` | bounded queue, workers, failures, the two listings of `sync`, progress | `_run_concurrent_stream`, `cp`, `mv`, `rm`, `sync` | every copy and delete above | `WorkerPool`, `SyncCommand`, `CliMoves`, `CopyProgress` |
| Synchronous facade, `sync.py` | a background event loop thread | submit, wait, wrap results | all asynchronous operations | `SyncRunner` |
| SSH/SFTP, `ssh.py` | host keys, cached attributes | host verification, tree removal, operations of several requests | servers, the terminal | `HostTrust`, `SftpTree`, `RemoteFiles` |
| FTP, `ftp.py` | pooled clients, their locks, the keyring | `_op`, `_ensure_client`, `disconnect_all`, operations of several commands | servers, keyring, terminal | `FtpPool`, `RemoteFiles` |
| HTTP and Artifactory, `http.py`, `artifactory.py` | memoized headers, tokens per service, answers about items | requests, directory walks, items | servers, environment, keyring | `HttpWalk`, `ServiceTokens`, `ArtItems` |
| Protocol map, `asanypath.py` | pending imports, classes | lookup, import, register, list | every constructor of a path | `ProtocolMap` |
| Path algebra, `common.py` | the text of a path, its options | parse below base URLs, derive, `relative_to` | base URLs of the environment | `PathAlgebra` |
| Native request layer, `http.rs`, `listing.rs`, `ssh.rs` | retries left, redirects, continuation token, connections | send with retries, list pages | servers | - |
| Options, credentials, prompts, signing, output of commands, scripts | none that is concurrent | configuration, text | - | - |

What is hard in this code:

* **Interleavings.** All of it runs on asyncio, with disk reads in OS threads that
  cannot be cancelled, and every `await` is a point where the task may be cancelled
  or another task may change what was read before it.
* **Failure and lost answers.** A request may fail although the server processed it;
  a cancelled request may still be processed later. The three upload protocols
  differ in what that leaves behind.
* **Crash and restart.** Resumable downloads and atomic local copies leave files
  behind that the next run must recognise.
* **What is remembered.** Listings, items, tokens, headers, attributes and metadata
  are kept across awaits while the thing they describe changes.
* **Shared outcomes.** A batch answers many callers; one error is given to all.

For each component the properties that make it correct are the ones in section 4;
`PROJECT.json` lists the hazards, each at its line, with the properties that
catch it, or with a note on what they leave out and why.

## 2. Plan

Most important first. All of it exists.

1. `UploadParts`: the worker pool and the budget.
2. `CloudUpload`, `S3Multipart`, `AzureBlocks`, `GcsResumable` over it, composed in
   `BackendUploads`, against the abstract specification `AtomicUpload`.
3. `ResumableDownload` with kills and restarts.
4. `MicroBatcher` with cancelled callers and failed requests.
5. `LocalCopy` with races and kills.
6. `UploadPartsProofs`, the first proofs.
7. `DownloadCache`: the per-key locks over the LRU store.
8. `WorkerPool` (producer, bounded queue, workers, failures, Ctrl-C) and
   `SyncCommand` on top of it.
9. `RangedTransfer`, `Moves`, `TreeMoves`, `ListingCache`, `CloudFile`.
10. `CliMoves`, `CopyProgress`, `SyncRunner`, `SftpTree`, `HostTrust`, `FtpPool`,
    `RemoteFiles`, `HttpWalk`, `ServiceTokens`, `ArtItems`, `ProtocolMap`, `PathAlgebra`.
11. Proofs about all of them: `BackendProofs`, `TransferProofs`, `FileProofs`,
    `CacheProofs`, `ConnectionProofs`, `CommandProofs`.

Every safety property that a passing run checks is a theorem (section 6). Left to
model: the retries and pages of the native request layer, and
the connection pool of `ssh.rs`.

## 3. Modules and the code they model

`PROJECT.json` ("map") gives the source lines of every definition. The definitions
and variables of a module that shares an instance with others carry its two letters
(`Rd`, `rd`, ...).

### Uploads

**`UploadParts`** - `_transfer.py` 40-176. `job[f]` is the coroutine of the upload of
file `f` (in its scope, in `gather`, in the gather of its `finally` block, over).
`worker[f][w]` is the await a worker task is in: waiting for a slot of the budget,
for the read lock, for its reading thread, for the thread after a cancellation
(`join`), for its upload; or how it ended. `reading[f]` are the threads inside
`fileobj.read`: a thread ends by itself and is never cancelled. Content is abstracted
to the index of a part. `Cancel(f)` delivers a `CancelledError` at whatever await the
coroutine is in: one `gather` cancels all its children in the same turn of the loop,
therefore in one step. `declared` is the size the caller passed, `parts` what the
file holds when it is read; both are arbitrary in `Spec`.

**`CloudUpload`, `S3Multipart`, `AzureBlocks`, `GcsResumable`, `BackendUploads`** -
`_upload_buffer` and `_multipart_upload` / `_block_upload` / `_resumable_upload`. All
the files of an instance are uploaded to one key, so that writers race. The server
is external and adversarial within its documentation: it may process a request whose
answer is lost, or process it after the client gave up; a completion of an aborted
upload is refused; Put Block List discards the blocks it does not name; a resumable
session takes a chunk only where its persisted prefix ends (`Expected`), and may answer
308 for one it did not keep, which the client takes for success: `misled` records the
uploads this happened to. `creation` is the
shielded create task of S3. `cut` records that the S3 cleanup was prevented: the
create answer was lost, the abort failed, or a further cancellation hit the
`except` block.

**`AtomicUpload`** - the promise: each upload replaces the object at most once and in
one step by the whole of its own file; a normal return means it did. A misled GCS upload
that returns is mapped to one that raised.

The modules whose names end with `Proofs` are described in section 6.

### Content on its way (run `transfers`)

**`ResumableDownload`** (Rd) - `CloudPathMixin.download` with `_resume.py`. Each file
operation is a step and the process may be killed between any two, or in the middle
of a write (a prefix of the handle's buffer survives; a torn sidecar is unreadable).
Content is a sequence of blocks `<<version, index>>`.

**`RangedTransfer`** (Rt) - `iter_transfer_chunks`: its three ways of reading (streamed,
whole, in windows by a batch of tasks), the condition a backend puts on each range
(`rtHow`: ETag or generation, modification time, none), servers that answer a range
with the whole, the comparison of metadata at the end, and the `finally` block that
cancels and awaits the reads. The metadata of a version is a token; two versions may
have the same.

**`LocalCopy`** (Cp) - `copy`, `move`, `rename` of `local.py` with the destination check,
the staging and the commit of `_transfer.py`. Directory entries, inodes and open
handles are modelled because a handle outlives its entry.

**`Moves`** (Mv) - `copy`, `copy_from`, `move`, `rename`, `replace` between five places on
four backends: probe, checksums, comparison, native copy or read and write, removal.
The writer is whoever else uses the two objects, between any two requests (`mvDirty`);
`mvLied` records a native copy that was confirmed and not made.

**`TreeMoves`** (Tr) - recursive copy and move: local trees removed whole at the end,
remote ones leaf by leaf, over a listing that is fresh or out of date. What others add to
a source meanwhile (`TrLate`) may be listed or not.

**`CloudFile`** (Cf) - two handles on one object: small objects fetched at open, large
ones read by ranges, writers that upload when the `with` block ends without an exception.

**`CliMoves`** (Cm) - `mv`, `cp`, `rm` of the command line: probes, where each source
goes, the concurrent pool, exit codes. `cmVanished` are sources others removed.
**`CopyProgress`** (Pg) - the callbacks, the monitor and the final report of a copy.

**`RemoteFiles`** (Rf) - the operations of SFTP and FTP that take several requests:
`rfPc[t]` is the request a task is waiting for; `rfAlone` that nobody else has touched
its paths since its call began; `given` the grants an access policy update reported.

**`ServiceTokens`** (Tk) - the token an Artifactory path takes (given, environment,
process, keyring, JFrog configuration), the memoized headers of HTTP, and what derived
paths inherit. A token is the service it is meant for.

### Requests, sessions, facade (run `backends`)

**`MicroBatcher`** (Mb) - `batcher.py` and the batch macros of `backend.rs`. `mbPending`
and `mbQueue` are `_pending`, `mbScheduled` the `call_soon` callbacks, `mbBatches` what
was sent.

**`SftpTree`** (St) - `_rmtree_bounded`: the semaphore around each request, a gather per
directory. **`HostTrust`** (Ht) - aliases, the host key policy, and the question asked
under a lock in a thread that a cancellation cannot stop.

**`FtpPool`** (Fp) - `_op` and `_ensure_client` with locks and clients per pool key, logins
with passwords of the path, the keyring or the user, `disconnect_all`. `fpWire` are the
replies on a control connection, in the order of the requests.

**`HttpWalk`** (Hw) - pages with arbitrary links; `iterdir` keeps direct children, `walk`
descends. **`ArtItems`** (Ai) - `_storage_info` and the folder flag of path objects that
tasks share while other clients change the items.

**`ProtocolMap`** (Pm) - `_LazyDict`: the miss, the pop, the import and the entering as
steps of a thread; an import may end with `ImportError` or with any other exception, and
`pmLost` records the installed backends that such an end has lost.

**`PathAlgebra`** (Pa) - text of a URL as a sequence of names; parsing below base URLs,
deriving by re-parsing, `relative_to`, and which derived paths keep the options.

**`SyncRunner`** (Sr) - `get`, `_start` and submission as steps of threads; loops that are
made and run; `_loop` and `_thread`, which the threads share without a lock, so that one
may start the thread object another has started (`RuntimeError`); calls made by callbacks
on the loop's own thread.

### Caches (run `caches`)

**`DownloadCache`** (Dc) - `get_or_fetch` of `cache.py` over the transactions of `cache.rs`.
`dcEntries` is the set of rows of the table, with the column `accessed`, which `DcNow`
sets to one more than its largest value: only the order of access matters. A native
method is two steps: its thread reads the clock (`DcStart`, into `dcStamp`), and some time
later, when it has the mutex and the write lock, its one transaction happens, which
judges by the time that was read.
A call belongs to the instance it got from `get_cache`, and the locks to an instance:
`DcConfigure` closes the shared one under its callers and the next call opens another
on the same file, with one of the `DcSettings` (`dcMade`), so that the size limit and
the ttl change under the rows. Cancelling a call that waits for a running thread leaves
the thread behind, whose transaction still happens. Content is a version of the object.
Left out: a change of the directory, which starts with another file; a ttl of zero or
less, with which nothing is kept; and a clock that is set back.

**`ListingCache`** (Lc) - fills, hits by age, the invalidations of writes, deletions and
`rmdir`, and two readings of the environment: the identity, memoized per path and
environment (`lcMemo`, `LcFingerprint`), when the call begins, and the credentials of the
request (`LcCredentials`), when the future of `s3_get_credentials` runs. `moved` marks a
listing between whose two readings the environment changed. An entry records when the removal
of a tree passed over it (`gone`) and whether its answer was on its way then (`late`).

### Command line (run `sync_command`)

**`WorkerPool`** - `_run_concurrent_stream` of `cli.py`: the producer, the queue of twice
as many places as workers, the sentinels, and what Ctrl-C does to each task.
**`SyncCommand`** - `sync` of directories, of one file, and `cp -r --force` as its users:
the walk of the source, the filter, the comparison, the pool of copies and the pool of
deletions, while others change the source. `ListingRefused`: a listing of the source fails
with an error that `_collect_files` takes for the end of a directory, as every refusal of
an FTP server does, and the walk goes on without the files below it (`Folders`); the
listing of the destination in `Decide` may be refused in the same way. Other errors end
the command (`ScanFails`). A file is a version; sizes alternate, so that two versions may
have one size. `absent`, `steady`, `refused` and `deleted` are history variables.

### Instances

The modules whose names begin with `MC` are the instances for TLC. `MCTransfers`,
`MCBackends` and `MCCaches` hold components that share no state and are questions of
the same kind; their variable `suite` names the one that runs in a behaviour, the
others stay in one initial state. Each is checked as it would be alone.

## 4. Runs

A property that is a conjunction names its parts in its module; they are in brackets.

**`upload_parts`** - two files of one or two parts, two workers each, two slots; 470
thousand states.
`TypeOK`. `BudgetExact` [`SlotsConserved`, `ActiveFilesExact`]: no slot is lost or
returned twice on any way out of a worker, and the count new transfers derive their
share from is exact. `OneReader`: never two threads in one file.
`NumberedInSourceOrder`: parts keep the number of their place whatever the order of
completion. `CompleteWhenOk`: a normal return means all parts. `NothingLeftBehind`
[`SettledWhenReturned`, `JoinedUnlessCancelled`]: no worker, and without a cancellation
no thread, outlives the call. `EveryUploadReturns`: no endless wait.

**`backend_uploads`** - two writers of one key, up to two parts and two workers each, on
S3, Azure or GCS; 2.6 million states up to symmetry.
`UploadIsAtomic`: each backend implements `AtomicUpload`. `ServerInStep`
[`AbortAfterSettle`, `NoOrphanUpload`, `GcsSessionIsPrefix`]: no part is sent while or
after a multipart upload is aborted, none stays open unless its cleanup was prevented,
and the offset of a resumable upload stays with the persisted prefix, unless the server
confirmed a chunk that it did not keep.

**`transfers`** - ten components, 2.3 million states; for their instances see the cfg.

| Property | Parts | Shows |
|---|---|---|
| `TransfersTypeOK` | | types of the ten components; positions of handles stay in their object |
| `RdResumesRight` | `RdOffsetMatchesPart`, `RdNoStitchAcrossAttempts` | what is counted is what is in the file, also after a kill; what is renamed is the probed version unless the object changed during this very attempt |
| `RtConsistent` | `RtOneVersion`, `RtNoReadLeft` | a windowed read ends with one version, in order, if reads are pinned or metadata tells versions apart; no read outlives the generator |
| `CpKeepsFiles` | `CpAtomicFilesWhole`, `CpNothingLost` | racing, failing, killed atomic calls leave whole files and lose none |
| `MvKeepsContent` | `MvNothingLost`, `MvOkMeansThere`, `MvIntact` | what a move removes is at the destination at that moment; a return means it is there; staged destinations are never torn |
| `TrKeepsTree` | `TrNothingLost`, `TrMovedAll` | a tree move keeps every file wherever it stops; one that returns has moved all |
| `CfNeverMixed` | `CfReadsAsOpened`, `CfUploadedWhole` | handles read what they opened; an object is what one `with` block wrote |
| `CmReportsTruly` | `CmMovedIsThere`, `CmExitZero` | items and exit codes reported as done are done |
| `PgConsistent` | `PgAddsUp`, and never back | progress only grows, and its deltas add up |
| `RfKeepsFiles` | `RfNothingLost`, `RfOkMeansDone`, `RfGrantsKept` | SFTP and FTP operations keep the file and mean what they report; grants are not undone by stale modes |
| `TkRightToken` | `TkSentHome`, `TkGivenKept` | a request carries only its own service's current token; a given token is not displaced by an older one |

**`backends`** - nine components, 423 thousand states.

| Property | Parts | Shows |
|---|---|---|
| `BackendsTypeOK` | | types of the nine components; what an item's path remembers is an answer for it |
| `MbAnswersMatch` | `MbKeyPresentWhileScheduled`, `MbWaitingIsInFlight`, `MbOwnResult` | a call is in one list or one batch until it is over, in none that nobody flushes, and gets its own result |
| `MbEveryCallAnswered` | | every call is answered or cancelled |
| `StEndsSettled` | `StEnds`, `StSettled` | a removal ends although the tree is deeper than the semaphore is wide; nothing of it goes on afterwards |
| `HtVerifiedOnce` | `HtNeverUnverified`, `HtOneQuestion` | only hosts that were accepted serve requests; one question at a time |
| `FpSharedSafely` | `FpOwnReply`, `FpRefusedForgotten` | a task reads the reply to its own command; a refused password is forgotten |
| `HwWalksTree` | `HwConfined`, `HwEachOnce` | the walk stays below its root and sees each directory once, in order |
| `AiNotMisled` | `AiTransferFresh`, `AiMoveChecked` | `_transfer_stat` answers for now; a move removes what was compared |
| `PmKeepsClasses` | `PmUserClassKept`, `PmNeverForgotten`, `PmServedAlone` | no backend is lost but by an exception in its import, no registered class replaced; a lookup that meets nobody is served or gets that exception |
| `PaDerives` | `PaOptionsFollow`, `PaCanonical`, `PaJoinsBack`, `PaAbove` of the parent | deriving by re-parsing agrees with deriving names; options stay with their authority |
| `SrBlocksAndReturns` | `SrAllReturn`, `SrOneRunner`, `SrStaysSync` | one runner, blocking results, every call returns |

**`caches`** - three calls, two objects of three versions (sizes 2, 1, 4), two instances
with a budget of 3 and a life of one second or a budget of 1 without one; two tasks over
the listing cache; 3.4 million states up to symmetry.
`CachesTypeOK`. `DcSingleFetch`: one fetch at a time for a key of an instance, no lock
outlives its call, and a call that waited fetches only if nothing was left for it.
`DcMonotonicReads`: no call returns older content than a call that ended before it
began. `DcKeepsLimits` [`DcWithinBudget`, `DcLeastRecentlyUsed`, `DcServedWithinTtl`]:
the byte budget of the instance that kept the last row holds, only the least recently
used rows are evicted and only when needed, and a lookup is served only by a row that was
alive when its thread read the clock, by the ttl of the instance that stored it.
`LcRightListing` [`LcOwnIdentity`, `LcTreeForgotten`]: a listing is served to the identity
that fetched it, unless the environment moved within its fetch, and none of a removed
tree that was asked for before.

**`sync_command`** - seven sets of options of `sync` and `cp`, three files of which two
are in a directory whose listing may be refused, one or two workers, one change of the
source; 2.6 million states.
`EveryItemRunOnce`: no item is lost or run twice between the walk, the bounded queue
and the workers. `ExitZeroMeansCopied`: code 0 means every undisturbed file that was not refused to the walk is there.
`DeletedWasAbsent`: what is deleted was missing from the source at some moment, is
excluded, or was refused to the walk. `EndsUnlessInterrupted`: no wait for a queue nobody serves.

| Violation run | Property | Shows |
|---|---|---|
| `local_copy_alias` | `CpNothingLost` | a move between two spellings of one file unlinks it |
| `tree_move_inside` | `TrNeverLost` | moving a local tree into itself removes originals and copies |
| `base_url_parent` | `PaParentAbove` | with a base URL configured, `parent` contains it twice or leaves the host |
| `sync_exclude` | `DeletesOnlyExtra` | `--delete` removes excluded files that the source has |
| `sync_refused` | `DeletesOnlyExtra` | `--delete` removes what the source has in a directory whose listing was refused |
| `listing_identity` | `LcPerIdentity` | a listing is cached and served under an identity it was not fetched with |

**Bounds.** Two of everything that competes is where each hazard appears: two workers
contend for a read lock, two uploads for the slots (with `Ceiling` = 2 and four
workers the semaphore is exhausted), two writers for a key, two tasks for a client, a
listing, a file; three tasks for a host, so that two wait while one asks. Two parts
give an order to be mixed up; three blocks with windows of two give a short last
window. Four attempts let an attempt resume what another left of an older version,
twice. Three calls let one hit what a second stored while a third waits for the lock;
versions that fill the budget, fit together or exceed it meet every branch of the
eviction. The three versions of a ranged source are one that shows the metadata of
another and one that is shorter. The tree of `SftpTree` is three directories deep with
two slots. Two names and a depth of two let pages of `HttpWalk` link up, down and around.
Paths of six names leave room for a base URL put in front twice. Three files and a
sentinel overflow the queue of one worker. `*MaxCalls`, `*MaxOthers`, `*MaxSteps`,
`*MaxResets`, `*MaxTime` and `MaxChanges` bound how often the environment acts. Of
initial states that differ by a renaming of contents (`LocalCopy`) or services
(`ServiceTokens`), `MCTransfers` takes one; `MCCaches` and `MCBackendUploads` declare
symmetry and check no liveness. The proofs (section 6) hold without these bounds.

**Fairness.** `upload_parts` assumes weak fairness of each coroutine, and of each
worker together with its thread: the event loop runs every ready task, a read of a
local file ends, and a request is answered or times out (the HTTP client has
timeouts), which fails it. Nothing is assumed of cancellations, nor that requests
succeed. `asyncio.Semaphore` and `asyncio.Lock` wake waiters in order, which is more
than the weak fairness used. `MCUploadParts` restricts the run to files nobody changes
while they are uploaded (`StableSpec`). In `backends` the batcher assumes that the loop
runs its scheduled callbacks and that requests are answered, the tree removal the same
of its tasks, and the facade that each thread that can go on does. `sync_command` assumes
weak fairness of the command as a whole: some task that can run does run; requests
are answered or fail. Nothing is assumed of Ctrl-C or of the users of the source.

**Deadlock** is checked in every passing run; the final states are explicit
self-loops guarded by "everything is over" (`Idle`, `UploadsIdle`, `RdStopped`, `Ended`
and the `...Done` or `...Quiet` of each module); `Ended` also covers `Hung` (section 5).

**Mutants.** For every property `PROJECT.json` names an operator that changes one
definition as a plausible bug would (a lock ignored, a counter taken at completion
instead of at the read, a join dropped, a failure skipped, a look before a store
forgotten, ...), under which the run finds the property violated.

## 5. Findings

Shown by the violation runs above, quoted with their lines in `PROJECT.json`.

Met while modelling, not the subject of a run:

* `_file_io` joins a reading thread after a first cancellation, but the join itself
  is not protected (`_transfer.py:115`): when a cancelled `upload_parts` reaches its
  `finally` block, `task.cancel()` hits the joining worker a second time and the
  thread is left behind, although the comment above says that disk I/O is joined
  before the caller can close its file. Hence the hypothesis of
  `JoinedUnlessCancelled`. `OneReader` holds all the same.
* `gcs_upload_chunk` takes every 308 for success and does not read its Range header
  (`gcs.rs:1060-1062`): after a chunk the server kept only in part the rest of the session
  is refused, and the call may return although no object was created. `UploadIsAtomic` and
  `SessionIsPrefix` exempt what was so `misled`.
* The ranges of one download attempt carry no condition on the identity probed at its
  start, and nothing is compared after the last one (`cloud.py:582`): an object that is
  overwritten meanwhile can leave windows of two versions in the destination. What
  `_resume.py` says of changed objects is about resuming, and `RdNoStitchAcrossAttempts` is
  about that.
* `batch_fire!` gives the first error of a batch to all its callers (`backend.rs:411`): a
  call of `unlink(missing_ok=True)` whose own delete was refused may get, and swallow, the
  `FileNotFoundError` of another item. `MbOwnResult` is about results, not about errors.
* A file that shrinks after `stat` leaves a GCS session incomplete: every chunk is
  answered 308, which is taken for success (`gcs.rs:1061`), and the call returns
  although no object was created. `CloudInit` therefore has `parts = declared`.
* Without an ETag or Last-Modified a download is resumed by size alone
  (`cloud.py:569`); `RdHasIdentity` is TRUE in the runs.
* A failed atomic copy leaves its temporary file when the copy itself, rather than
  the commit, fails (`_transfer.py:344`).
* Two moves of which one removes what the other has just taken for an identical
  destination lose the content; `CpNothingLost` assumes `CpNoCrossing`.
* A second cancellation inside the `except` block of the S3 upload leaves the
  multipart upload open; `NoOrphanUpload` exempts it (`cut`).
* A server-side copy that answers 200 with an error in its body (S3), or 202 while it
  is pending (Azure), counts as made, and a move then removes the source; `Moves`
  records it as `mvLied` and `MvNothingLost` exempts it.
* A source streamed with a chunk size below `min_range_size` is read without a
  condition on its version and not compared afterwards (`_transfer.py:181`).
* A move to an Artifactory path object that was asked before rests on that answer: a
  source changed since may be taken for equal to the destination and removed
  (`artifactory.py:303`); `AiMoveChecked` exempts it.
* A listing whose answer is on its way while its tree is removed is cached afterwards
  (`cloud.py:751`); `LcTreeForgotten` exempts it (`late`).
* Cached reads have the window of `listing_identity` too: the key is made (`cloud.py:438`)
  before the request takes its credentials. `DownloadCache` has one identity.
* Old rows keep their expiry and may exceed the limit when `configure_cache` lowers ttl or
  size limit, until a row is kept under the new one; and a row may be served that expired
  while its lookup waited for the write lock, for which SQLite waits up to 60 seconds
  (`cache.rs:102`, `cache.rs:126`).
* Two sources with one name, `mv a/x b/x dir/`, are moved concurrently to one target and
  one is lost (`cli.py:1442`); `CmSharesTarget` exempts them.
* After Ctrl-C a command may hang (`Hung` of `WorkerPool`): cancelled workers end
  without taking sentinels, the `finally` block of the producer puts them
  (`cli.py:392`) into a queue that is full, or a worker whose item swallowed the
  cancellation (`except BaseException`, `cli.py:333`) waits for a sentinel that a
  cancelled producer no longer puts. A worker that swallowed it goes on with further
  items until then.
* `sync --delete` deletes even when copies have failed (`cli.py:2148`), and a source
  directory that vanishes during the walk counts as empty (`_collect_files`,
  `cli.py:1879`), so that its files are deleted from the destination;
  `DeletedWasAbsent` allows both.
* A directory of an FTP source whose listing is refused (`ftp.py:513`) is skipped by `sync`
  and `cp -r` without a word, and the exit code is 0; `ExitZeroMeansCopied` exempts its
  files (`refused`).
* What is added to a local tree behind the walk of its move is removed with the tree
  (`local.py:413`); `TrKeepsTree` exempts it.
* A `get_or_fetch` that is cancelled while it stores leaves its thread behind, which
  may store older content over newer (`cache.py:85`); `DcMonotonicReads` exempts runs
  with such a cancellation (`dcDisturbed`). The same holds for two instances of one
  file, which do not share locks.
* `_start` of the synchronous facade has no lock (`sync.py:51`): two threads make two
  loops, or start one thread object twice, and a progress callback that calls the facade waits for its own thread
  (`sync.py:61`). The triples of `walk()` are not wrapped (`sync.py:164`).
* A protocol is popped from the pending ones before its module is imported
  (`asanypath.py:53`): another thread that missed it, before the pop or after it, gets
  `UnsupportedProtocolPath`, and the walk of the map for a base URL may raise
  `RuntimeError` (`asanypath.py:121`). An exception that ends the import, also one that
  would not come again, loses the protocol for the rest of the process
  (`asanypath.py:56-59`); `PmNeverForgotten` exempts it (`pmLost`).
* Below a base URL whose host has no dot, `..` can leave the base URL; `PaCanonical`
  leaves it out for such hosts.
* `update_access_policy` of an SFTP path that came from a listing changes the mode the
  listing showed and writes that back (`ssh.py:434`, `ssh.py:533`): a grant made since is
  undone. `RfGrantsKept` exempts it. The proof showed this: the invariant
  was not inductive, and the two calls of the run are too few to break it.
* `replace` over SFTP unlinks the target before it renames (`ssh.py:720`), and by itself
  removes the file; FTP `mkdir(exist_ok=True)` takes every refusal for "exists"
  (`ftp.py:457`).
* A cancelled FTP operation leaves its reply unread on the pooled client, and the next
  one takes it for its own (`ftp.py:281`); `FpOwnReply` exempts it (`fpRaced`).
* `iterdir` over HTTP marks the path as a directory before its request is answered
  (`http.py:411`).

## 6. Proofs

TLAPS proves the following for any number of tasks, files, parts, calls, versions, names
and other constants that the assumptions allow; a run checks the same property on a
small instance. No theorem assumes fairness or a bound on how often the environment
acts, beyond that each `*Max*` is some number.

| Module | Theorem | Property |
|---|---|---|
| `UploadPartsProofs` | `TypeCorrect` | `TypeOK` |
| | `ReadsAlone` | `OneReader` |
| | `SourceOrder` | `NumberedInSourceOrder` |
| | `Settled`, `Joined`, `LeavesNothing` | `SettledWhenReturned`, `JoinedUnlessCancelled`, and `NothingLeftBehind` from the two |
| | `BudgetKept` | `BudgetExact` |
| | `Complete` | `CompleteWhenOk` |
| | `Unstuck` | `NeverStuck`, the safety half of `EveryUploadReturns` |
| `BackendProofs` | `UploadsAreParts` | `UploadsSpec => Spec`: the composition behaves as `UploadParts` does |
| | `InStep` | `ServerInStep` |
| | `UploadsAtomic` | `UploadIsAtomic`: the uploads implement `AtomicUpload` |
| `TransferProofs` | `OffsetKept` | `RdOffsetMatchesPart` |
| | `ResumedRight` | `RdResumesRight`, if `RdHasIdentity` |
| | `OneVersionRead` | `RtConsistent` |
| | `ProgressAddsUp` | `PgConsistent` |
| | `RightToken` | `TkRightToken` |
| | `ReportsTruly` | `CmReportsTruly` |
| `FileProofs` | `ContentKept` | `MvKeepsContent` |
| | `TreeKept` | `TrKeepsTree` |
| | `NeverMixed` | `CfNeverMixed` |
| | `KeepsFiles` | `RfKeepsFiles` |
| | `LocalKept` | `CpKeepsFiles`, if `CpNoAlias` |
| | `TransfersTyped` | `TransfersTypeOK` |
| `CacheProofs` | `SingleFetch` | `DcSingleFetch` |
| | `MonotonicReads` | `DcMonotonicReads` |
| | `ServedWithinTtl`, `LimitsKept` | `DcServedWithinTtl`, and `DcKeepsLimits` of which it is a part |
| | `RightListing` | `LcRightListing` |
| | `CachesTyped` | `CachesTypeOK` |
| `ConnectionProofs` | `VerifiedOnce` | `HtVerifiedOnce` |
| | `SharedSafely` | `FpSharedSafely` |
| | `AnswersMatch` | `MbAnswersMatch` |
| | `WalksTree` | `HwWalksTree` |
| | `RemovalSettled` | `StSettled`, the safety half of `StEndsSettled` |
| | `FacadeIsBlocking`, `CallsAreServed` | `SrOneRunner`, `SrStaysSync`, and `SrServed`: the safety half of `SrBlocksAndReturns` |
| | `PathsDerive` | `PaDerives`, if `PaRegularUsers` |
| | `NotMisled` | `AiNotMisled` |
| | `KeepsClasses` | `PmKeepsClasses` |
| | `BackendsTyped` | `BackendsTypeOK`, if `PaRegularUsers` |
| `CommandProofs` | `RunOnce` | `EveryItemRunOnce` |
| | `ZeroMeansCopied` | `ExitZeroMeansCopied` |
| | `OnlyAbsentDeleted` | `DeletedWasAbsent` |
| | `NoHangUnasked` | `HangsOnlyInterrupted`, the safety half of `EndsUnlessInterrupted` |

**Assumptions.** Each module of the model states what it takes of its constants
(`BudgetAssumption`, the checks of `TransferBudget.__init__`; `SizeAssumption`: a file
has some parts; `PoolAssumption`: there is a worker; `RtAssumption`: versions are not
empty; `StAssumption`: nodes have a directory, not that they form a tree; and so on:
numbers are numbers, sets that are counted are finite, values that stand for nothing are
no values). TLC evaluates them in every run. Four theorems have a hypothesis, each
because the code does not keep the promise without it:

* `RdHasIdentity`: the server names the versions of its objects. Otherwise a download is
  resumed by size alone (section 5).
* `CpNoAlias`: no two paths are one directory entry. `local_copy_alias` shows the loss
  otherwise; `transfers` has `NoAlias`.
* `PaRegularUsers`: base URLs are written without `..`; a user who has set some takes no
  parents and goes up (`..`) only when their hosts look like hosts. `base_url_parent`
  shows what `parent` gives otherwise. The users of `backends` are regular.

**Uploads.** None of the properties of `UploadParts` is inductive. `OneReader`, for
instance, is not a consequence of the read lock alone, because a worker cancelled twice
gives the lock back while its thread still reads: it holds because such a cancellation
reaches all the workers of the file at once, so that none of them reads again. `IndInv`
states this and what else is needed, for each upload separately: `WorkersFollowJob`,
`StopTogether` (a stopped or joining worker means all are leaving), `ThreadsAndLock` (a
thread belongs to the holder of the lock or to a worker that left, and there is at most
one), `NumbersFollowReads`, `PartsNumbered`, `OnlyCancelAbandons`. One lemma per action
shows that it preserves the invariant of the upload that takes the step; `FrameKeeps`
and `OneUploadMoves` settle the others. `BudgetKept` counts the holders of slots, a
finite set that each step changes by one element at most; `Complete` adds `Accounted`:
each part that was read is uploaded, in the hands of a worker, or its worker has failed,
and then the call raises.

`BackendProofs` first shows that each step of the composition is one of `UploadParts` or
leaves it alone, so that the properties above hold there (`PartsInv`). `BkInv` then
says, per protocol, what the server has: `S3Inv` (which multipart uploads are open, for
which call, and why), `AzInv` (an uncommitted block is the part its id names), `GcInv`
(a session holds a prefix of the file, at most one chunk ahead of the offset the client
knows and, unless the upload was misled, not behind it). From it each step that changes the object is one `Replace` of `AtomicUpload` by
the whole of one file, a call that returns normally has made its own, and every other
step is a stutter or an end of a call: the refinement, step by step.

**Content on its way.** `RdInv`: the buffer and the part file of an attempt hold what it
has counted (`RdStreams`), the sidecar names what the part file is of (`RdIdentified`),
and the blocks belong to it (`RdBelongs`), through kills at any step. `RtInv`: the tasks
belong to the batch (`RtTasksOfBatch`), its windows tile the rest (`RtWindows`), and all
that was read and yielded is of versions that the condition on the ranges lets pass
(`RtReads`, `RtOneVersion`). `MvInv` ties the step a move is in to what it holds and
what the destination must be (`MvWays`, `MvHolds`, `MvIntact`). `TrInv`: a file is at
the source or has arrived (`TrKept`), and so has what the walk of a local source has
passed (`TrVisited`). `CfInv` says, per handle, which part of the object its window or
spool is (`CfStands`). `RfInv` ties the request a task waits for to what the server has,
as long as nobody else has touched its paths (`RfCallFits`). `CpInv` is about directory
entries and inodes: an inode being written has one writer and no entry but a temporary
one (`CpUnseen`), what stands is whole (`CpFilesWhole`), each content that was there at
the start is still somewhere (`CpKept`), and a call that is about to remove its source
has put it elsewhere (`CpMayRemove`).

**Caches.** `DcInv`: who is inside a fetch or store has the lock of its instance
(`DcLocks`), undisturbed runs have one instance in use (`DcOneInstance`), ended calls
leave nothing (`DcNothingLeft`), and rows, fetched data and what ended calls returned
are ordered by version (`DcOrder`). `DcFit` is the budget as a sum over a finite set of
rows: that an eviction in the order of access keeps it, and takes no row too many, is
proved from lemmas about sums (`DcSum*`) that are shown by a smallest counterexample.
`DcStamped` says that each row expires by the time and the ttl with which it was stored,
whatever the settings are now and however long a thread waited for the lock. `LcInv`:
what the memo of a path holds is the digest of the environment it names
(`LcMemoHonest`), so a call has the identity of the environment it began in, and a
listing is stored and served under it (`LcCallsHonest`, `LcEntriesHonest`), with the
credentials of that environment unless it moved. `AiInv` keeps for each running call
what its item has held since it began (`AiWatches`), of which what it rests on is one
(`AiOwn`, `AiAsks`, `AiMoves`). `PmInv`: an installed class that is not lost and neither
pending nor in the map is in the hands of a thread, and a lookup that met nobody finds
its protocol pending or in the map.

**Sessions and requests.** `HtInv`: the holder of the lock is the one that asks, about a
host nobody knows (`HtAskedAlone`). `TkInv`: what the environment, the process, the
keyring and each path object remember is the service's own (`TkEnvsFit`, `TkKnownFits`,
`TkObjectFits`). `FpInv`: the wire of a client holds the awaited reply and nothing else
(`FpInOrder`), because a client is used under the lock of its key (`FpAlone`,
`FpClientsFit`). `MbInv`: a call that waits is in one place, once, and its batch has its
own outcome (`MbOutcomesKept`, `MbCaller`). `HwInv`: the stack is a path down from the
root (`HwPath`), and what is still to be visited is beside it and was not listed
(`HwFresh`). `StInv`: the task of a node was begun by its directory, which waits for it
(`StBegun`, `StWaited`); a node that hangs on no way up to the root is never begun
(`StFromRoot`). `SrInv`: only the thread with the lock makes the runner, and once; the one
loop that was made runs, or the thread that made it is about to run it (`SrLoopRuns`).

`PaInv` says that the text of the current path means the path: expanding it puts no base
URL in front (`PaGood`). The library drops `..` by a recursive function over the text;
`PaUpIs` characterises its result by any run of its steps, and from it follow what it
does to clean texts (`PaUpClean`), to a path followed by a way back (`PaUpBack`), and
that the way `relative_to` finds leads to the path (`PaWayLeads`).

**Command line.** `PoolInv`: an item is in the stream, the producer's hand, the queue, a
worker, or counted as done or failed, and in one of them only (`PoolApart`); the
sentinels come last, and one is left for every worker that still runs, also after Ctrl-C
while the workers are gathered (`PoolFlow`). So the queue is empty when a worker waits
for it, the producer has room then, and when it is over every worker had its sentinel:
somebody can always go on (`GatherGoesOn`). In the shutdown after Ctrl-C the count no
longer holds, and the ways in which nobody goes on are the two of `Hung`
(`ShutdownGoesOn`). `CmdInv` adds where each file is in the course of the
command: what the walk has not seen, what waits for a copy (`CmdCopies`), and why a file
is to be deleted, the refused listings included (`CmdDeletes`), while others change the source (`CmdWorld`). `CmInv`:
what `mv`, `cp` and `rm` have reported done so far is done (`CmDoneSoFar`), and the exit
code is the failures' (`CmExitZero`).

**Types.** The modules that compose components for a run have one type invariant each,
and most of it follows from the invariants above. What remains are bounds that need an
argument: a batch holds no more callers than there are, because each is in one place
(`MbBatchIsShort`); locks and loops are numbered by the tasks that have not made theirs
yet (`FpNumbers`, `SrCounted`); a question about a host key that was abandoned was asked
(`HtCounted`); rows of the cache differ in their keys and in the time of their last
access (`CachesTyped`); a download counts within what it probed (`RdBounded`), a handle
stands within its object (`CfStill`), local copies are not longer than a file
(`CpShort`); a path object has only answers for its own item (`AiServed`). `SuiteInv`
takes them together: a behaviour of `MCBackends` runs one component, and the others stay.

**Only model-checked.** Liveness, for which the prover has neither fairness nor ENABLED:
`MbEveryCallAnswered`, and the liveness halves of `EveryUploadReturns`,
`EndsUnlessInterrupted`, `StEndsSettled` and `SrBlocksAndReturns`. And the violation runs, where the
program does not do what it says.

## 7. Not modelled

* The native request layer (retries, redirects, pages of a listing, the connection pool
  of `ssh.rs`): the operations above it take every request to succeed, to fail, or to
  fail after it was processed, which is what its retries amount to.
* `put` batches and the choice of HTTP version in the batcher; single PUTs of files below
  one part; plain operations of one request (`stat`, `exists`, permissions over HTTP,
  FTP listings).
* `touch` and `unlink` over HTTP, two requests each with nothing held in between.
* Metadata operations of local files (`chmod`, links, `glob`), which are calls of the
  operating system.
* Commands that print (`ls`, `stat`, `cat`, `presign`, `checksums`, `auth`, completion),
  formatting, the benchmark scripts.
* Options, credential lookup beyond tokens, prompts, request signing and XML: text and
  configuration without state that two actors share. Globs, suffixes and comparisons of
  paths are single string functions.

Timing is abstracted to nondeterminism: a timeout is a request that fails. Servers are
modelled only as far as the client uses them.
