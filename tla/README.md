# hippius-hub: a TLA+ verification project

hippius-hub is a client for an OCI registry that stores model repositories. A
revision (an OCI tag) names one *manifest*; the manifest lists *layers*; a file is
either one titled plain blob or a titled *pointer* layer followed by the untitled
*pack* layers that hold its content-defined chunks (the chunked-v2 layout). The
Python package `hippius_hub/` holds the control flow, the Rust extension
(`src/*.rs`) moves the bytes. The server (Harbor) is not part of the repository.

## 1. Inventory

| Component | Source | State it keeps | Operations |
|---|---|---|---|
| Commit protocol | `hippius_hub/file_upload.py` | manifest fetched, new layers, `exclude_packs`, retry counters | `upload_file`, `upload_folder`, `_put_manifest`, `_commit_with_blob_reupload`, `_finalize_upload_manifest` |
| Layer algebra | `file_upload.py`, `_oci.py` | none (pure) | `_partition_groups`, `_merge_layers`, `group_files` |
| Packing | `_packing.py` | open pack, plan, `_seen` | `feed`, `_close`, `finish`, `resolve_pointer_chunks` |
| Config-blob cache | `file_upload.py` | `_config_blob_present` | `_ensure_config_blob_uploaded`, eviction in `_put_manifest` |
| Chunk pipeline | `src/uploader/cdc.rs`, `stream.rs` | work, done, ctrl and out channels, reorder map, stream state | `produce_chunks`, `hash_worker`, `collect_batches`, `next_msg`, `abort`, `finish` |
| Pack upload | `src/uploader/pack.rs` | in-flight slot map, completed set | `put_pack_single_flight`, `pack_upload_async` |
| Resumable blob upload | `src/uploader/blob.rs` | client offset, session, stall and retry counters | `upload_blob_async`, `chunked_patch_upload`, `session_offset`, `close_chunked_upload` |
| Write watchdog | `src/uploader/watchdog.rs` | last-frame stamp, done flag, `done_at` | `send_streaming_watchdogged` |
| Range download | `src/chunked_downloader/` | join set, per-range retries, destination file | `download`, `run_chunk_fanout`, `try_download_chunk_to_offset` |
| Pack download | `src/chunk_fetcher/` | permits, join handles, destination file | `assemble`, `fetch_pack`, `verify_and_scatter` |
| Incremental hash | `src/incremental_hash.rs` | pending extents, watermark, hashed | `incremental_hash` |
| Download cache | `file_download.py`, `_snapshot_download.py` | blobs dir, snapshot links, temp files | `hf_hub_download`, `_download_to_cache`, `_create_symlink` |
| Token cache | `auth.py`, `_token.py` | `_OCI_TOKEN_CACHE`, saved token file | `get_oci_bearer_token`, `call_with_oci_token_refresh`, `clear_oci_token_cache` |
| Python bindings | `src/lib.rs` | the mutex of a `ChunkStream`, the shared runtime | the native entry points, `next_batch`, `finish`, `run_interruptible` |
| Diagnostics probe | `src/diagnostics.rs`, `diagnose.py` | the report being built | `probe_blob`, `split_ranges`, `timed_get_range` |
| HTTP retry | `_http.py` | shared client | `request_with_retry` |
| Repository operations | `_repo_ops.py`, `hf_api.py` | none | delete, list, info, tags |
| Console and CLI | `cli.py`, `console.py`, `_harbor.py`, `_update_check.py` | none | request/response wrappers |

### 1.1 How the parts interact

* `upload_file` / `upload_folder` run inside `call_with_oci_token_refresh` and
  `_commit_with_blob_reupload`. They read the tag's manifest (`fetch_manifest`), chunk
  large files (Chunk pipeline, a Rust thread behind a Python iterator), group the
  chunks into packs (Packing), upload the packs from a thread pool (Pack upload →
  watchdogged PUT) and small files through a resumable session (Resumable blob upload
  → watchdogged PATCH), overlap the config blob in a thread of its own, merge the
  layer lists (Layer algebra) and PUT the manifest under `If-Match`.
* `hf_hub_download` / `snapshot_download` read a manifest, download into a temporary
  file — Range download for a plain blob, Pack download for a chunked one, either with
  the Incremental hash thread reading behind the writers — and move the result into
  the cache directory that other threads and processes share.
* Python reaches the Rust parts through the bindings. Every call gives up the GIL for its
  work; threads may share a `ChunkStream`, and only the main thread is told of Ctrl-C.
* State is shared through the registry (blobs, sessions, the tag), through the file
  system (the cache, the saved token) and inside a process (config-blob set, slot map,
  completed packs, token cache, the two global download gates).

### 1.2 What is hard

| Behaviour | Where |
|---|---|
| Several writers of one tag, PUTs that are retried, time out or arrive late | `_put_manifest`, `_finalize_upload_manifest` |
| Blobs accepted but not yet visible, or lost again | `_put_manifest`, `_commit_with_blob_reupload`, `put_pack_single_flight` |
| Partial PATCHes, late PATCHes, expired sessions, the ambiguous `Range: 0-0` | `chunked_patch_upload`, `session_offset` |
| Abandoning a pipeline whose bounded channels are full | `run_chunk_pipeline`, `ChunkStreamCore` |
| A hasher that reads a file while it is being written, and waits for extents that may never come | `incremental_hash` |
| Aborted tasks whose blocking writes go on | `assemble`, `try_download_chunk_to_offset` |
| Unlocked clocks and flags, late timers | `send_streaming_watchdogged` |
| The GIL, a mutex and the join of a thread, waited for by several Python threads; Ctrl-C while a read or a server is silent | `ChunkStream`, `run_interruptible` |
| A cache that is cleared while other threads fetch and store; tokens that die between lookup and use | `get_oci_bearer_token`, `call_with_oci_token_refresh` |
| Resolvers, hosts and servers that say nothing, hide the size or ignore `Range` | `probe_blob` |
| Processes that die between creating, placing and linking a file | `_download_to_cache`, `_create_symlink` |

The full list, each at its line, is `hazards` in `PROJECT.json`.

### 1.3 What makes each component correct

| Component | Correct when |
|---|---|
| Commit protocol | an upload is one atomic edit of the current files; acknowledged files stay; a published manifest names only uploaded blobs; an upload ends |
| Layer algebra | editing the list edits exactly the named files' groups |
| Packing | the pointer reads back as the file; an error leaves nothing running |
| Chunk pipeline | chunks come in file order, all of them or an error; every thread returns |
| Pack upload | success means stored; one body per pack; no slot leaks; every call returns |
| Resumable blob upload | no byte skipped; success means stored; the retry budget is what it says; it ends, if its closing PUT is answered |
| Write watchdog | only stalled transfers are cut, to within one check, and all of them are |
| Range and pack download | success means the right bytes and their digest; failure has a cause; everything ends |
| Download cache | readers see whole files only; a path that was returned stays readable; a snapshot is of one manifest |
| Token cache | a call uses a token of its own registry, access and credential; its repetition one issued after the refusal; every call returns |
| Python bindings | stream calls return however threads share the stream; Ctrl-C ends what the main thread waits for and leaves no task behind |
| Diagnostics probe | it ends; its parallel ranges cover what the single stream read and stay inside the blob; a failed range costs its own line only |

## 2. Plan

Order, most important first. Done in this version: 1–11.

1. `Revision` (abstract specification), `ManifestCommit` (refines it), its proofs.
2. `Packing` and its proofs, `Layers`: the data the commit publishes.
3. `BlobSession`, `SingleFlight` and their proofs: how blobs get to the registry.
4. `ChunkPipeline`: where chunks come from.
5. `IncrementalHash`, composed into 6 and 7.
6. `RangeDownload` and its proofs.
7. `PackDownload` and its proofs.
8. `DownloadCache` and its proofs, on top of what 6 and 7 promise.
9. `Watchdog` and its proofs: why sends end, which 3 assumes.
10. `NativeCalls`, composed with 4, and its proofs: how Python threads use the native code.
11. `TokenCache` and `Probe` and their proofs.
12. `TagList`: the paging loop of `_list_tags` against repeated and missing links.
13. Proofs next: that `_merge_layers` edits the list as `MergeLayers` edits the map, for every list; that
    the hasher's reorder buffer holds no two extents with one start, so that `Insert` never overwrites.

Composition: `ManifestCommit` instantiates `Revision` with a refinement mapping;
`RangeDownload` and `PackDownload` extend `IncrementalHash`; `ManifestCommit`'s map of
groups is checked against `Layers` at every commit, its packs come from `Packing`; `NativeCalls`
extends `ChunkPipeline`; `DownloadCache` uses the outcomes
of the two download modules; the fairness of the upload modules rests on `Watchdog`.

## 3. Modules and the code

Every definition that stands for code is in `map` of `PROJECT.json` with its lines.
Operators commented "Mutant:" are deliberately wrong variants; no specification uses
them. They record which mistake each property would notice.

**Revision.** State: the files of the tag, and each call's outcome. An upload is one
`Commit` (its titles replaced, the deleted ones removed, the rest untouched) and returns in
that step; a call that gave up may still take effect, since its answer may have been lost.

**ManifestCommit** (`file_upload.py`). A writer's `pc` follows `_op`: `fetch` (manifest and
dedup index), `upload` (`UploadPack`, `UploadFile`: the pointer last), `finalize` (a folder upload
reads the manifest again), `put`. `prior` is the manifest of the dedup index, `base` the one
merged into, `ifm` the If-Match digest, `att`, `heal`, `excl` and `refreshed` the retry state of
`_put_manifest`, `_commit_with_blob_reupload` and `call_with_oci_token_refresh`. The config thread is
`cfg`; one that outlives its run goes on as a member of `stray`. The registry is external:
`visible` and `lagging` blobs (accepted, not yet seen by validation), `late` PUTs that it
carries out after the client stopped waiting, and `Lose`. `Accepts` is the registry's
validation: one with `Validates = FALSE` may take a manifest that names unknown blobs, so
only the client's own order protects the tag. A manifest maps titles to layer groups; a
digest is the number of the commit that built it, so digests never repeat.

**Layers** (`_partition_groups`, `_merge_layers`, `_assemble_manifest`, `group_files`). Operators on the
list of layers as the code has it. `ListFollowsMap` (in `MCManifestCommit`) compares what they make of
every manifest an upload is about to PUT with the map `ManifestCommit` works on, for every order
of the prior list.

**Packing** (`PackAccumulator`, `_upload_file_chunked_v2`). `Feed`, `Finish` and `Publish` are the main
thread; `StartUpload`, `EndUpload` the pool; `UploadFails`, `StreamFails` (an error of the stream, or Ctrl-C,
while feeding or collecting) and `Joined` the unwinding of the with-block; `PointerFails` is the pointer
upload that fails after it. Chunks have sizes, packs are byte sequences, a digest is the bytes.

**BlobSession** (`blob.rs`). `Post`, `Patch…`, `Status…`, `Close…`, `Mono…` are the answers the client can
get; `LatePatch`, `LateClose` and `SessionExpires` are the registry carrying on by itself. `Outer` is
the restart with a fresh session. `faults` counts transient faults for the budget property.

**SingleFlight** (`pack.rs`). Per thread: take or create the slot, lock, completed set and HEAD
probe, PUT with retries, unlock, drop the entry — separate steps, as the guard and the
lease are.

**ChunkPipeline** (`cdc.rs`, `stream.rs`). One process per thread, bounded sequences for the
channels; an end of a channel is dropped when its thread exits. The stream's state machine
(`NextMsg`, `Joined`, `Abort`, `Drop`) is driven by `NativeCalls`; the file may be unreadable from some
chunk on (`bad`), or a read may never return (`hang`).

**NativeCalls** (`lib.rs`). `at` says where a Python thread is: it wants the GIL, has it, or is
inside `py.detach`. `lock` is the stream's mutex. `NextBatch` is one round of the loop of
`next_batch`, `PollStream` its look for Ctrl-C with the mutex held; `Transfer` is `run_interruptible`
for any of the four transfers, whose tasks `parts` end or not; `BlockOn` stands for the two calls that
cannot be interrupted. What the calls do is in the modules of those components. The interpreter
(`TakeGil`, `YieldGil`, `RaisedInPython`) is external.

**IncrementalHash, RangeDownload, PackDownload.** The hasher reads one byte per step, the
finest interleaving. In `RangeDownload` byte k of the blob is the number k; each piece's task
goes through gates, answer checks, buffered writes, flush, retry; a task that gives up may
leave a write that lands later. In `PackDownload` the registry also chooses the pointer
document and may serve wrong bytes; aborting leaves blocking writes as orphans.

**DownloadCache** (`file_download.py`, `_snapshot_download.py`). Calls of two processes with temporary
files, `Rename` to the blob (or `Discard`), `Replace` for local directories, hits, failures, token
refresh, and the snapshot's pool. `_create_symlink` is a step per system call: an entry is made under
a temporary name (`SymLink`, `HardLink`, `CopyStarts` and `CopyEnds`), an `OSError` unlinks it and tries the
next kind (`FallBack`), `Swap` is the `os.replace`, and an error that nothing catches leaves what there is
behind (`PlaceFails`). That a single `os.replace` is atomic is the file system's promise; that the code
needs nothing else is what is checked. A copy has the bytes the blob has when it ends. `Crash` kills a
process at any step.

**TokenCache** (`auth.py`, `_http.py`). A call's steps are separate: read the clock and look up
(`Call`, `Lookup`), fetch with bounded retries, store, operate; a first 401 goes through `Clear` and
a lookup that bypasses the cache. `CallWith` starts from another call's token. The registry is
external: it issues tokens, which die after `Lifetime` or at a `Restart`. `repo_id` is part of the code's
cache key; the model has one repository.

**Probe** (`diagnostics.rs`). The future of `probe_blob` from lookup to report. `ProbeInit` chooses the blob's
size, whether its server honours `Range`, what becomes of the lookup and the arguments; the
other answers are chosen as they come. Times are left out.

**Watchdog** (`watchdog.rs`). Discrete time; a check is three steps: `WakeUp` reads the clock, `LoadDone`
the flag, `Decide` the stamp, and acts. The timer may be late by `Lag`, and so may the end of a check;
frames, the end of the body and the answer come in between.

`Watchdog`, `SingleFlight` and `Probe` share a module of proofs with another component, so their
specifications have names of their own: `WatchSpec`, `FlightSpec`, `ProbeSpec`, and likewise for the
initial states and next-state relations. No module composes them with that component.

## 4. Runs

| Run | Shows | Instance | Distinct states |
|---|---|---|---|
| `commit_race` | `Atomic` (refinement of `Revision`), `Guarded`, `AckedFilesStay`, `GroupsClosed`, `NothingDangles`, `ListFollowsMap`, `ExclusionHeals`, `Termination` | two scenes: a folder upload that replaces a chunked file and deletes another against a file upload, in one process, with two PUT retries, late PUTs, one token expiry and a registry that need not validate; and the folder upload alone with a lost blob, a re-run and an expiry | 131,410 |
| `first_writers` | a **violation** of `AckedFilesStay`: see 6 | two uploads that find no tag | – |
| `packing` | `ReadsBack`, `NothingLeftBehind`, `Ends` | all files of up to 5 chunks over 4, one already stored; packs of 2 bytes; 2 workers | 132,596 |
| `blob_session` | `ResumeSafe`, `Acknowledged`, `Survives`, `Ends` | blobs of 0 to 4 bytes, chunks of 2, 3 retries, with and without PATCH support and session expiry | 24,369 |
| `pack_flight` | `OkMeansStored`, `OneBody`, `CallsReturn` | 3 threads, 4 calls, 2 faults, 1 loss | 80,176 |
| `native_calls` | `StreamsFile`, `FailsForCause`, `Unwinds`, `StreamCallsReturn`, `InterruptEnds` | three scenes: one thread and a file of up to 3 chunks, 2 workers, channels of 1, batches of 2, unreadable files; two threads on one stream whose reads may never return; transfers next to a stream that gets no byte; one Ctrl-C | 62,176 |
| `range_download` | `DigestOfDisk`, `CompleteUnverified`, `FailsForCause`, `Ends` | six cases: empty blob, chunk size 0, one to three pieces, corrupting server, late writes; 1 retry | 271,199 |
| `pack_download` | `OnlyTheFile`, `Ends` | 3 chunks in 2 packs, five bad pointers, corrupt packs, 1 retry | 18,077 |
| `download_cache` | `ReadersSeeWhole`, `ReturnedPathsStay`, `SnapshotConsistent` | 4 calls in 2 processes, one forced, one to a local directory, a snapshot pool of 2, every fallback, two manifests of which one lacks a file, one move of the tag, one crash | 2,395,400 |
| `watchdog` | `CutsOnlyStalled`, `HangBounded` | up to 3 frames, limits of 4 and 6, checks every 2, lag 1 | 91,988 |
| `probe` | `InsideBlob`, `PartialReport`, `ProbeEnds` | blobs of 0 to 4 bytes, probes of 0 to 5, up to 3 connections, 2 addresses | 99,324 |
| `token_cache` | `TokenFits`, `RetryIsFresh`, `CallsEnd` | 2 threads, 3 calls, pull and push at the default registry and pull at another, with and without a saved login; one restart, one tick that ends a token's life, 2 attempts, no leeway | 822,561 |

Why the bounds suffice. Two writers are the smallest race, and `Guarded`, which the proof
shows inductive for any number of them, speaks of one writer at a time. One loss and one
re-run reach every branch of the healing loop, its exhaustion included; the counters have
the shape "below the limit / at the limit". Two chunks of a blob and a short last one reach
all offsets `session_offset` can report, 0-0 for a session of one byte included. Three chunks and
batches of two fill every channel of one place and end in an empty, a partial or a full batch.
A mutex and the GIL can only be waited for in a circle by two threads or more, and two reach
every pair of stream calls. Three calls let one thread put back a token that another one's
refusal has cleared while a third call looks it up; the leeway only makes entries stale sooner,
so without it more tokens are found dead. A probe above the largest blob and more
connections than bytes reach every way `split_ranges` can round. Three
pieces exceed the window of two. Two processes and a snapshot pool give all pairs of calls
on one entry. `download_cache` takes states for one that differ only in the locals and leftovers of calls
that have ended (`View`), which no step and no property reads.

Two cases the runs do not reach are covered by theorems: a pack reused from the dedup index that has
left the manifest by the time of the merge, and a config blob that is not at the registry from the
start (`ManifestsAreClosed`, `TagNeverDangles`); and, in `token_cache`, calls with different token
arguments (`TokensFit`).

Deadlock is checked in every run but two, where states in which all work has ended stutter
explicitly. `native_calls` really may stop: `chunk_and_hash_native` waits for a read that never
returns. In `token_cache` the calls are bounded.

### Fairness

* Commit protocol: weak fairness of each writer's own steps. Its requests have timeouts
  (`DEFAULT_HTTP_TIMEOUT`), its retries are bounded and its backoffs finite. No fairness is
  assumed of the registry: a lagging blob may stay invisible. `Termination` takes for granted that each
  file's upload ends, which for a plain file means that its closing PUT is answered (below).
* Pack upload, packing: weak fairness of the client's steps. Every request ends by a timeout or by
  the watchdog (`HangBounded`).
* Blob session: weak fairness of every step but the answer to the closing PUT, which has neither a
  timeout nor a watchdog (`blob.rs:437-444`): keepalive ends it when the peer is gone, nothing does when a
  live registry never answers. So `Ends` says that an upload ends or waits for that answer for good.
* Chunk pipeline: weak fairness of each thread (they run, the scheduler is fair). None for
  reads: a read may never return.
* Python bindings: strong fairness of taking the GIL and the mutex, since a thread that
  waits for one that is freed again and again gets it; weak fairness of a thread that has the
  GIL (the switch interval), of a due timer and of a channel that holds a message. None for the
  tasks of a transfer.
* Token cache: weak fairness of each thread; every request has `DEFAULT_HTTP_TIMEOUT`.
* Probe: weak fairness of its one future; every wait in it has a timeout.
* Range and pack download: weak fairness of the main task, of the running pieces and of the
  hasher (reads have an idle timeout), strong fairness of taking a permit, because tokio's
  semaphore is first in, first out, and weak fairness of other downloads giving theirs back.
* Cache and watchdog: only safety properties; `HangBounded` bounds time instead.

## 5. Proofs

All proofs are checked by TLAPS, for every value of the constants that meets the named
assumptions: types of the jobs, distinct sentinels, natural bounds, at least one hash worker
(`cdc.rs:224-226`), pointers with at least one chunk (`_oci.py:238-239`), and a dedup index that tells the
truth. Every run's module evaluates the assumptions of what it extends.
A theorem with a further hypothesis names it in its ASSUME.

| Theorem | Property | Further hypothesis |
|---|---|---|
| `AlwaysGuarded`, `CommitsAreAtomic`, `NoLostUpdate` | `Guarded`, `Atomic`, `AckedFilesStay` | `TagExists`, `DigestHeader` |
| `ManifestsAreClosed`, `TagNeverDangles` | `GroupsClosed`, `NothingDangles` | `InitClosed`: the first manifest was well formed |
| `RerunsHeal` | `ExclusionHeals` | – |
| `NoByteSkipped`, `RetriesSuffice`, `SuccessMeansStored` (`BlobSessionProofs`) | `ResumeSafe`, `Survives`, `Acknowledged` | – |
| `PointerReadsBack`, `FailureLeavesNothing` | `ReadsBack`, `NothingLeftBehind` | – |
| `SuccessMeansStored`, `SentOnce`, `NoEntryLeaks` (`PackingProofs`) | `OkMeansStored`, `OneBody`, – | – |
| `OnlyStalledCut`, `NothingHangs` | `CutsOnlyStalled`, `HangBounded` | – |
| `FileStreams`, `FailuresHaveCause` | `StreamsFile`, `FailsForCause` | – |
| `SuccessIsTheBlob`, `FailureHasCause` | `CompleteUnverified`, `FailsForCause` | – |
| `DigestIsTheFiles` | `DigestOfDisk` | `OneFault`: no server that corrupts bytes together with late writes |
| `ReturnsOnlyTheFile` | `OnlyTheFile` | – |
| `RangesCoverTheBlob`, `EveryRangeReported` | `InsideBlob`, `PartialReport` | – |
| `CacheIsWhole` | `ReadersSeeWhole` | `Trusted`: the registry is honest, or all calls verify |
| `PathsStay` | `ReturnedPathsStay` | – |
| `SnapshotIsConsistent` | `SnapshotConsistent` | `Trusted`; `ToCache`: the snapshot goes to the cache, whose entries the property is about |
| `TokensFit`, `RetriesAreFresh` | `TokenFits`, `RetryIsFresh` | – |

**ManifestCommitProofs.** `TypeCorrect`: the types. `AlwaysGuarded`: `Guarded`, the inductive
invariant. `Atomic` alone is not inductive: whether a PUT will be an exact edit depends on
what was read before it. `Guarded` says for every PUT that is being prepared, sent or late that
either the tag has left the digest of its `If-Match` for good (digests only grow), or it still
names the manifest the edit was merged into (`Fits`), that what a writer has collected belongs
together (`RunConsistent`), and that all PUTs of a writer that returned are dead.
`CommitsAreAtomic`: initial states map to initial states of `Revision` and every step to one
of its steps or a stutter. `NoLostUpdate`: `AckedFilesStay`, from the same invariant. These three
assume `TagExists` and `DigestHeader`: without a prior digest the code sends no `If-Match`, and the
claim is false (6).

The other three need neither. `ManifestsAreClosed`: `GroupsClosed` does not see that a merge takes its
groups from a manifest read long ago or sent late, so `AllClosed` says of `prior`, `base`, `new`, the
manifest built and every late PUT what the property says of the tag; the step is that a file's
layers locate each chunk in the fresh pack or in one a closed manifest holds it in. `RerunsHeal`:
`ExclusionHeals` is about the moment of the PUT; `Heals` says it of every finished file from the start
of the run, and that the files still to do are the rest. `TagNeverDangles`: `AllClosed` and, as long as
`losses` is 0, `BlobsIn`: the blobs of every manifest that is read, built, late or published are
accepted, so is the config blob once anyone has confirmed it (`Confirmed`), and pointers come after
their packs (`PointersLast`). It rests on no validation by the registry.

**BlobSessionProofs.** `TypeCorrect`; `NoByteSkipped` from `Positions` (an open session is never behind
the client, a close is at the end of the file, late PATCHes stay within it);
`RetriesSuffice` from `Paid`: each retry, and the trouble the running attempt is in, is paid for by
a distinct fault. `SuccessMeansStored`: `Acknowledged`, inductive by itself. `Survives` is not inductive because a stall, a 416 or a 404 comes several
steps after the fault that caused it; `Troubled` remembers the debt.

**PackingProofs.** `ReadsBack` speaks of the published pointer, which is built long after the bytes it names
were planned. `PlanInv` says it of every entry of the plan from the moment it is made: the entry
leads to its chunk's bytes, in a pack of the dedup index or at an offset of a pack of this upload,
the open one included, and the open pack's length is `curOffset`. Packs only grow and closed ones
stay (`Grown`), so later chunks disturb no entry; `JobInv` ties the futures to the closed packs in
order, whichever ends first. Bytes of a file or a pack are flattened sequences: the lemmas on
`FlattenSeq` (its length, the place of each part, appending) are proved by induction in set form, from
`NatInd`: a set of numbers that holds 0 and every successor is `Nat`. The assumption that matters is
`IndexAssumption`: the dedup index is truthful, that is, the pack it names holds the chunk where it
says, inside its bounds; `PackingAssumption` adds that the files are sequences of chunks, none of them empty.
`FailureLeavesNothing` adds `EndInv`: unwinding cancels what is queued, and ends when nothing runs.

**PackingProofs, the uploads.** One invariant, `FlightInv`, for the three theorems. `OkMeansStored` needs that the
flag of a slot in use is true of the registry now (`Landed`), which a loss could falsify and a slot
that is handed on keeps. `OneBody` needs `Quiet`, which counts: before the first body every call
shares the entry's slot and none has ended, after it none is at its PUT; and `OneHolder`, the mutual
exclusion of a slot's lock, for the step between. `NoEntryLeaks` needs `Slots`: the entry is the
slot of a call under way, also when several slots of one pack exist.

**NativeCallsProofs.** The specification is the composition, so the stream is proved under every
interleaving of Python threads. `StreamsFile` says what a consumer has; `StreamInv` follows each chunk
from the producer to it: where a chunk that is cut and not batched can be (`Covered`: held, queued,
in a worker, hashed or in the reorder set), that a batch under construction ends at `next`
(`Batching`), that the messages in the three queues continue one another without a gap up to what
was delivered (`Streaming`), and that a terminal message is the last one and says the truth
(`Terminating`). That the collector never stops with a gap needs the order in which threads exit
(`Hashing`, `Feeding`): a worker that is gone while the collector listens leaves no work behind.
`FailuresHaveCause` adds `Causes`: each of the error messages the code calls unreachable is.

**RangeDownloadProofs.** Pieces are disjoint and cover the blob (`Disjoint`, `Cover`, from the
division in `NumChunks`), for any size and chunk size. `FileInv` says of a task with a body how far its
bytes are on disk and in its buffer (`Midway`), of a finished one that its region is right, of an
abandoned write that it carries right bytes (`StrayInv`), so that it may land over anything; with
`Joined = Pieces` after the fan-out it implies `CompleteUnverified` and `FailsForCause`. `DigestOfDisk`
also needs the hasher (`HashInv`): its extents are joined pieces, below the watermark everything
belongs to one, and what it has read is what the file still holds. The key lemma is `SettledStays`: no
step changes a byte of a finished piece, because other tasks write elsewhere and late writes
carry what is there. The last part is false of a server that corrupts bytes, hence `OneFault` (6).

**PackDownloadProofs.** `ReturnsOnlyTheFile` holds for every pointer the registry may send, chunks in the wrong
order and corrupt bodies included; pointers are only assumed to have a chunk, with an unsigned
offset and size each. A pull that reads the file again compares it with the manifest's digest;
one that trusts the hasher must know that what was folded is still there. `HashInv` says so:
the buffered extents and the bytes below the watermark belong to packs that are in, and the
folded bytes are the file's first ones. It is inductive because no step writes to a pack that is in:
the offsets are running sums (`OffsetFacts`), so no byte belongs to two chunks (`RegionsDisjoint`), a retry
writes only its own pack's chunks (`TaskInv`, `TargetFacts`), and orphaned writes come after a failure.

**PackDownloadProofs, the probe.** `RangesCoverTheBlob` rests on arithmetic: dividing and rounding up
twice gives at most `conns` ranges (`NoMoreThan`), none empty, and each byte lies in exactly one
(`CutOnce`); the invariant `ProbeInv` adds that they are cut from what the single stream read, which
is no more than the blob has. `EveryRangeReported` needs that the survivors can be listed in order
(`CanBeListed`, by induction) and that timings and notes together count the ranges.

**DownloadCacheProofs.** `CacheIsWhole` from `WholeInv`: a blob is under its own digest (`BlobsWhole`), an
entry, the temporary ones included once they are complete, leads to a blob that is there or holds
whole bytes, and a call that is about to place, link or replace holds what the revision named under
its title (`Fetching`), whoever else renames, fails or crashes. `PathsStay` holds whatever the registry
sends. `ReturnedPathsStay` is not inductive: that a path stays readable depends on what another call is
about to swap in. `StayInv` says of every call that has made an entry that the entry is readable, of every
call that is making one that its blob is there, and of every call that has returned that its path is;
the steps of others keep this because blobs are replaced but never removed (`BlobsStay`, `ReadableStays`).
`SnapshotIsConsistent` from `SnapshotInv`: the snapshot's calls want what its manifest names, from
their start to their link (`Sharing`), and an entry only they write is of that manifest (`OfManifest`).

**BlobSessionProofs, the watchdog.** `OnlyStalledCut` and `NothingHangs` from one invariant: a check begins when its
sleep is due and ends within `Lag` (`Timely`), what it saw still holds (`Seen`), and the running
sleep began before its phase had run out (`InTime`). `done_at` is the clock of a check that read the flag
afterwards, so it may be up to `Lag` before the end of the body: the bound that `CutsOnlyStalled` gives for an
answer is `ResponseWait - Lag`, and no better one holds. The time bounds are explicit:
`WriteStall + Check + 2 Lag` after the last frame, `ResponseWait + 2 Check + 4 Lag` after the end of
the body.

**TokenCacheProofs.** `TokensFit` and `RetriesAreFresh` (`TokenFits`, `RetryIsFresh`) from one invariant. Neither
property is inductive: a call may take what another thread stored long before, so `CacheFits`
says that an entry fits every request that looks under its key, which rests on the key keeping
registry, access and credential apart (`SameKey`); and that a new token is newer than a rejection
needs `CallFits`, where a rejection is never ahead of the tokens issued. The only assumptions are
the types of the requests and bounds, and that the sentinel is not a number.

Only model-checked:

* All liveness properties: fairness and `ENABLED` are beyond the prover.
* `ListFollowsMap`: `_partition_groups` and `_merge_layers` are folds and selections over lists that take an
  operator as a parameter. The prover cannot instantiate theorems about those; a proof would first
  need both restated as recursive functions, as was done for the sums of `PackDownload`.

## 6. Finding and observations

**First writers** (run `first_writers`). `_prev_digest_or_warn` returns no digest when the tag
does not exist, "there is no prior writer to race" (`file_upload.py:479-480`). Two uploads that
both find no tag race each other: both PUT without `If-Match`, both return, and the second
manifest drops the first one's files.

Noted while modelling, without a run of their own:

* A PATCH whose session has expired gets a 404, which `chunked_patch_upload` treats as
  permanent, while the same session found gone by the status request or the close starts
  over (`error.rs:176-179`). Hence `Survives` is stated for registries that keep sessions.
* `drop_slot` removes the slot while a waiter may hold its lock, so a newcomer can create a
  second slot and PUT the same pack at the same time after a failure (`pack.rs:47`,
  `pack.rs:144-145`). The pack is content addressed, so only bandwidth is lost; `OneBody` is stated
  for the fault-free case.
* After a failed attempt of a corrupted piece, an abandoned write may land after the
  retry's. `incremental_hash.rs:70-72` argues from the bytes being the same; with a server
  that corrupts bytes they are not. Each of the run's cases has one of the two faults, and
  `DigestIsTheFiles` says so in its hypothesis `OneFault`.
* The closing PUT of a resumed upload has no time limit, since a commit may take minutes
  (`blob.rs:437-442`); a registry that keeps the connection alive and never answers holds the upload
  there. For packs and single PUTs `RESPONSE_WAIT_TIMEOUT` was added against the same hang
  (`watchdog.rs:25-31`).
* A check of the watchdog reads the clock before the flag (`watchdog.rs:163-164`). If the body ends in
  between, `done_at` is a moment before the end of the body, although the deadline "is measured from
  body-completion" (`watchdog.rs:149-151`). The difference is the time between two statements.
* `_create_symlink` unlinks its temporary entry after a failed link, but not after a failed copy
  (`file_download.py:834-835`), nor when the unlink itself fails with anything but `FileNotFoundError`: the
  temporary entry stays in the snapshot directory. `ReadersSeeWhole` is about the entries' own names.
* `parse_pointer_v2` leaves checking the pointer blob against its digest to the downloader
  (`_oci.py:216-217`); `_pull_packs` parses it unchecked. The file is still verified as a whole,
  which is what `OnlyTheFile` relies on.

* The probe takes a `Content-Length` of zero for an unknown size, so for an empty blob it asks
  for bytes past the end and a 416 fails it, although the size is clamped "so we never try to
  read past EOF" (`diagnostics.rs:319`). `InsideBlob` is about the parallel phase. The length of a
  redirect's own body, when there is one, clamps the probe too.
* Ctrl-C reaches a stream only through the thread that holds its mutex, and only if that is
  the main thread: a main thread that waits for the mutex sees it once the holder returns.
  `hash_file_native`, `chunk_and_hash_native` and `diagnose_blob_native` do not look for it.
  `InterruptEnds` is stated for the calls that do.
* After a 401 another thread may put the rejected token back into the cache that was just
  cleared (`auth.py:441-445`). The refresh bypasses the cache, so only later calls see it, and they
  refresh in turn; `RetryIsFresh` rests on the bypass, not on the clearing.

## 7. Not modelled

* `login` and `logout` during other calls: the saved credential is fixed per behaviour. A token
  service that answers without a token.
* The size limit of a pack plan (`MAX_PACK_BYTES`) is one of the reasons for which `PackDownload.StartFails`
  may happen at any time. Callers of `get_oci_bearer_token` that do not go through
  `call_with_oci_token_refresh` are calls of `TokenCache` whose operation is never refused.
* HTTP retry is modelled around the token request; its other callers are single requests
  that answer or fail.
* Repository operations: one or two administrative requests each, and reads; paging is
  planned (12).
* Console, CLI, update check: argument handling, output, read-only requests.
* Construction of HTTP clients (`transport.rs`, `client.rs`), the rendering of errors and reports,
  and the conversion of arguments in the bindings.
* Content-defined chunk boundaries and SHA-256 come from libraries: chunks are given, a
  digest is the bytes it stands for.
* The registry is modelled from how the client uses it and marked external in the map.
