# TLA+ models of kotsadm

This directory holds the TLA+ specifications kept beside the kotsadm sources
in `src/`. There are three kinds of file:

- modules and TLC configurations that model-check the concurrent and
  failure-prone parts of the system;
- proofs that TLAPS checks for every value of the constants;
- `PROJECT.json`, which lists the components, runs, mutants, the
  definition-to-source map, findings, hazards and theorems.

## 1. The system

kotsadm has two parts that talk only over HTTP.

- **The operator.** `operator/pkg/client/client.go` is `Client.Run`, a
  long-running loop:
  - It polls `GET /api/v1/deploy/desired` for a document with a `present`
    list and a `missing` list of base64 manifests.
  - For each `present` entry it decodes the manifest, strips objects of the
    internal GVKs (`removeInternalGVK`), runs kubectl apply as a dry run, and
    then runs the real apply.
  - It sleeps ten seconds and polls again.
  - `operator/pkg/appstate/types` defines `ResourceStates` and its
    `sort.Interface`. The spec (section 3) requires the `resource_states` of
    an `AppStatus` to be sorted.
  - `operator/pkg/server` is a health endpoint with constant answers.
- **The admin API** (`pkg/`): HTTP handlers over Postgres, S3, velero and
  troubleshoot.
  - `handlers.UpdateAppConfig` rewrites an app's config values. With
    `createNewVersion` it calls `App.CreateVersion`, one transaction that does
    three writes:
    - upserts `app_version` at `current_sequence+1`;
    - updates `app.current_sequence`;
    - inserts one `app_downstream_version` per downstream, numbered
      `max(sequence)+1`.

    After the commit it uploads the version archive.
  - `handlers.DownloadSnapshotLogs` works in four steps:
    1. It creates a velero `DownloadRequest`, named after the backup and the
       current second.
    2. It watches all DownloadRequests until a `MODIFIED` event of its name
       carries a signed URL, or one minute passes.
    3. It deletes the request.
    4. It streams the logs from the URL.
  - `supportbundle.CreateBundleForBackup` runs two log collectors in order.
    It reports progress over an unbuffered channel to a logging goroutine.
    Then it tars, stores and analyses the bundle.
  - The rest has no state of its own worth a model:
    - `handlers/backup.go`: session check and one call into `pkg/snapshot`,
      which is not in `src/`;
    - `app/config.go`: template rendering;
    - `apiserver`: routing.
- **The update worker** (`worker/pkg/updateworker/post.go`) runs
  `postUpdateActions` for each watch update, several at once. It fetches the
  update's archive from S3 and stores any troubleshoot Collector spec in it.
  It opens a GitHub pull request for a gitops cluster and records the watch
  version. A downstream watch's version takes the label of its parent's
  version of the same sequence. Last, it creates one watch update per
  downstream watch, which other workers process.

**Hard behaviours** in this code:

- Postgres transactions interleave at READ COMMITTED.
- Watch events arrive before or after the watch opens.
- Concurrent HTTP calls share the velero namespace.
- A goroutine and an unbuffered channel need each other to make progress.
- Partial failure is everywhere:
  - a kubectl apply can fail half-way;
  - a commit can succeed and the upload after it fail;
  - the bundle can be stored and its analysis fail.

## 2. Modules

| Module | Models | State | Actions |
|---|---|---|---|
| `Reconciler` | `Client.Run`, `getDesiredStateFromKotsadmServer`, `ensureResourcesPresent` (client.go) | `doc` served by the control plane, `pc`, `present`, loop index `i`, live `cluster`, kubectl `calls` of the tick, printed errors `logged` | `PollOK/PollFail/PollHang`, `DecodeError`, `FilterError`, `EnsureFail`, `DryRunOK`, `ApplyOK/ApplyFail`, `EndRange`, `Sleep`; environment `ServerUpdate`, `ExternalDelete` |
| `MCReconciler` | constants for TLC | 6 manifests (valid, one needing a namespace that another creates, invalid, bad base64, bad YAML, an old one), 5 objects, one internal | — |
| `ReconcilerProofs` | TLAPS proofs about `Reconciler` | | |
| `ResourceStates` | `ResourceStates.Less/Swap` (types.go) driven by the insertion sort `sort.Sort` uses below 12 elements | `input`, `a`, loop indices `i`, `j` | `SwapDown`, `NextElement` |
| `AppVersions` | `UpdateAppConfig` (handlers/config.go) with `app.Get/GetFromSlug` and `App.CreateVersion` (app/app.go) | committed `appSeq`, `versions`, `downstream`, `archives`; row/key locks `verLock`, `appLock`; per request `rpc`, `cur`, `dsLeft`, uncommitted `ownDs` | `GetApp`, `PrepEnd`, `UpsertVersion`, `UpdateApp`, `PrevArchive`, `AddDownstream`, `Commit`, `Rollback`, `Upload` |
| `SnapshotLogs` | `DownloadSnapshotLogs` (handlers/snapshot.go), several calls at once | `drs` by name, per call `hpc`, `chan` (events on its watch), `signed`, `served`; `watching` | `StartFail`, `Create`, `StartWatch`, `Receive`, `Timeout`, `DeleteRequest`, `Fetch`; environment `VeleroProcess` |
| `MCSnapshotLogs` | constants for TLC | calls h1, h2 for backup b1 in the same second (one name), h3 for b2 | — |
| `ReconcilerAbstract` | what the loop promises (spec 4.2, 4.3), without its loop or error paths | `doc`, the agent's `snapshot`, `cluster` | `Fetch`, `Deploy` (part of one acceptable snapshot manifest), `ServerUpdate`, `ExternalDelete` |
| `PostUpdate` | `postUpdateActions`, `triggerIntegrations`, `maybeCreatePullRequest`, `createVersion`, `extractCollectorSpec` (post.go) for concurrent updates | per update `upc`, `vstatus`, loop position `fan`; the store's watch `versions` (label, status, current, pull request), opened pull requests `prs`, `collectors` | `Prepare`, `ExtractCollectorSpec`, `Integrate`, `CreateVersion`, `ListDownstreams`, `Fanout`, `FanoutEnd` |
| `MCPostUpdate` | constants for TLC | midstream w0, downstreams d1 (gitops) and d2 (ship), upstream sequences 1 and 2 of which 2 has no label of its own | — |
| `BundleForBackupProofs` | TLAPS proofs about `BundleForBackup` | | |
| `AppVersionsProofs`, `PostUpdateProofs`, `SnapshotLogsProofs` | TLAPS proofs about `AppVersions`, `PostUpdate`, `SnapshotLogs` | | |
| `BundleForBackup` | `CreateBundleForBackup` (supportbundle/backup.go) | `pc`, collector `k`, the offered message `pending`, `chanOpen`, the goroutine `logger`, `logged`, `saved`, `stored`, `analysed` | `Setup`, `Collect`, `Run`, `EndCollectors`, `Tar`, `Store`, `Analyze`; goroutine `LogReceive`, `LogExit` |

How the models abstract the code:

- **Data.** A manifest is a model value with:
  - the set of objects it declares (`Content`);
  - the objects kubectl needs to exist first (`Requires`);
  - membership in `BadBase64`, `BadYaml` or `Invalid`.

  A string is a rank in `Nat`, since Go's `<` on strings is a total order.
  A config, diff or archive is not modelled; only whose content a version
  holds is.
- **Control is kept in full.** Every early return and every `continue` is an
  action or a disjunct, in the code's order.
- **Failures.** A failure the code can meet is a nondeterministic branch:
  kubectl, HTTP, S3, the database, tar and the analysis can all fail.
- **Blocking.** A blocking wait is a guard:
  - an unbuffered send waits for `Ready`;
  - an UPDATE or INSERT waits for a free row or key lock.
- **Transactions.** `AppVersions` follows Postgres READ COMMITTED:
  - a statement sees committed rows plus its own transaction's writes;
  - `UPDATE app` takes the app row lock;
  - `INSERT ... ON CONFLICT` takes the `(app_id, sequence)` key lock and
    writes over a committed row;
  - both locks go at commit or rollback.
- **The watch.** A Kubernetes watch opened without a resource version first
  replays an `ADDED` event per existing object. The handler skips these
  (`e.Type != watch.Modified`), so the model leaves them out. After that,
  every change is queued on each open watch, in order (`Notify`).

## 3. Runs

| Run | Config | Expect | Checks | Shows |
|---|---|---|---|---|
| reconcile_safety | `MCReconciler.cfg` | pass | `TypeOK`, `IterationOrder`, `GateRespected`, `ImplementsAbstract` | calls follow list order; every apply follows a passing dry run of the same entry; an error on one entry never stops its siblings; the loop implements `ReconcilerAbstract` |
| reconcile_converges | `MCReconcilerLive.cfg` | pass | `ReconcileConverges` | unless a poll fails or hangs, the cluster ends up holding what the last document asks for and kubectl can create |
| apply_error_recorded | `MCReconciler_ApplyErrorRecorded.cfg` | violation | `ApplyErrorRecorded` | client.go:149 drops the real apply's error (spec 4.3 says it is recorded) |
| missing_removed | `MCReconciler_MissingRemoved.cfg` | violation | `MissingRemoved` | `Run` never removes `missing` manifests (spec 4.3) |
| resource_states_sorted | `MCResourceStates.cfg` | violation | `SortedBySortInterface` | `Less` compares fields independently, so `sort.Sort` can leave states unsorted |
| app_versions_safety | `MCAppVersions.cfg` | pass | `TypeOK`, `DownstreamSequencing` | per downstream, the version sequences are 0..n-1 without duplicates under any interleaving of three requests |
| parent_holds_own_content | `MCAppVersions_ParentHoldsOwnContent.cfg` | violation | `ParentHoldsOwnContent` | two updates that read the same `current_sequence` write the same version, and the second's upsert overwrites the first's committed content |
| snapshot_logs | `MCSnapshotLogs.cfg` | pass | `TypeOK`, `ServesOwnBackup`, `EveryCallReturns` | each call streams only its own backup's logs; every call returns, even when the URL event came before its watch opened |
| committed_versions_archived | `MCAppVersions_CommittedVersionsArchived.cfg` | violation | `CommittedVersionsArchived` | once no request is in flight, some committed version may have no archive: the upload after the commit failed |
| post_update | `MCPostUpdate.cfg` | pass | `TypeOK`, `ParentVersionFirst`, `DownstreamsCreated` | a downstream update runs only after its parent's version exists; the downstream watches with an update of a sequence are exactly the prefix of the list its upstream loop has passed (a failed `CreateWatchUpdate` leaves the rest without one), and all of them once the loop returned nil |
| bundle_for_backup | `MCBundleForBackup.cfg` | pass | `TypeOK`, `EveryCollectorReported`, `CallAndLoggerEnd` | every collector's name reaches the logging goroutine before the tar; the function and its goroutine both end on every path |

Each property of a passing run has a mutant in `PROJECT.json`: a plausible
bug in one mapped definition that makes TLC report that property.

- In `Reconciler`:
  - a `break` for a `continue`;
  - the loop index not reset;
  - the dry-run error ignored;
  - an error logged against the next entry.
- In `AppVersions`:
  - the app row not locked;
  - `parent_sequence` off by one.
- In `SnapshotLogs`:
  - the name check dropped;
  - a context that never expires;
  - the name taken for the URL.
- In `PostUpdate`:
  - a `maybeCreatePullRequest` error ignored;
  - the downstream loop run before `triggerIntegrations`;
  - the loop stopping one downstream short.
- In `Reconciler`, for the refinement: a failed dry run followed by an apply.
- In `BundleForBackup`:
  - a name not sent;
  - a goroutine without its `for` loop;
  - one collector too many.

**Bounds.**

- `Reconciler` uses documents of at most 2 entries, 2 document changes and
  1 out-of-band deletion. That is enough to cover:
  - an entry whose prerequisite comes after it in the list;
  - a failed entry followed by a good one;
  - a document change in the middle of a tick;
  - a deletion between a dry run and an apply.
- `AppVersions` uses 3 requests and 2 downstreams. That lets:
  - two transactions race on the same key;
  - a third start after a commit;
  - both downstream sequences grow.
- `SnapshotLogs` uses 3 calls: two with the same request name and one with
  another name, so both kinds of name clash and the cross-talk on a shared
  watch occur.
- `BundleForBackup` is fixed by the code (two collectors).
- `PostUpdate` uses two upstream updates and two downstream watches, six
  concurrent calls (about 400,000 states). Two downstreams let the loop
  fail or stop between them. Sequence 1 is labelled and 2 is not, so 2
  takes the "Hmmm..." fallback to a recorded version. A third sequence
  with two downstreams is too large for a five-minute run.

`CHECK_DEADLOCK FALSE` is set only where the modelled code terminates:

- a handler call returns;
- `CreateBundleForBackup` returns;
- `Run` may exit on a poll error.

**Fairness.**

- **`Reconciler`** has weak fairness on the loop. It has strong fairness on
  the successful dry run and apply of each valid manifest. This stands for
  kubectl failures being transient: the loop retries every ten seconds with
  no backoff, so a manifest that can be applied is not refused for ever.
  Invalid manifests get no such fairness.
- **`SnapshotLogs`** has weak fairness on each call and on velero's
  controller: both run as long as they can.
- **`BundleForBackup`** has weak fairness on both goroutines, as the Go
  scheduler provides.
- **`PostUpdate`** has weak fairness on each update's call: a created watch
  update is taken by a worker and the call runs on. Its run checks only
  invariants, so the fairness is not used there. `CHECK_DEADLOCK FALSE`
  because every call ends, done or failed.

**Refinement.** `Reconciler` defines
`Abstract == INSTANCE ReconcilerAbstract WITH snapshot <- present`. The
`reconcile_safety` run checks `ImplementsAbstract == Abstract!Spec`:

- a successful poll is a `Fetch`;
- a real apply is a `Deploy` of the entry at `i`;
- the document changes and deletions map to themselves;
- every other step leaves the abstract state alone.

## 4. Proofs

Five modules hold TLAPS proofs: `ReconcilerProofs`, `AppVersionsProofs`,
`PostUpdateProofs`, `SnapshotLogsProofs` and `BundleForBackupProofs`. Each
extends the model it is about and `TLAPS`. `AppVersionsProofs` also extends
`FiniteSetTheorems`. Every theorem holds for every value of the constants
that the model's `ASSUME` allows. Every safety invariant of a passing run
has a theorem. Each proof follows the same pattern:

- find a strengthening `IInv` of the invariant;
- check `IInv` with TLC on the run's instance;
- prove `Init => IInv` and `IInv /\ [Next]_vars => IInv'`, with one step
  or lemma per action;
- conclude by PTL.

### `ReconcilerProofs` (assumption `ConstantsAssumption`)

- **`TypeCorrect`**: `Spec => []TypeOK`.
- **`GateAlwaysRespected`**: `Spec => GateRespected`. This is the action
  property that the cluster gains objects only in the real apply right
  after a passing dry run, and only objects of that entry's deployable part.
- **`IterationInOrder`**: `Spec => []IterationOrder`.
- **`Refinement`**: `Spec => ImplementsAbstract`.

`TypeOK` alone is not inductive. An apply step writes
`calls[...].idx = i` and reads `present[i]`, so while an apply is pending,
`i` must be a position of `present`. The strengthening
`TypeInv == TypeOK /\ (pc = "apply" => i <= Len(present))` is inductive.
The lemma `EntriesAreShortSeqs` shows that every served `present` list is a
sequence of at most `MaxEntries` manifests.

`GateRespected` follows from a case split on the actions: only `ApplyOK`
and `ApplyFail` change the cluster, and each adds a subset of the
deployable part of `present[i]`. PTL lifts this to `[][...]_vars`.

`IterationOrder` needs `OrderInv`, whose conjuncts relate the calls of the
tick to the loop index:

- `LoopBound`: the loop sleeps only with `i` one past the last entry.
- `DryRunPending`: while an apply is pending, the last call is the passing
  dry run of entry `i`.
- `CallsBefore`: every other call is of an entry before `i`.
- `Attempted`: every decodable entry before `i` was logged as an apply
  error or has a call.

The lemmas `AppendOrdered` and `AppendGated` state once, for any sequence
of calls, when an appended call keeps the list order and the dry-run gate.

`Refinement` follows the usual three steps:

1. `Init => Abstract!Init`.
2. Every step maps to an abstract step or a stutter (`RefinementStep`).
3. PTL combines them.

An apply maps to `Deploy` only if the entry at `i` decodes and is not
invalid. That is the invariant
`ApplyPending == pc = "apply" => Good(present[i])`.

### `AppVersionsProofs` (assumption `AppAssumption`: finitely many requests)

- **`DownstreamVersionsSequenced`**: `Spec => []DownstreamSequencing`.
- **`AppTypeCorrect`**: `Spec => []TypeOK`.

The argument is the app row lock:

- `LockHeld`: a request in `prevarchive` or `downstream` holds `appLock`,
  so at most one transaction is in its downstream loop.
- `OwnRowsPending`: only that transaction has uncommitted rows. For every
  cluster its loop has done, it has exactly one row, numbered
  `Cardinality(Rows(c))`. The committed rows cannot change under it, since
  a committer would need the lock.
- So `max(sequence)+1` sees rows `0..n-1` and yields `n`. The lemma
  `MaxOfInterval` evaluates the `CHOOSE` in `LastDownstreamSeq`.
- At the commit, `AddNextRow` adds row `n` to each cluster without a gap
  or a duplicate.

`TypeOK` needs a count, because `Seqs` is `0..Cardinality(Requests)`. An
overwriting commit can move `appSeq` back, so `appSeq` does not count the
commits. Instead, `Counting` bounds these by the number of `Finished`
requests (committed, or failed anywhere):

- the rows of each cluster;
- `appSeq`;
- every `cur` read by a request still in flight.

A request in flight is not finished, so the sequences it computes are at
most `Cardinality(Requests)`.

### `PostUpdateProofs` (assumption `PostAssumption`)

- **`PostTypeCorrect`**: `Spec => []TypeOK`.
- **`ParentVersionAlwaysFirst`**: `Spec => []ParentVersionFirst`.
- **`DownstreamLabelsFollowParent`**: `Spec => []DownstreamLabelMatchesParent`.
  No run checks this invariant: the label comes from one lookup keyed on
  `parentSequence`, so the model check would only restate it.

- **`DownstreamsCreatedInOrder`**: `Spec => []DownstreamsCreated`.

`DownstreamsCreated` rests on `LoopInv`. For each sequence `s`, the
downstream watches with an update of `s` (`Created(s)`) are the entries of
`DownstreamList` before the upstream loop's position (`Passed(s)`). An
upstream call that is `"done"` has its loop one past the end. Only a
successful `Fanout` changes either side, and it adds the same watch to
both. Every other step moves one call between states that are not
`"idle"`, and `FanoutEnd` requires the loop to be past its end. `LoopInv`
is proved inductive relative to `IInv`.

The strengthening `OneVersion` says three things:

- an update past `CreateVersion` has a version;
- every version belongs to an update past that step;
- an update has at most one version.

A downstream update is created only by its parent's `Fanout`, after the
parent's version exists. The parent never records a second one, so the
label a downstream version copies stays the parent's only label.

### `SnapshotLogsProofs` (assumption `LogsAssumption`)

- **`LogsTypeCorrect`**: `Spec => []TypeOK`.
- **`OwnBackupServed`**: `Spec => []ServesOwnBackup`.

The invariant tracks where a signed URL can come from:

- a DownloadRequest's URL is that of its own target;
- `ChanOK`: every event queued on a watch carries a URL of the backup its
  request name was created for (`NamesBackup`);
- a call that has taken a URL has taken one of its own backup.

Events carry every request, and the handler filters them only by name. So
the proof needs the assumption that equal names mean equal backups. The
name is `fmt.Sprintf("backup-%s-%d", backupName, unixSecond)` passed
through velero's `label.GetValidName`, which cuts long names and appends a
hash of the whole. Two calls therefore share a name only when they ask for
the same backup in the same second, barring a hash collision of the
truncated name. The TLC instance has two calls with one name.

### `BundleForBackupProofs`

- **`CollectorsReported`**: `Spec => []EveryCollectorReported`.
- **`BundleTypeCorrect`**: `Spec => []TypeOK`.

An unbuffered send blocks the function until the goroutine has received
the message, so `Run` moves `k` on only once collector `k`'s name is in
`logged`.

### What TLC checks but TLAPS does not prove

- The liveness properties `ReconcileConverges`, `EveryCallReturns`
  and `CallAndLoggerEnd` need fairness and ENABLED.
  The installed provers cannot reason about these, so they stay with TLC.
- `ResourceStates` checks a sorting algorithm over bounded inputs. What it
  computes for every input would be an induction over data, which is out
  of the prover's reach. Its run is a violation run anyway.
- The violation runs are counterexamples, not theorems.

No module with a theorem uses a RECURSIVE operator.

## 5. Findings

The violation runs above are real disagreements. Details are in
`PROJECT.json`.

- **Apply errors are never recorded.** The spec says a failed apply is
  recorded as an ApplyError; the code drops the error.
- **Missing manifests are never removed.** `ensureResourcesMissing` is dead
  code.
- **`ResourceStates.Less` is not a lexicographic order.**
- **A failed archive upload blocks every later config update.**
  `UpdateAppConfig` commits the version first and uploads its archive
  afterwards (`config.go:147`). If the upload fails, the committed version
  has no archive. The next `CreateVersion` reads the archive of the current
  sequence (`app.go:214`) and fails.
- **A concurrent config update can overwrite a committed version.** Two
  `UpdateAppConfig` calls that read the same sequence both write the next
  one, and the second overwrites the first's committed `app_version` content.

Two further observations were not model-checked:

- `UpdateAppConfigRequest.Sequence` has the JSON tag `"seqeunce"`, so a
  client sending `sequence` always gets the archive of version 0.
- `post.go:224` uses an undeclared `updateSession`. `PostUpdate` models its
  store of collectors as going to any watch.
- `config.go:140` calls `foundApp.CreateVersion(archiveDir, "Config
  Change")`, with two arguments, while `App.CreateVersion` (`app.go`) takes
  one. Together with `post.go:224`, the sources as given do not compile;
  the models follow the bodies of the functions as written.
- For a gitops cluster, `post.go` opens the pull request before
  `createVersion`. If `createVersion` fails, no version records the pull
  request. The model tracks `prs`, but no source says what should happen.

## 6. Plan and what is left

**Order:**

1. `Reconciler` (done; refinement of `ReconcilerAbstract` done)
2. `ResourceStates` (done)
3. `AppVersions` (done)
4. `SnapshotLogs` (done)
5. `BundleForBackup` (done, with proofs)
6. `PostUpdate` (done)

**Planned next:**

- A retry model for the update worker. This needs the caller that dequeues
  updates, which is not in `src/`.
- A refinement of `AppVersions` onto an abstract store where each config
  update appends one version. This is expected to fail on the overwrite
  finding.

**Proofs:** every safety invariant of the passing runs is proved (section
4). The liveness properties stay with TLC.

**Not modelled, and why:**

- `SnapshotLogs` leaves a DownloadRequest behind when a call times out or
  its watch fails. No property is checked for this: velero's own
  controller deletes expired DownloadRequests, and that code is not in
  `src/`.

- `reportCurrentStateToKotsadmServer` is never called.
- The health server, the backup handlers, config templating and API routing
  have no concurrent or stateful behaviour of their own.
- The vendored packages and the test are not part of the system's behaviour.
