# A TLA+ verification of mcp-memory-rs

mcp-memory-rs keeps categories of JSON memory in one directory that many
processes share: one stdio MCP server per client, an optional HTTP server and
the command line all open the same SQLite database and the same files. This
directory holds TLA+ models of that system, the TLC configurations that check
them on small instances and TLAPS proofs of what matters most for every size.
Paths and line numbers refer to the repository.

    tlc -workers 2 -config StoreAll.cfg MCCategoryStore   # model-check a run
    tlapm CategoryStoreProofs.tla                         # check proofs

`PROJECT.json` lists the runs, which definition models which lines, a mutant for
every property, the hazards of the code and the theorems.

## 1. The system

| component | code | state | operations |
|---|---|---|---|
| store write protocol | `src/store/mod.rs`, `atomic_json.rs` | category rows, version rows, dirty marks (SQLite); `<name>.json`, `.json.new.*`, `.json.deleted.*`, `backups/` | write, merge, append, delete, import, sync upsert, clear_dirty, settling of leftovers |
| write transactions | `src/store/txn.rs` | SQLite's write lock, what is durable | BEGIN IMMEDIATE with a retry budget, COMMIT, rollback on drop, PRAGMAs |
| readers | `Store::read_consistent`, `committed_content` | none of their own | read a category, get its metadata |
| logs | `src/store/log.rs` | the entries and the retention policy of a log category | append_entry with pruning by age and count |
| history and backups | `mod.rs`, `src/backup.rs` | version rows, files in `backups/` | prune_versions, prune_old_backups, read_version, memory_compact |
| snapshot | `src/store/snapshot.rs` | the destination directory | create, verify |
| restore | `src/store/snapshot.rs` | staging and parking directories, `RESTORE_IN_PROGRESS` | restore, the marker check in `Store::new` |
| recovery | `src/store/recovery.rs`, `main.rs` | the plan file | plan, preflight, adopt_plan |
| fleet sync | `src/sync.rs`, `server.rs`, `http_server.rs` | sync_dirty, the remote-hash alias in sync_state, requests in flight | export, import, push_dirty, pull_remote, conflict resolution |
| MCP tools | `src/server.rs` | a store mutex per process; the client's cached hash and copy | memory_read, memory_delta, memory_write, memory_search, memory_sync, memory_compact ... |
| HTTP API | `src/http_server.rs` | the same mutex | the same calls; a bearer token |
| access control | `src/acl.rs` | none: the configured devices, administrators and scopes | authorize_write |
| search and its index | `mod.rs` 693-920, `src/embeddings.rs` | search_index and search_fts, one row per category | memory_search, /search, memory_search_semantic |
| manifests | `src/sync.rs` 100-260, `server.rs` | none | build_manifest, compute_merkle_root, compute_diff |
| migration, configuration, CLI, bridge | `migrate.rs`, `config.rs`, `main.rs`, `scripts/` | none of their own | see section 8 |

**How they interact.** Every mutation takes SQLite's write lock, settles what an
interrupted process left for that category, reads, decides, stages a file,
COMMITs, releases the lock with the COMMIT, and only then renames the staged
file over the final one. So files and rows are updated by two different
mechanisms, and the rename happens outside the lock. Readers take no lock at
all. Snapshot and recovery are further holders of the same lock. Within one
process a mutex serializes the tool calls, but it is released while the sync
remote is awaited.

**What is hard about it.** A crash or power loss between COMMIT and rename; a
process that is slow between the two while others settle its files; a reader
among renames; a conditional write whose condition was read before a long wait;
one budget of time for two statements that both may have to wait; a search whose
stages look at different instants, one of them file by file;
a sync answer that arrives after the category has changed; a restore cut between
two renames. `PROJECT.json` lists these hazards with the lines where they bite.

## 2. Modules

```
CategoryRegister                 what a store promises (abstract)
   ^ refined by
CategoryStore                    the write protocol: processes, crashes, power loss
   |-- CategoryStoreRefinement   the refinement mapping
   |     `-- CategoryStoreInvariant   the inductive invariant
   |           `-- CategoryStoreSteps - CategoryStoreProofs (also of the readers and the two below)
   |-- CategoryReaders           lock-free readers beside the writers
   `-- StoreMaintenance          one more process that takes the lock and settles
         |-- StoreSnapshot       --snapshot
         `-- CategoryRecovery    --adopt-json
LogRetention - LogRetentionProofs     one append-only log
VersionHistory - VersionHistoryProofs version rows and backups of one category
StoreRestore - StoreRestoreProofs     --restore
SyncExchange - SyncExchangeProofs     devices and a hub
DeltaPolling - DeltaPollingProofs     a client that polls and writes back (abstract)
WriteTransaction                      BEGIN and COMMIT and their time
AccessControl   SyncManifest          pure decisions: who may write, what differs
ToolCalls                             the calls of one server process
   |   EXTENDS WriteTransaction, AccessControl; refines both WriteTransaction and DeltaPolling
   `-- ToolCallsProofs               also of transactions, access control and manifests
MC*                                   instances for TLC
```

The modules to the right of a bar EXTEND the one above. `LogRetention`,
`VersionHistory`, `SyncExchange`, `DeltaPolling` and `ToolCalls` take one mutation of a
store as one step. That is what `ImplementsRegister` establishes about `CategoryStore`: a call
takes effect at one instant, its COMMIT.

### CategoryStore: one call, step by step

| action | code |
|---|---|
| `Call` | the client calls; import's kind check happens here, before the lock (`mod.rs` 1058-1067) |
| `Acquire`, `GiveUp` | `WriteTxn::begin`: gets the lock, or reports Busy at the deadline |
| `SettleStaged`, `SettleParked` | `settle_locked`: one leftover file each, in any order |
| `SettleFails`, `SettleError` | a leftover that is not UTF-8; any other I/O error |
| `Refuse` | under the lock: unreadable category, kind mismatch, failed `expected_hash`, unchanged import |
| `StageOpen`, `StageDone` | backup copy of the previous file, then `atomic_json::stage`: the staged file exists, torn, before it is complete and the directory is fsynced |
| `Park` | `stage_delete`, with its fsync of the directory |
| `Abort` | any failure before COMMIT: rollback, the file stays |
| `Commit` | rows, version row, dirty mark and pruning in one transaction; the lock is free |
| `Promote`, `PromoteDelete`, `PromoteFails` | the rename after COMMIT, which finds the file or does not |
| `ClearDirty` | `clear_dirty` |
| `Crash`, `PowerLoss`, `Checkpoint` | a process dies; the machine does, leaving `stable` and, of each category's files, the newest or an `unsynced` state; the WAL reaches the disk |
| `Open`, `FinishOpen` | `Store::new` and `reconcile_on_open` |

A hash is modelled by the content it names (no collision of SHA-256). A content
is its kind and a set of keys or entries. `stable` is what a power loss leaves of the
database: all of it with `synchronous=full`, the last checkpoint with `normal`.

`unsynced` is what a power loss may bring back of the directory. Every rename and removal
of a category's files adds the state before it (`Remember`); `fsync_dir_strict`, which
a COMMIT waits for (`atomic_json.rs` 91, 223), empties it (`SyncDir`). The fsync after a
promotion (73, 127) is best effort and its error is dropped, so nothing is built on it:
it empties nothing. A power loss picks for each category its newest state or one of those
remembered, as a journaling file system does; a file system that loses single entries of a
directory out of order is not modelled, nor is a strict fsync that reports an
error and is retried. Backups are never fsynced: any of them may be gone.

### The other modules

- **CategoryReaders**: `ReadRow`, `ListStaged`, `ListParked`, `ProbeFinal`, `Probe`,
  `Miss` and `Retry` are the single system calls of `read_consistent` and
  `committed_content`. `seen` and `quiet` are history variables of the properties.
- **LogRetention**: `Append` is `append_entry`, with the policy chosen as in
  `Store::append`. `Signed` is the cast `days as i64`, scaled down to `Wrap`;
  `AppendPanics` is the panic of chrono beyond `Reach`, which poisons the store
  mutex of that process. The clock may go back.
- **VersionHistory**: a backup is named after the instant of the overwrite and has a
  modification time of its own; a deleted file keeps its old one. A copy may fail, or
  leave a torn file (`Backup`), also because the process dies in it (`DiesCopying`).
- **StoreSnapshot**, **CategoryRecovery**: the maintenance process of `StoreMaintenance`
  with its own steps in between those of the writers. A snapshot copies file by file and
  backup by backup, while other processes prune backups without the lock (`Prune`,
  any backup at any time); a listed file that is gone when its turn comes ends
  the snapshot (`"vanished"`), unless the listing skips it. The plan checks for
  pending files, lists the rows, looks for each row's file, and reads row and file
  of each mismatch again, in steps of their own. Preflight, opening and
  adoption each look at the store anew, as in `run_adopt_json`.
- **StoreRestore**: `Swap` is the list of renames in the order of the code; `Rename`
  does one. `Interrupt` stops a restore anywhere. `TurnedAway` is a process that
  `Store::new` refuses, after it has created missing directories; `Serve` is one
  that opens the store.
- **SyncExchange**: `Write` and `Delete` of every node, `PushExport`, `PushSend`,
  `PushDone`, `PullSend`, `PullArrives` of a device, `HubExports`, `HubImports` of the
  hub, and `apply_sync_envelope` entry by entry: `Decide` (outside the lock), `Upsert`,
  `ApplyDeletion`, `ClearApplied`, `FinishJob`. Requests sit in `wire`; they may be lost,
  answered too late or applied after their sender gave up or died.
- **DeltaPolling**: `memory_delta` in its two reads, `DeltaMeta` and `DeltaValue`, and a
  client that writes with the hash it holds. It is what `ToolCalls` shows one client.
- **WriteTransaction**: `Begin` and `Commit` start a retry loop (`retry_busy_on`), `Attempt`
  caps the busy handler and issues the statement, `Begun` and `Committed` are its
  success, `StillBusy` its SQLITE_BUSY with the choice between giving up and sleeping
  a jittered pause, `Wakes` the end of the sleep, `StatementFails` every other error,
  `RolledBack` the drop of an open transaction. `OtherTakes`, `OtherReleases` and `Tick` are
  the other processes and the clock; a process may be scheduled late, so a wait can
  end later than its time.
- **AccessControl**: `Rules` is the chain of early returns of `authorize_write` in its
  order, `Deciding` the first that applies. Names are values; what the code reads off
  their spelling (`workflow_` prefix, `-agent` scopes) is the function `Suffix` and the
  relation `Scope`.
- **SyncManifest**: `MerkleRoot` hashes the ordered leaves, `ToPull`, `ToPush`, `Conflicts` and
  `Unchanged` are the lists of `compute_diff`, `Identical` the answer of `sync_diff`.

### ToolCalls: the calls of one server

The mutex of the store admits one call at a time: `at` says where the call under way
is, `"done"` that the mutex is free. Other processes commit whenever they hold SQLite's
lock (`OtherEnds`), between any two steps.

| action | code |
|---|---|
| `MemoryWrite`, `MemoryAppend`, `MemoryDelete` | the tools, for what `authorize_write` lets this device change |
| `HandleWrite`, `HandleDelete` | the HTTP handlers: no rule of `acl.rs`; /write checks the kind before the lock |
| `TxnStep`, `Stage`, `Refused`, `Changed` | the transaction of `WriteTransaction`; under the lock kind and `expected_hash` are compared, the index row changes in the same COMMIT |
| `MemoryRead`, `MemoryDelta`, `DeltaValue` | the polling client; a delta that differs reads the content in a second read |
| `SearchCall`, `SearchFts`, `SearchLike`, `ScanList`, `ScanRead` | memory_search and /search: full text, else LIKE, else the files, one read each |
| `SemanticCall`, `SemanticTexts`, `SemanticEntries` | memory_search_semantic: a keyword search between two reads of the index |
| `ContextCall`, `ContextRead` | memory_context: one read per category |
| `ListCall`, `ManifestCall`, `ListRows`, `ListStats`, `ManifestVersion` | memory_list, and the manifest of sync_manifest, sync_diff, memory_status and /manifest: the list, then one version lookup per category |

A read of one category gives its row or, if it is deleted or changed during the call,
possibly nothing: that is what `CategoryReaders` shows about `read_consistent`. Which
of several matches rank best, and which entries score in a hybrid search, is
arithmetic over text: any selection within the limit may result.

## 3. Runs

| run | question | properties |
|---|---|---|
| `store_all` | Is a call of any kind atomic, and durable from its COMMIT on, while processes die and power is lost at any step? | `ImplementsRegister` (one atomic register per category), `CommittedIsOnDisk` (the committed bytes are in some file), `FilesAgreeWithRows` (with nothing pending the final file is the row, and a category without a row has none), `FinalOnlyAdvances` (a step gives a file only what is committed then; a power loss may undo a rename, and leaves the committed bytes staged again), `CasReplacesWhatItNamed`, and `IInv`, which includes `TypeOK` |
| `store_heals` | Does a store with leftovers get rid of them, though the opener waits, gives up, fails or dies again? | `LeftoversAreSettled` (liveness), `HistoryPayloadsKept` (what the history lists is live or backed up), `LogsAreNotClobbered` (only a deletion takes entries out of a log) |
| `store_torn` | The same with a staged file cut inside a character: **violated**, see section 7 | `LeftoversAreSettled` |
| `readers_recovery` | Beside writers that commit, rename and crash: what does a reader without a lock serve, and what does adoption change when the store moved on since the plan? | `ReadsAreCurrent` (what was current at an instant of the read), `UndisturbedReadsSucceed` (an attempt fails only when the category changed during it), `AdoptsOnlyWhatWasPlanned`, `AdoptedStaysReadable` (an adopted category can be read from then on, and the adopted payload stays on disk) |
| `logs` | Does a log keep what it should and prune what it must, under a clock that goes back? | `KeptUnlessAgeWraps`, `IdsAreUnique`, `IdsAreNeverReused`, `PrunedOnlyForCause`, `RetentionIsEnforced` |
| `logs_overflow` | The same with ages of 2^63 days and more: **violated**, see section 7 | `AppendedIsKept` |
| `history` | Is what was overwritten still there, and found by its version, with copies that fail or are cut short? | `OverwrittenIsKept`, `SameDayVersionsAreFound` |
| `snapshot` | Is a snapshot of one instant, with leftovers present, writers at work and backups pruned under it? | `OneInstant`, `NeverRejected` (it passes its own verification), `HistoryIsCovered` (a listed version's payload is in the snapshot, unless it was pruned before it was copied) |
| `restore` | What opens after restores cut at any rename? | `SwapIsClosed` (only one generation is ever served), `NothingIsDestroyed`, `CanBeCompleted` (every piece of the snapshot the marker names is in place or still staged) |
| `sync_push` | Is a change offered before its mark goes, and is a newer version safe from an older one, with lost, late and failing requests? | `DirtyUntilOffered`, `NewerIsNotReplaced`, `ImportCatchesUp`, `NothingIsImportedTwice`, `StampsIdentifyVersions` |
| `sync_converge` | Do all nodes end with the same value once nobody writes? | `ReplicasConverge` (liveness) |
| `tools` | What do the calls of a server give and do, when others change the store between any two of their reads and keep SQLite's lock as long as they like? | `NothingIsMissed` (an empty search missed nothing that stood still), `ReportsAreOfTheCall` (what is reported was true during the call), `UnchangedIsTrue`, `WritesReplaceWhatTheySaw` (a conditional write replaces what its client holds a copy of), `ImplementsPolling` (what one client sees is `DeltaPolling`), `WaitsAreBudgeted` (BEGIN and COMMIT together wait no longer than the budget), `BusyIsEarned` (no early give-up, and none with the lock held in WAL mode), `CallsReturn` (liveness) |

`MCReadersAndRecovery` holds two instances that share the writers' constants: its first
state says whether readers or the operator are beside the writers. In `MCToolCalls` TLC also evaluates two ASSUMEs over all arguments: `AccessAsDocumented`
(the rules of `authorize_write` against who the README says may write) and
`ManifestsAsDocumented` (two manifests are called identical exactly when their diff is
empty). The type invariants of the modules document their variables; they are part of the
invariants proved in section 6.

Each property is stated in words above its definition. Each has a mutant: a
plausible bug in one mapped definition with which TLC finds the property violated
under the same configuration. `CommittedIsOnDisk`, for example, falls when a COMMIT
does not wait for the fsync of the directory, and `ImplementsRegister` when a transaction takes
SQLite's lock at its first write instead of at BEGIN.

## 4. Bounds

Every bound is a CONSTANT and stands in the guard of the action it limits.

| constant | value | why that is enough |
|---|---|---|
| `Writers` | 2 | all conflicts are between the holder of the lock and one process between COMMIT and rename, or between one waiting and one committing; the proofs cover every number |
| `Category` | 1; 2 in `snapshot` | calls touch one category; only the opener, the snapshot and the plan loop over all, so `snapshot` has two |
| `MaxOps`, `MaxCrashes` | 2, 1 | two calls started, then a crash at any step, then settling. A second crash during settling starts from a state the first can leave too, since settling is idempotent; the proofs have no such bound |
| `MaxVersions` | 2 | a first content, a second over it; with 2 pruning of the history is reached |
| `MaxPruned` | 1 | a backup is pruned before, between and after the listing and the copy of it and of others; the proofs have no such bound |
| `Tears` | `{TornText}` | what the first bytes of a staged file can be: matching nothing. `StoreTorn` adds one that is not UTF-8 |
| `MaxAttempts` | 2 (code: 40) | an attempt keeps nothing of the one before; two suffice for a retry |
| `Wrap`, `Reach` | 16, 4 (code: 2^64, chrono's range) | both boundaries lie inside the model's time; `Days` has values below, at and above `Reach`; those of `logs` are below `Wrap / 2`, `logs_overflow` has the largest there is |
| `Caps`, `MaxId`, `MaxTime` of a log | {0, 1, 3}, 4, 2 | no cap, the smallest, and one that is reached with entries to spare |
| `PerDay`, `Retention`, `MaxTime`, `MaxHistory` | 2, 1, 5, 4 | three days: versions live past midnight and past the retention |
| `MaxRestores`, `MaxFaults` of restore | 3, 3 | a restore over an interrupted one over an interrupted one |
| `MaxApplies` | 2 | an adoption, and one with a stale plan |
| sync: `MaxTime`, `MaxFaults` | 3 / 2, 1 | stamps before, at and after another; one lost answer, timeout or crash. `sync_push` has one device and the hub, both of which write; `sync_converge` two devices and the hub |
| `Deadline`, `BusyTimeout`, `MinPause`, `MaxPause`, `MaxElapsed` | 2, 1, 1, 2, 3 (code: 10 s, 200 ms, 5 ms, 250 ms, none) | more than one attempt fits into the budget, a pause doubles once, BEGIN can use up what COMMIT would need, and a call can be late by a tick; the proofs cover every value |
| `Category`, `Limit` of `tools` | 2, 1 | one category that changes and one that must not be missed; a limit that is reached |
| `MaxChanges` | 3 for the watched category, 1 for the other | two changes between the two reads of a delta after the one the client read; "touched" and "untouched" for the other |
| `Content` of `tools` | 3 | found by all stages of a search, by LIKE and files only, and a log that nothing finds |
| `Journals` | both | in `wal` a COMMIT never waits for readers, in `delete` it may |

Symmetry over processes and values is used in safety runs only. Deadlock is not
checked where calls are bounded and the system ends when they are used up
(`CHECK_DEADLOCK FALSE`); `logs` and the sync runs check it.

## 5. Fairness

`FairSpec` of `CategoryStore` has weak fairness, per process, on `Work` (what the
process does next), `Acquire` and `Open`: a running process proceeds, the retry loop of
`WriteTxn::begin` gets a lock that stays free, and a stopped process is started again
as MCP clients and service managers do. Nothing is assumed about calls, crashes,
errors or giving up, all of which may happen up to their bounds. SQLite does not
queue lock requests, so nothing is assumed of a lock that is taken again and
again; `LeftoversAreSettled` needs only that some holder settles.

`SyncingSpec` has weak fairness on `Apply` (the entry in hand is applied), `PushSend`
and `Receive`, and strong fairness on `Serve`, `PushExport` and `PullSend`: devices go on
calling `memory_sync`, and although the mutex of a node may be taken again by others
(so the step is disabled now and then), it is held for one synchronous section at a
time and a waiting task gets it eventually. (A `std::sync::Mutex` promises no order;
strong fairness is the weakest assumption under which a node syncs at all.) Lost requests are bounded by `MaxFaults`; a
network that loses everything converges nowhere.

`FairSpec` of `ToolCalls` has weak fairness on the steps of a call (`TxnStep \/ Changed`,
`Stage \/ Refused`, `ReadStep \/ DeltaValue`) and on the clock: a running call proceeds and
time passes. Nothing is assumed of the other processes: they may keep SQLite's lock for
good, and `CallsReturn` holds because the deadline ends the wait.

## 6. Proofs

Each proof below names the hypotheses it has beyond the ASSUMEs of its module. The ASSUMEs
say what the constants are (numbers, sets, special values outside the sets) and hold
in every configuration.

**CategoryStoreSteps, CategoryStoreProofs.** For every set of processes, categories, contents,
tears and every bound:

| theorem | establishes |
|---|---|
| `TypesHold`, `InvariantHolds` | `Spec => []TypeOK`, `Spec => []IInv` |
| `CommittedBytesSurvive` | `CommittedIsOnDisk` |
| `FilesFollowRows` | `FilesAgreeWithRows` |
| `HistoryIsBackedUp` | `HistoryPayloadsKept`, without power loss |
| `FinalNeverGoesBack`, `ConditionalWritesReplaceWhatTheyNamed` | `FinalOnlyAdvances`, `CasReplacesWhatItNamed` |
| `LogsKeepTheirEntries` | `LogsAreNotClobbered`, with no import or synced write in `Kinds` (section 7 says why) |
| `StoreImplementsRegister` | the refinement of `CategoryRegister` |
| `ReadersSeeCurrentValues`, `ReadersFindWhatIsThere` | `ReadsAreCurrent`, `UndisturbedReadsSucceed`, without power loss |
| `SnapshotIsOneInstant`, `SnapshotPassesItsVerification`, `SnapshotCoversItsHistory` | `OneInstant`, `NeverRejected`, `HistoryIsCovered`, without power loss |
| `AdoptionIsAsPlanned` | `AdoptsOnlyWhatWasPlanned` |
| `AdoptedCanBeRead` | `AdoptedStaysReadable`, without power loss |

The safety properties are not inductive: nothing in `CommittedIsOnDisk` says that
the staged file of an overtaken process will not be renamed over a newer one. `IInv`
adds what the protocol knows at each point:

- `LockInv`: a process is in a transaction exactly when it holds the lock. `RequestInv`:
  what a call carries fits its kind.
- `ShapeInv`: a category is clean, or has exactly one staged file (the row is in it or
  in the final file), or exactly one parked file (no final one; it carries the row if
  there is a row).
- `WritingInv`, `PreparedInv`, `DecisionInv`: under the lock the leftovers of the
  category are settled, what was decided still follows from the row, and what is
  staged is exactly what will be committed.
- `CommittedInv`: between COMMIT and rename the process's own file is the committed
  one, or was settled by somebody and is gone. This is the fact that makes the
  rename outside the lock safe.
- `HistoryInv`: a listed version is live or in a backup. `StableInv`: with
  `synchronous=full` a power loss leaves every committed row.
- `UndoInv`: each state of the directory a power loss may bring back fits the committed row
  just as the newest one does. `SyncedInv`: when a process is about to COMMIT there is
  none but the newest, so the row it commits is the one its durable file carries (a delete
  of what has no row changes nothing). These two make the fsync before COMMIT
  enough and the one after the rename dispensable, as the comment at
  `atomic_json.rs` 355-356 has it.

`Steps` holds two lemma layers: types of each action, and each action against the parts of
`IInv` it can disturb. `Proofs` holds the temporal theorems and the refinement.
`Resolved`, the content a category resolves to, is under `IInv` the row; so `Commit` is
the call of the register, and every other step, crashes and power loss
included, leaves `Resolved` as it is.

Assumptions: `ConstantsAssumption` (the bounds are numbers, the special values lie outside
the sets), `LostAssumption` (the value of an unknown backup is no content), and for
the theorems that speak of durability `Durable`: `synchronous=full`, or no power loss.

*Readers.* `CategoryReaders` adds steps that write nothing the protocol keeps, so `IInv`
goes on holding (`ReadersInvariant`; a power loss would end the reads too, hence `~PowerCuts`). `ReadersInv` says of a read what it
remembers of its steps: the row it read was current during the read (`Informed`), and if the
category has not changed since (`quiet`), the file that carries that row is on the list it
took or is still to be listed (`Undisturbed`). The step that matters is a rename between
two listings: `ShapeInv` says from which name to which other name the bytes can have gone, and
the order staged, parked, final covers each.

*Snapshot.* The taker of the lock is one more process of the protocol: `All` instantiates
`CategoryStoreSteps` with `Writers <- Everyone`, in which the taker is a process that opens
the store (settles) and then stays inside its transaction. Each step of the taker and of the writers is a step
or a stutter of that instance, so its invariant is used and not proved again. `CopyInv` adds that
nothing is pending while the taker copies, what is copied is what the store holds, and
a backup that is still there is copied or on the list of those to copy. A
writer cannot commit then, and the rename of one that committed before finds its file settled.
What a power loss leaves of the destination is not modelled, hence `~PowerCuts`.

*Recovery.* It starts from a store whose rows and files disagree, so `IInv` does not hold there.
`BaseInv` (`RecoveryTypesHold`, power losses included; `DirTyped` is the type of the
remembered directory states) is what remains for any store: types, one
holder of the lock, what a process has staged is what it will commit, and between the check
of the plan's entries and the commit they stay as checked: nobody else changes a row
under the lock, and a late rename leaves a category alone that has nothing pending.
`AdoptionIsAsPlanned` follows from it. `RecoveryInv` adds, for adopted categories only (`Agreed`), the shape and
the knowledge of each process that `IInv` states for all, and that the adopted bytes are the row,
parked, or in backups/ (`Kept`). No step but the adoption itself makes a category adopted,
and it finds nothing pending and no process in a transaction. Backups are not fsynced, so
a power loss may take the replaced bytes: hence `~PowerCuts`.

**LogRetentionProofs.** `UniqueIds` and `AppendsAreKept` (`KeptUnlessAgeWraps`) for every
policy; `IdsOnlyGrow`, `RetentionHolds` (`RetentionIsEnforced`) and `PruningHasCause`
(`PrunedOnlyForCause`) under `SafeDays`: ages are below 2^63 days. The strengthening `LogInv`
says that ids are unique, that some entry has the highest
one and that a log is finite. The next id is then above all ids in use; pruning by count keeps
the latest entry, and pruning by age keeps it because its time is not before the cutoff. For
the last two theorems: a log over its cap has an oldest entry and, among those newer than
a dropped one, a full cap of entries. Both exist because numbers are well-founded (`LeastNumber`); the lemma
`AppendPrunes` says what an append makes of the log: the entries young enough, of them
the newest.

**VersionHistoryProofs.** `HistoryInvariant`, `NothingRecentIsLost` (`OverwrittenIsKept`) and
`VersionsOfOneDayAreFound` (`SameDayVersionsAreFound`), under `~Coarse`: no two mutations of a
category share a millisecond. Then a backup's name is of this instant and new (`NamesArePast`), so it
overwrites none, and each content of the past that could be copied is in the very backup that was made of it (`Keeper`)
until its modification time is out of the retention (`PastIsKept`). With `Coarse` both
fail in TLC (section 7).

**StoreRestoreProofs.** `RestoreInvariant`, `StoreIsNeverMixed` (`SwapIsClosed`),
`RestoreDestroysNothing` (`NothingIsDestroyed`) and `SwapCanBeCompleted` (`CanBeCompleted`), for any
number of restores cut at any rename. `SwapInv` says how far the renames have got: a name is free
before something is renamed to it, and each piece of the snapshot is in place if its rename is behind
and staged if it is ahead. `StagedInv` says the same of the moment before the first. A
restore that finds a marker starts from whatever the one before it left, so nothing may be
assumed of the live pieces at the start; the invariant says nothing of them.

**SyncExchangeProofs.** For any devices, categories, strategy, clocks and any lost, late or failing
requests. The invariants build on each other:

| invariant | says | hypotheses | theorems |
|---|---|---|---|
| `BasicInv` | types; the clock of a stamp has passed at its device and nobody else uses the stamp; the stages of a job | none | `SyncInvariant`, `VersionsAreIdentified` (`StampsIdentifyVersions`) |
| `DecidedInv` | what `Decide` found outside the lock still holds of the row at `Upsert` | `Shared = {}` | `DecisionsAreCurrent`; `SyncKeepsTheNewer` (`NewerIsNotReplaced`) with `last_write_wins`; `AppliedIsCaughtUp` (`ImportCatchesUp`) unless `local_wins`; `ImportsAreRecognised` (`NothingIsImportedTwice`) |
| `OfferInv` | `RequestInv`: a device waits for one answer, and there is one request or answer it waits for; `HubOffers`: what the hub has was ruled on; `QueueInv`: a device's own version is dirty, or on its way in the envelope, or ruled on; `AnswerInv`: an answer without errors says that the hub has ruled on all of the envelope | `PushAssumption` | `OffersAreKept`, `QueuedUntilOffered` (`DirtyUntilOffered`) |

`Shared = {}` says that no other process writes the stores of the nodes, and `PushAssumption`
that the devices it is about write nothing between export and answer and can read what they
export: they are the limits of the code named in section 7, where TLC shows what happens
without them. The hub writes at any time, and so do devices outside an exchange.

**DeltaPollingProofs.** `UnchangedTrue`, `WritesInformed`, under `PollingAssumption` (the bound
is a number, `Absent` is none) and `Distinct`: no change brings
back old content. Contents are numbered in the order they are committed (`Numbered`); a client whose
hash is the committed one holds that content (`Informed`), and "unchanged" is
answered to no other (`Answered`).

**ToolCallsProofs.** First of the transactions, for every deadline,
timeout and backoff (`TimesAssumption`: they are numbers, a pause is at least 1):
`WaitingIsBudgeted` and `GivingUpIsEarned`. The inductive
invariant `TxnInv` (theorem `TxnInvariant`) says of a retry loop that its end is the
deadline of the whole call, or is already past, so that it cannot wait (`Budgeted`): a COMMIT
that starts late gets one attempt. `LockedInside` says that the lock is this call's exactly
between BEGIN and the end of COMMIT.

Then of the server with all its calls, for any configuration
and any number of categories, contents and changes (`ToolsAssumption`):

| theorem | establishes |
|---|---|
| `CallsAreTransactions` | the server refines `WriteTransaction`; hence `CallsWaitWithinBudget` (`WaitsAreBudgeted`) and `CallsGiveUpLate` (`BusyIsEarned`) |
| `ServerImplementsPolling` | `ImplementsPolling`: to a client of one category the server and all other processes together are `DeltaPolling` |
| `DeltaIsTrue`, `ConditionalWritesAreInformed` | `UnchangedIsTrue`, `WritesReplaceWhatTheySaw`: from that refinement and the invariant proved about `DeltaPolling`, which is instantiated, not proved again |
| `CallsReportWhatWas` | `ReportsAreOfTheCall` |
| `SearchesMissNothing` | `NothingIsMissed` |

`ServerInv` is `TxnInv`, the numbering of contents, and what a call is held to: it is in a
transaction exactly while it is at `"change"`, a conditional write carries the hash its client
holds, and what was accepted under the lock is still acceptable at COMMIT (others cannot
commit meanwhile). `ReportInv` adds that the index is the rows, that the version a category
has is among those seen since the call began, and that every hit collected is one of them. `MissInv` says at each stage of a search what the
earlier ones have ruled out: if a category has not changed since the call began, then from
the LIKE stage on it has no word the full text index finds, in the scan of the files it is
still to be read or does not match, and so on. A category that changed is `Touched` from then on.

Last of the pure decisions. Who may write: `ReservedAndBaseAreProtected`, `OnlyOwnNames`,
`DevicesAreSeparate`, `OwnersMayWrite`, from the rules in their order, for any configuration
(`NamesAssumption`: `workflow_X` determines X). What differs: `DiffIsPartition` (every
category of either store is in exactly one list of `compute_diff`) and
`IdenticalIsNothingToDo` (equal roots if and only if nothing to pull, push or resolve), under
`DigestAssumption`: no collisions of SHA-256.

## 7. What is only model-checked, and the limits of the code

Model-checked only: liveness (`LeftoversAreSettled`, `ReplicasConverge`, `CallsReturn`), which
needs fairness and ENABLED.

**Two findings.** `store_torn`: `settle_staged` reads a leftover with `read_to_string`
(`atomic_json.rs` 118). A staged file cut inside a multi-byte character is an error
there, so it is neither promoted nor discarded, and every open and every call
on the category fails until the file is removed by hand. The store's documentation
says that leftovers which do not match are discarded (`src/README.md` 241-242).

`logs_overflow`: `max_age_days` is a u64 cast to i64 (`log.rs` 122). From 2^63 days on the
age is negative and the cutoff lies in the future: the append drops every entry, its own
included, although `log.rs` 136-137 says "Never drop the entry that was just appended". (Where the
date leaves chrono's range the append panics instead, `AppendPanics`.)

The other properties hold within the parameters of their runs. Some parameters
exclude behaviour of the code that breaks them. Each item names the parameter and
what TLC reports when it is changed, so that nobody takes these runs for more than
they show.

*Store*
- `Synchronous = "normal"` with `PowerCuts`: a COMMIT may be undone after its rename, the
  previous file is gone, `CommittedIsOnDisk` fails (`txn.rs` 232). Recovery's plan then
  fails as a whole on the missing file (`recovery.rs` 129).
- `"import"` in `Kinds` of `store_heals`: the kind check of `import_category` precedes
  the lock (`mod.rs` 1062); a log created in between is replaced and `LogsAreNotClobbered`
  fails.
- `expected_hash` is compared only when there is a row (`mod.rs` 422): after a deletion
  the write creates the category anew. `CasReplacesWhatItNamed` says so.
- Readers also read candidates with `read_to_string` (`atomic_json.rs` 183) and fail on
  one that is not UTF-8 yet; `readers_recovery` has `Unreadable = {}`.

*Logs and history*
- `Coarse = TRUE`: two overwrites in one millisecond share a backup name
  (`atomic_json.rs` 310) and `OverwrittenIsKept` fails.
- `read_version` searches the day of the version only (`mod.rs` 1038), so
  `SameDayVersionsAreFound` is restricted to versions overwritten on their own day.
- Imports and upserts prune no version rows (`mod.rs` 1080), nor does `memory_compact`
  (`server.rs` 717). A deleted file keeps its modification time (`backup.rs` 20), so
  pruning may take it the next moment; `OverwrittenIsKept` speaks of the retention
  counted from that time.
- A backup copy that fails is only logged (`atomic_json.rs` 311), so a version is listed
  without a payload; one cut short does not parse, and `read_version` returns the error
  for every version of that day it meets it for (`mod.rs` 1040-1041). `OverwrittenIsKept` and
  `SameDayVersionsAreFound` say so.
- A snapshot with backups fails when a backup is pruned between its listing and its copy
  (`snapshot.rs` 125), and leaves out those pruned before.

*Sync and polling*
- `Quiet = {}`: a device that writes while its push awaits the answer loses the new
  dirty mark (`server.rs` 1118, `http_server.rs` 587); `DirtyUntilOffered` fails.
- `Broken = {c1}`: a category the export cannot read is skipped and its mark cleared
  (`sync.rs` 331); `DirtyUntilOffered` fails.
- `Shared` not empty (another process writes to the same store between the conflict
  decision and the upsert): nothing is compared again (`sync.rs` 411);
  `NewerIsNotReplaced` fails.
- Deletions carry no time and apply unconditionally (`sync.rs` 470); a pending
  deletion is undone by a pull (`sync.rs` 449). `NewerIsNotReplaced` is about versions.
- `Skew = TRUE` in `sync_converge`: a write stamped earlier than what it replaces loses
  everywhere else (`mod.rs` 451). `Offer <- Rewritten` (values written again): an equal hash
  keeps the older stamp (`mod.rs` 1270). `ReplicasConverge` fails in both.
- A pull imports whatever the remote sends: `authorize_write` is asked by three tools only
  (`server.rs` 329, 393, 546), neither by sync nor by HTTP.

*Calls of the server*
- `ToolCalls` numbers contents, so none comes back. `memory_delta` pairs a hash with newer
  content (`server.rs` 691); in `DeltaPolling` with `Distinct = FALSE` the old content comes
  back and `UnchangedIsTrue` fails.
- The scan of the files takes no filters (`mod.rs` 878): a filtered search that finds nothing
  in the index reports hits outside its filter, though the tool promises
  "category/date/actor filters" (`server.rs` 456). `NothingIsMissed` speaks of what is missed,
  and no property says that hits respect the filter.
- `%` and `_` of a query are escaped with a backslash, but the LIKE has no ESCAPE clause
  (`mod.rs` 725): such queries match nothing there and go on to the files. The model takes
  what each stage matches as given.
- `limit * 3` of the semantic search (`server.rs` 778) overflows for limits above 2^32 / 3.
- The version in a manifest comes from a query of its own (`sync.rs` 153) and may be newer than
  the hash beside it, or 0: `ReportsAreOfTheCall` allows that for a category that changed during
  the call.
- The waits of `retry_busy` outside transactions (PRAGMAs when a store opens) use
  SQLite's own timeout uncapped; `WaitsAreBudgeted` is about transactions.
- Reads in `ToolCalls` fail only when their category changes; I/O errors are in `CategoryReaders`.

*Restore*: a second restore overwrites the marker of an interrupted one and removes it
when done (`snapshot.rs` 346), so a piece it does not cover may stay parked.
`NothingIsDestroyed` still holds: it is there, in the parking directory.

## 8. What is not modelled, and why

- Migration: a sequential loop over `import_category`, which is in `CategoryStore` as kind
  `"import"`; it has no state but counters (`skipped` is counted twice per skipped file).
- Configuration, error types, CLI parsing, HTTP routing and the bearer token: functions of
  one request or one start. The values that matter (`synchronous`, `max_versions`, retention,
  deadlines, conflict strategy) are constants of the models.
- Ranking, snippets, tokenizing and the scores of `hybrid_search`: arithmetic over text. The
  models let any selection within the limit be the best one.
- Single reads without a protocol around them (memory_history, the counters of
  memory_status), and sync_push / sync_pull, which exchange by a file what
  `SyncExchange` exchanges by requests.
- `sync_push_dirty_to_remote`, which nothing calls.
- Durability of the snapshot's destination, failing backup copies beside a snapshot or a
  recovery (they are in `VersionHistory`), two restores at the same time,
  recovery by hand after a restore, plans that are not JSON, the delta a plan prints.
- The Python bridge, service files and CI hold no state of the system.

## 9. Plan

Done: the store, its readers, maintenance, logs, history, restore, sync; transactions and
their time, access control, manifests, and the calls of the server with search and
polling; failing and torn backup copies; the proofs of section 6. Next: directory entries
that a power loss loses out of order, and the counts of a migration.
