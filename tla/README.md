# MyLittleHarness in TLA+

MyLittleHarness keeps the operating memory of a repository (plan, state,
roadmap, evidence, claims) in plain files, and changes them only through
`--dry-run` / `--apply` commands. There is no server: any number of short-lived
processes, started by people and by agents, work on the same files. What can go
wrong is therefore what happens *between* files and *between* processes, and
that is what these modules are about.

Paths below are relative to `src/mylittleharness/`.

## 1. Inventory

| Component | State | Operations | Interacts with | Hard behaviour | Correct when |
| --- | --- | --- | --- | --- | --- |
| File transactions (`atomic_files.py`) | target files, `.tmp` and `.bak` sidecars, directories | `apply_file_transaction` | called by every mutating command | each file system call can fail, so can each step of the rollback; death between two calls | one update or none; originals never lost; the error message is true |
| Work-claim ledger (`claims.py`) | one JSON record per claim, the mutation lock file | create, extend, release; status; fan-in gate | file transactions; read by handoffs, checks, dispatch | check before lock, lock left by a dead process, torn records, leases | active exclusive claims are disjoint; a grant is kept; a release is final |
| Evidence (`evidence.py`) | agent-run records, receipts, and (retarget) claim and handoff records | record, retarget, refresh | file transactions; the ledger's records | rewrites text read earlier, without the ledger's lock | a rewrite changes nothing but the reference |
| mlhd (`daemon.py`) | `pid.json`, `lock.json`, `state.json`, `last-run-once.json`, autostart manifest | start, stop, run-once, install, uninstall, worker loop | spawns workers; projection cache | in-place writes, process races, stale pids, timeouts | one worker, one refresh at a time; a stop is obeyed |
| Projection cache (`projection*.py`) | artifacts, SQLite index, dirty and operation markers | build, delete, warm, mark dirty | every mutating command marks it dirty; mlhd refreshes it | markers set while a rebuild runs; crash in a rebuild | a published index is one projection; no way through the code leaves the operation marker; whatever goes wrong is repaired by a later tick |
| Plan lifecycle (`planning.py`, `lifecycle_*.py`) | the plan file, `plan_status`, `phase_status` and notes of `project-state.md` | open a plan (or replace the open one), cancel it | writeback; compaction of the state after it; the roadmap item the plan serves | plan, state and roadmap are replaced one after the other; two transactions per command; a refusal or a crash leaves the first without the second | a state that says a plan is active has its plan file; no note is lost |
| Writeback and archive (`writeback.py`, `closeout.py`) | state, archived plans, state history, closeout blocks in state, plan and archives | record a phase and closeout facts, archive the plan, refresh an archive, compact the state | plan, roadmap; transitions of `cli.py` run several of these | names of a day collide; facts of an earlier plan are still in the state | an archived plan is not lost or written over; the roadmap names archives that exist; facts stay with their plan |
| Roadmap (`roadmap*.py`) | items with status, plan and archive; the history of compacted items; order and slices | add, update, normalise | plan, archives; every lifecycle command updates its item | done items are compacted into the history and brought back from it; an open plan guards its item | an item keeps its evidence |
| Approval records (`approval_*.py`, `standing_delegations.py`) | one JSON record per packet, decision or delegation | record | file transactions | that of the file transaction | a record is written once |
| Review tokens (`review_tokens.py`) | none: a digest of what a reviewer has seen | compute, compare | the fan-in gate | the files change after the review | |
| Task sessions (`task_session.py`, `tasks.py`) | one JSON receipt per session | write a receipt; inspect | claims, handoffs | that of the file transaction | |
| Handoffs (`handoff.py`) | handoff packets | create | claims, fan-in gate | | |
| Records written once (`incubate.py`, `research_*.py`, `attachments.py`, `meta_feedback.py`, `context_memory.py`) | Markdown or JSON records | create, append | file transactions | that of the file transaction | |
| Retention and hygiene (`retention.py`, `memory_hygiene.py`, `relationship_drift.py`, `reconcile.py`) | Markdown metadata | scan, rewrite, archive | file transactions | batches over many files | |
| Read-only and pure parts (`checks.py`, `hooks.py`, `cli*.py`, `adapter.py`, `dashboard.py`, `reporting.py`, `routes.py`, `inventory.py`, `parsing.py`, `vcs.py`, ...) | none of their own | | | | |

`PROJECT.json` lists every component with its status, and the hazards, each at
its line.

## 2. Plan

1. `FileTransaction`, with `AtomicUpdate` as its abstract specification, and its
   proofs. Everything else is built on it. *Done.*
2. `WorkClaims` on top of what (1) guarantees (`TransactionContract`), with `ClaimLedger` as its abstract
   specification, and its proofs; `ClaimRewrites`, which composes it with the other writer of its records. *Done.*
3. `Mlhd`: markers, worker, run-once, and its proofs. *Done.* `ProjectionCache`:
   dirty and operation markers around a refresh, and its proofs. *Done.*
4. `Lifecycle`: plan, state, roadmap and archives, each command one transaction
   and a compaction after it, the transition that strings commands together,
   crashes and failures anywhere, and its proofs. *Done.* `Closeout`: the facts
   these commands carry from file to file and the identities that bind them, and
   its proofs. *Done.*
5. `TwoTransactions`: two concurrent calls of `apply_file_transaction` on a
   common target, to say exactly what the lock of the ledger buys; and the
   writes of `WorkClaims` and of `Lifecycle` refined by the steps of
   `FileTransaction`. *Not done*; the properties these modules take from
   `FileTransaction` are proved of it (section 5).
6. The run-onces of several workers and commands on one cache (`Mlhd` with
   `ProjectionCache`); the fan-in gate of `claims.py` with handoffs. *Not done.*

## 3. Modules

### FileTransaction, AtomicUpdate, TransactionContract (`atomic_files.py`)

One call of `apply_file_transaction`. `fs` maps every path to a text, to
`Absent`, or to `Torn` (truncated, or written in part); `dirs` is the set of
directories. `ops` is the local `planned`, `applied` and `existed` the list
`applied` with its `had_original` flags, `writtenTmps` and `createdDirs` the lists
of those names, `pc` and `k` the place of the call and of its loop, `rolling` says
that the `except` clause runs. There is one action per file system call:

| Code | Actions |
| --- | --- |
| `_portable_sidecar_operations`, `_validate_transaction_paths` | `Init`, `Validate` |
| first loop (mkdir, write the temporary file) | `SkipDelete`, `MakeParents`, `OpenTmp`, `FillTmp` |
| second loop (look, back up, install) | `Look`, `OpenBackup`, `FillBackup`, `DeleteTarget`, and the moves |
| `_replace_path`, `_replace_path_by_copy_unlink` | `Replace`, `FallBack`, `OpenCopy`, `FillCopy`, `UnlinkSource`, `UndoCopy` |
| `except OSError` | `Fail`, then `Undo` (and the moves, backwards), `SweepTmps`, `SweepDirs` |
| `_cleanup_success_backups` | `SweepBackups` |
| the process dies | `Crash` |

The retries of a denied rename or unlink are one attempt here, which succeeds or
not: they change nothing in between. Missing parents are one directory deep.
`Rooted` stands for the verdict of `root_boundary.py` on each path. A cleanup
loop, whose iterations are independent of each other, is one step that may fail
on any subset of its files.

`AtomicUpdate` is what a caller relies on: what the files *hold*, as far as it can
be recovered from file or backup, changes from the old to the wanted contents in
one step or not at all. `FileTransaction` implements it under the mapping
`Recoverable` / `Outcome`; a failure the code calls clean maps to `Abandon`, which
requires that the files themselves are as before. `CutInOrder` is the other thing
a caller may rely on, one that cares about the order of its operations: wherever a call
is cut short, the first operations are done and the last ones are not.

`TransactionContract` is the same promise for one file, as the modules assume it that
take a transaction for one step or a few: what others may see of the file while the call
runs (`Visible`), and with what in the file and what beside it a call of each outcome ends
(`Endings`). `WorkClaims` and `ClaimRewrites` write through it, and `KeepsContract` says
that every file of a `FileTransaction` goes that way. `Rank` counts the steps the call may
still take, and goes down with each of them (`EveryStepDescends`).

### WorkClaims, ClaimLedger (`claims.py`)

Any number of processes run `claim --apply`. `claims` maps each id to its record
(kind, scope, status, lease), to `Absent` or to `Torn`; `sidecars` are the ids with a
left-over `.tmp` or `.bak`; `lock` is the lock *file*. A process goes from `Check`
(`_request_findings` without the lock) over `AcquireLock`, `Recheck` and `Prepare`
(read the record again, make the new one) to the write and to `ReleaseLock` (the
`finally` clause). The write is the file transaction, through its `TransactionContract`
(`EndWrite`): while it runs the record may look like anything (`Expose`), then it is new
(`Commit`), or old (`RollBack`), or old in a sidecar at worst (`CutShort`, for a
failed rollback and for a crash). `Crash` is possible at every place and leaves the
lock; `DeleteStaleLock` is a person doing what the program cannot. `granted`,
`ended` and `troubled` are history variables, used by the properties only.

`ClaimLedger` is what a caller relies on: one ledger on which a request takes effect in a single
step (`Grant`, `Extend`, `Release`), with the check for overlaps in the same step. A write
that is cut short took effect, or did not, or the record is lost: then nothing is
recorded under its id ever again (`CutOff`; `UseUp` for a create that failed
cleanly but left a sidecar). `WorkClaims` implements it under `Standing`: a record counts as it
was until its write is done, and as lost if it is torn, or missing next to a
sidecar that refuses every later write.

Requests are well-formed: a malformed id, lease or path is refused by
`_request_findings` before anything is looked at, and changes nothing.

### ClaimRewrites (`evidence.py`)

`WorkClaims` plus processes that run `evidence --retarget-ref --apply` on claim
records. The plan is made from a text read once; the transaction follows later,
with no lock and no overlap check, and ends as `TransactionContract` says.

### Mlhd (`daemon.py`)

The commands `start`, `stop` and `run-once`, the workers and their run-onces are
processes, identified by pids that are used again. `stage[p]` is what the process
of pid `p` does next, `known[p]` the pid it has read or the child it has spawned,
and the four files are the only things shared. Readers take the files one by one,
in the order of `inspect_mlhd_control_state`, and `write_text` is two steps, the
truncation and the text, so that a reader may find a file empty. A process that
has ended is a zombie, alive for `os.kill(pid, 0)`, until its parent waits or ends.

| Code | Actions |
| --- | --- |
| `_apply_mlhd_start` | `ReadPid`, `ReadLock`, `Decide`, `RemovePid`, `RemoveLock`, `Spawn`, `WritePid`, `WriteLock`, `OpenState`, `FillState` |
| `_apply_mlhd_stop` | `RemovePid`, `RemoveLock`, `OpenState`, `FillState` |
| `_apply_mlhd_run_once` | `ReadState`, `Guard`, `OpenLastRun`, `FillLastRun`, `OpenState`, `FillState`, `Refresh` |
| `_MLHD_WORKER_LOOP_CODE` | `LookForMarkers`, `GiveUp`, `LookAgain`, `Tick`, `Reap`, `Timeout` |
| a command is typed; a process is killed or raises | `Launch`; `Crash` |

`state` and `lastRun` hold the pid of the run-once they report at work, or `Quiet`
for every other payload: nothing else in them decides anything. Liveness of a pid
is looked up together with the last read. `cut` is a history variable: which of
the two markers was left behind by a process that was killed.

### ProjectionCache (`projection_artifacts.py`, `projection_index.py`)

A projection is a function of the sources, so an artifact, the index and a
projection are each the versions of the sources they were computed from. Sources
that are not cold are read with the inventory, once per command; cold ones again at
every projection, so that one refresher may hold two projections that differ. A
writer (`Change`, `MarkDirty`, `ForgetToMark`) is a mutating command: it changes sources
first and marks both targets afterwards, if at all. A refresher runs one of four kinds
of command: a tick (`mlhd run-once`), a warm-up (`projection --warm-cache`, and the
refresh before a search), a build, or a delete.

| Code | Actions |
| --- | --- |
| a command is typed; a worker's tick; `_mlhd_projection_autorefresh_apply_findings` | `Launch`, `Tick`, `Pulse` |
| `warm_projection_artifacts`, `inspect_projection_artifacts` | `Look`, `ReadA` |
| `build_projection_artifacts` | `BeginOperation`, `ProjectA`, `CopyA`, `InstallA`, `ClearA`, `EndOperation`; on an error `FailA`, `UndoA` |
| `delete_projection_artifacts`, `delete_projection_index` | `NothingToDelete`, `BeginOperation`, `UnlinkA`, `UnlinkI`, `EndOperation` |
| `warm_projection_index` | `Look`, `ReadI`, `LookAgain` |
| `incremental_projection_index` | `SkipInc`, `BeginOperation`, `CopyInc`, `PublishI`, `ClearI`, `EndOperation` |
| `build_projection_index` | `BeginOperation`, `DraftI`, `PublishI`, `ClearI`, `EndOperation` |
| time passes; a process is killed | `Quieten`; `Kill` |

The artifacts are written by one file transaction, whose moves are repeated here in
short because two refreshers may run theirs at the same time; the steps of the
transaction that concern one file only are taken together. `litter` says that
temporary files of a dead process, or a backup, are left over: they make the artifacts
"unexpected". Only a build makes the cache's directory: without it the artifacts have nothing to
delete (`NothingToDelete`), while the deletion of an index goes through all its steps, with a
marker that cannot be written. `abandoned` is a history variable: the owner of the operation marker
was killed, or could not unlink it. Not modelled here: the writes of temporary files
of the markers themselves, a corrupt file or schema, a missing FTS5, paths that are
directories or symbolic links, and what an inspection finds beyond the first thing.

### Lifecycle (`planning.py`, `writeback.py`, `roadmap.py`, `cli.py`)

`disk` maps the files to what the commands read back of them: the state's
`plan_status`, `phase_status`, its notes (a number each) and its links to history
archives; a plan's title, item and phase; the roadmap's items with status,
`related_plan`, `archived_plan` and whether they have the facts a compaction asks for
(`proved`: a verification summary and a docs decision that is not uncertain; a later update may
take the decision back to uncertain),
and the history of compacted items. `tx` is the transaction that runs and `todo[p]` what
is left of the command of process `p`; `leftovers` are sidecars that block a
later command, `unrestored` the files of a rollback that was killed between unlinking a
target and moving its backup back.

| Code | Actions |
| --- | --- |
| `plan_apply_findings` with and without `--update-active`, `plan_cancel_apply_findings` | `Open`, `Cancel` |
| `writeback_apply_findings`, `_writeback_archive_apply_findings`, `_apply_state_compaction` | `Writeback`, `ArchivePlan`, `Compact`, `SkipCompaction` |
| `roadmap_apply_findings`; within the other commands `_roadmap_plan_from_text`, `_refresh_archived_completed_history` | `AddItem`, `UpdateItem`; `Changed`, `Refreshed`, `Replayed`, `Retargeted` |
| `_transition_apply_findings` | commands of several requests in `todo`; `Stop` |
| `apply_file_transaction` | `Begin`, `Install`, `Commit`; `Fail`, `Remove`, `Restore`, `GiveUp`; `Crash` |

A command looks at the files, decides and begins its transaction in one action: it is
assumed that no other command reads or writes between a command's look and the end of
its transaction. Between the transactions of one command (the compaction, and the
parts of a transition) the others run freely. A gate that is not modelled may refuse any part: `Stop`.
A transaction that fails ends its command, except a compaction, whose failure is a warning: the
command goes on (`GiveUp`). A plan may be archived by a phase that the item's status stands for
(`FinalPhase`), and is archived with the phase that was asked for, if one was (`WrittenPhase`).
All of it happens on one day, within which the names of archives collide. Left out are
slice batches, incubation notes and route retargets, rollbacks that fail themselves, and the order,
slices and dependencies of roadmap items, of which only the rule is kept that a request for another
one (`moves`) is refused while a plan is open for another item.

### Closeout (`writeback.py`, `planning.py`)

Where the facts about the end of a plan go: the block in `project-state.md` (`block`),
the fields of the plan file (`plan.body`), and body and block of each archive. A fact
remembers the number of the plan it is about (`of`), which no file of the program does; an
identity (`id`, `active`, `archived`) is what the program has instead. Each
command is one step.

| Code | Definitions |
| --- | --- |
| `_current_closeout_identity`, `_closeout_identity_matches` | `Identity`, `Matches` |
| `_writeback_request_with_active_plan_facts`, `_state_closeout_authority_facts` | `Harvested` |
| `_closeout_writeback_plan`, `_ordered_closeout_values`, `_active_plan_text_with_synced_values` | `Planned`, `Merged`, `Synced` |
| `_archive_closeout_authority_carry_plan`, `_archived_plan_closeout_authority_carry_plan` | `Carried`, `Refreshable` |
| the commands | `Open`, `Cancel`, `Writeback`, `ArchivePlan`, `Refresh` |
| a person edits or removes the plan file | `EditPlan`, `RemovePlan` |

An archive may be refreshed while a plan file exists. If that plan has another title, the facts
of the two cross over (`Crossing`; run `closeout_refresh` shows a case the docs exclude): the
properties say of every other step that facts which were right stay right, and the
theorem `AlwaysRight` that they always are in a history without such a refresh. `plan_id` is the date and the slug of
the title (`planning.py:261`), so that two plans of one title opened on one day have the same:
the properties speak of the id, not of the plan, and must.

## 4. Runs

| Run | Shows |
| --- | --- |
| `file_transaction` | the guarantees below on two files: three plans that are carried out (two writes, a delete and a write, a write and a delete: archiving) and seven that each break another rule of the validation; each target exists or not, one may be torn, and sidecars of both kinds may be left over |
| `work_claims` | two processes, two overlapping claims (a directory, and a path below it or a reader's claim of the same), a lease in the past, one that runs out before the clock stops, one write cut short |
| `claim_rewrites_release` | *violated*: a retarget that read the record before its release makes it active again |
| `mlhd` | two commands at a time, workers and their run-onces on three pids, two processes killed at any point, any number of timeouts |
| `mlhd_workers_end` | one command at a time, three pids, one process killed: no worker outlives its markers |
| `mlhd_duplicate_refresh` | *violated*: "duplicate run-once should not start projection refresh" (`tests/test_cli.py:12948`) - the guard reads before it writes |
| `projection_cache` | the worker, a live and a cold source, two artifacts, two changes that are marked or not, one failing call, one kill |
| `projection_cache_overlap` | the worker and one command of a person of every kind, one source, two artifacts, one change, no failures |
| `projection_cache_heal` | *violated*: `self_heal_command=mylittleharness --root <root> mlhd run-once --apply` (docs/specs/generated-state-and-projections.md:121) - run-once defers for ever to the operation marker of a refresher that was killed; a warm-up or a build by hand removes it |
| `lifecycle` | a transition (complete, archive, open the next plan, mark its item active) next to single commands of a second process: open, replace and cancel a plan, complete and archive it, add and update items; one transaction fails or is killed anywhere |
| `closeout` | two plans opened, cancelled, replaced, closed, archived and refreshed in every order, with requests that give no facts, some or all, harvest them or synchronise them |
| `closeout_refresh` | *violated*: such a refresh "is target-bound by archived-plan identity" (docs/specs/attach-repair-status-cli.md:208) - the identity it compares is that of the plan that is open, whose facts it writes into the archive |

Properties of `file_transaction`: `OriginalSurvives`, `CommitIsComplete`,
`CleanFailureRestores`, `CutInOrder`, `OtherFilesUntouched`, `QuietCommitLeavesNoSidecar`,
`CleanFailureLeavesAtMostOneSidecar` (an error while a backup or a temporary file
is written leaves that one file, torn and unreported, and nothing else),
`CleanFailureRemovesDirs`, `IsAtomicUpdate`, `KeepsContract` (what the ledger assumes),
`EveryStepDescends` and `Terminates`, and the inductive
invariant `IInv`. Properties of `work_claims`: `ActiveClaimsAreDisjoint`,
`GrantsAreKept`, `ReleasedStaysReleased`, `IsClaimLedger`, `RequestsEnd`, and its `IInv`. Properties of
`mlhd`: `ActiveMarkersAreTrue` (a marker that says at work is true or was left by a
killed process, whatever else was written in between) and `IInv`, whose part
`Family` says that a timeout never kills a stranger; of `mlhd_workers_end`:
`WorkersEnd`. Properties of the cache: `IndexIsOneProjection` (an incremental refresh
trusts a dirty marker that may have replaced another, but never publishes a mixture),
`CommandsDescend` (a command that writers and other refreshers keep overtaking retries once and
ends: `StepsLeft` goes down with each of its steps and never up),
`Settles` (unless an operation marker is abandoned for good, the worker's ticks leave artifacts
and index up to date and unmarked for good, whatever was forgotten, cleared too early
or installed by two builds at once), and `IInv`, whose part `MarkerIsOwned` says that
an operation marker nobody works under was abandoned. Properties of `lifecycle`:
`ActivePlanIsThere` (in the middle of a transaction, of a rollback and after a crash),
`EvidenceIsThere` (archives the roadmap names exist), `NotesAreKept` (by compactions cut
short anywhere), `PlansAreArchived` and `ArchivesAreKept`. Of `closeout`:
`CopiesStayRight` (the facts in plan files and archives) and `StateStaysRight` (those in the block
of the project state): no step but a crossing refresh puts facts under the id of another plan.

Bounds. Two operations are enough for a transaction to fail with one target done
and one not; no step relates three. Two processes and two claims are enough for a
check to be overtaken, since the ledger's rules relate claims in pairs; `MaxTime =
2` lets a lease of 1 go stale; `MaxTrouble = 1` allows one record to be damaged,
so that the other one's guarantees are tested next to it. Three pids are a worker,
its run-once and a command, or a start, its worker and an older worker; each pid is
used again after that. For the cache, two artifacts are enough for a set that is half
of one build and half of another, one live and one cold source for a refresher whose
two projections differ, and two changes for a dirty marker that replaces another; with
two refreshers there is one source, since they differ by when they read it. For
the lifecycle, two items are the one a plan serves and the next one; one title makes every
archive of the day want the same name, two copies are a name and its first alternative;
a tail of none and a limit of one note make the compactions of roadmap and state happen
at the first done item and at the second note. For closeouts, two plans are an earlier one
and a later one, whose titles are the same or not. The proofs have none of these bounds. `CHECK_DEADLOCK FALSE` is set because a call, once ended, stops, because
a ledger may have nothing left to grant, and because bounds on files and troubles are
reached at last.

Fairness. A call of `apply_file_transaction` and a running claim command never wait
for anything, so weak fairness of their own steps only says that the operating
system runs them. Nobody is obliged to make a request, to delete a stale lock, or
to keep a process alive: `RequestsEnd` and `Terminates` hold without that. In
`Mlhd` every process takes its steps, except that a refresh may hang: then only the
timeout ends it. Strong fairness of `GiveUp` stands for the count of 50 looks, which
no worker exceeds, and which the model leaves out. `WorkersEnd` is checked of one
pid; the specification is the same for all. In `ProjectionCache` a command that has
begun runs on, the worker ticks for ever (`while True` of `_MLHD_WORKER_LOOP_CODE`), and
a dirty marker gets older than the quiet period; nobody is obliged to change, mark, build or
delete anything. `Lifecycle` and `Closeout` assume no fairness: nobody is obliged to finish
a plan, and nothing is promised that would need it.

## 5. Proofs

The modules `*_proofs` prove, for every value of the constants that satisfies the
`ConstantsAssumption` of `FileTransaction`, `RequestsAssumption`, `MlhdAssumption`,
`CacheAssumption`, `LifecycleAssumption` or `CloseoutAssumption` (types, that bounds are
numbers, and that `Absent`, `Torn` and the like are no texts, records or pids):

* `FileTransaction`: `Invariance` (`IInv`), `NothingLost` (`OriginalSurvives`),
  `AllInstalled` (`CommitIsComplete`), `AllRestored` (`CleanFailureRestores`),
  `OthersKept` (`OtherFilesUntouched`), `Refinement` (`IsAtomicUpdate`); and in
  `FileTransactionCleanup_proofs` `CleanupInvariance`, `TypeCorrect` (`TypeOK`),
  `InOrder` (`CutInOrder`), `QuietCommit` (`QuietCommitLeavesNoSidecar`),
  `OneStraySidecar` (`CleanFailureLeavesAtMostOneSidecar`), `DirsRemoved`
  (`CleanFailureRemovesDirs`), `ContractKept` (`KeepsContract`); in
  `FileTransactionProgress_proofs` `CallIsBounded` (`EveryStepDescends`: a call of `n`
  operations ends after at most `30 n + 11` steps);
* `WorkClaims`: `Invariance` (`IInv`), `TypeCorrect` (`TypeOK`), `Disjointness`
  (`ActiveClaimsAreDisjoint`), `NoGrantIsLost` (`GrantsAreKept`), `ReleaseIsFinal`
  (`ReleasedStaysReleased`), `OneLedger` (`IsClaimLedger`);
* `Mlhd`: `Invariance` (`IInv`), `TypeCorrect` (`TypeOK`), `MarkersAreTrue`
  (`ActiveMarkersAreTrue`), `TimeoutKillsItsOwn`;
* `ProjectionCache`: `Invariance` (`IInv`), `TypeCorrect` (`TypeOK`), `MarkerOwned`
  (`MarkerIsOwned`), `IndexIsWhole` (`IndexIsOneProjection`), `CommandsAreBounded`
  (`CommandsDescend`: a command with `N` artifacts ends after at most `3 N + 25` steps of its own);
* `Lifecycle`: `Invariance`, `TypeCorrect` (`TypeOK`), `ActivePlan`
  (`ActivePlanIsThere`), `Evidence` (`EvidenceIsThere`), `Notes` (`NotesAreKept`),
  `PlansArchived` (`PlansAreArchived`), `ArchivesKept` (`ArchivesAreKept`);
* `Closeout`: `Invariance` (`IInv`), `TypeCorrect` (`TypeOK`), `CopiesRight`
  (`CopiesStayRight`), `StateRight` (`StateStaysRight`), and `AlwaysRight`: without a
  crossing refresh `FactsFitTheirId` and `StateFactsFitTheirId` hold always.

The argument for a transaction. The guarantees say nothing of the places the loops
have reached, so they are not inductive. `IInv` adds: the plan is valid once
anything is touched (`InvChecked`), `applied` is exactly the prefix the loop has
passed (`InvPosition`), targets outside it are untouched (`InvApplied`), every
operation that can still be rolled back has a complete backup (`InvSaved`), every
operation the rollback has passed is undone or reported with its backup intact
(`InvUndone`), temporary files wait complete (`InvTmps`), installed targets stay
(`InvInstalled`), and a copy in progress has the right bytes in hand (`InvCopy`).
Distinctness of the paths of the plan is what keeps one operation's step from
disturbing another's conjunct. What is left behind needs a second invariant on top of
it, `CleanupInv`: the targets the rollback has not reached are still installed
(`InvOrder`), the directories made since are on the list (`InvDirs`), going forwards the lists
know every sidecar but the one at hand (`InvHeld`), and so in a rollback without errors all but
one are on a list (`InvLeft`).

Both invariants together give `KeepsContract`: the first says what every file holds, the
second what is beside it, and the outcomes are told apart by the errors of the rollback. That
a call is bounded needs neither: every step either takes a loop to its next turn or goes
to a later place of the same turn, so that ten times the turns left, over all loops that
may still come, and the steps left of this turn go down together. The failing clause is entered
once (`rolling` is never reset), and turns the loops round.

The argument for the ledger. `ActiveClaimsAreDisjoint` has to survive a write of
which other processes see fragments. `IInv` adds that at most one process is past
the lock (`Exclusion`), that its second check still holds when it makes the record
(`StillAllowed`), and that both the record it replaces and the one it writes would
fit into the ledger as it is (`Prepared`): whatever the transaction leaves behind,
old, new, torn or nothing, is then allowed. `EndsAreGuarded` and `GrantsAreRead`
say what the writer of a released or granted claim found there. For the refinement every
step of a process that is not the end of a write leaves `Standing` as it is, because
the lock leaves one writer (`LedgerStands`); the end of a write replaces what `Prepared` says
was found there (`WriteEnds`), and is a step of the ledger because what the second check found
still holds (`WriteTakes`).

The argument for mlhd. That a marker is true is inductive by itself, but the types
are not: `pid.json` gets a pid, and not nothing, because a start still knows its
worker when it writes, and a timeout, which forgets what the killed process knew,
could disturb that. `Family` excludes it: a parent's child exists, is nobody else's,
and is a run-once if the parent is a worker. It holds although pids are used again
because a pid is free only when nobody waits for it.

The argument for the cache. Nearly every action moves one process to another stage
with an edited job, so the lemma `Move` says once what a move may not disturb, and
`PlainMove`, `WorkMove`, `ArtifactMove` and `PublishMove` specialise it to stages that
expect nothing, to work under the marker, to the transaction and to publication.
`MarkerIsOwned` is inductive because a move out of `Operating` either removes the
marker or records it as abandoned. `DraftIsProjection` (what is about to be published
is the projection it was checked against) makes the action property on the index follow
from single steps; `InRange` keeps the loops of the transaction within the artifacts. The rank
of `CommandsDescend` orders the stages; within the loops it counts the artifacts left, and a
rollback has fewer steps left than the transaction it undoes.

The argument for the lifecycle. A property of the disk in the middle of a transaction
cannot be carried from step to step, as a step undone in a rollback follows from nothing
but what the transaction was begun with. `IInv` therefore says of a transaction that the
old files with its first `j` operations done are good, for every `j` (`Decided`), and that the disk
is one of these (`Position`), or one with the file at hand taken away, which is good as well if
that file counts as in its backup (`GapIsGood`). What remains is to show of each command that it decides
on nothing else. `Careful` asks it of each operation by itself (an active state comes after its
plan, a roadmap after the archives it names, a shortened state after the history), and
`CarefulIsGood` is the passage from there to every prefix. `ChangedKeeps` says that no
update, compaction or replay of the roadmap names an archive that it was not
given or named before.

The argument for closeouts. The types, the title of every plan file and archive (that which its
serial number was opened with) and `active => plan # Absent` are inductive
whatever is refreshed (`IInv`). On top of them the facts are right together in all files: those
that `Planned` merges are of one id because `Matches` compares ids, or because the
identity at hand is that of the plan file. The lemmas on the steps have a
parameter `ok`, which says whether the facts were right, so that each step is looked at
once for both theorems; only the refresh needs the plan file to be absent or of the
archive's title. Titles are tied to serial numbers (`Opened`), because a fact knows the
number and an identity the title.

Only model-checked: liveness (`Terminates`, `RequestsEnd`, `WorkersEnd`, `Settles`), which
the provers do not reach, and what is found violated. Of `Terminates` the bound is proved, and
what is left to the model checker is that fairness makes the next step happen; for `Settles` it is
proved that every command ends, and checked that the last ones leave the cache up to date. Every other
property of a run is proved.

## 6. Observed, and not kept as runs

These were found while the models were written, and are not checked by a run of their own:

* the lock of a claim command that died is never taken back, and the refusal asks to "retry
  after the in-flight claim mutation finishes" (`claims.py:784`);
* a reference retarget writes a claim record without the overlap check of `claims.py` (`evidence.py:5146`);
* a start during a worker's tick finds the status run-once-active and not running, and spawns a second
  worker (`daemon.py:896`), where `daemon.py:223` announces one; both end with the markers;
* `roadmap --action add` of an id that was compacted into the history makes a new item, and the
  next refresh of the history drops the entry (`roadmap.py:2861`, `roadmap.py:3485`), while an update brings
  the old item back with its archive;
* two plans of one title opened on one day have one `plan_id` (`planning.py:261`), so that the facts of the
  first pass for facts of the second.

## 7. Not modelled

Two calls of `apply_file_transaction` at once on one target, for which the program promises
nothing (`docs/security.md:37-49`); mlhd composed with the cache; of evidence, all but the retarget of claim records;
the gates that only refuse. Approval records, task sessions, handoffs, incubation, research and
attachments each write one record with one file transaction and are read by reports only: what
could go wrong is in `FileTransaction`. Review tokens keep no state. Retention and hygiene are
scans whose writes are file transactions. Left out for good: the diagnostics, hooks, routes, rendering and
parsing, which are most of the source and compute findings from texts, and the
projection itself, a pure function of the files.
Inside the modelled parts: symbolic links and path resolution (the constant
`Rooted`), nested missing directories, the dry runs (they write nothing), and the
texts of findings except the ones a property quotes.
