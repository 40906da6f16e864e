# A TLA+ model of NazoAuthCtl

NazoAuthCtl installs, updates, rolls back, backs up and removes NazoAuth
deployments on local and remote hosts.  It keeps no daemon: every command is a
short-lived process that may be killed or lose its connection at any point,
and everything it promises about resuming, replaying and undoing rests on a few
durable files.  These modules model those files and the processes that read and
write them; TLC checks them on small instances and TLAPS proves the most
important statements for instances of every size.

Paths below are relative to the repository root.

## Inventory

| Component | State it keeps | Operations | What makes it correct |
|---|---|---|---|
| Target operation journal (`src/target/journal.rs`, `src/file_lock.rs`) | one JSON-lines file per deployment scope, one lock file | `run_journaled`: repair, compact, conflict, replay, resume, admit, append, execute, settle | an id means one request; an interrupted operation keeps its resume point; a settled one is answered, not run again; the file stays readable |
| Update and rollback executor (`src/target/update_exec.rs`) | configuration file, configuration snapshots, runtime object | preflight, snapshot, stage, migrate, replace, start, gate, commit, undo | a failure restores; a migration fences; a resumed order converges |
| Deployment state (`src/target/deployment_state.rs`) | one document: current, previous, revision, schema token, fence, active operation | bootstrap, `record_migration_applied`, update and rollback commit, recovery, uninstall | revision compare-and-set; the rollback pair is one that was healthy and fits the database |
| Controller intents (`src/instance_lifecycle`) | one pending `HostOperation` per deployment | save, resume, clear | never a second order before the first is resolved; every order resolves |
| Runtime backends (`crates/nazoauthctl-runtime`) | systemd units, containers | observe, stop, replace, start, one-shot | a replacement never destroys an object in use |
| Target routing (`src/target/mod.rs`, `wire.rs`, `remote_exec.rs`) | none of its own | `execute_journaled`, `answer_*`, receipts | preconditions checked under the journal lock |
| Control dispatch (`src/controller_identity/dispatch.rs`, `journal.rs`, `src/conformance.rs`, `src/target/control_exec.rs`) | single-slot `operation-journal.json`, target journal entry, operator's accept-once record | prepare, send, classify, settle, resume | an operation of unknown outcome is never replaced by a new one |
| Controller identity (`src/controller_identity/lifecycle.rs`, `store.rs`) | keys, active pointer, pending requests | register, activate, rotate, revoke, reconcile | local and server view converge after a crash; the last usable key is never lost |
| Recovery and transfer (`src/controller/surface_run.rs`, `recovery_journal.rs`, `transfer_journal.rs`) | a phase journal on each machine | phases across controller, target and server | each phase is durable before the next begins |
| Backup and restore (`src/target/backup_exec.rs`, `backup.rs`) | backup sets, receipts, candidate runtime | capture, verify, restore, promote, abort | a restore is complete or undone; it ends the fence it supersedes |
| Installation (`src/clean_install`, `src/target/install_exec.rs`) | install journal, created resources | plan, apply, health, public verification, cleanup | a resumed install adopts only what it created |
| Uninstallation, adoption | completion record, retained data | remove, converge, adopt | an old retry never removes a new generation |
| Fleet and registry (`src/registry.rs`, `src/fleet`) | one registry document | compare-and-set under a lock, bounded parallel reads | no lost update |
| Public TLS, ACME (`src/tls*`) | certificate generations, account, order journal | issue, install, activate, restore | always one complete active generation |
| Self-update (`src/controller/self_update.rs`) | staged and previous executable | download, verify, state check, swap, restore | a bad binary is never the only one left |
| Conformance orchestrator (`crates/nazoauthctl-conformance`, `crates/nazoauthctl/src/ordinary_run.rs`) | run journal, controller's operation slot, retention manifest, Suite plans, temporary tenant | provision, create plans, run modules in parallel, clean up, retain, recover | nothing is left at the Suite or the target without a durable owner; success is true |
| Transport, files, processes, command line, presentation | none that outlives a command | | |

How they interact: a command saves its intent, sends one `HostOperation`
(locally or over SSH) and waits for a receipt.  The target runs it inside
`run_journaled`, under the deployment's file lock; the answer handler checks the
order against the deployment state and enters the executor, which changes the
configuration file, has the one-shot operator migrate the database, replaces the
runtime object, and commits to the state document.  Each of these is durable by
itself, so there is a crash point between any two.  The controller clears its
intent according to the receipt; a command that saw no receipt sends the same
operation again.

The hard behaviours are therefore: a kill between two durable effects and the
re-execution that follows; an answer that is lost although the work was done;
undo after a partial failure, and what a re-execution knows about the effects of
the interrupted one; a bounded journal that has to forget; several helper
processes on one file; something that must eventually be resolved while
everything else is refused.  `PROJECT.json` lists them as hazards, each at its
line.

## Modules

| Module | Contents |
|---|---|
| `TargetJournal` | the journal file, its lock and the steps of `run_journaled` |
| `Optional` | the absent value, for the components that are proved about together |
| `OperationLedger` | what the journal promises: an atomic table of operations |
| `TargetJournal_proofs` | theorems about the journal, and that it implements the ledger |
| `Lifecycle` | update and rollback end to end: controller intent, journal entry, executor, operator task, runtime object, state document |
| `Lifecycle_proofs` | types and the fence of the lifecycle, and what its orders leave behind |
| `ControlDispatch` | signed control operations: the controller's single-slot journal, sessions on the target, its stored answers, the server's accept-once record |
| `Recovery` | disaster recovery: the controller's durable plan and the five operations it drives on the target |
| `Recovery_proofs` | theorems about recovery |
| `BackupTransfer` | snapshots, restore rehearsals and the copy of a snapshot to another host |
| `BackupTransfer_proofs` | theorems about backup evidence and copies |
| `ControllerKeys` | the key store of one machine and the flows on it, against the server's slots and recovery root |
| `Controller_proofs` | theorems about the keys, and about `ControlDispatch`, which signs with them |
| `Installation` | clean install, registration and uninstall of deployments |
| `Installation_proofs` | theorems about installation, and about `SelfUpdate` |
| `CertificateInstall` | activation of TLS material behind one link and one proxy |
| `AcmeIssue` | issuing a certificate through HTTP-01 |
| `PublicTls_proofs` | theorems about `CertificateInstall` and `AcmeIssue` |
| `SelfUpdate` | replacement of the controller's own executable |
| `RunJournal` | the record of a conformance run and what its methods do to it |
| `SuiteRun` | plan creation, worker threads, merging, deletion and retention; extends `RunJournal` |
| `ConformanceRun` | the whole command with provisioning, cleanup and recovery; extends `SuiteRun` |
| `ConformanceRun_proofs` | theorems about the conformance run |
| `MC*` | one instance of each for TLC |

### TargetJournal

A line of the file is a record with its position, the operation id, the hash of
the request, its status and the bytes it takes; the file is a set of lines and
possibly a torn tail.  `pc[p]` is where helper `p` is in `run_journaled`: `read`
(lock held, first read and repair), `shrink` (the first compaction), `admit`
(conflict, replay, resume or fresh), `append`, `trim`, `execute`, `settle`,
`final`.  A request is an id and a hash; `KindOf` says what `run_journaled`
tells apart about it: updates may be no-ops, recovery phases and uninstalls run
again after a failure.  The executor is its set of possible outcomes.  `Interrupt`
is a kill or an I/O error at any step, `InterruptAppend` an append that stops
after some bytes; a record that only lacks its newline is kept by the repair,
every shorter prefix is cut.  `compact_lines` is the source's walk over the
terminal lines with its three budgets, as a recursive function.

`OperationLedger` has one entry per id and the set of ids in execution; entries
are accepted, reopened, started, settled, discarded and forgotten, each in one
step.  The refinement maps an entry to the newest line of the repaired file.

### Lifecycle

`x` is the executing order with its `PerformedSteps` (`wrote`, `replaced`,
`applied`, `unknown`, `result`), its position and its failure code; the journal
lock makes it one.  Every durable effect is an action: `Snapshot`, `Stage`,
`Migrate` (the operator task, with its own journal `oper`), `Receive` (the fence),
`TakeDown`, `PutUp`, `Start`, `Check`, `Commit`; a failure leads to
`KeepWriterStopped` or to `UndoConfig` and `UndoRuntime`; `Conclude` writes the
terminal line (or keeps the entry pending, or removes it).  Actions with `Fault`
are failures of the environment at that step; `Crash` kills the target process
anywhere.  Every write can fail: `SnapshotFault`, `StageFault`, `ReceiveFault` and
`CommitFault` are the failed writes of snapshot, configuration, fence and document,
`RefuseAtEntry` the document that cannot be read.  `atomic_write` renames and then
syncs the directory (`filesystem.rs:256`), so a failed write has either changed
nothing or taken place all the same (`StageMisreported`, the second case of
`CommitFault`, the late fence of `ReceiveFault`).  `misreported` remembers the orders
this happened to, `leftover` that an order ended otherwise than it was reported:
not undone, reported as failed though committed, or settled as `RECOVERY_REQUIRED`
without a recorded fence.  `runtime.loaded` is the configuration the process was started with
and `None` when it is stopped, so "on disk" and "in effect" are two facts.  `db`
is the set of artifacts the database schema is compatible with; a migration that
applies leaves only its own.

The journal entry of an order is its status here, not the file: that is what
`TargetJournal` and its refinement of the ledger justify.  The operator task and
the container engines are external; they are modelled from how `update_exec.rs`
and the backends use them.

### ControlDispatch

`slot` is `operation-journal.json`.  `ctl[c]` is a controller process: `record`
(a fresh operation is signed and not yet in the slot), `send`, `wait`, `settle`
(it has an answer), `persist` (the slot is marked accepted, the caller's callback
runs) and `clear`.  `Mint` reads the slot without the lock and
`record_dispatched` reads it again under it, as `prepare_control_operation` does;
`Resume` sends the stored request again when content and revision are the
journaled ones.  A command that is refused changes nothing and is not an action.

A sent request is a member of `sessions` and outlives its process (`Abandon`
leaves it without an addressee).  At the target one session at a time holds the
journal lock: `Busy`, `Replay` or `Admit`; `exec` is the admitted one.  The
one-shot operator rejects (`Reject`), accepts (`AcceptOnce`) or answers from its
record (`Known`); `Conclude` writes the terminal line, or leaves the entry
pending when the outcome is unknown.  An answer is what `classify_receipt` can
tell apart: the two terminal results, in progress, a rejection before acceptance,
a drift (any other failure that is stored), and an error that is not stored.
`Rotate` and `Activate` are the server's and the local step of a key rotation,
`Advance` is an order that changes the configuration revision.

The server is external.  From how the code uses it: it accepts an id at most once
and answers a known id from its record before it looks at key or revision;
retired keys are not authorised again; its work goes on when the session has
gone.  The target journal keeps the entry of an operation while a controller may
still ask for it; what its bounds may drop is the subject of `TargetJournal`.
The rejection classes `deployment` and `conflict` do not occur with one
deployment and fresh ids.

### Recovery

`plan` is `recovery-plan.json`; it names the ids of the five host operations
(restore, stage a candidate, invalidate the old sessions through it, activate,
clean up), so `NextRole` is the command's own reading of what is left.  `sess`
holds requests that reached a helper and may outlive the command, `jrn` is the
target journal (a failed recovery phase may run again), `job` the one operation
under its lock.  `parts` are data, secrets and configuration, each with a live,
a staged and a rollback path; `SwitchPart` is one rename of
`switch_recovery_path`, so every half-switched state occurs.  `cand` and
`runtime` are the candidate and the served object, `server` and `passed` the
external accept-once record of an invalidation and its deadline.  `ChangeVersion`
is a rerun with another target version, `TakeSnapshot`, `UpdateElsewhere` and
`Ceremony` what other commands may do meanwhile.

### BackupTransfer

`phase`, `plan`, `cursor` and `receipt` are `backup-transfer.json`.  An operation
kind has one current id, so a journal is a function from kinds to statuses.
`incoming` counts half chunks: `WriteChunk` tears a write, and the offset check
and truncation of a repeated one are what repairs it.  `latest`, `restored` and
`offHost` are the evidence the backup projection reports.

### ControllerKeys

`keys`, `active`, `binding` and the three pending files are the machine; `slots`,
`root` and `accepted` the server, modelled by what `ControllerRegistryApi` is
used for.  A flow is a process that reads the slots, reconciles
(`reconcile_from_snapshot`), proposes, delivers the secret, commits and
activates, one durable write per action.  Only flows of one kind lock each other
out, so two flows really overlap; `shared` and `overlapped` record when.

### Installation

`plan`, `registry`, `keys` and `pending` are the controller's files; the rest is
the target: directories, configuration with its ownership marker, the minted
secret, the `install-database-started` mark, the runtime, the state document and
the uninstall completion.  `dbKey` is the key the rows of the external database
are bound to.  `exec.did` is what this attempt created, which is what a failed
attempt undoes.

### CertificateInstall and AcmeIssue

In `CertificateInstall` a transaction, its generation directory and its jti are
one number; `pending[b]` carries the phase, `link` is the activation link, and
the proxy is external: it loads what the link names some time after it was asked.
`endpoint` is what the public address is before any generation is served:
`native` (our proxy, which then refuses connections), `standing` (another server
that answers with a trusted certificate) or `silent`.  `verify_public_not_leaf`
takes a refused connection only from a native proxy and wants a trusted, accepted
answer from any other (`CandidateGone`); so the undo of a first activation behind
a silent endpoint fails at every attempt (`UndoFailed`).
Bindings of one provider share link and proxy.  In `AcmeIssue` processes load the
journal before they take the lock, as the code does; `order` and `known` are the
authority's.  `stale` records that a process went on with a journal that had been
replaced under it.

### SelfUpdate

`transaction` is `update-transaction.json` with its seven phases; `installed`,
`trust`, `rollback`, `saved` and `staged` are the executable and the files beside
it.  `Stop` is a kill or a failed step.  A process whose executable was replaced
no longer finds its own path (`gone`), as on Linux.  `StartOther` is any other
command, which begins with the repair.

### RunJournal, SuiteRun, ConformanceRun

`jd` is the run journal on disk and `jm` the record in memory; a rejected or
failed write leaves them apart, as `persist_snapshot` does.  `ValidJournal` is
the record's validation.  In `SuiteRun`, `wk` are the worker threads, `rep[p]`
the report a worker builds, `run` the shared flags and the merged report; every
allocation at the Suite is preceded by an intent on disk.  `ConformanceRun` adds
the controller's operation slot, the target's tenant, the private material and
the retention manifests.  The same operators serve setup, cleanup and recovery;
`cmd.ctx` says which of them runs, and so where an error leads.  `Matching` is
`select_unique_pending_candidate`.  A plan the Suite answers `Immutable` for is
`fixed` for good: each later delete of it fails again.

## Runs

| Run | Checks | Shows |
|---|---|---|
| `journal` | `SettledIsLast`, `ResumePoint`, `NeverWedged`, `ReceiptSurvives`, `ImplementsLedger` | two helpers, two ids, budgets that force compaction, one interruption |
| `lifecycle` | `FirstFailureRestores`, `AtRestAgrees`, `RollbackPairWasHealthy`, `RollbackTargetCompatible`, `CommittedRollbackCompletes`, `FenceExcludes` | three orders on one controller, one kill, one environment failure (failed writes included) |
| `lifecycle_live` | `OrdersResolve` | every saved order is resolved |
| `control` | `NeverReplaced`, `SettlesUnlessStuck` | an accepted operation keeps its slot; the slot is settled by re-running the command |
| `recovery` | `ServesOneGeneration`, `ServesInvalidated`, `PlanIsTrue`, `RecoveryEnds` | what runs is one generation with old sessions invalidated; the plan never runs ahead; a rerun ends unless a named condition blocks it |
| `identity` | `KeysKept`, `RootRecoverable` | no key in use is lost, and the operator always holds the recovery secret the server accepts |
| `backup` | `CopyComplete`, `EvidenceSound`, `CopyEnds` | a finalised copy is complete, the reported evidence is true, a begun copy ends |
| `install` | `DatabaseKeyKept`, `UninstallClean`, `OrdersEnd` | initialised rows keep their key, an uninstall leaves nothing managed, orders end |
| `tls` | `InstallTrue`, `Renewable`, `RecoverSettles` | the link is always whole and at rest agrees with the receipts; interrupted work is recovered or is, and stays, one of the two cases of `Unrestorable` |
| `acme` | `MaterialKept`, `ChallengeRetired`, `IssuanceSettles` | certificate and account keys stay usable, challenges are withdrawn, an issuance settles |
| `self_update` | `RestAgrees`, `RepairSettles` | records agree with the installed release; an interrupted replacement is repaired but for two named states |
| `conformance` | `SuiteOwned`, `FinishedClean`, `PendingMatched`, `SuccessTrue`, `RetainedUntouched`, `RunSettles` | every Suite plan has a durable owner, a retained one is never deleted, a finished run leaves nothing, exit status 0 means accepted results (passed, warning, review or expected skip) of all modules |

Where a property carries an exception, the exception is a named operator and
says in its comment which lines of the code make it necessary: `Blocked` in
`Recovery`, `Stuck` in `ControlDispatch` and `SelfUpdate`, `Unresolved`,
`Undeletable` and `Wedged` in `ConformanceRun`, `Unrestorable` in
`CertificateInstall`, `stale` in `AcmeIssue`, `shared` and `overlapped` in
`ControllerKeys`, `revived` in `Installation`, `LeavesEffects` and `misreported`
in `Lifecycle`. A state in such an operator is one the code does not come out of
by itself; the property shows that there is no other. `Unrestorable`,
`Undeletable`, `Unresolved` and `Wedged` excuse only what stays so for ever.
`FirstFailureRestores` and `SettlesUnlessStuck` are likewise what remains of a
wider statement below.

The exceptions of `Lifecycle` come from failed writes.  A fence that could not be
recorded (`record_migration_applied`, `deployment_state.rs:902`, `:935`) leaves an
order settled as `RECOVERY_REQUIRED` with the staged configuration in place and
nothing to keep later orders out; the next update snapshots that configuration.
A document that was replaced although `persist_exact` failed lets the executor
undo, and report as failed, an order the document calls active.  A staged
configuration that was replaced by a failing write is not undone, since
`wrote_config` is set after the write.  `AtRestAgrees` and `RollbackPairWasHealthy`
leave out what follows the first such end (`leftover`), `FirstFailureRestores` and
`CommittedRollbackCompletes` the orders in `misreported`; the latter also those
whose document could not be read when they were sent again.

### Statements that do not hold

These definitions state what a comment, a document or a message of the
repository says.  TLC refutes each one on the instance of its run: put the
definition into the run's cfg in place of its INVARIANTS and PROPERTIES
(`BindSecretErased` needs `FairSpec` and no symmetry; with one process and three
keys and secrets the counterexample stays clear of the bounds).

| Definition | The statement | What happens |
|---|---|---|
| `TargetJournal!ReplayWindow` | `src/target/journal.rs:55`: within the retained window replay is authoritative | compaction can keep a superseded failure and drop the newer completion |
| `Lifecycle!FailureRestores` | `src/target/update_exec.rs:11`: any failure restores object and configuration | a resumed order does not know what its predecessor did |
| `Lifecycle!RollbackSwapsBack` | `src/target/update_exec.rs:18`: a rollback swaps the runtime back | a running container cannot be removed, so a rollback of one fails |
| `Lifecycle!CommittedUpdateReplays` | `src/target/deployment_state.rs:939`: an interrupted commit replays | a committed migrating update asks for recovery when it is sent again |
| `Lifecycle!MigratedWriterStopped` | `src/target/update_exec.rs:289`: applied migrations keep the writer stopped | the old writer may run on the migrated database |
| `Lifecycle!RollbackPairWasHealthy` | proved with one controller | with `Controllers = {k1, k2}` interleaved interrupted orders break it |
| `ControlDispatch!PollSettles` | `src/controller_identity/dispatch.rs:110`: a resumed poll completes | an in-progress answer is stored and replayed to every later poll |
| `Recovery!ActivationResumes` | `src/target/journal.rs:308`: owners of a recovery stage resume idempotently | an activation killed after its commit requires the recovery to be the active operation and finds itself (`backup_exec.rs:1430`) |
| `ControllerKeys!AddResumable` | `src/controller_identity/lifecycle.rs:745`: resume the pending add | another flow's reconciliation retires the candidate of an add, which then refuses for ever |
| `ControllerKeys!BindSecretErased` | `src/controller_identity/lifecycle.rs:99`: the secret is erased once the bind is terminal | a bind killed before it clears its file leaves the secret: the next bind finds nothing to reconcile and refuses before it looks |
| `BackupTransfer!CleanupRetries` | `src/controller/surface_run.rs:589`: rerun to retry this exact cleanup | the journal replays the stored failure of the cleanup |
| `Installation!IdentityRetained` | `src/clean_install/mod.rs:1115`: the prepared identity is the only replay key | a changed order is a conflict, and that failure releases the plan of a helper at work |
| `Installation!RegisteredExists` | `src/clean_install/mod.rs:1071`: a crash before journal cleanup is harmless | a plan that outlived its registration registers an uninstalled deployment again |
| `AcmeIssue!JournalPreserved` | `docs/tls-acme-http01.md`: a failure preserves the journal | a recovery that loaded an expired journal removes the one that replaced it |
| `SelfUpdate!JournalRecovered` | `docs/compatibility.md:48`: normal commands recover interrupted journals | a discarded candidate whose journal survived, and an update to the installed release cut before it saved its artifact, cannot be repaired |
| `ConformanceRun!FailedCleanupSettles` | `docs/oidf.md:88`: a failed Disable or Finalize settles its operation | found by a recovery, the failure of a Disable or Finalize is first recorded as the run's, which a journal with complete cleanup rejects |

The conformance model shows three smaller things that no property is about: a
recovery discards a staged retention after the state that names it was cleared,
so the staged manifest stays; a kill between writing the private material and
`begin_ordinary_run` leaves the material without an owner; and a completed Suite
cleanup without Suite state postpones the tenant's cleanup to the next recovery.

### Bounds

`journal`: the budgets are in units of bytes and chosen so that both kinds of
pressure happen: one pending line of 3 and terminal lines of 4 or 8 against a
cap of 20, a target of 12 and a pending budget of 5.  Eight appends are enough
to compact, retry a failed phase and compact again.  `MaxInterrupts` is 1; a
second interruption finds the same kinds of file.

`lifecycle` (3.7 million states): two artifacts, two configurations, three
orders (an update, its successor and a rollback is the shortest history that
uses a rollback pair twice), one kill and one failure anywhere, that of a write
included, on both kinds of runtime. Operation ids are symmetric, and both
configurations have one schema token, so that a rollback across a configuration
change is accepted. The liveness run has two orders, no symmetry and a token for
each configuration, so that such a rollback is refused. There is one controller:
the pending intent is what keeps orders apart, and it is local to a machine.

`control`: two processes and two ids are what it takes for a late answer to meet
a newer operation in the slot; one command content is enough, since other content
is refused; two keys and two revisions let signing and delivery fall on both
sides of a change.  The theorems hold for any number of each.

| Run | Distinct states | Instance |
|---|---|---|
| `recovery` | 433,870 | two releases, three ids for each role (one retry of each phase and one more), two snapshots, one version change, two faults |
| `identity` | 3,825,558 | two symmetric processes, two slots, two keys, two secrets, three slot ids, one fault |
| `backup` | 245,242 | two files, one of them of two chunks; two snapshots, two copies, one fault |
| `install` | 205,795 | two deployments, one changed order, three faults (install, undo and uninstall may each be hit) |
| `tls` | 513,223 | two bindings of one provider, four generations, four faults, one expiry, each kind of endpoint |
| `acme` | 556,946 | two processes, two transactions, three orders, four keys, one fault |
| `self_update` | 182,162 | two processes, three releases, three commands, two faults |
| `conformance` | 999,798 | plans of one and two modules, two workers, one fault, one kill |

The invariants of `conformance` were also checked with two faults (4.3 million
states) and `RunSettles` with two plans of one module and two faults.  Two
modules in one plan are what it takes for a worker to stop in the middle of it.

Deadlock is checked in `conformance`, where a finished run may always start
again.  Elsewhere every command ends and a system whose ids or versions are used
up stops.

### Fairness

`FairSpec` of `Lifecycle` assumes that a started target process takes its next step
(`WF(Execute)`), which the operating system does unless it kills it, and that an
operator whose command lost its answer runs it again (`WF(Deliver)`), which is
what every such message asks for.  In `ControlDispatch` a process, a session on
its way, the admitted session and the server's accepted work go on (`Process`,
`Arrive`, `Run`, `Complete`), and the operator re-runs the command that is in the
slot (`Rerun`), as the refusal of any other command asks.  New orders, kills and
failures are not fair, and the last two are bounded: with unboundedly many nothing resolves.

The other modules assume the same two things, that a process which is not killed
goes on and that the operator repeats a command that did not end:

- `Recovery`: `WF` of the command, of the target's next step, of the server
  finishing what it accepted and of the passing of deadlines.
- `BackupTransfer`: `WF` of a helper's step and of the controller's; `SF` of the
  copy's calls, because snapshots and rehearsals of other commands may hold the
  journal lock again and again without holding it for ever.
- `Installation`: `WF` of the helper and of the install command; `SF` of the
  uninstall, which other helpers may keep waiting.
- `CertificateInstall`: `WF` of the command, of `recover` for each binding and of
  a reload the proxy was asked for.
- `AcmeIssue`: `WF` of each process and of time; `SF` of `recover`, which competes
  for the lock.
- `SelfUpdate`: `WF` of each process, and that the controller goes on being used.
- `ConformanceRun`: `WF` of the command's threads, of the target's answers and of
  starting the command again.

Faults and kills are never fair and always bounded.

## Theorems

All constants are arbitrary: any number of helpers, ids, controllers, artifacts,
kills and failures, any budgets.  The named assumptions only say that absent
values are distinct from present ones and that bounds are numbers.

Three proof modules extend two components and hold the theorems of both.  The
two share nothing but `None` (`Optional`); where their names would meet, one
component's carry a prefix (`DispatchInit`, `UpdateSpec`, `AcmeTypeOK`).
`DispatchBounds`, `UpdateConstants` and `AcmeConstants` are the `ASSUME`s of
these components, which TLC evaluates on their runs.

*TargetJournal.*  The inductive invariant `IndInv` adds to the properties:
positions are distinct and at most `tip`; the lock holder is the only process
not idle; past the first read there is no torn tail; a process that was
admitted found no other hash and no settled line (`Admitted`); from the pending
append to the terminal one its pending line is the newest (`OnRecord`).  Without
the last two, `OneHashPerId` and `SettledIsLast` do not survive an append.  The
step lemmas say what an append, a repair, a removal and a compaction do to the
content; of `compact_lines` they use only that it keeps a subset and every
unsettled line.  From `IndInv` follow `TypeCorrect`, `HashNeverOverwritten`,
`OneTerminalLine`, `ResumePointSurvives`, `PlainReplayAuthoritative` and, with
the mapping of the newest line, `JournalImplementsLedger`.

*Lifecycle.* `IInv` is the full types of the records, that an executor at work
has an order and a saved snapshot (`Ordered`, `Prepared`), that a process runs
from an object that exists (`Runnable`), that a failure carries a code
(`Coded`), and `Fenced`: an executor that still acts belongs to the order that
owns the fence. `Fenced` is inductive because both acceptance handlers check the
fence under the journal lock and only the executor records it. From it follow
`TypeCorrect` and `FenceIsExclusive`.

*What orders of Lifecycle leave behind.* The first half of these proofs is for
any number of controllers. `EInv` follows an order through its first execution:
what it has performed (`Flags`) and how the files and the object relate to the
mark taken at its acceptance (`FirstRun`); from it follows `FirstFailure`, that
a failure of the first execution restores what was there, unless its
configuration was replaced by a write that failed. The second half has the
hypothesis `OneController`: the saved intent is what keeps one order from
overtaking an interrupted other one, and it is local to a machine. The
hypothesis is needed. With two controllers TLC shows an order of the second
commit between two executions of an interrupted first, after which
`AtRestAgrees` and `RollbackPairWasHealthy` are false, and these theorems say
nothing about it. With it, `Alone` relates the saved order to the document
(`Last`), to what it found and left (`Accepted`, `Executing`) and to the
database (`Compatible`), and says that between orders everything agrees
(`Quiet`); from it follow `RestAgrees`, `RollbackPair`, `RollbackTarget` and
`CommittedRollback`. The proof of `Quiet` found one case that the exception
`LeavesEffects` of `AtRestAgrees` had not covered: a configuration update is
committed, killed before its terminal line, sent again, fails, and is undone to
its own snapshot, which is the configuration before it. Failed writes are in the
model the theorems are about: what `Alone` says of a committed rollback is for
one that was not `misreported`, and it holds the document to what is live as
long as `leftover` is false.

*ControlDispatch.*  `DispatchInv` adds to the types and `NeverReplaced`: an operation
somewhere between its process and the server is in the slot, or its outcome is
resolved on the target (`Anchored`); the admitted session's entry is pending (`Executing`); a
stored result is the server's record and a stored rejection excludes acceptance
(`StoredIsTrue`); an answer in a process's hand is the stored one
(`AnswerIsStored`); a persisted result is the stored one (`PersistedIsStored`);
only a process that waits is the addressee of a session (`Waiting`).  `Anchored`
is what makes `NeverReplaced` inductive: `AcceptOnce` may happen long after the
sending process has gone, and must still find the operation in the slot.  From
`DispatchInv` follow `DispatchTyped`, `AcceptedNeverReplaced`, `PersistedFinal` and, for
steps, `SlotFreedWhenKnown`.

*Recovery.*  `IInv` says that each part is unmoved, set aside or in place
(`Paths`), what the marker, the completion record and the database say of the
parts (`Records`), how far a restore and an activation have come at each step
(`Restoring`, `Activating`), that every request under way after the restore had
a completed restore before it, also one that outlived its command (`Requested`,
`Journalled`), and that the plan and the command's position never claim more than
that (`Planned`, `Pointed`, `Commanded`).  `Pointed` is the part that is easy to
miss: the wrapper id in the plan belongs to the invalidation the plan names, so
whatever is sent under it carries that invalidation, and its completion at the
target means the server's.  From `IInv` follow
`OneGeneration`, `Invalidation` and `PlanTruth`.

*CertificateInstall.*  `Between` says where the link and the proxy may point
in each phase of a pending transaction and that the previous generation is still
complete; `Owned` that a generation directory is archived or pending; `Single`
that one binding at most has something installed, since bindings of one provider
share the link; `Settled` that with nothing pending the link, the proxy and the
receipt agree; `InHand` what a command at work, or a recovery that took
over in the middle, knows of its transaction.  From `IInv` follow `InstallIsTrue` and
`AlwaysRenewable`.

*Installation.*  `Bound` ties a database that was begun to its key; `Installing`
that a helper which migrates has the mark and a key and that one which undoes has no mark,
so that an undo never removes a key rows are bound to; `Removing` that what the
steps of an uninstall removed stays removed; `Settled` that a completion record
is true and outlives the state document.  From `IInv` follow `KeyKept` and
`CleanUninstall`.

*SelfUpdate.*  `UpdateInv`: `Recorded` says what the journal on disk implies about the staged
file and the trust record whoever is at work; `Holder` what the process with the lock
knows at each of its steps, which is what a repair after a kill re-establishes
from the phase alone; `OneHolder` that there is one.  From it follows `RecordsAgree`.

*BackupTransfer.*  Every operation outlives the process that asked for it, so
the invariant says what each record promises about the others: a pending
operation belongs to the phase it was asked in, and one that was not asked has
done nothing (`Called`, `Unused`); what the phases passed so far have done is on
disk, with every byte that the cursor counts (`Prepared`, `Copied`,
`Published`); a receipt is backed by a rehearsal or a copy, and names an old
snapshot only while the order that drops it is under way or has failed
(`Rehearsed`, `Readable`).  From `CopyInv` follow `CopyIsComplete` and
`EvidenceIsSound`.

*ControllerKeys.*  The invariant has two layers.  `Base` holds however flows
overlap: slots are numbered without gaps and active ones have different keys
(`Numbered`, `LiveUnique`), every file names a generated key and an enrolled
slot (`Generated`, `Recorded`), what the server takes as recovery root was
delivered (`RootHeld`), and what a flow knows of slots and keys at each step survives the
steps of all the others (`Knows`).  From it follows `RecoveryPossible`.  The key
of an active slot is safe only among flows that run one at a time; `Kept` says
for such flows that what the one at work has seen of the slots is still so
(`Surveyed`), that the key it proposes is stored (`Chosen`), that a rotation
replaces the key that is active (`Rotating`), and that the key of a recovery the
server has not accepted is nobody else's (`Apart`).  From both follows
`NoKeyLost`.  The proof corrected the property: a slot whose key is in `shared`
was exempt, but once two proposals have shared a key another key can be lost as
well, which TLC confirms with six faults.  Now nothing is claimed after a key was
shared.

*AcmeIssue.*  `Published` says that the challenge directory holds only what
the journal names; `Accounted` that the keys the authority knows are on disk;
`Receipted` that each archived and current receipt is backed by a valid order
for its key; `Knows` what the holder of the lock has at each step of the driver.
Each `...I` lemma is an action; `Saves`, `Works` and `AcmeGoesOn` carry the common
part, that the holder moves on with the journal saved, changed in hand, or as it is.
The exception `stale` is part of the code: a process that lost the lock's race
goes on with the journal it read before.  From `AcmeInv` follow `MaterialStays`
and `NothingLeftPublished`.

*ConformanceRun.*  The journal exists twice, as the command has it in memory and as it
is on disk, and a failed save leaves it open which of the two is durable.
`Owners` says that each of the two vouches for every plan that exists;
`Agreement` how far they may differ, namely that a retention can be durable
without the command knowing it, and that the command then stops; `Running` and
`Ending` what the Suite phase and the end of a run rely on before they delete;
`Tenant` what the journals, the pending operation and the step at work say about
the tenant; `Flow` where the command can be in which context, and `Slotted` when
an operation is pending.  The exceptions in `Agreement` are what makes
`Owners` inductive: without them a deletion after an ambiguous commit would be
allowed.  From `RunInv` follow `PlansOwned`, `NothingLeft` and, for steps,
`RetentionStays`.  `PendInv` comes on top of it: `Fits` says in which journal an
operation of each step can be in the slot, `Awaits` what the journal may already
say of its answer, `Sound` what the order of the steps leaves in a journal beyond
`ValidJournal`, and `Called`, `Together` and `Reaching` where in the command the
two journals agree on it.  `ForwardMatched` and `UndoingMatched` turn `Fits` into
exactly one candidate, so that `PendingFound` follows.  It assumes that an absent
value is not the name of a step (`NoneIsNoStep`).

`TypeOK` of each module with theorems, `OneHashPerId`, `ReplayWindowPlain`,
`PersistedIsFinal` and `FreedOnlyWhenKnown` are proved and need no run of their
own.  Each inductive invariant was first checked by TLC on the instance of its
module's run.

Only model-checked: `NeverWedged` and `ReceiptSurvives` of `TargetJournal` (sums
of line sizes over the compaction walk, an induction over data); every liveness
property, since its proof needs fairness and ENABLED; `SuccessTrue` of
`ConformanceRun` (the counts of modules over a run's plans).

## Plan

Done: the target journal and its ledger, update and rollback, control dispatch,
recovery, backup transfer, keys, installation and uninstallation, certificates,
self-update, the conformance run; the theorems above.

1. `SuccessTrue` of `ConformanceRun`; `NeverWedged` of `TargetJournal`, for
   which the walk of `compact_lines` has to be summed.
2. Adoption and the systemd runtime in `Installation`; the migration an update
   dispatches as a nested control operation; the registry's own file.
3. An atomic "generation" machine that `Lifecycle` implements, and one for
   `Recovery`.

## Not modelled

Wire encodings, digests and signatures are data: two requests are equal or not.
Artifact and archive verification, privileges and engine commands appear as
failures of the environment.

- Update: the shared signing key generation, the privilege retry of the command
  line, discovery of unmanaged runtimes.
- Control dispatch: the nested migration operation and change-set material.
- Keys: expiry classes, labels and the approval dialogue.
- Backup: archive formats, the database dump, removal of abandoned backups.
- Installation: the systemd unit, public verification, the refusal of an
  uninstall whose plan is stale, adoption.
- Certificates: configuration snapshots, the migration of old account records,
  proxy configuration, and the commands that only read.
- Self-update: download and verification of a release (their outcome is the
  candidate) and the installer script.
- Conformance: runs with one job, deferred reviews, the evidence bundle,
  progress output, materials and browser automation.  Operation ids are
  abstracted to steps, Suite module ids to the intents before them, directory
  revisions to their presence.  One run and its recoveries are modelled, not a
  second run after them.  Ctrl+C after the Suite phase only changes the exit
  code.
- SSH, secure file primitives, the command line, presentation, templates and
  browser scripts have no protocol state of their own; the modules rely on an
  atomic file replacement and on appends that may be torn.

Measured in lines the modules stand for about a seventh of the source files, and
for a fifth of what is not test code.  The larger part of the rest is text of
other kinds: wire types and their field checks (`wire.rs`, `admin_api.rs`, the
`validate_*` functions), generated test material and browser pages
(`materializer`, `browser`), parsing and rendering (`cli`, `ui`, `fleet`).  It
has no state that survives a step, so an action that stood for it would only
repeat a guard.  What could still be modelled is item 2 of the plan.
