----------------------------- MODULE Lifecycle -----------------------------
(***************************************************************************)
(* Update and rollback of one deployment, end to end: the controller's     *)
(* saved intent (src/instance_lifecycle), the target's journal entry, the  *)
(* executor that changes configuration, database and runtime object        *)
(* (src/target/update_exec.rs), and the deployment state document it       *)
(* commits to (src/target/deployment_state.rs).                            *)
(*                                                                         *)
(* The executor runs under the deployment's journal lock, so at most one   *)
(* order executes.  Each durable effect is a step of its own, and between  *)
(* any two steps the target process may be killed (Crash): the order then  *)
(* stays pending and the controller, which kept its intent, sends it again.*)
(* A Fault is a step of the environment going wrong: no privilege, no      *)
(* network, an engine command or a readiness probe that fails, a read or a *)
(* write that fails.  A failed atomic_write leaves the file as it was, or  *)
(* has replaced it and could not sync the directory (filesystem.rs:288).   *)
(***************************************************************************)
EXTENDS Naturals

CONSTANTS
    Controllers,    \* machines that run nazoauthctl, each with its own intents
    Ops,            \* operation ids, fresh for every new order
    Artifacts,      \* digests of verified releases
    Configs,        \* contents of the configuration file
    SchemaOf,       \* the schema token that goes with each content
    FirstArtifact,  \* what the installation recorded
    FirstConfig,
    None,           \* an absent optional value
    MaxCrashes,     \* bounds of the model: kills of the target process
    MaxFaults       \* and failures of the environment

ASSUME LifecycleConstants ==
    /\ FirstArtifact \in Artifacts /\ FirstConfig \in Configs
    /\ MaxCrashes \in Nat /\ MaxFaults \in Nat
    /\ None \notin Artifacts \cup Configs \cup Ops \cup Controllers

VARIABLES
    kind,       \* runtime.kind of the deployment: host or container
    store,      \* the DeploymentState document
    runtime,    \* the live object: its artifact, and the configuration it runs with
    config,     \* bytes of the configuration file
    snaps,      \* config-snapshots/<operation id>
    oper,       \* the operator task's own journal: result of each migration
    db,         \* artifacts compatible with the database schema
    order,      \* what each operation id asks for
    status,     \* its entry in the target journal
    intent,     \* the controller's saved HostOperation
    x,          \* the executing order: where it is, and its PerformedSteps
    crashes, faults,
    before,     \* history: artifact and configuration when an order was accepted
    resumed,    \* history: unsettled orders that were executed more than once
    committed,  \* history: orders whose commit reached the store
    misreported,\* history: orders told of a failure although the write they
                \* speak of took place
    gen,        \* history: artifact and configuration of the last commit
    healthy,    \* history: every pair that was committed as healthy
    leftover    \* history: an order ended otherwise than it was reported to end

env  == <<crashes, faults>>
hist == <<before, resumed, committed, misreported, gen, healthy, leftover>>
vars == <<kind, store, runtime, config, snaps, oper, db, order, status, intent,
          x, env, hist>>

Pending   == {"PRIVILEGE_REQUIRED", "CONTROL_EXECUTION_UNAVAILABLE",
              "CONTROL_OUTCOME_UNKNOWN"}
Completed == {"APPLIED", "MIGRATION_FAILED", "RECOVERY_REQUIRED"}
Failed    == {"FAILED", "ROLLBACK_RECOVERY_REQUIRED"}
Codes     == Pending \cup Completed \cup Failed \cup {"NOOP"}

Steps == {"idle", "preflight", "snapshot", "stage", "migrate", "receive",
          "takedown", "putup", "start", "check", "commit",
          "failed", "undo", "answer"}

Updates   == [kind : {"update"}, rev : Nat, artifact : Artifacts,
              config : Configs \cup {None}]
Rollbacks == [kind : {"rollback"}, rev : Nat]

\* A configuration snapshot: the bytes, the schema token recorded with them and
\* the one of the order that replaced them.
Schemas == {SchemaOf[n] : n \in Configs}
Copies  == [bytes : Configs, schema : Schemas, by : Schemas \cup {None}]

ASSUME NoneIsAbsent ==
    None \notin Updates \cup Rollbacks \cup Copies \cup [op : Ops, artifact : Artifacts]
                   \cup {"applied", "unchanged", "failed"}

Idle == [op |-> None, by |-> None, at |-> "idle", live |-> None, up |-> FALSE,
         wrote |-> FALSE, replaced |-> FALSE, applied |-> FALSE,
         unknown |-> FALSE, result |-> FALSE, undo |-> "clean",
         code |-> None]

Init ==
    /\ kind \in {"host", "container"}
    /\ store = [current |-> FirstArtifact, previous |-> None, snapshot |-> None,
                rev |-> 1, schema |-> SchemaOf[FirstConfig], fence |-> None,
                active |-> None]
    /\ runtime = [art |-> FirstArtifact, loaded |-> FirstConfig]
    /\ config = FirstConfig
    /\ snaps = [o \in Ops |-> None]
    /\ oper = [o \in Ops |-> None]
    /\ db = {FirstArtifact}
    /\ order = [o \in Ops |-> None]
    /\ status = [o \in Ops |-> "absent"]
    /\ intent = [c \in Controllers |-> None]
    /\ x = Idle
    /\ crashes = 0 /\ faults = 0
    /\ before = [o \in Ops |-> None]
    /\ resumed = {}
    /\ committed = {}
    /\ misreported = {}
    /\ gen = [art |-> FirstArtifact, cfg |-> FirstConfig]
    /\ healthy = {[art |-> FirstArtifact, cfg |-> FirstConfig]}
    /\ leftover = FALSE

-----------------------------------------------------------------------------
(* What the executing order asks for.                                      *)

Op == x.op
IsUpdate == order[Op].kind = "update"

\* The artifact the order activates and the configuration it installs.
Selected  == IF IsUpdate THEN order[Op].artifact ELSE store.previous
NewConfig == IF IsUpdate THEN order[Op].config ELSE snaps[store.snapshot].bytes

NewSchema == IF ~IsUpdate THEN snaps[store.snapshot].schema
             ELSE IF order[Op].config = None THEN None ELSE SchemaOf[order[Op].config]

\* Mutant: a staged configuration alone restarts nothing.
ReplacementRequired_ArtifactOnly ==
    IsUpdate => x.live # order[Op].artifact

\* runtime_replacement_required; a rollback always replaces the object.
ReplacementRequired ==
    IsUpdate => order[Op].config # None \/ x.live # order[Op].artifact

Running == runtime.loaded # None

Fault   == faults < MaxFaults /\ faults' = faults + 1
NoFault == UNCHANGED faults

Goto(step) == x' = [x EXCEPT !.at = step]
Fail(code) == x' = [x EXCEPT !.at = "failed", !.code = code]
Finish(code) == x' = [x EXCEPT !.at = "answer", !.code = code]

-----------------------------------------------------------------------------
(* The controller.  HostIntent holds one pending lifecycle operation per   *)
(* deployment; a new one is refused until the pending one is resolved.     *)

NewOrder(c, id, ord) ==
    /\ intent[c] = None
    /\ order[id] = None
    /\ ord.rev = store.rev
    /\ ord.kind = "rollback" => store.previous # None
    /\ order' = [order EXCEPT ![id] = ord]
    /\ intent' = [intent EXCEPT ![c] = id]
    /\ UNCHANGED <<kind, store, runtime, config, snaps, oper, db, status, x, env, hist>>

\* Mutant: a no-op answer leaves the intent behind.
ClearsIntent_KeepsNoop(id, code) ==
    \/ order[id].kind = "rollback"
    \/ code \notin {"NOOP", "CONTROL_EXECUTION_UNAVAILABLE", "CONTROL_OUTCOME_UNKNOWN"}

\* The controller keeps its intent only for an update whose migration may
\* still have to be resolved; every other answer clears it.
ClearsIntent(id, code) ==
    \/ order[id].kind = "rollback"
    \/ code \notin {"CONTROL_EXECUTION_UNAVAILABLE", "CONTROL_OUTCOME_UNKNOWN"}

Hear(c, id, code) ==
    intent' = IF ClearsIntent(id, code) THEN [intent EXCEPT ![c] = None] ELSE intent

-----------------------------------------------------------------------------
(* Acceptance.  The journal admits the order (or replays its stored result)*)
(* and the answer_* handler checks it against the deployment state before  *)
(* the executor is entered.                                                *)

Replay(c) ==
    /\ x = Idle /\ intent[c] # None
    /\ status[intent[c]] \in {"completed", "failed"}
    /\ intent' = [intent EXCEPT ![c] = None]
    /\ UNCHANGED <<kind, store, runtime, config, snaps, oper, db, order, status,
                   x, env, hist>>

Accept(c) ==
    /\ x = Idle /\ intent[c] # None
    /\ status[intent[c]] \in {"absent", "pending"}
    /\ status' = [status EXCEPT ![intent[c]] = "pending"]
    /\ before' = IF status[intent[c]] = "absent"
                 THEN [before EXCEPT ![intent[c]] =
                          [art |-> runtime.art, cfg |-> config, loaded |-> runtime.loaded]]
                 ELSE before
    /\ resumed' = IF status[intent[c]] = "pending" THEN resumed \cup {intent[c]} ELSE resumed
    /\ UNCHANGED <<kind, store, runtime, config, snaps, oper, db, order, intent,
                   crashes, committed, gen, healthy, leftover>>

Entered(c) == [Idle EXCEPT !.op = intent[c], !.by = c]

\* Mutant: another order's fence is not checked.
AcceptUpdate_NoFence(c) ==
    /\ Accept(c) /\ order[intent[c]].kind = "update"
    /\ NoFault /\ UNCHANGED misreported
    /\ x' = [Entered(c) EXCEPT !.at = "preflight", !.applied = store.fence # None]

\* answer_update and the fence check of execute_update.
AcceptUpdate(c) ==
    /\ Accept(c) /\ order[intent[c]].kind = "update"
    /\ NoFault /\ UNCHANGED misreported
    /\ x' = IF store.fence # None /\ store.fence.op # intent[c]
            THEN [Entered(c) EXCEPT !.at = "answer", !.code = "ROLLBACK_RECOVERY_REQUIRED"]
            ELSE [Entered(c) EXCEPT !.at = "preflight", !.applied = store.fence # None]

\* The state document cannot be read, or the backup evidence an update is bound
\* to changed or aged out.
RefuseAtEntry(c) ==
    /\ Accept(c) /\ Fault
    /\ misreported' = misreported \cup ({intent[c]} \cap committed)
    /\ x' = [Entered(c) EXCEPT !.at = "answer", !.code = "FAILED"]

\* Mutant: the committed operation is not recognised.
AcceptRollback_NoReplay(c) ==
    /\ Accept(c) /\ order[intent[c]].kind = "rollback"
    /\ NoFault /\ UNCHANGED misreported
    /\ x' = IF store.rev # order[intent[c]].rev
            THEN [Entered(c) EXCEPT !.at = "answer", !.code = "FAILED"]
            ELSE IF store.fence # None
            THEN [Entered(c) EXCEPT !.at = "answer", !.code = "ROLLBACK_RECOVERY_REQUIRED"]
            ELSE [Entered(c) EXCEPT !.at = "preflight"]

\* answer_rollback.
AcceptRollback(c) ==
    /\ Accept(c) /\ order[intent[c]].kind = "rollback"
    /\ NoFault /\ UNCHANGED misreported
    /\ x' = IF store.active = intent[c]
            THEN [Entered(c) EXCEPT !.at = "answer", !.code = "APPLIED"]
            ELSE IF store.rev # order[intent[c]].rev
            THEN [Entered(c) EXCEPT !.at = "answer", !.code = "FAILED"]
            ELSE IF store.fence # None
            THEN [Entered(c) EXCEPT !.at = "answer", !.code = "ROLLBACK_RECOVERY_REQUIRED"]
            ELSE [Entered(c) EXCEPT !.at = "preflight"]

-----------------------------------------------------------------------------
(* run_update and run_rollback, one action per durable effect.             *)

At(step) == x.at = step /\ UNCHANGED <<kind, order, status, intent, crashes, hist>>

\* The live object is the deployment's own and reports its artifact.
Owned == runtime.art # None

\* A drifted container is reconciled, a drifted host binary is refused; a
\* rollback starts only from the recorded artifact.
LiveServes == (IsUpdate /\ kind = "container") \/ runtime.art = store.current

\* The saved generation: an artifact, and the configuration paired with it.
SavedGeneration ==
    /\ store.previous # None
    /\ store.snapshot # None /\ snaps[store.snapshot] # None

\* update_is_noop, asked only while no migration of the order is recorded.
UpdateIsNoop ==
    /\ IsUpdate /\ ~x.applied /\ order[Op].config = None
    /\ runtime.art = order[Op].artifact /\ runtime.art = store.current

\* Read-only checks against the live object, up to the update's no-op answer.
Preflight ==
    /\ At("preflight") /\ NoFault
    /\ UNCHANGED <<store, runtime, config, snaps, oper, db>>
    /\ IF ~Owned \/ ~LiveServes \/ (~IsUpdate /\ ~SavedGeneration)
       THEN Fail("FAILED")
       ELSE IF UpdateIsNoop
       THEN Finish("NOOP")
       ELSE x' = [x EXCEPT !.at = "snapshot", !.live = runtime.art, !.up = Running]

\* No privilege, or the artifact cannot be verified or found.
PreflightFault ==
    /\ At("preflight") /\ Fault
    /\ UNCHANGED <<store, runtime, config, snaps, oper, db>>
    /\ \E code \in {"PRIVILEGE_REQUIRED", "FAILED"} : Fail(code)

\* Mutant: a resumed order snapshots the configuration again.
Snapshot_Overwrites ==
    /\ At("snapshot") /\ NoFault
    /\ UNCHANGED <<store, runtime, config, oper, db>>
    /\ snaps' = [snaps EXCEPT ![Op] = [bytes |-> config, schema |-> store.schema,
                                       by |-> NewSchema]]
    /\ Goto("stage")

\* snapshot_config: the operation's own immutable copy of the configuration.
Snapshot ==
    /\ At("snapshot") /\ NoFault
    /\ UNCHANGED <<store, runtime, config, oper, db>>
    /\ IF snaps[Op] = None
       THEN /\ snaps' = [snaps EXCEPT ![Op] = [bytes |-> config, schema |-> store.schema,
                                              by |-> NewSchema]]
            /\ Goto("stage")
       ELSE /\ UNCHANGED snaps
            /\ IF snaps[Op].schema = store.schema /\ snaps[Op].by = NewSchema
               THEN Goto("stage") ELSE Fail("FAILED")

\* The copy or its description cannot be written, or not be read again.
SnapshotFault ==
    /\ At("snapshot") /\ Fault
    /\ UNCHANGED <<store, runtime, config, oper, db>>
    /\ \/ UNCHANGED snaps
       \/ /\ snaps[Op] = None
          /\ snaps' = [snaps EXCEPT ![Op] = [bytes |-> config, schema |-> store.schema,
                                             by |-> NewSchema]]
    /\ Fail("FAILED")

Stage ==
    /\ At("stage") /\ NoFault
    /\ UNCHANGED <<store, runtime, snaps, oper, db>>
    /\ config' = IF NewConfig = None THEN config ELSE NewConfig
    /\ x' = [x EXCEPT !.at = IF IsUpdate THEN "migrate" ELSE "takedown",
                      !.wrote = NewConfig # None]

\* Mutant: the write is noted only after access was granted.
StageFault_LateMark ==
    /\ At("stage") /\ Fault /\ NewConfig # None
    /\ UNCHANGED <<store, runtime, snaps, oper, db>>
    /\ \/ UNCHANGED config /\ Fail("FAILED")
       \/ /\ config' = NewConfig
          /\ x' = [x EXCEPT !.at = "failed", !.code = "FAILED"]

\* The write fails, or the runtime cannot be granted access to what was written.
StageFault ==
    /\ At("stage") /\ Fault /\ NewConfig # None
    /\ UNCHANGED <<store, runtime, snaps, oper, db>>
    /\ \/ UNCHANGED config /\ Fail("FAILED")
       \/ /\ config' = NewConfig
          /\ x' = [x EXCEPT !.at = "failed", !.code = "FAILED", !.wrote = TRUE]

\* The write replaces the file and then fails: nothing notes that it took place.
StageMisreported ==
    /\ x.at = "stage" /\ Fault /\ NewConfig # None
    /\ config' = NewConfig
    /\ misreported' = misreported \cup {Op}
    /\ Fail("FAILED")
    /\ UNCHANGED <<kind, store, runtime, snaps, oper, db, order, status, intent, crashes,
                   before, resumed, committed, gen, healthy, leftover>>

\* The one-shot operator task.  It journals the operation id itself, so a
\* repeated dispatch answers what the first one decided.
Migrate ==
    /\ At("migrate") /\ NoFault
    /\ UNCHANGED <<store, runtime, config, snaps>>
    /\ x' = [x EXCEPT !.at = "receive", !.unknown = TRUE]
    /\ IF oper[Op] # None
       THEN UNCHANGED <<oper, db>>
       ELSE \E r \in {"applied", "unchanged", "failed"} :
              /\ r = "applied" => Selected \notin db
              /\ oper' = [oper EXCEPT ![Op] = r]
              /\ db' = CASE r = "applied"   -> {Selected}
                         [] r = "unchanged" -> db \cup {Selected}
                         [] r = "failed"    -> db

\* migration_dispatch_failure: refused before the operator accepted the
\* operation, or lost so that nobody knows.
DispatchFault ==
    /\ At("migrate") /\ Fault
    /\ UNCHANGED <<store, runtime, config, snaps, oper, db>>
    /\ \/ /\ oper[Op] = None
          /\ \E code \in {"CONTROL_EXECUTION_UNAVAILABLE", "FAILED"} : Fail(code)
       \/ x' = [x EXCEPT !.at = "failed", !.code = "CONTROL_OUTCOME_UNKNOWN",
                         !.unknown = TRUE]

Fence == [op |-> Op, artifact |-> Selected]

\* record_migration_applied accepts the fence.
MigrationRecordable == store.rev = order[Op].rev /\ store.fence \in {None, Fence}

\* The result arrives.  An applied migration is fenced in the deployment state
\* before the runtime may change.
Receive ==
    /\ At("receive") /\ NoFault
    /\ UNCHANGED <<runtime, config, snaps, oper, db>>
    /\ LET got(ok, code) ==
               x' = [x EXCEPT !.at = IF ok THEN "takedown" ELSE "failed", !.code = code,
                              !.unknown = FALSE, !.applied = (oper[Op] = "applied"),
                              !.result = TRUE]
       IN CASE oper[Op] = "failed" ->
                 /\ x' = [x EXCEPT !.at = "failed", !.code = "MIGRATION_FAILED",
                                   !.unknown = FALSE]
                 /\ UNCHANGED store
            [] oper[Op] = "unchanged" -> got(TRUE, None) /\ UNCHANGED store
            [] oper[Op] = "applied" ->
                 IF MigrationRecordable
                 THEN got(TRUE, None) /\ store' = [store EXCEPT !.fence = Fence]
                 ELSE got(FALSE, "FAILED") /\ UNCHANGED store

\* No readable result arrives; or the migration is applied and its fence is not
\* written, or written by a write that reports failure.
ReceiveFault ==
    /\ At("receive") /\ Fault
    /\ UNCHANGED <<runtime, config, snaps, oper, db>>
    /\ \/ Fail("CONTROL_OUTCOME_UNKNOWN") /\ UNCHANGED store
       \/ /\ oper[Op] = "applied" /\ MigrationRecordable
          /\ store' \in {store, [store EXCEPT !.fence = Fence]}
          /\ x' = [x EXCEPT !.at = "failed", !.code = "FAILED", !.unknown = FALSE,
                            !.applied = TRUE, !.result = TRUE]

\* Replacing the object starts by removing the old one.  An update stops it
\* first; systemd's replace stops it itself; a container that still runs is
\* not removed (remove_replacement_source).
TakeDown ==
    /\ At("takedown") /\ NoFault
    /\ UNCHANGED <<store, config, snaps, oper, db>>
    /\ LET stopped == ~Running \/ (IsUpdate /\ x.up) \/ kind = "host"
       IN IF ~ReplacementRequired
          THEN UNCHANGED runtime /\ Goto("check")
          ELSE IF stopped
          THEN /\ runtime' = [runtime EXCEPT !.loaded = None,
                                 !.art = IF kind = "host" THEN runtime.art ELSE None]
               /\ x' = [x EXCEPT !.at = "putup", !.replaced = TRUE]
          ELSE /\ UNCHANGED runtime
               /\ x' = [x EXCEPT !.at = "failed", !.code = "FAILED", !.replaced = TRUE]

\* The update's stop fails before anything was replaced, or the backend's
\* replace fails with the old object still in place.
TakeDownFault ==
    /\ At("takedown") /\ Fault /\ ReplacementRequired
    /\ UNCHANGED <<store, config, snaps, oper, db>>
    /\ \/ IsUpdate /\ x.up /\ UNCHANGED runtime /\ Fail("FAILED")
       \/ /\ runtime' = IF IsUpdate /\ x.up THEN [runtime EXCEPT !.loaded = None] ELSE runtime
          /\ x' = [x EXCEPT !.at = "failed", !.code = "FAILED", !.replaced = TRUE]

PutUp ==
    /\ At("putup") /\ NoFault
    /\ UNCHANGED <<store, config, snaps, oper, db>>
    /\ runtime' = [runtime EXCEPT !.art = Selected]
    /\ Goto("start")

Start ==
    /\ At("start") /\ NoFault
    /\ UNCHANGED <<store, config, snaps, oper, db>>
    /\ runtime' = [runtime EXCEPT !.loaded = config]
    /\ Goto("check")

\* The object cannot be created or started.
ActivationFault ==
    /\ x.at \in {"putup", "start"} /\ At(x.at) /\ Fault
    /\ UNCHANGED <<store, runtime, config, snaps, oper, db>>
    /\ Fail("FAILED")

\* Embedded identity check and local readiness gate.
Check ==
    /\ At("check") /\ NoFault
    /\ UNCHANGED <<store, runtime, config, snaps, oper, db>>
    /\ IF Running /\ runtime.art = Selected
       THEN Goto("commit") ELSE Fail("FAILED")

\* The started process is not ready, or has already exited.
NotReady ==
    /\ At("check") /\ Fault /\ runtime.art = Selected
    /\ UNCHANGED <<store, config, snaps, oper, db>>
    /\ \E l \in {runtime.loaded, None} : runtime' = [runtime EXCEPT !.loaded = l]
    /\ Fail("FAILED")

-----------------------------------------------------------------------------
(* The commit to the deployment state document.                            *)

\* Mutant: a migration does not end the rollback lineage.
UpdatedStore_IgnoresFence ==
    LET changed   == order[Op].artifact # store.current \/ order[Op].config # None
        keeps     == x.live = store.current
        lineage   == CASE changed /\ keeps  -> <<store.current, Op>>
                       [] changed /\ ~keeps -> <<None, None>>
                       [] OTHER -> <<store.previous, store.snapshot>>
    IN [store EXCEPT
          !.current  = order[Op].artifact,
          !.previous = lineage[1],
          !.snapshot = lineage[2],
          !.fence    = None,
          !.rev      = IF order[Op].config = None THEN @ ELSE @ + 1,
          !.schema   = IF order[Op].config = None THEN @ ELSE SchemaOf[order[Op].config],
          !.active   = Op]

\* apply_update_healthy_from_live.  The replaced generation stays available for
\* rollback only if the document described what was live and no migration
\* separates the two.
UpdatedStore ==
    LET changed   == order[Op].artifact # store.current \/ order[Op].config # None
        keeps     == x.live = store.current /\ store.fence = None
        lineage   == CASE changed /\ keeps  -> <<store.current, Op>>
                       [] changed /\ ~keeps -> <<None, None>>
                       [] ~changed /\ store.fence # None -> <<None, None>>
                       [] OTHER -> <<store.previous, store.snapshot>>
    IN [store EXCEPT
          !.current  = order[Op].artifact,
          !.previous = lineage[1],
          !.snapshot = lineage[2],
          !.fence    = None,
          !.rev      = IF order[Op].config = None THEN @ ELSE @ + 1,
          !.schema   = IF order[Op].config = None THEN @ ELSE SchemaOf[order[Op].config],
          !.active   = Op]

\* apply_rollback_healthy: current and previous change places.
RolledBackStore ==
    [store EXCEPT !.current = store.previous, !.previous = store.current,
                  !.snapshot = Op, !.rev = @ + 1,
                  !.schema = snaps[store.snapshot].schema, !.active = Op]

CommitRefused ==
    \/ store.rev # order[Op].rev
    \/ IsUpdate /\ store.fence \notin {None, Fence}
    \/ ~IsUpdate /\ (store.fence # None \/ store.previous = None)

\* The new document is in place; it describes what is live at this moment.
CommitGeneration ==
    /\ store' = IF IsUpdate THEN UpdatedStore ELSE RolledBackStore
    /\ committed' = committed \cup {Op}
    /\ gen' = [art |-> runtime.art, cfg |-> config]
    /\ healthy' = healthy \cup {gen'}

AtCommit ==
    /\ x.at = "commit"
    /\ UNCHANGED <<kind, runtime, config, snaps, oper, db, order, status, intent,
                   crashes, before, resumed, leftover>>

Commit ==
    /\ AtCommit /\ NoFault
    /\ IF store.active = Op
       THEN Finish("APPLIED") /\ UNCHANGED <<store, committed, misreported, gen, healthy>>
       ELSE IF CommitRefused
       THEN Fail("FAILED") /\ UNCHANGED <<store, committed, misreported, gen, healthy>>
       ELSE /\ Finish("APPLIED")
            /\ CommitGeneration
            /\ misreported' = misreported \ {Op}

\* The document cannot be read or written, or it is written and reported as not.
CommitFault ==
    /\ AtCommit /\ Fault
    /\ Fail("FAILED")
    /\ \/ UNCHANGED <<store, committed, misreported, gen, healthy>>
       \/ /\ store.active # Op /\ ~CommitRefused
          /\ CommitGeneration
          /\ misreported' = misreported \cup {Op}

-----------------------------------------------------------------------------
(* What execute_update and execute_rollback do with a failure.             *)

\* After an applied or uncertain migration the writer is stopped and nothing is
\* undone.
KeepWriterStopped ==
    /\ At("failed") /\ (x.applied \/ x.unknown)
    /\ UNCHANGED <<store, config, snaps, oper, db>>
    /\ \/ NoFault /\ runtime' = [runtime EXCEPT !.loaded = None]
       \/ Fault /\ UNCHANGED runtime
    /\ Finish(IF ~x.applied THEN "CONTROL_OUTCOME_UNKNOWN"
              ELSE IF x.result THEN "RECOVERY_REQUIRED"
              ELSE "ROLLBACK_RECOVERY_REQUIRED")

\* rollback_update and restore_current_after_failed_rollback: first the
\* configuration bytes of this operation's snapshot...
UndoConfig ==
    /\ At("failed") /\ ~x.applied /\ ~x.unknown
    /\ UNCHANGED <<store, runtime, snaps, oper, db>>
    /\ \/ /\ NoFault
          /\ config' = IF x.wrote THEN snaps[Op].bytes ELSE config
          /\ Goto("undo")
       \/ /\ Fault /\ x.wrote /\ config' \in {config, snaps[Op].bytes}
          /\ x' = [x EXCEPT !.at = "undo", !.undo = "fault"]

\* An incomplete undo is reported in the failure's detail; it turns a durable
\* migration failure into a plain one.
Undone(how) ==
    LET undo == IF x.undo = "clean" THEN how ELSE x.undo
    IN x' = [x EXCEPT !.at = "answer", !.undo = undo,
                      !.code = IF x.code = "MIGRATION_FAILED" /\ undo # "clean"
                               THEN "FAILED" ELSE @]

\* What a restore of the runtime object that stops half-way leaves: stopped with
\* either binary, or a container that was removed or not started again.
HalfUndone ==
    IF kind = "host"
    THEN {[art |-> a, loaded |-> None] : a \in {runtime.art, x.live}}
    ELSE {[art |-> a, loaded |-> None] : a \in IF Running THEN {} ELSE {None, x.live}}

\* ... then the runtime object.  systemd redeploys and starts the artifact the
\* document recorded at entry, which was the live one; a container is rebuilt as
\* it was observed, unless it is running: then the replacement is refused.
UndoRuntime ==
    /\ At("undo")
    /\ UNCHANGED <<store, config, snaps, oper, db>>
    /\ \/ /\ NoFault
          /\ LET refused == kind = "container" /\ Running
             IN /\ runtime' = IF ~x.replaced \/ refused THEN runtime
                              ELSE IF kind = "host"
                              THEN [art |-> x.live, loaded |-> config]
                              ELSE [art |-> x.live, loaded |-> IF x.up THEN config ELSE None]
                /\ Undone(IF x.replaced /\ refused THEN "refused" ELSE "clean")
       \/ /\ Fault /\ x.replaced
          /\ runtime' \in {runtime} \cup HalfUndone
          /\ Undone("fault")

-----------------------------------------------------------------------------
(* The end of an execution.  A no-op removes the entry, an unsettled code  *)
(* leaves it pending, everything else appends the terminal line.           *)

StatusAfter(code) ==
    CASE code = "NOOP"        -> "absent"
      [] code \in Pending     -> "pending"
      [] code \in Completed   -> "completed"
      [] code \in Failed      -> "failed"

\* Artifact and configuration are those of the moment the order was accepted.
Restored ==
    /\ runtime.art = before[Op].art /\ config = before[Op].cfg
    /\ Running => runtime.loaded \in {config, before[Op].loaded}

\* The order is over for its controller without success, yet not undone; or its
\* commit had reached the document (before a kill, or by a write reported as
\* failed) and it is reported as failed, or undone and then found committed.
LeavesEffects ==
    \/ /\ x.code \in Failed \cup {"MIGRATION_FAILED", "PRIVILEGE_REQUIRED"}
       /\ ~Restored \/ Op \in committed
    \/ x.code = "APPLIED" /\ ~IsUpdate /\ Op \in misreported
    \/ x.code = "RECOVERY_REQUIRED" /\ Op \notin committed /\ store.fence # Fence

Conclude ==
    /\ x.at = "answer"
    /\ status' = [status EXCEPT ![Op] = StatusAfter(x.code)]
    /\ leftover' = (leftover \/ LeavesEffects)
    /\ IF StatusAfter(x.code) = "pending" THEN UNCHANGED <<before, resumed>>
       ELSE before' = [before EXCEPT ![Op] = None] /\ resumed' = resumed \ {Op}
    /\ x' = Idle
    /\ UNCHANGED <<kind, store, runtime, config, snaps, oper, db, order, crashes,
                   committed, misreported, gen, healthy>>

Answer == Conclude /\ NoFault /\ Hear(x.by, Op, x.code)

\* The session is gone: the controller keeps its intent and will send it again.
AnswerLost == Conclude /\ Fault /\ UNCHANGED intent

\* The target process dies, or cannot append the terminal line: the journal lock
\* is released and the entry stays pending.
Crash ==
    /\ x # Idle /\ crashes < MaxCrashes
    /\ crashes' = crashes + 1
    /\ x' = Idle
    /\ UNCHANGED <<kind, store, runtime, config, snaps, oper, db, order, status,
                   intent, faults, hist>>

Execute ==
    \/ Preflight \/ Snapshot \/ Stage \/ Migrate \/ Receive
    \/ TakeDown \/ PutUp \/ Start \/ Check \/ Commit
    \/ KeepWriterStopped \/ UndoConfig \/ UndoRuntime \/ Answer

Trouble ==
    \/ PreflightFault \/ SnapshotFault \/ StageFault \/ StageMisreported
    \/ DispatchFault \/ ReceiveFault \/ TakeDownFault \/ ActivationFault
    \/ NotReady \/ CommitFault \/ AnswerLost \/ Crash

Deliver(c) == Replay(c) \/ AcceptUpdate(c) \/ AcceptRollback(c)

Request(c) ==
    \E id \in Ops :
        \/ \E a \in Artifacts, n \in Configs \cup {None} :
              NewOrder(c, id, [kind |-> "update", rev |-> store.rev,
                               artifact |-> a, config |-> n])
        \/ NewOrder(c, id, [kind |-> "rollback", rev |-> store.rev])

Next ==
    \/ \E c \in Controllers : Request(c) \/ Deliver(c) \/ RefuseAtEntry(c)
    \/ Execute
    \/ Trouble

Spec == Init /\ [][Next]_vars

\* Once started, the target process runs to its answer unless it is killed, and
\* an operator who lost an answer runs the same command again.
Fairness == WF_vars(Execute) /\ \A c \in Controllers : WF_vars(Deliver(c))

FairSpec == Spec /\ Fairness
-----------------------------------------------------------------------------
(* Properties.                                                             *)

TypeOK ==
    /\ kind \in {"host", "container"}
    /\ store.current \in Artifacts
    /\ store.previous \in Artifacts \cup {None}
    /\ store.snapshot \in Ops \cup {None}
    /\ store.rev \in Nat \ {0}
    /\ store.fence \in [op : Ops, artifact : Artifacts] \cup {None}
    /\ store.active \in Ops \cup {None}
    /\ runtime.art \in Artifacts \cup {None}
    /\ runtime.loaded \in Configs \cup {None}
    /\ Running => runtime.art # None
    /\ config \in Configs
    /\ \A i \in Ops : snaps[i] # None => snaps[i].bytes \in Configs
    /\ oper \in [Ops -> {None, "applied", "unchanged", "failed"}]
    /\ db \subseteq Artifacts
    /\ \A i \in Ops : order[i] \in Updates \cup Rollbacks \cup {None}
    /\ status \in [Ops -> {"absent", "pending", "completed", "failed"}]
    /\ intent \in [Controllers -> Ops \cup {None}]
    /\ x.at \in Steps /\ x.op \in Ops \cup {None} /\ x.code \in Codes \cup {None}
    /\ (x.at = "idle") <=> (x = Idle)

AtRest == x = Idle /\ \A c \in Controllers : intent[c] = None

Settled == \A i \in Ops \ committed : oper[i] # "applied"

(* update_exec.rs: an order that failed in its first execution, and whose   *)
(* undo reported no problem, leaves the artifact and the configuration of   *)
(* the moment it was accepted.  Except when the configuration was replaced  *)
(* by a write that reported failure: wrote_config is then not set.          *)
FirstFailureRestores ==
    x.at = "answer" /\ x.code \in {"FAILED", "MIGRATION_FAILED", "PRIVILEGE_REQUIRED"}
      /\ Op \notin resumed /\ x.undo = "clean" /\ Op \notin misreported \ committed
      => Restored

(* update_exec.rs/deployment_state.rs: whenever nothing is under way, the   *)
(* document, the live object, the configuration file and the configuration  *)
(* the process loaded agree; unless a failed order was not undone, a commit *)
(* was reported as failed, or a migration was applied and its fence was not *)
(* recorded (LeavesEffects).                                                *)
AtRestAgrees ==
    AtRest /\ ~leftover /\ store.fence = None =>
        /\ runtime.art = store.current
        /\ gen = [art |-> store.current, cfg |-> config]
        /\ Running => runtime.loaded = config

(* docs/compatibility.md, snapshot_config, apply_*_healthy: what a rollback *)
(* would restore is an artifact together with the very configuration it was *)
(* healthy with.                                                            *)
RollbackPairWasHealthy ==
    ~leftover /\ store.previous # None =>
        /\ store.snapshot # None /\ snaps[store.snapshot] # None
        /\ [art |-> store.previous, cfg |-> snaps[store.snapshot].bytes] \in healthy

(* apply_update_healthy_from_live, record_migration_applied: when every     *)
(* applied migration belongs to a committed order, the artifact kept for    *)
(* rollback can run on the database as it is now.                           *)
RollbackTargetCompatible ==
    AtRest /\ Settled /\ store.previous # None => store.previous \in db

(* answer_rollback: a rollback whose commit was acknowledged is never       *)
(* reported as failed, however often it is interrupted and sent again.      *)
(* Left out are the two cases in which the code cannot know that the commit *)
(* is in the document: its write replaced the file and then failed, or the  *)
(* document could not be read when the order was sent again.                *)
CommittedRollbackCompletes ==
    \A i \in committed \ misreported :
        order[i].kind = "rollback" => status[i] # "failed"

(* execute_update, answer_rollback: while a migration fences the deployment,*)
(* only the order that applied it touches configuration and runtime object. *)
FenceExcludes ==
    [][store.fence # None /\ store.fence' # None
         /\ <<runtime, config>>' # <<runtime, config>>
       => Op = store.fence.op]_vars

(* instance_lifecycle: with a bounded number of kills and faults, every     *)
(* order a controller saved is eventually resolved and its intent cleared.  *)
OrdersResolve ==
    \A c \in Controllers, i \in Ops : intent[c] = i ~> intent[c] # i

(* update_exec.rs:12: "on any failure the executor restores the exact       *)
(* pre-update runtime object and config bytes before returning the stable   *)
(* failure".  Stated for an undo whose own commands meet no fault.          *)
FailureRestores ==
    x.at = "answer" /\ x.code \in {"FAILED", "MIGRATION_FAILED"} /\ x.undo # "fault"
      => Restored

(* update_exec.rs:18: a rollback "swaps the runtime back": an accepted      *)
(* rollback that meets no trouble does not fail.                            *)
RollbackSwapsBack ==
    x.at = "answer" /\ x.code = "FAILED" /\ ~IsUpdate => faults + crashes > 0

(* deployment_state.rs:939: "Re-executing the same interrupted commit        *)
(* replays without advancing again": a committed update is not turned into a *)
(* demand for recovery.                                                      *)
CommittedUpdateReplays ==
    x.at = "answer" /\ Op \in committed => x.code \in {"APPLIED", "NOOP"}

(* update_exec.rs:289: "applied or uncertain migrations keep the writer     *)
(* stopped": with nothing under way, a running writer fits the database.    *)
MigratedWriterStopped ==
    AtRest /\ Running => runtime.art \in db
=============================================================================
