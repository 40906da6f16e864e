----------------------------- MODULE Installation -----------------------------
(* Clean install and uninstall of deployments on one target, driven by one    *)
(* controller machine (clean_install/mod.rs, clean_install/install_journal.rs,*)
(* target/install_exec.rs, instance_lifecycle/uninstall.rs,                   *)
(* target/uninstall_exec.rs).                                                 *)
(*                                                                            *)
(* A deployment is the number of its prepared plan.  The operation journal of *)
(* a deployment is reduced to the status of its install and of its uninstall  *)
(* operation; a lost answer only delays the controller's next step, since the *)
(* repeated command finds the stored result.  The managed directories are one *)
(* resource, and so are the secret files, of which the key that the target    *)
(* mints itself is kept as a number.  Runtimes are containers.                *)
EXTENDS Naturals, FiniteSets, Optional

CONSTANTS MaxIds,       \* bound on prepared deployments
          MaxChanges,   \* bound on changed credentials or configuration
          MaxFaults     \* bound on killed helpers and failed steps

ASSUME InstallationAssumption == {MaxIds, MaxChanges, MaxFaults} \subseteq Nat

VARIABLES plan,         \* prepared-installs/<request>.json
          request,      \* the bytes of the operator's order
          registry,     \* registered deployments
          keys,         \* deployments with local controller keys
          pending,      \* <deployment>.uninstall.json
          install,      \* install operation: [status, hash]
          uninstall,    \* uninstall operation's status
          dirs, config, \* "none", "bare" (no ownership marker), "owned", ...
          secret,       \* the minted key, 0 when absent
          dbStarted,    \* install-database-started
          dbKey,        \* external: the key the database's rows are bound to
          runtime,      \* "absent", "stopped", "running"
          state,        \* is there a DeploymentState?
          completion,   \* is there an uninstall-complete.json?
          exec,         \* the helper at work on the target
          revived,      \* history: registered after their uninstall
          next, minted, changes, faults

controller == <<plan, request, registry, keys, pending>>
files == <<dirs, config, secret, dbStarted>>
target == <<files, dbKey, runtime, state, completion>>
journal == <<install, uninstall>>
bounds == <<next, changes, faults>>
vars == <<controller, journal, target, exec, minted, revived, bounds>>

Ids == 1..MaxIds
Orders == [dep : Ids, done : BOOLEAN]

ASSUME NoneIsAbsent == None \notin Ids \cup Orders

Idle == [dep |-> 0, at |-> "idle", did |-> {}]

Init ==
    /\ plan = None /\ request = 0 /\ registry = {} /\ keys = {} /\ pending = None
    /\ install = [d \in Ids |-> [status |-> "none", hash |-> 0]]
    /\ uninstall = [d \in Ids |-> "none"]
    /\ dirs = [d \in Ids |-> "none"] /\ config = [d \in Ids |-> "none"]
    /\ secret = [d \in Ids |-> 0] /\ dbStarted = [d \in Ids |-> FALSE]
    /\ dbKey = [d \in Ids |-> 0] /\ runtime = [d \in Ids |-> "absent"]
    /\ state = [d \in Ids |-> FALSE] /\ completion = [d \in Ids |-> FALSE]
    /\ exec = Idle /\ revived = {} /\ next = 1 /\ minted = 0 /\ changes = 0 /\ faults = 0

-----------------------------------------------------------------------------
(* The controller's clean install.                                           *)

\* The operator repeats the command with other credentials.
ChangeRequest ==
    /\ changes < MaxChanges
    /\ changes' = changes + 1 /\ request' = request + 1
    /\ UNCHANGED <<plan, registry, keys, pending, journal, target, exec, minted,
                   next, faults, revived>>

\* A fresh identity is made durable before the target is asked.
Prepare ==
    /\ plan = None /\ next <= MaxIds
    /\ plan' = next /\ next' = next + 1
    /\ UNCHANGED <<request, registry, keys, pending, journal, target, exec,
                   minted, changes, faults, revived>>

\* A registered deployment that the target still shows closes the plan.
CloseRegistered ==
    /\ plan # None /\ plan \in registry /\ state[plan]
    /\ plan' = None
    /\ UNCHANGED <<request, registry, keys, pending, journal, target, exec,
                   minted, revived, bounds>>

\* The order reaches the target, which resumes an unfinished one.
SubmitInstall ==
    /\ plan # None /\ plan \notin registry /\ exec = Idle
    /\ \/ install[plan].status = "none"
       \/ install[plan] = [status |-> "pending", hash |-> request]
    /\ install' = [install EXCEPT ![plan] = [status |-> "pending", hash |-> request]]
    /\ exec' = [dep |-> plan, at |-> "check", did |-> {}]
    /\ UNCHANGED <<controller, uninstall, target, minted, revived, bounds>>

\* Another order under the accepted operation id is a conflict, and a failure
\* other than an unknown outcome releases the plan.
InstallRefused ==
    /\ plan # None /\ plan \notin registry
    /\ install[plan].status # "none"
    /\ install[plan].status = "failed" \/ install[plan].hash # request
    /\ plan' = None
    /\ UNCHANGED <<request, registry, keys, pending, journal, target, exec,
                   minted, revived, bounds>>

\* The completed order is registered and the plan is cleared.
Register ==
    /\ plan # None /\ plan \notin registry
    /\ install[plan] = [status |-> "completed", hash |-> request]
    /\ registry' = registry \cup {plan}
    /\ revived' = IF completion[plan] THEN revived \cup {plan} ELSE revived
    /\ plan' = None
    /\ UNCHANGED <<request, keys, pending, journal, target, exec, minted, bounds>>

\* The controller is killed between the two writes.
RegisterKilled ==
    /\ plan # None /\ plan \notin registry /\ faults < MaxFaults
    /\ install[plan] = [status |-> "completed", hash |-> request]
    /\ registry' = registry \cup {plan}
    /\ revived' = IF completion[plan] THEN revived \cup {plan} ELSE revived
    /\ faults' = faults + 1
    /\ UNCHANGED <<plan, request, keys, pending, journal, target, exec, minted,
                   next, changes>>

\* A controller key of a registered deployment (module ControllerKeys).
Bind(d) ==
    /\ d \in registry \ keys /\ pending = None /\ state[d]
    /\ keys' = keys \cup {d}
    /\ UNCHANGED <<plan, request, registry, pending, journal, target, exec,
                   minted, revived, bounds>>

-----------------------------------------------------------------------------
(* The install executor.                                                     *)

At(step) == exec.at = step
Dep == exec.dep
Go(step) == exec' = [exec EXCEPT !.at = step]
Did(what, step) == exec' = [exec EXCEPT !.at = step, !.did = @ \cup {what}]
Set(f, v) == [f EXCEPT ![Dep] = v]

\* Paths that exist without this deployment's marker are refused.
Check ==
    /\ At("check")
    /\ Go(IF dirs[Dep] = "bare" \/ config[Dep] \in {"bare", "marker"}
          THEN "undo" ELSE "dirs")
    /\ UNCHANGED <<controller, journal, target, minted, revived, bounds>>

\* prepare_owned_directory: the directory, then its marker.
MakeDirs ==
    /\ At("dirs")
    /\ IF dirs[Dep] = "none"
       THEN dirs' = Set(dirs, "bare") /\ UNCHANGED exec
       ELSE dirs' = Set(dirs, "owned") /\ Did("dirs", "config")
    /\ UNCHANGED <<controller, journal, config, secret, dbStarted, dbKey, runtime,
                   state, completion, minted, revived, bounds>>

WriteConfig ==
    /\ At("config")
    /\ config' = IF config[Dep] = "none" THEN Set(config, "bare") ELSE config
    /\ Did("config", "marker")
    /\ UNCHANGED <<controller, journal, dirs, secret, dbStarted, dbKey, runtime,
                   state, completion, minted, revived, bounds>>

WriteMarker ==
    /\ At("marker")
    /\ config' = Set(config, "owned")
    /\ Did("marker", "secret")
    /\ UNCHANGED <<controller, journal, dirs, secret, dbStarted, dbKey, runtime,
                   state, completion, minted, revived, bounds>>

\* An existing secret file keeps its value.
WriteSecret ==
    /\ At("secret")
    /\ IF secret[Dep] = 0
       THEN secret' = Set(secret, minted + 1) /\ minted' = minted + 1
       ELSE UNCHANGED <<secret, minted>>
    /\ Did("secret", "mark")
    /\ UNCHANGED <<controller, journal, dirs, config, dbStarted, dbKey, runtime,
                   state, completion, revived, bounds>>

\* The database marker is durable before the migration task starts.
MarkDatabase ==
    /\ At("mark")
    /\ dbStarted' = Set(dbStarted, TRUE)
    /\ Go("migrate")
    /\ UNCHANGED <<controller, journal, dirs, config, secret, dbKey, runtime, state,
                   completion, minted, revived, bounds>>

\* The task may bind database rows to the key before it reports anything.
Migrate ==
    /\ At("migrate")
    /\ dbKey' = IF dbKey[Dep] = 0 THEN Set(dbKey, secret[Dep]) ELSE dbKey
    /\ Go("create")
    /\ UNCHANGED <<controller, journal, files, runtime, state, completion, minted,
                   revived, bounds>>

CreateRuntime ==
    /\ At("create")
    /\ runtime' = IF runtime[Dep] = "absent" THEN Set(runtime, "stopped") ELSE runtime
    /\ Did("runtime", "start")
    /\ UNCHANGED <<controller, journal, files, dbKey, state, completion, minted,
                   revived, bounds>>

StartRuntime ==
    /\ At("start")
    /\ runtime' = Set(runtime, "running")
    /\ Did("started", "commit")
    /\ UNCHANGED <<controller, journal, files, dbKey, state, completion, minted,
                   revived, bounds>>

\* commit_clean_install; a state of this operation is accepted again.
CommitState ==
    /\ At("commit")
    /\ state' = Set(state, TRUE)
    /\ Go("finish")
    /\ UNCHANGED <<controller, journal, files, dbKey, runtime, completion, minted,
                   revived, bounds>>

FinishInstall ==
    /\ At("finish")
    /\ install' = [install EXCEPT ![Dep].status = "completed"]
    /\ exec' = Idle
    /\ UNCHANGED <<controller, uninstall, target, minted, revived, bounds>>

-----------------------------------------------------------------------------
(* Rollback of the steps this run performed.                                 *)

\* Mutant: the database marker is not looked at.
UndoRuntimeAlways ==
    /\ At("undo")
    /\ runtime' = IF "started" \in exec.did THEN Set(runtime, "absent") ELSE runtime
    /\ Go("undoSecret")
    /\ UNCHANGED <<controller, journal, files, dbKey, state, completion, minted,
                   revived, bounds>>

\* A runtime it started is stopped; after the database marker nothing else is
\* undone and the outcome is unknown, so the operation stays pending.
UndoRuntime ==
    /\ At("undo")
    /\ runtime' = IF "started" \in exec.did THEN Set(runtime, "stopped") ELSE runtime
    /\ IF dbStarted[Dep] THEN exec' = Idle ELSE Go("undoSecret")
    /\ UNCHANGED <<controller, journal, files, dbKey, state, completion, minted,
                   revived, bounds>>

UndoSecret ==
    /\ At("undoSecret")
    /\ secret' = IF "secret" \in exec.did THEN Set(secret, 0) ELSE secret
    /\ Go("undoConfig")
    /\ UNCHANGED <<controller, journal, dirs, config, dbStarted, dbKey, runtime,
                   state, completion, minted, revived, bounds>>

\* The file goes before its marker.
UndoConfig ==
    /\ \/ /\ At("undoConfig")
          /\ config' = IF "config" \notin exec.did THEN config
                       ELSE IF config[Dep] = "owned" THEN Set(config, "marker")
                       ELSE Set(config, "none")
          /\ Go("undoMarker")
       \/ /\ At("undoMarker")
          /\ config' = IF "marker" \in exec.did THEN Set(config, "none") ELSE config
          /\ Go("undoDirs")
    /\ UNCHANGED <<controller, journal, dirs, secret, dbStarted, dbKey, runtime,
                   state, completion, minted, revived, bounds>>

\* A removed tree takes what it still holds with it; a kill may leave part.
UndoDirs ==
    /\ At("undoDirs")
    /\ IF "dirs" \in exec.did /\ dirs[Dep] = "owned"
       THEN dirs' = Set(dirs, "bare") /\ UNCHANGED <<config, secret, install, exec>>
       ELSE /\ IF "dirs" \in exec.did
               THEN /\ dirs' = Set(dirs, "none") /\ config' = Set(config, "none")
                    /\ secret' = Set(secret, 0)
               ELSE UNCHANGED <<dirs, config, secret>>
            /\ install' = [install EXCEPT ![Dep].status = "failed"]
            /\ exec' = Idle
    /\ UNCHANGED <<controller, uninstall, dbStarted, dbKey, runtime, state,
                   completion, minted, revived, bounds>>

-----------------------------------------------------------------------------
(* Uninstall.                                                                *)

\* The confirmed operation is stored before it is sent.
OrderUninstall(d) ==
    /\ d \in registry /\ state[d] /\ pending = None
    /\ pending' = [dep |-> d, done |-> FALSE]
    /\ UNCHANGED <<plan, request, registry, keys, journal, target, exec, minted,
                   revived, bounds>>

\* Mutant: a stored failure is answered again.
SubmitUninstallOnce ==
    /\ pending # None /\ exec = Idle /\ ~pending.done
    /\ pending.dep \in registry
    /\ uninstall[pending.dep] \in {"none", "pending"}
    /\ uninstall' = [uninstall EXCEPT ![pending.dep] = "pending"]
    /\ exec' = [dep |-> pending.dep, did |-> {},
                at |-> IF completion[pending.dep] THEN "dropState" ELSE "remove"]
    /\ UNCHANGED <<controller, install, target, minted, revived, bounds>>

\* A failed uninstall is executed again, and so is an interrupted one.
SubmitUninstall ==
    /\ pending # None /\ exec = Idle /\ ~pending.done
    /\ pending.dep \in registry
    /\ uninstall[pending.dep] # "completed"
    /\ uninstall' = [uninstall EXCEPT ![pending.dep] = "pending"]
    /\ exec' = [dep |-> pending.dep, did |-> {},
                at |-> IF completion[pending.dep] THEN "dropState" ELSE "remove"]
    /\ UNCHANGED <<controller, install, target, minted, revived, bounds>>

RemoveRuntime ==
    /\ At("remove")
    /\ runtime' = Set(runtime, "absent")
    /\ Go("removeDirs")
    /\ UNCHANGED <<controller, journal, files, dbKey, state, completion, minted,
                   revived, bounds>>

RemoveDirs ==
    /\ At("removeDirs")
    /\ IF dirs[Dep] = "owned"
       THEN dirs' = Set(dirs, "bare") /\ UNCHANGED <<secret, exec>>
       ELSE dirs' = Set(dirs, "none") /\ secret' = Set(secret, 0) /\ Go("removeConfig")
    /\ UNCHANGED <<controller, journal, config, dbStarted, dbKey, runtime, state,
                   completion, minted, revived, bounds>>

RemoveConfig ==
    /\ \/ /\ At("removeConfig")
          /\ config' = Set(config, "marker")
          /\ Go("removeMarker")
       \/ /\ At("removeMarker")
          /\ config' = Set(config, "none")
          /\ Go("complete")
    /\ UNCHANGED <<controller, journal, dirs, secret, dbStarted, dbKey, runtime,
                   state, completion, minted, revived, bounds>>

\* remove_deployment: the completion record, then the state document.
RecordCompletion ==
    /\ At("complete")
    /\ completion' = Set(completion, TRUE)
    /\ Go("dropState")
    /\ UNCHANGED <<controller, journal, files, dbKey, runtime, state, minted, revived, bounds>>

DropState ==
    /\ At("dropState")
    /\ state' = Set(state, FALSE)
    /\ Go("uninstalled")
    /\ UNCHANGED <<controller, journal, files, dbKey, runtime, completion, minted,
                   revived, bounds>>

FinishUninstall ==
    /\ At("uninstalled")
    /\ uninstall' = [uninstall EXCEPT ![Dep] = "completed"]
    /\ exec' = Idle
    /\ UNCHANGED <<controller, install, target, minted, revived, bounds>>

\* The answer is kept, then the local records go one by one.
AnswerUninstall ==
    /\ pending # None /\ ~pending.done /\ uninstall[pending.dep] = "completed"
    /\ pending' = [pending EXCEPT !.done = TRUE]
    /\ UNCHANGED <<plan, request, registry, keys, journal, target, exec, minted,
                   revived, bounds>>

\* Mutant: the pending file goes before the registry record.
CleanLocalEarly ==
    /\ pending # None /\ pending.done
    /\ keys' = keys \ {pending.dep}
    /\ IF pending.dep \in keys THEN UNCHANGED <<registry, pending>>
       ELSE pending' = None /\ UNCHANGED registry
    /\ UNCHANGED <<plan, request, journal, target, exec, minted, revived, bounds>>

\* finish_local_cleanup
CleanLocal ==
    /\ pending # None /\ pending.done
    /\ \/ /\ pending.dep \in keys
          /\ keys' = keys \ {pending.dep} /\ UNCHANGED <<registry, pending>>
       \/ /\ pending.dep \in registry \ keys
          /\ registry' = registry \ {pending.dep} /\ UNCHANGED <<keys, pending>>
       \/ /\ pending.dep \notin registry \cup keys
          /\ pending' = None /\ UNCHANGED <<keys, registry>>
    /\ UNCHANGED <<plan, request, journal, target, exec, minted, revived, bounds>>

-----------------------------------------------------------------------------
(* Faults.                                                                   *)

\* A helper is killed, or a cleanup fails and leaves the outcome unknown.
Kill ==
    /\ exec # Idle /\ faults < MaxFaults
    /\ faults' = faults + 1
    /\ exec' = Idle
    /\ UNCHANGED <<controller, journal, target, minted, next, changes, revived>>

InstallSteps == {"check", "dirs", "config", "marker", "secret", "mark",
                 "migrate", "create", "start", "commit", "finish"}
UndoSteps == {"undo", "undoSecret", "undoConfig", "undoMarker", "undoDirs"}
UninstallSteps == {"remove", "removeDirs", "removeConfig", "removeMarker",
                   "complete", "dropState", "uninstalled"}

\* A failed step of an install starts its rollback.
FailInstall ==
    /\ exec.at \in InstallSteps /\ faults < MaxFaults
    /\ faults' = faults + 1
    /\ Go("undo")
    /\ UNCHANGED <<controller, journal, target, minted, next, changes, revived>>

FailUninstall ==
    /\ exec.at \in UninstallSteps \ {"uninstalled"} /\ faults < MaxFaults
    /\ faults' = faults + 1
    /\ uninstall' = [uninstall EXCEPT ![Dep] = "failed"]
    /\ exec' = Idle
    /\ UNCHANGED <<controller, install, target, minted, next, changes, revived>>

HelperStep ==
    \/ Check \/ MakeDirs \/ WriteConfig \/ WriteMarker \/ WriteSecret
    \/ MarkDatabase \/ Migrate \/ CreateRuntime \/ StartRuntime \/ CommitState
    \/ FinishInstall
    \/ UndoRuntime \/ UndoSecret \/ UndoConfig \/ UndoDirs
    \/ RemoveRuntime \/ RemoveDirs \/ RemoveConfig \/ RecordCompletion
    \/ DropState \/ FinishUninstall

InstallStep ==
    \/ CloseRegistered \/ SubmitInstall \/ InstallRefused \/ Register

UninstallStep == SubmitUninstall \/ AnswerUninstall \/ CleanLocal

Next ==
    \/ ChangeRequest \/ Prepare \/ InstallStep
    \/ \E d \in Ids : Bind(d) \/ OrderUninstall(d)
    \/ UninstallStep \/ HelperStep
    \/ RegisterKilled \/ Kill \/ FailInstall \/ FailUninstall

Spec == Init /\ [][Next]_vars

\* The operator repeats an unfinished command, and a helper goes on.
FairSpec ==
    /\ Spec
    /\ WF_vars(HelperStep) /\ WF_vars(InstallStep) /\ SF_vars(UninstallStep)

-----------------------------------------------------------------------------
(* Properties.                                                               *)

TypeOK ==
    /\ plan \in Ids \cup {None} /\ request \in 0..MaxChanges
    /\ registry \subseteq Ids /\ keys \subseteq registry
    /\ pending \in Orders \cup {None}
    /\ install \in [Ids -> [status : {"none", "pending", "completed", "failed"},
                            hash : 0..MaxChanges]]
    /\ uninstall \in [Ids -> {"none", "pending", "completed", "failed"}]
    /\ dirs \in [Ids -> {"none", "bare", "owned"}]
    /\ config \in [Ids -> {"none", "bare", "marker", "owned"}]
    /\ secret \in [Ids -> 0..minted] /\ dbKey \in [Ids -> 0..minted]
    /\ runtime \in [Ids -> {"absent", "stopped", "running"}]
    /\ revived \subseteq Ids
    /\ {dbStarted, state, completion} \subseteq [Ids -> BOOLEAN]
    /\ exec \in [dep : 0..MaxIds, did : SUBSET {"dirs", "config", "marker", "secret",
                                                "runtime", "started"},
                 at : {"idle"} \cup InstallSteps \cup UndoSteps \cup UninstallSteps]

\* Database rows bound to a deployment's key keep that key on the target
\* through failed, killed and repeated installs, until an uninstall begins.
DatabaseKeyKept ==
    \A d \in Ids : dbKey[d] # 0 /\ uninstall[d] = "none" => secret[d] = dbKey[d]

\* Once the completion record of an uninstall exists nothing managed is left
\* on the target, and once its order is settled nothing is left locally, save
\* for an install plan that outlived its own registration.
UninstallClean ==
    \A d \in Ids :
        /\ completion[d] => /\ runtime[d] = "absent" /\ dirs[d] = "none"
                            /\ config[d] = "none" /\ secret[d] = 0
        /\ uninstall[d] = "completed" /\ pending = None =>
               d \notin (registry \cup keys) \ revived

\* Every install and every uninstall that was begun ends, unless the plan of
\* an uninstalled deployment was replayed.
OrdersEnd ==
    /\ plan # None ~> plan = None \/ plan \in revived
    /\ pending # None ~> pending = None

\* The identity of an install whose database was initialised is kept until it
\* is registered: it is the only key that can resume it.  Refuted: a changed
\* order is a conflict, and that failure releases the plan of a helper at work.
IdentityRetained ==
    \A d \in Ids : dbStarted[d] =>
        plan = d \/ d \in registry \/ uninstall[d] # "none"

\* A registered deployment exists on the target or is being uninstalled.
\* Refuted: a plan that outlived its registration registers it again.
RegisteredExists ==
    \A d \in registry : state[d] \/ (pending # None /\ pending.dep = d)

===============================================================================
