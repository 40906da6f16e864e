------------------------------ MODULE Recovery ------------------------------
(***************************************************************************)
(* Disaster recovery of one deployment from its latest snapshot.  The      *)
(* controller's `recover` command (src/controller/surface_run.rs) drives a *)
(* durable plan (src/controller/recovery_journal.rs) through five host     *)
(* operations: restore, stage a candidate, invalidate old sessions through *)
(* the candidate, activate, clean up.  The target executes them one at a   *)
(* time under its operation journal (src/target/mod.rs,                    *)
(* src/target/backup_exec.rs); a session may outlive the command that      *)
(* started it.  Either side may be killed between any two durable writes.  *)
(* The recovery ids of one plan are pairs of a role and a number; the      *)
(* server's accept-once record, its registry of controller keys and the    *)
(* container engine are external.                                          *)
(***************************************************************************)
EXTENDS Naturals

CONSTANTS
    Releases,   \* release versions of the server
    Latest,     \* the release an unpinned request resolves to
    None,       \* an absent optional value
    MaxIds,     \* bound: operation ids minted for each role
    MaxSnaps,   \* bound: snapshots taken
    MaxRevision,\* bound: configuration revisions
    MaxResets,  \* bound: runs of `recover` that change the target version
    MaxFaults   \* bound: kills, lost connections, failures and refusals

ASSUME RecoveryConstants ==
    /\ Latest \in Releases /\ None \notin Releases
    /\ {MaxIds, MaxSnaps, MaxRevision} \subseteq Nat \ {0}
    /\ {MaxResets, MaxFaults} \subseteq Nat

Parts  == {"data", "secrets", "config"}
Roles  == {"recover", "stage", "control", "activate", "cleanup"}
Phases == {"restoring", "invalidating", "waiting", "cleanup"}
Nums   == 0..MaxIds         \* 0: no operation id yet
Ops    == [role : Roles, n : 1..MaxIds]

(* Arguments of a request that the target uses: the revision and snapshot  *)
(* of the plan, the requested release, the signed invalidation, its        *)
(* deadline, and the candidate's object id.                                *)
Requests == [op : Ops, rev : 1..MaxRevision, snap : 1..MaxSnaps,
             ver : Releases \cup {None}, inv : Nums, deadline : Nums, cand : Nums]

VARIABLES
    plan,       \* recovery-plan.json of the controller
    ctl,        \* the recover command: its step and the operation it awaits
    slot,       \* the control-operation journal: the invalidation it holds
    minted,     \* per role, operation ids handed out
    sess,       \* requests that reached the target's helper
    jrn,        \* the target journal's latest line for each operation
    job,        \* the operation under the journal lock and its step
    answer,     \* the result on its way to the controller
    state,      \* DeploymentState: revision and active_host_operation
    parts,      \* the formal, staged and rollback paths
    db,         \* the recovery database
    files,      \* the operation's records under backup/recoveries
    runtime,    \* the deployment's runtime object
    cand,       \* the candidate container
    server,     \* per invalidation: the accept-once record of the server
    passed,     \* invalidations whose deadline has passed
    auth,       \* the restored registry knows this controller's key
    snap,       \* the latest snapshot and whether it is restore-tested
    resets, faults

ctlVars == <<plan, ctl, slot, minted, resets>>
tgtVars == <<jrn, state, parts, db, files, runtime, cand>>
extVars == <<server, passed, auth, snap>>
vars == <<ctlVars, sess, job, answer, tgtVars, extVars, faults>>

Plans == [phase : Phases, restored : BOOLEAN, source : 1..MaxRevision,
          snap : 1..MaxSnaps, ver : Releases \cup {None}, stage : Nums, cand : Nums, inv : Nums,
          wrap : Nums, deadline : Nums, activate : Nums, clean : Nums]

NewPlan == [phase |-> "restoring", restored |-> FALSE, source |-> state.rev,
            snap |-> snap.n, ver |-> None, stage |-> 0, cand |-> 0, inv |-> 0, wrap |-> 0,
            deadline |-> 0, activate |-> 0, clean |-> 0]

Rest == [at |-> "idle", op |-> None, ver |-> None]
RecoverOp == [role |-> "recover", n |-> 1]

Init ==
    /\ plan = None /\ ctl = Rest /\ slot = 0
    /\ minted = [r \in Roles \cup {"inv"} |-> 0]
    /\ sess = {} /\ job = None /\ answer = None
    /\ jrn = [o \in Ops |-> [at |-> "none", obj |-> 0]]
    /\ state = [rev |-> 1, active |-> None]
    /\ parts = [p \in Parts |-> [live |-> "old", staged |-> "none", back |-> FALSE]]
    /\ db = "none"
    /\ files = [dbplan |-> FALSE, marker |-> FALSE, completed |-> FALSE, release |-> None]
    /\ runtime = [run |-> TRUE, ver |-> None]
    /\ cand = [obj |-> 0, ver |-> None, last |-> 0]
    /\ server = [i \in 1..MaxIds |-> "none"] /\ passed = {}
    /\ auth \in BOOLEAN
    /\ snap = [n |-> 1, tested |-> TRUE]
    /\ resets = 0 /\ faults = 0

Fault == faults < MaxFaults /\ faults' = faults + 1

(***************************************************************************)
(* The controller.                                                         *)
(***************************************************************************)
Goto(at, op) == ctl' = [at |-> at, op |-> op, ver |-> None]
Fresh(r) == minted[r] < MaxIds /\ minted' = [minted EXCEPT ![r] = @ + 1]

Request(role, n, p) ==
    [op |-> [role |-> role, n |-> n], rev |-> p.source, snap |-> p.snap, ver |-> p.ver,
     inv |-> p.inv, deadline |-> p.deadline, cand |-> p.cand]

(* The next operation that the plan calls for, in the order of the command. *)
NextRole(p) ==
    CASE p.phase = "restoring" /\ ~p.restored -> "recover"
      [] p.phase = "restoring" /\ p.restored  -> "stage"
      [] p.phase = "invalidating"             -> "control"
      [] p.phase = "waiting"                  -> "activate"
      [] p.phase = "cleanup"                  -> "cleanup"

(* run_recover without a plan: one is made from a restore-tested snapshot. *)
(* Bound: one recovery in a behaviour.                                     *)
BeginPlan ==
    /\ ctl = Rest /\ plan = None
    /\ snap.tested /\ jrn[RecoverOp].at = "none"
    /\ plan' = NewPlan
    /\ Goto("ready", None)
    /\ UNCHANGED <<slot, minted, resets, sess, job, answer, tgtVars, extVars, faults>>

(* run_recover with a pending plan and no change of the target version.    *)
Resume ==
    /\ ctl = Rest /\ plan # None
    /\ Goto("ready", None)
    /\ UNCHANGED <<plan, slot, minted, resets, sess, job, answer, tgtVars, extVars, faults>>

(* A changed --version returns the plan to the stage after the restore.    *)
Reset(p, v) ==
    [p EXCEPT !.phase = "restoring", !.ver = v, !.stage = 0, !.cand = 0,
              !.inv = 0, !.wrap = 0, !.deadline = 0, !.activate = 0, !.clean = 0]

(* recover --version v without a staged candidate.                         *)
ChangeVersion(v) ==
    /\ ctl = Rest /\ plan # None
    /\ plan.ver # v /\ plan.cand = 0
    /\ resets < MaxResets /\ resets' = resets + 1
    /\ plan' = Reset(plan, v)
    /\ Goto("ready", None)
    /\ UNCHANGED <<slot, minted, sess, job, answer, tgtVars, extVars, faults>>

(* The id of a host operation is stored in the plan before it is sent;     *)
(* a stored id is used again.                                              *)
WithId(field, role, n) ==
    \/ plan[field] # 0 /\ n = plan[field] /\ UNCHANGED <<plan, minted>>
    \/ /\ plan[field] = 0 /\ Fresh(role)
       /\ n = minted[role] + 1
       /\ plan' = [plan EXCEPT ![field] = n]

(* recover --version v with a staged candidate: it is removed first.       *)
ChangeVersionCleans(v) ==
    /\ ctl = Rest /\ plan # None
    /\ plan.ver # v /\ plan.cand # 0
    /\ resets < MaxResets /\ resets' = resets + 1
    /\ \E n \in 1..MaxIds :
          /\ WithId("clean", "cleanup", n)
          /\ sess' = sess \cup {Request("cleanup", n, plan)}
          /\ ctl' = [at |-> "reset", op |-> [role |-> "cleanup", n |-> n], ver |-> v]
    /\ answer' = None
    /\ UNCHANGED <<slot, job, tgtVars, extVars, faults>>

At(role) == ctl.at = "ready" /\ NextRole(plan) = role

Send(role, n) ==
    /\ sess' = sess \cup {Request(role, n, plan')}
    /\ Goto("await", [role |-> role, n |-> n])
    /\ answer' = None
    /\ UNCHANGED <<slot, resets, job, tgtVars, extVars, faults>>

SendRecover == At("recover") /\ UNCHANGED <<plan, minted>> /\ Send("recover", 1)

SendStage ==
    /\ At("stage")
    /\ \E n \in 1..MaxIds : WithId("stage", "stage", n) /\ Send("stage", n)

(* The activation waits until the controller's clock passes the deadline.  *)
SendActivate ==
    /\ At("activate")
    /\ plan.deadline \in passed
    /\ \E n \in 1..MaxIds : WithId("activate", "activate", n) /\ Send("activate", n)

SendCleanup ==
    /\ At("cleanup")
    /\ \E n \in 1..MaxIds : WithId("clean", "cleanup", n) /\ Send("cleanup", n)

(* What the inspection of the target has to show before an invalidation.   *)
Proved == state = [rev |-> plan.source + 1, active |-> RecoverOp]

(* The invalidation loop: the target must still prove this recovery.  A    *)
(* pointer that the control journal no longer backs is dropped.            *)
DropPointers ==
    /\ At("control") /\ Proved
    /\ slot = 0 /\ plan.inv # 0
    /\ plan' = [plan EXCEPT !.inv = 0, !.wrap = 0]
    /\ UNCHANGED <<ctl, slot, minted, resets, sess, job, answer, tgtVars, extVars, faults>>

(* prepare_control_operation: the operation in the journal, or a new one.  *)
Prepare ==
    /\ At("control") /\ Proved
    /\ \/ slot = 0 /\ plan.inv = 0 /\ Fresh("inv") /\ slot' = minted["inv"] + 1
       \/ slot # 0 /\ UNCHANGED <<slot, minted>>
    /\ Goto("signed", None)
    /\ UNCHANGED <<plan, resets, sess, job, answer, tgtVars, extVars, faults>>

(* It is recorded in the plan, which must not name another one.            *)
Record ==
    /\ ctl.at = "signed" /\ plan.inv \in {0, slot}
    /\ plan' = [plan EXCEPT !.inv = slot]
    /\ Goto("prepared", None)
    /\ UNCHANGED <<slot, minted, resets, sess, job, answer, tgtVars, extVars, faults>>

SendControl ==
    /\ ctl.at = "prepared"
    /\ \E n \in 1..MaxIds : WithId("wrap", "control", n) /\ Send("control", n)

(* The inspection finds a target that no longer proves the recovery.       *)
Disproved ==
    /\ At("control") /\ ~Proved
    /\ ctl' = Rest
    /\ UNCHANGED <<plan, slot, minted, resets, sess, job, answer, tgtVars, extVars, faults>>

Answered(role, res) ==
    /\ ctl.at \in {"await", "reset"} /\ answer # None
    /\ answer.op = ctl.op /\ answer.op.role = role /\ answer.res \in res
    /\ answer' = None
    /\ UNCHANGED <<minted, resets, sess, job, tgtVars, extVars>>

(* Every phase ends the command on a failed result and keeps the plan.     *)
Failed ==
    /\ \E role \in Roles : Answered(role, {"failed"})
    /\ ctl' = Rest
    /\ UNCHANGED <<plan, slot, faults>>

Restored ==
    /\ Answered("recover", {"done"})
    /\ plan' = [plan EXCEPT !.restored = TRUE]
    /\ Goto("ready", None)
    /\ UNCHANGED <<slot, faults>>

Staged ==
    /\ Answered("stage", {"done"})
    /\ plan' = [plan EXCEPT !.cand = answer.obj, !.phase = "invalidating"]
    /\ Goto("ready", None)
    /\ UNCHANGED <<slot, faults>>

Activated ==
    /\ Answered("activate", {"done"})
    /\ plan' = [plan EXCEPT !.phase = "cleanup"]
    /\ Goto("ready", None)
    /\ UNCHANGED <<slot, faults>>

Cleaned ==
    /\ Answered("cleanup", {"done"})
    /\ \/ ctl.at = "await" /\ plan' = None /\ ctl' = Rest
       \/ ctl.at = "reset" /\ plan' = Reset(plan, ctl.ver) /\ Goto("ready", None)
    /\ UNCHANGED <<slot, faults>>

NoPointers == [plan EXCEPT !.inv = 0, !.wrap = 0]

(* Mutant: an accepted but unfinished invalidation counts as done.         *)
InvalidatedEarly ==
    /\ Answered("control", {"done", "inprogress"})
    /\ plan' = [plan EXCEPT !.deadline = plan.inv, !.phase = "waiting"]
    /\ Goto("settle", None)
    /\ UNCHANGED <<slot, faults>>

(* An accepted invalidation: its deadline is stored before the control     *)
(* journal is settled.                                                     *)
Invalidated ==
    /\ Answered("control", {"done"})
    /\ plan' = [plan EXCEPT !.deadline = plan.inv, !.phase = "waiting"]
    /\ Goto("settle", None)
    /\ UNCHANGED <<slot, faults>>

(* A refusal of another kind, or an unsuccessful end: the pointers go      *)
(* first, then the journal, and the command ends.                          *)
Refused ==
    /\ Answered("control", {"rejected", "unsuccessful"})
    /\ plan' = NoPointers
    /\ Goto("drop", None)
    /\ UNCHANGED <<slot, faults>>

Settle ==
    /\ ctl.at \in {"settle", "drop"}
    /\ slot' = 0
    /\ IF ctl.at = "settle" THEN Goto("ready", None) ELSE ctl' = Rest
    /\ UNCHANGED <<plan, minted, resets, sess, job, answer, tgtVars, extVars, faults>>

(* No terminal result: journal and pointers stay for the next run.         *)
Unknown ==
    /\ Answered("control", {"inprogress"})
    /\ ctl' = Rest
    /\ UNCHANGED <<plan, slot, faults>>

(* The restored registry does not know the key: the journal is settled     *)
(* first; without the recovery secret the command ends there.              *)
Unauthorized ==
    /\ Answered("control", {"unauthorized"})
    /\ slot' = 0
    /\ UNCHANGED plan
    /\ \/ ctl' = Rest /\ Fault
       \/ Goto("ceremony", None) /\ UNCHANGED faults

ClearForCeremony ==
    /\ ctl.at = "ceremony"
    /\ plan' = NoPointers
    /\ Goto("recoverkey", None)
    /\ UNCHANGED <<slot, minted, resets, sess, job, answer, tgtVars, extVars, faults>>

(* recover_controller_identity through the candidate.                      *)
Ceremony ==
    /\ ctl.at = "recoverkey"
    /\ auth' = TRUE
    /\ Goto("ready", None)
    /\ UNCHANGED <<plan, slot, minted, resets, sess, job, answer, tgtVars,
                   server, passed, snap, faults>>

(* The command is killed, or its connection to the target breaks.          *)
KillController ==
    /\ ctl # Rest /\ Fault
    /\ ctl' = Rest /\ answer' = None
    /\ job' = IF job = None THEN None ELSE [job EXCEPT !.own = FALSE]
    /\ UNCHANGED <<plan, slot, minted, resets, sess, tgtVars, extVars>>

Controller ==
    \/ BeginPlan \/ Resume
    \/ \E v \in Releases : ChangeVersion(v) \/ ChangeVersionCleans(v)
    \/ SendRecover \/ SendStage \/ SendActivate \/ SendCleanup
    \/ DropPointers \/ Prepare \/ Record \/ SendControl \/ Disproved
    \/ Failed \/ Restored \/ Staged \/ Activated \/ Cleaned
    \/ Invalidated \/ Refused \/ Settle \/ Unknown
    \/ Unauthorized \/ ClearForCeremony \/ Ceremony

(***************************************************************************)
(* The target: one operation at a time under the journal lock.             *)
(***************************************************************************)
Terminal == {"done", "inprogress", "unsuccessful"}

Answer(op, own, res, obj) ==
    answer' = IF own THEN [op |-> op, res |-> res, obj |-> obj] ELSE answer

(* A stored terminal result is the answer.                                 *)
Replay ==
    /\ job = None
    /\ \E r \in sess :
          /\ jrn[r.op].at \in Terminal
          /\ sess' = sess \ {r}
          /\ Answer(r.op, ctl.op = r.op, jrn[r.op].at, jrn[r.op].obj)
    /\ UNCHANGED <<ctlVars, job, tgtVars, extVars, faults>>

(* A new, an interrupted or a failed operation is executed.                *)
Start ==
    /\ job = None
    /\ \E r \in sess :
          /\ jrn[r.op].at \notin Terminal
          /\ sess' = sess \ {r}
          /\ jrn' = [jrn EXCEPT ![r.op].at = "pending"]
          /\ job' = [req |-> r, at |-> "enter", was |-> FALSE, own |-> ctl.op = r.op]
    /\ UNCHANGED <<ctlVars, answer, state, parts, db, files, runtime, cand, extVars, faults>>

On(role, at) == job # None /\ job.req.op.role = role /\ job.at = at
To(at) == job' = [job EXCEPT !.at = at]
(* The terminal line and the answer.                                       *)
Finish(res, obj) ==
    /\ jrn' = [jrn EXCEPT ![job.req.op] =
                 [at |-> IF res \in Terminal THEN res ELSE "failed", obj |-> obj]]
    /\ Answer(job.req.op, job.own, res, obj)
    /\ job' = None
    /\ UNCHANGED <<ctlVars, sess, state, parts, db, files>>

Ends(res, obj) == Finish(res, obj) /\ UNCHANGED <<runtime, cand, extVars, faults>>

Keeps == UNCHANGED <<ctlVars, sess, answer, jrn, extVars, faults>>

(***************************************************************************)
(* BackupRecover.                                                          *)
(***************************************************************************)
(* The handler restarts the original runtime after a failure only if it    *)
(* ran before and no path was switched.                                    *)
Aborts ==
    /\ Finish("failed", 0)
    /\ runtime' = [runtime EXCEPT !.run = @ \/ (job.was /\ ~files.marker)]
    /\ UNCHANGED <<cand, extVars>>

Quiesce ==
    /\ On("recover", "enter")
    /\ IF state.rev = job.req.rev \/ state.active = RecoverOp
         THEN /\ job' = [job EXCEPT !.at = "verify", !.was = runtime.run]
              /\ runtime' = [runtime EXCEPT !.run = FALSE]
              /\ Keeps /\ UNCHANGED <<state, parts, db, files, cand>>
         ELSE Ends("failed", 0)

(* The latest manifest must be the one the plan names; a completed restore *)
(* goes on to its commit.                                                  *)
Verify ==
    /\ On("recover", "verify")
    /\ IF snap.n # job.req.snap
         THEN Aborts /\ UNCHANGED faults
         ELSE /\ To(IF files.completed THEN "commit" ELSE "dbplan")
              /\ Keeps /\ UNCHANGED <<state, parts, db, files, runtime, cand>>

(* The archive is verified and extracted; a database that exists without   *)
(* this operation's plan belongs to somebody else.                         *)
PlanDatabase ==
    /\ On("recover", "dbplan")
    /\ files.dbplan \/ db = "none"
    /\ files' = [files EXCEPT !.dbplan = TRUE]
    /\ To("database")
    /\ Keeps /\ UNCHANGED <<state, parts, db, runtime, cand>>

(* An incomplete database is dropped and created again.                    *)
CreateDatabase ==
    /\ On("recover", "database")
    /\ IF db = "restored" THEN To("data") /\ UNCHANGED db
                          ELSE To("load") /\ db' = "partial"
    /\ Keeps /\ UNCHANGED <<state, parts, files, runtime, cand>>

LoadDatabase ==
    /\ On("recover", "load")
    /\ db' = "restored" /\ To("data")
    /\ Keeps /\ UNCHANGED <<state, parts, files, runtime, cand>>

Switched(p) == parts[p].live # "none" /\ parts[p].back

(* Copies of the snapshot's trees are staged beside the formal paths; the  *)
(* configuration already names the recovery database, the secrets do only  *)
(* after their URLs are rewritten.                                         *)
StagePart(p, next) ==
    /\ On("recover", p)
    /\ parts' = IF parts[p].staged = "none" /\ ~Switched(p)
                  THEN [parts EXCEPT ![p].staged = IF p = "secrets" THEN "raw" ELSE "new"]
                  ELSE parts
    /\ To(next)
    /\ Keeps /\ UNCHANGED <<state, db, files, runtime, cand>>

(* Mutant: URLs are rewritten only when the copy was not left by a killed  *)
(* attempt, here: never.                                                   *)
RewriteUrlsSkipped ==
    /\ On("recover", "urls")
    /\ To("config")
    /\ Keeps /\ UNCHANGED <<state, parts, db, files, runtime, cand>>

RewriteUrls ==
    /\ On("recover", "urls")
    /\ parts' = [parts EXCEPT !["secrets"].staged = IF @ = "none" THEN @ ELSE "new"]
    /\ To("config")
    /\ Keeps /\ UNCHANGED <<state, db, files, runtime, cand>>

(* Mutant: the marker is not written before the first rename.              *)
MarkSwitchingForgotten ==
    /\ On("recover", "mark")
    /\ To("switch data")
    /\ Keeps /\ UNCHANGED <<state, parts, db, files, runtime, cand>>

MarkSwitching ==
    /\ On("recover", "mark")
    /\ files' = [files EXCEPT !.marker = TRUE]
    /\ To("switch data")
    /\ Keeps /\ UNCHANGED <<state, parts, db, runtime, cand>>

(* switch_recovery_path: one rename aside, one into place.  Any other      *)
(* combination of the three paths is not forward-resumable.                *)
SwitchPart(p, at, next) ==
    /\ On("recover", at)
    /\ LET x == parts[p] IN
       \/ /\ x.live # "none" /\ x.staged # "none" /\ ~x.back
          /\ parts' = [parts EXCEPT ![p] = [x EXCEPT !.live = "none", !.back = TRUE]]
          /\ UNCHANGED job
       \/ /\ x.live = "none" /\ x.staged # "none" /\ x.back
          /\ parts' = [parts EXCEPT ![p] = [x EXCEPT !.live = x.staged, !.staged = "none"]]
          /\ To(next)
       \/ /\ x.live # "none" /\ x.staged = "none" /\ x.back
          /\ UNCHANGED parts /\ To(next)
    /\ Keeps /\ UNCHANGED <<state, db, files, runtime, cand>>

WriteCompleted ==
    /\ On("recover", "completed")
    /\ files' = [files EXCEPT !.completed = TRUE]
    /\ To("commit")
    /\ Keeps /\ UNCHANGED <<state, parts, db, runtime, cand>>

(* Mutant: a commit that a killed attempt made is not recognised.          *)
CommitRecoveryAgain ==
    /\ On("recover", "commit")
    /\ IF state.rev = job.req.rev
         THEN /\ state' = [rev |-> state.rev + 1, active |-> RecoverOp]
              /\ To("answer")
              /\ Keeps /\ UNCHANGED <<parts, db, files, runtime, cand>>
         ELSE Ends("failed", 0)

(* apply_recovery: once for an operation, and only on its revision.        *)
CommitRecovery ==
    /\ On("recover", "commit")
    /\ IF state.active = RecoverOp \/ state.rev = job.req.rev
         THEN /\ state' = IF state.active = RecoverOp THEN state
                          ELSE [rev |-> state.rev + 1, active |-> RecoverOp]
              /\ To("answer")
              /\ Keeps /\ UNCHANGED <<parts, db, files, runtime, cand>>
         ELSE Ends("failed", 0)

RecoverAnswer == On("recover", "answer") /\ Ends("done", 0)

(* A failure of the restore; one while the dump is loaded drops the        *)
(* database again.                                                         *)
RecoverFails ==
    /\ job # None /\ job.req.op.role = "recover"
    /\ job.at \notin {"enter", "commit", "answer"}
    /\ Fault
    /\ jrn' = [jrn EXCEPT ![job.req.op] = [at |-> "failed", obj |-> 0]]
    /\ Answer(job.req.op, job.own, "failed", 0)
    /\ job' = None
    /\ db' = IF job.at = "load" THEN "none" ELSE db
    /\ runtime' = [runtime EXCEPT !.run = @ \/ (job.was /\ ~files.marker)]
    /\ UNCHANGED <<ctlVars, sess, state, parts, files, cand, extVars>>

Recover ==
    \/ Quiesce \/ Verify \/ PlanDatabase \/ CreateDatabase \/ LoadDatabase
    \/ StagePart("data", "secrets") \/ StagePart("secrets", "urls")
    \/ RewriteUrls \/ StagePart("config", "mark") \/ MarkSwitching
    \/ SwitchPart("data", "switch data", "switch secrets")
    \/ SwitchPart("secrets", "switch secrets", "switch config")
    \/ SwitchPart("config", "switch config", "completed")
    \/ WriteCompleted \/ CommitRecovery \/ RecoverAnswer

(***************************************************************************)
(* The operations that follow a committed restore.                         *)
(***************************************************************************)
Bound == state = [rev |-> job.req.rev + 1, active |-> RecoverOp]

(* stage_recovery_candidate: the restore must be complete and its snapshot *)
(* still the latest.                                                       *)
StageEnter ==
    /\ On("stage", "enter")
    /\ IF Bound /\ files.completed /\ snap.n = job.req.snap
         THEN To("facts") /\ Keeps /\ UNCHANGED <<state, parts, db, files, runtime, cand>>
         ELSE Ends("failed", 0)

(* A recorded release is used again unless another one is requested; a new *)
(* one is recorded after its migration ran on the restored database.       *)
StageFacts ==
    /\ On("stage", "facts")
    /\ files' = IF files.release # None /\ job.req.ver \in {None, files.release}
                  THEN files
                  ELSE [files EXCEPT !.release = IF job.req.ver = None THEN Latest ELSE job.req.ver]
    /\ To("run")
    /\ Keeps /\ UNCHANGED <<state, parts, db, runtime, cand>>

(* The source must be stopped, and a candidate that exists must match.     *)
StageRun ==
    /\ On("stage", "run")
    /\ \/ /\ ~runtime.run /\ (cand.obj = 0 \/ cand.ver = files.release)
          /\ cand.obj # 0 \/ cand.last < MaxIds
          /\ cand' = IF cand.obj = 0
                       THEN [obj |-> cand.last + 1, ver |-> files.release, last |-> cand.last + 1]
                       ELSE cand
          /\ To("answer")
          /\ Keeps /\ UNCHANGED <<state, parts, db, files, runtime>>
       \/ /\ runtime.run \/ (cand.obj # 0 /\ cand.ver # files.release)
          /\ Ends("failed", 0)

StageAnswer == On("stage", "answer") /\ Ends("done", cand.obj)

(* The candidate is not ready, or serves other keys: it is removed.        *)
StageUnready ==
    /\ On("stage", "answer") /\ Fault
    /\ Finish("failed", 0)
    /\ cand' = [cand EXCEPT !.obj = 0, !.ver = None]
    /\ UNCHANGED <<runtime, extVars>>

(* answer_recovery_candidate_control, and the server in the candidate.     *)
ControlEnter ==
    /\ On("control", "enter")
    /\ IF Bound /\ files.release # None /\ cand.obj = job.req.cand /\ cand.obj # 0
         THEN To("run") /\ Keeps /\ UNCHANGED <<state, parts, db, files, runtime, cand>>
         ELSE Ends("failed", 0)

Signed == job.req.inv

ControlRun ==
    /\ On("control", "run")
    /\ \/ server[Signed] = "none" /\ ~auth /\ Ends("unauthorized", 0)
       \/ /\ server[Signed] = "none" /\ auth /\ Fault
          /\ Finish("rejected", 0) /\ UNCHANGED <<runtime, cand, extVars>>
       \/ /\ server[Signed] # "none" \/ auth
          /\ server' = [server EXCEPT ![Signed] = IF @ = "none" THEN "accepted" ELSE @]
          /\ To("collect")
          /\ UNCHANGED <<ctlVars, sess, answer, tgtVars, passed, auth, snap, faults>>

ControlCollect ==
    /\ On("control", "collect")
    /\ \/ server[Signed] \in {"done", "unsuccessful"} /\ Ends(server[Signed], 0)
       \/ /\ server[Signed] = "accepted" /\ Fault
          /\ Finish("inprogress", 0) /\ UNCHANGED <<runtime, cand, extVars>>

(* activate_recovered_runtime.                                             *)
ActivateEnter ==
    /\ On("activate", "enter")
    /\ IF /\ Bound /\ job.req.deadline \in passed
          /\ files.completed /\ files.release # None
          /\ runtime.run => runtime.ver = files.release
         THEN /\ To(IF runtime.run THEN "ready" ELSE "replace")
              /\ Keeps /\ UNCHANGED <<state, parts, db, files, runtime, cand>>
         ELSE Ends("failed", 0)

ActivateReplace ==
    /\ On("activate", "replace")
    /\ runtime' = [run |-> FALSE, ver |-> files.release]
    /\ To("start")
    /\ Keeps /\ UNCHANGED <<state, parts, db, files, cand>>

ActivateStart ==
    /\ On("activate", "start")
    /\ runtime' = [runtime EXCEPT !.run = TRUE]
    /\ To("ready")
    /\ Keeps /\ UNCHANGED <<state, parts, db, files, cand>>

(* apply_update_healthy: the activation becomes the active operation.      *)
ActivateCommit ==
    /\ On("activate", "ready")
    /\ state' = [state EXCEPT !.active = job.req.op]
    /\ To("answer")
    /\ Keeps /\ UNCHANGED <<parts, db, files, runtime, cand>>

ActivateAnswer == On("activate", "answer") /\ Ends("done", 0)

(* cleanup_recovery_candidate removes the exact object, or finds it gone.  *)
CleanupCandidate ==
    /\ On("cleanup", "enter")
    /\ cand' = IF cand.obj = job.req.cand THEN [cand EXCEPT !.obj = 0, !.ver = None] ELSE cand
    /\ To("answer")
    /\ Keeps /\ UNCHANGED <<state, parts, db, files, runtime>>

CleanupAnswer == On("cleanup", "answer") /\ Ends("done", 0)

(* A check, the container engine or a file operation fails.                *)
StepFails ==
    /\ job # None /\ job.req.op.role # "recover"
    /\ job.at # "answer" /\ Fault
    /\ Finish("failed", 0) /\ UNCHANGED <<runtime, cand, extVars>>

(* The helper is killed; a command that waits for it loses its connection. *)
KillTarget ==
    /\ job # None /\ Fault
    /\ job' = None
    /\ ctl' = IF job.own THEN Rest ELSE ctl
    /\ UNCHANGED <<plan, slot, minted, resets, sess, answer, tgtVars, extVars>>

Later ==
    \/ StageEnter \/ StageFacts \/ StageRun \/ StageAnswer \/ StageUnready
    \/ ControlEnter \/ ControlRun \/ ControlCollect
    \/ ActivateEnter \/ ActivateReplace \/ ActivateStart \/ ActivateCommit \/ ActivateAnswer
    \/ CleanupCandidate \/ CleanupAnswer

(***************************************************************************)
(* The surroundings.                                                       *)
(***************************************************************************)
(* The server finishes an accepted invalidation; its deadline passes.      *)
ServerFinishes(i) ==
    /\ server[i] = "accepted"
    /\ \/ server' = [server EXCEPT ![i] = "done"] /\ UNCHANGED faults
       \/ server' = [server EXCEPT ![i] = "unsuccessful"] /\ Fault
    /\ UNCHANGED <<ctlVars, sess, job, answer, tgtVars, passed, auth, snap>>

DeadlinePasses(i) ==
    /\ server[i] = "done" /\ i \notin passed
    /\ passed' = passed \cup {i}
    /\ UNCHANGED <<ctlVars, sess, job, answer, tgtVars, server, auth, snap, faults>>

(* Other commands on a running deployment: backup snapshot drops the       *)
(* restore-test receipt, backup restore-test writes one, an update by      *)
(* another controller advances the revision.                               *)
TakeSnapshot ==
    /\ runtime.run /\ job = None /\ snap.n < MaxSnaps
    /\ snap' = [n |-> snap.n + 1, tested |-> FALSE]
    /\ UNCHANGED <<ctlVars, sess, job, answer, tgtVars, server, passed, auth, faults>>

TestRestore ==
    /\ job = None /\ ~snap.tested
    /\ snap' = [snap EXCEPT !.tested = TRUE]
    /\ UNCHANGED <<ctlVars, sess, job, answer, tgtVars, server, passed, auth, faults>>

UpdateElsewhere ==
    /\ runtime.run /\ job = None /\ state.rev < MaxRevision
    /\ state' = [rev |-> state.rev + 1, active |-> None]
    /\ UNCHANGED <<ctlVars, sess, job, answer, jrn, parts, db, files, runtime, cand,
                   extVars, faults>>

Surroundings ==
    \/ \E i \in 1..MaxIds : ServerFinishes(i) \/ DeadlinePasses(i)
    \/ TakeSnapshot \/ TestRestore \/ UpdateElsewhere

Next ==
    \/ Controller \/ Replay \/ Start \/ Recover \/ Later \/ Surroundings
    \/ RecoverFails \/ StepFails \/ KillController \/ KillTarget

Spec == Init /\ [][Next]_vars

(***************************************************************************)
(* Properties.                                                             *)
(***************************************************************************)
Jobs == [req : Requests, was : BOOLEAN, own : BOOLEAN,
         at : {"enter", "verify", "dbplan", "database", "load", "data", "secrets",
               "urls", "config", "mark", "switch data", "switch secrets",
               "switch config", "completed", "commit", "answer", "facts", "run",
               "collect", "replace", "start", "ready"}]

Answers == [op : Ops, obj : Nums, res : Terminal \cup {"failed", "unauthorized", "rejected"}]

(* An absent value is not a record of any kind.                            *)
ASSUME NoneIsNoRecord == None \notin Ops \cup Plans \cup Jobs \cup Answers

TypeOK ==
    /\ plan \in Plans \cup {None}
    /\ ctl \in [at : {"idle", "ready", "await", "reset", "signed", "prepared", "settle",
                      "drop", "ceremony", "recoverkey"},
                op : Ops \cup {None}, ver : Releases \cup {None}]
    /\ slot \in Nums
    /\ minted \in [Roles \cup {"inv"} -> Nums]
    /\ sess \subseteq Requests
    /\ job \in Jobs \cup {None}
    /\ answer \in Answers \cup {None}
    /\ jrn \in [Ops -> [at : Terminal \cup {"none", "pending", "failed"}, obj : Nums]]
    /\ state \in [rev : 1..MaxRevision + 1, active : Ops \cup {None}]
    /\ parts \in [Parts -> [live : {"old", "raw", "new", "none"},
                            staged : {"none", "raw", "new"}, back : BOOLEAN]]
    /\ db \in {"none", "partial", "restored"}
    /\ files \in [dbplan : BOOLEAN, marker : BOOLEAN, completed : BOOLEAN,
                  release : Releases \cup {None}]
    /\ runtime \in [run : BOOLEAN, ver : Releases \cup {None}]
    /\ cand \in [obj : Nums, ver : Releases \cup {None}, last : Nums]
    /\ server \in [1..MaxIds -> {"none", "accepted", "done", "unsuccessful"}]
    /\ passed \subseteq 1..MaxIds
    /\ auth \in BOOLEAN
    /\ snap \in [n : 1..MaxSnaps, tested : BOOLEAN]
    /\ resets \in 0..MaxResets /\ faults \in 0..MaxFaults

AllOld == \A p \in Parts : parts[p].live = "old"
AllNew == db = "restored" /\ \A p \in Parts : parts[p].live = "new"

(* Whatever was killed, failed or retried, a running deployment serves one *)
(* generation: the data, secrets and configuration from before the         *)
(* recovery, or all three from the snapshot with secrets that name the     *)
(* completely restored database (backup_exec.rs recover,                   *)
(* switch_recovery_path; mod.rs safe_to_restart).                          *)
ServesOneGeneration == runtime.run => AllOld \/ AllNew

(* Restored data is served only by the runtime that an activation started, *)
(* and only after the server invalidated the old sessions and the deadline *)
(* of that invalidation passed (surface_run.rs run_recover,                *)
(* activate_recovered_runtime).                                            *)
ServesInvalidated ==
    runtime.run /\ ~AllOld => runtime.ver # None /\ \E i \in passed : server[i] = "done"

(* The durable plan never runs ahead of what other machines hold: a plan   *)
(* past the restore has a completed one, a plan that waits for a deadline  *)
(* has the server's terminal invalidation, a plan that cleans up has an    *)
(* activated runtime; and the plan's pointer never contradicts the control *)
(* journal, which would end every further run (surface_run.rs, the order   *)
(* of journal.store and settle_journal).                                   *)
PlanIsTrue ==
    plan # None =>
      /\ plan.restored => files.completed /\ AllNew
      /\ plan.phase \in {"waiting", "cleanup"} => server[plan.deadline] = "done"
      /\ plan.phase = "cleanup" => runtime.run /\ runtime.ver # None
      /\ plan.inv # 0 /\ slot # 0 => plan.inv = slot

(***************************************************************************)
(* Liveness.  Killed commands are run again, the target serves its         *)
(* sessions, the server finishes what it accepted.                         *)
(***************************************************************************)
Fairness ==
    /\ WF_vars(Controller)
    /\ WF_vars(Replay \/ Start \/ Recover \/ Later)
    /\ \A i \in 1..MaxIds : WF_vars(ServerFinishes(i)) /\ WF_vars(DeadlinePasses(i))

FairSpec == Spec /\ Fairness

(* What ends a recovery for good: no rerun of the command gets past it.    *)
Superseded ==           \* a newer snapshot before the candidate was staged
    plan.phase = "restoring" /\ snap.n # plan.snap
Overtaken ==            \* the target state belongs to another operation
    /\ plan.phase # "cleanup"
    /\ ~Proved /\ state # [state EXCEPT !.rev = plan.source, !.active = None]
InProgressStored ==     \* an unfinished invalidation is the stored answer
    plan.wrap # 0 /\ jrn[[role |-> "control", n |-> plan.wrap]].at = "inprogress"
CandidateBlocked ==     \* a version change met an earlier attempt's objects
    /\ plan.phase = "restoring"
    /\ \/ runtime.run /\ runtime.ver # None
       \/ cand.obj # 0 /\ plan.ver \notin {None, cand.ver}
CandidateGone ==        \* a late attempt removed the recorded candidate
    plan.phase = "invalidating" /\ cand.obj # plan.cand
OutOfIds == \E r \in DOMAIN minted : minted[r] = MaxIds \/ cand.last = MaxIds

Blocked ==
    Superseded \/ Overtaken \/ InProgressStored \/ CandidateBlocked \/ CandidateGone \/ OutOfIds

(* An accepted recovery comes to its end however often either side is      *)
(* killed, provided the command is run again, unless one of the named      *)
(* conditions stops it (surface_run.rs run_recover, the resume of every    *)
(* phase; journal.rs retry_failed_phase).                                  *)
RecoveryEnds == plan # None ~> (plan = None \/ Blocked)

(* journal.rs: "Recovery stages ... are bound to this operation id. Their  *)
(* owners resume idempotently": an activation that was interrupted is      *)
(* completed by running recover again.  Refuted: killed after its commit,  *)
(* the activation requires the recovery to be the active operation and     *)
(* finds itself.  RecoveryEnds is what holds.                              *)
Waiting == plan # None /\ plan.phase = "waiting"
ActivationResumes == Waiting ~> plan = None

=============================================================================
