--------------------------- MODULE ConformanceRun ---------------------------
(***************************************************************************)
(* `oidf run` (crates/nazoauthctl/src/ordinary_run.rs): recover what an    *)
(* earlier invocation left, provision a temporary tenant and its resources *)
(* through control operations, run the Suite, clean up, retain or delete   *)
(* the Suite plans and drop the run journal. The control-operation slot of *)
(* the controller and the run journal are two files, written at different  *)
(* moments; the target and the Suite are remote. The command may be killed *)
(* anywhere and started again. One run and its recoveries are modelled:    *)
(* the orchestration lock allows one invocation at a time.                 *)
(***************************************************************************)
EXTENDS SuiteRun

CONSTANT MaxKills       \* bound on kills of the command

ASSUME KillAssumption == MaxKills \in Nat

(* The operation in the controller's slot. *)
Operations == [step : Steps, res : {"none", "ok", "failed"}, present : BOOLEAN]

ASSUME NoneIsNoOperation == None \notin Operations

VARIABLES
    slot,     \* the controller's operation journal, and what the target did
    tenant,   \* the temporary tenant in the target's directory
    files,    \* private material, staged and published retention manifests
    cmd,      \* locals of the running command, exit status of the last one
    opt,      \* --delete-suite-plans (~retain) and --fail-fast
    kills     \* kills so far

targetVars == <<slot, tenant>>
vars == <<suiteVars, slot, tenant, files, cmd, opt, kills>>

NoCmd == [ctx |-> "rec", pass |-> 1, step |-> "Describe", back |-> "judge",
          call |-> "idle", resumed |-> FALSE, present |-> FALSE,
          elig |-> FALSE, cleaned |-> FALSE, errs |-> FALSE, exit |-> "none"]

Init ==
    /\ SuiteInit
    /\ pc = "off" /\ jm = None /\ jd = None
    /\ slot = None
    /\ tenant = [st |-> "none", res |-> FALSE]
    /\ files = [begun |-> FALSE, material |-> FALSE, staged |-> {}, published |-> {}]
    /\ cmd = NoCmd
    /\ opt \in [retain : BOOLEAN, failFast : BOOLEAN]
    /\ kills = 0

----------------------------------------------------------------------------
(* Where an error goes: a failed setup first settles its own pending       *)
(* operation (cleanup_failed_pre_suite_setup), a cleanup error after the   *)
(* Suite phase is reported, any other error ends the command.              *)
Bail ==
    /\ pc' = CASE cmd.ctx = "setup" -> "match"
               [] cmd.ctx = "end"   -> "settle"
               [] OTHER             -> "exit"
    /\ cmd' = CASE cmd.ctx = "setup" -> [cmd EXCEPT !.ctx = "fail", !.call = "idle"]
                [] cmd.ctx = "end"   -> [cmd EXCEPT !.errs = TRUE, !.call = "idle"]
                [] OTHER             -> [cmd EXCEPT !.exit = "failed", !.call = "idle"]

Quit(code) == pc' = "exit" /\ cmd' = [cmd EXCEPT !.exit = code]
Goto(p) == pc' = p /\ UNCHANGED cmd

(* execute_control_operation is about to be called; a Describe says where  *)
(* its answer is used.                                                     *)
Ask(c, step, back) ==
    /\ pc' = "do"
    /\ cmd' = [c EXCEPT !.step = step, !.back = back, !.call = "idle",
                        !.resumed = FALSE]
Call(step) == Ask(cmd, step, cmd.back)

suitePart == <<suite, rep, wk, queue, run>>

----------------------------------------------------------------------------
(* One control operation (conformance.rs, controller_identity/dispatch.rs). *)

(* prepare_control_operation: the slot holds one operation; the same       *)
(* payload resumes it, another one is refused.                             *)
PrepareOperation ==
    /\ pc = "do" /\ cmd.call = "idle"
    /\ IF slot = None
       THEN \E r \in Outcomes({"lost", "late"}) :
              /\ Charge(r)
              /\ slot' = IF r = "lost" THEN None
                         ELSE [step |-> cmd.step, res |-> "none", present |-> FALSE]
              /\ IF r = "ok" THEN cmd' = [cmd EXCEPT !.call = "sent"] /\ UNCHANGED pc
                             ELSE Bail
       ELSE /\ IF Payload(slot.step) = Payload(cmd.step)
               THEN cmd' = [cmd EXCEPT !.call = "sent"] /\ UNCHANGED pc
               ELSE Bail
            /\ UNCHANGED <<slot, faults>>
    /\ UNCHANGED <<journalVars, suitePart, tenant, files, opt, kills>>

(* The target executes an operation once and remembers its result. A       *)
(* failure is a rolled-back business outcome (a stale directory revision). *)
Allowed(step) ==
    CASE step = "Create"   -> tenant.st = "none"
      [] step = "Disable"  -> tenant.st = "active"
      [] step = "Finalize" -> tenant.st = "disabled"
      [] step = "Describe" -> TRUE
      [] OTHER             -> tenant.st = "active"

Performed(step) ==
    CASE step = "Create"   -> [tenant EXCEPT !.st = "active"]
      [] step = "Apply"    -> [tenant EXCEPT !.res = TRUE]
      [] step = "Revoke"   -> [tenant EXCEPT !.res = FALSE]
      [] step = "Disable"  -> [tenant EXCEPT !.st = "disabled"]
      [] step = "Finalize" -> [st |-> "gone", res |-> FALSE]
      [] OTHER             -> tenant

Serve ==
    /\ slot # None /\ slot.res = "none"
    /\ \E r \in IF ~Allowed(slot.step) THEN {"refused"}
                ELSE IF slot.step = "Describe" THEN {"ok"} ELSE Outcomes({"failed"}) :
         /\ Charge(IF r = "refused" THEN "ok" ELSE r)
         /\ tenant' = IF r = "ok" THEN Performed(slot.step) ELSE tenant
         /\ slot' = [slot EXCEPT
                       !.res = IF r = "ok" THEN "ok" ELSE "failed",
                       !.present = IF slot.step = "Describe"
                                   THEN tenant.st \in {"active", "disabled"}
                                   ELSE r = "ok" /\ tenant.res]
    /\ UNCHANGED <<pc, journalVars, suitePart, files, cmd, opt, kills>>

(* Mutant: a lost answer is taken for a rejection. *)
LoseAnswer_Freed ==
    /\ pc = "do" /\ cmd.call = "sent" /\ faults < MaxFaults
    /\ Charge("lost") /\ slot' = None /\ Bail
    /\ UNCHANGED <<journalVars, suitePart, tenant, files, opt, kills>>

(* No answer, or an answer that is still in progress: the slot stays. *)
LoseAnswer ==
    /\ pc = "do" /\ cmd.call = "sent" /\ faults < MaxFaults
    /\ Charge("lost") /\ Bail
    /\ UNCHANGED <<journalVars, suitePart, targetVars, files, opt, kills>>

(* Refused before acceptance: nothing was executed, the slot is freed. *)
RejectOperation ==
    /\ pc = "do" /\ cmd.call = "sent" /\ slot.res = "none" /\ faults < MaxFaults
    /\ Charge("rejected") /\ slot' = None /\ Bail
    /\ UNCHANGED <<journalVars, suitePart, tenant, files, opt, kills>>

(* The persist callback of each call. A resumed failure is recorded by     *)
(* persist_pending_recovery_completion; otherwise only the resource        *)
(* operations record theirs.                                               *)
ResourceSteps == {"Baseline", "Apply", "CleanupList", "Revoke"}
Records == /\ cmd.step # "Describe"
           /\ slot.res = "ok" \/ cmd.resumed \/ cmd.step \in ResourceSteps
Recorded == IF slot.res = "ok" THEN RecordSuccess(jm, cmd.step, slot.present)
            ELSE RecordFailure(jm, cmd.step)

PersistAnswer ==
    /\ pc = "do" /\ cmd.call = "sent" /\ slot.res # "none"
    /\ IF ~Records
       THEN /\ cmd' = [cmd EXCEPT !.call = "saved"]
            /\ UNCHANGED <<pc, journalVars, faults>>
       ELSE IF slot.res = "failed" /\ FailureConflicts(jm, cmd.step)
       THEN Bail /\ UNCHANGED <<journalVars, faults>>
       ELSE \E r \in SaveResults(Recorded) :
              /\ Save(Recorded, r)
              /\ IF r = "ok" THEN cmd' = [cmd EXCEPT !.call = "saved"] /\ UNCHANGED pc
                             ELSE Bail
    /\ UNCHANGED <<suitePart, targetVars, files, opt, kills>>

(* What follows a success: the rest of provision_ephemeral_tenant, of the  *)
(* setup, of cleanup_run_resources or of cleanup_ephemeral_tenant.         *)
Proceed(c) ==
    CASE c.step = "Create"   -> Ask(c, "KeyGen", c.back)
      [] c.step = "KeyGen"   -> Ask(c, "Describe", "prepare")
      [] c.step = "Baseline" -> Ask(c, "Apply", c.back)
      [] OTHER ->
           /\ cmd' = c
           /\ pc' = CASE c.step = "Describe" -> c.back
                      [] c.step = "Reload"   -> "probe"
                      [] c.step = "Apply"    -> "mapped"
                      [] c.step = "Disable"  -> "tenant"
                      [] c.step = "Finalize" -> "absent"
                      [] OTHER               -> "clean"

(* clear_if_matches, after the result is durable. *)
ClearSlot ==
    /\ pc = "do" /\ cmd.call = "saved"
    /\ \E r \in Outcomes({"uncleared"}) :
         LET c == [cmd EXCEPT !.call = "idle", !.present = slot.present]
             failed == slot.res = "failed" IN
         /\ Charge(r)
         /\ slot' = IF r = "ok" THEN None ELSE slot
         /\ IF r # "ok" THEN Bail
            ELSE IF failed /\ cmd.step \in {"Disable", "Finalize"}
            THEN pc' = "reset" /\ cmd' = c
            ELSE IF failed /\ (~cmd.resumed \/ cmd.step = "Describe") THEN Bail
            ELSE IF cmd.resumed THEN pc' = "matched" /\ cmd' = c
            ELSE Proceed(c)
    /\ UNCHANGED <<journalVars, suitePart, tenant, files, opt, kills>>

(* reset_failed_tenant_cleanup, once the slot is free. *)
ResetCleanup ==
    /\ pc = "reset"
    /\ LET new == ResetFailedCleanup(jm, cmd.step) IN
       \E r \in SaveResults(new) :
         /\ Save(new, r)
         /\ IF r = "ok" /\ cmd.resumed THEN Goto("matched") ELSE Bail
    /\ UNCHANGED <<suitePart, targetVars, files, opt, kills>>

----------------------------------------------------------------------------
(* The start of a command: recover_pending_runs, once without and once     *)
(* with the authenticated Suite client.                                    *)

Start ==
    /\ pc = "off"
    /\ pc' = "claim" /\ cmd' = NoCmd
    /\ UNCHANGED <<journalVars, suitePart, faults, targetVars, files, opt, kills>>

(* claim_pending *)
Claim ==
    /\ pc = "claim"
    /\ IF jd # None => ValidJournal(jd)
       THEN jm' = jd /\ Goto("match")
       ELSE Bail /\ UNCHANGED jm
    /\ UNCHANGED <<jd, suitePart, faults, targetVars, files, opt, kills>>

(* resume_pending_conformance_operation: the pending operation must match  *)
(* exactly one candidate; an Apply needs its private material.             *)
MatchPending ==
    /\ pc = "match"
    /\ IF slot = None THEN Goto("matched")
       ELSE IF /\ ~LookupFails(jm, slot.step)
               /\ Cardinality(Matching(jm, slot.step)) = 1
               /\ slot.step = "Apply" => files.material
       THEN /\ pc' = "do"
            /\ cmd' = [cmd EXCEPT !.resumed = TRUE, !.call = "sent",
                         !.step = (CHOOSE c \in Matching(jm, slot.step) : TRUE)[2]]
       ELSE Bail
    /\ UNCHANGED <<journalVars, suitePart, faults, targetVars, files, opt, kills>>

(* The slot is settled. After a failed setup the applied resources are     *)
(* cleaned or the directory is asked for the tenant; a recovery asks it    *)
(* first. Without a journal the pass is over: a new run may begin.         *)
Matched ==
    /\ pc = "matched"
    /\ IF jm = None
       THEN IF cmd.pass = 1 THEN Goto("auth")
            ELSE IF files.begun THEN Quit("recovered") ELSE Goto("write")
       ELSE IF cmd.ctx = "fail" /\ jm.applied /\ jm.failure = None
       THEN Goto("clean")
       ELSE Ask(cmd, "Describe", "judge")
    /\ UNCHANGED <<journalVars, suitePart, faults, targetVars, files, opt, kills>>

(* tenant_directory_presence answered. A durable failure makes the         *)
(* recovery clean the tenant and then fail.                                *)
Judge ==
    /\ pc = "judge"
    /\ LET blocked == cmd.ctx = "rec" /\ jm.failure # None
           c == [cmd EXCEPT !.ctx = IF blocked THEN "recfail" ELSE @]
           next == IF cmd.ctx = "rec" /\ ~blocked /\ jm.disposition # "retained"
                   THEN "clean" ELSE "tenant" IN
       IF cmd.present
       THEN pc' = next /\ cmd' = c /\ UNCHANGED <<journalVars, faults>>
       ELSE \E r \in SaveResults(MarkAbsent(jm)) :
              /\ Save(MarkAbsent(jm), r)
              /\ IF r = "ok" THEN pc' = next /\ cmd' = c ELSE Bail
    /\ UNCHANGED <<suitePart, targetVars, files, opt, kills>>

(* authenticate_suite, between the two passes. *)
Authenticate ==
    /\ pc = "auth"
    /\ \E r \in Outcomes({"unauthenticated"}) :
         /\ Charge(r)
         /\ IF r = "ok" THEN pc' = "claim" /\ cmd' = [cmd EXCEPT !.pass = 2]
                        ELSE Bail
    /\ UNCHANGED <<journalVars, suitePart, targetVars, files, opt, kills>>

----------------------------------------------------------------------------
(* The setup of a run. *)

(* The private material is written before the journal that names it. *)
WriteMaterial ==
    /\ pc = "write"
    /\ \E r \in Outcomes({"unwritten"}) :
         /\ Charge(r)
         /\ files' = [files EXCEPT !.material = r = "ok"]
         /\ IF r = "ok" THEN Ask([cmd EXCEPT !.ctx = "start"], "Describe", "begin")
                        ELSE Bail
    /\ UNCHANGED <<journalVars, suitePart, targetVars, opt, kills>>

(* begin_ordinary_run; when it fails the material is removed again. *)
BeginRun ==
    /\ pc = "begin"
    /\ \E r \in Outcomes({"lost", "late"}) :
         /\ Charge(r)
         /\ jd' = IF r = "lost" THEN None ELSE FreshJournal
         /\ jm' = IF r = "ok" THEN FreshJournal ELSE None
         /\ files' = [files EXCEPT !.begun = r # "lost", !.material = r = "ok"]
         /\ IF r = "ok" THEN Ask([cmd EXCEPT !.ctx = "setup"], "Create", cmd.back)
                        ELSE Bail
    /\ UNCHANGED <<suitePart, targetVars, opt, kills>>

(* A directory revision is durable before the operation that carries it. *)
PrepareMutation ==
    /\ pc = "prepare"
    /\ LET step == IF cmd.ctx = "setup" THEN "Reload"
                   ELSE IF jm.disabled THEN "Finalize" ELSE "Disable"
           new == PrepareRevision(jm, step) IN
       \E r \in SaveResults(new) :
         /\ Save(new, r)
         /\ IF r = "ok" THEN Call(step) ELSE Bail
    /\ UNCHANGED <<suitePart, targetVars, files, opt, kills>>

ProbeTenant ==
    /\ pc = "probe"
    /\ \E r \in Outcomes({"unreachable"}) :
         /\ Charge(r)
         /\ IF r = "ok" THEN Call("Baseline") ELSE Bail
    /\ UNCHANGED <<journalVars, suitePart, targetVars, files, opt, kills>>

(* The Apply result must map to the prepared material. *)
FinalizeMaterial ==
    /\ pc = "mapped"
    /\ \E r \in Outcomes({"mismatch"}) :
         /\ Charge(r)
         /\ IF r = "ok" THEN pc' = "suite" /\ cmd' = [cmd EXCEPT !.ctx = "end"]
                        ELSE Bail
    /\ UNCHANGED <<journalVars, suitePart, targetVars, files, opt, kills>>

----------------------------------------------------------------------------
(* Cleanup of the tenant and its resources. *)

(* cleanup_run_resources: each step is skipped when its result is durable. *)
CleanResources ==
    /\ pc = "clean"
    /\ IF jm.absent \/ ~jm.applied \/ ObligationsComplete(jm) THEN Goto("tenant")
       ELSE IF jm.listed = "no" THEN Call("CleanupList")
       ELSE IF jm.listed = "present" /\ ~jm.revoked THEN Call("Revoke") ELSE Bail
    /\ UNCHANGED <<journalVars, suitePart, faults, targetVars, files, opt, kills>>

(* Where the caller of cleanup_ephemeral_tenant goes on. *)
TenantDone ==
    CASE cmd.ctx = "end"     -> pc' = "settle" /\ cmd' = [cmd EXCEPT !.cleaned = TRUE]
      [] cmd.ctx = "fail"    -> Goto("finish")
      [] cmd.ctx = "recfail" -> Quit("failed")
      [] cmd.ctx = "rec"     ->
            Goto(IF cmd.pass = 1 THEN "auth"
                 ELSE IF jm.disposition = "retained" THEN "publish" ELSE "scrub")

(* Mutant: a disabled tenant counts as cleaned up. *)
CleanTenant_DisabledIsEnough ==
    /\ pc = "tenant"
    /\ IF jm.tenantClean \/ jm.disabled THEN TenantDone
       ELSE IF jm.disableRev THEN Call("Disable") ELSE Ask(cmd, "Describe", "prepare")
    /\ UNCHANGED <<journalVars, suitePart, faults, targetVars, files, opt, kills>>

(* cleanup_ephemeral_tenant: Disable, then Finalize, each under a revision *)
(* that is read from the directory and made durable first.                 *)
CleanTenant ==
    /\ pc = "tenant"
    /\ IF jm.tenantClean THEN TenantDone
       ELSE IF jm.disabled
       THEN IF jm.finalizeRev THEN Call("Finalize") ELSE Ask(cmd, "Describe", "prepare")
       ELSE IF jm.disableRev THEN Call("Disable") ELSE Ask(cmd, "Describe", "prepare")
    /\ UNCHANGED <<journalVars, suitePart, faults, targetVars, files, opt, kills>>

(* mark_tenant_absent, after a successful Finalize. *)
TenantAbsent ==
    /\ pc = "absent"
    /\ \E r \in SaveResults(MarkAbsent(jm)) :
         /\ Save(MarkAbsent(jm), r)
         /\ IF r = "ok" THEN Goto("tenant") ELSE Bail
    /\ UNCHANGED <<suitePart, targetVars, files, opt, kills>>

----------------------------------------------------------------------------
(* The end of a run: what happens to the Suite plans. *)

(* The Suite phase returned: its plans are all deleted, or a retention is  *)
(* prepared, or they are still owned by the journal.                       *)
SuiteResult ==
    /\ pc = "result"
    /\ LET c == [cmd EXCEPT !.errs = run.user]
           elig == ~run.user /\ RetentionEligible IN
       IF CleanupComplete
       THEN IF CanMarkSuiteClean(jm)
            THEN \E r \in SaveResults(MarkSuiteClean(jm)) :
                   /\ Save(MarkSuiteClean(jm), r)
                   /\ IF r = "ok" THEN pc' = "clean" /\ cmd' = c ELSE Quit("failed")
            ELSE Quit("failed") /\ UNCHANGED <<journalVars, faults>>
       ELSE IF elig /\ CanPrepareRetention(jm, run.keep)
       THEN \E r \in SaveResults(PrepareRetention(jm, run.keep)) :
              /\ Save(PrepareRetention(jm, run.keep), r)
              /\ pc' = "clean"
              /\ cmd' = [c EXCEPT !.elig = r = "ok", !.errs = r # "ok"]
       ELSE /\ pc' = "clean" /\ cmd' = [c EXCEPT !.errs = @ \/ elig]
            /\ UNCHANGED <<journalVars, faults>>
    /\ UNCHANGED <<suitePart, targetVars, files, opt, kills>>

Settle ==
    /\ pc = "settle" /\ Goto(IF cmd.elig /\ cmd.cleaned THEN "stage" ELSE "scrub")
    /\ UNCHANGED <<journalVars, suitePart, faults, targetVars, files, opt, kills>>

(* stage_suite_retention_manifest *)
StageManifest ==
    /\ pc = "stage"
    /\ \E r \in Outcomes({"unstaged"}) :
         /\ Charge(r)
         /\ files' = [files EXCEPT !.staged = IF r = "ok" THEN jm.kept ELSE @]
         /\ IF r = "ok" THEN Goto("commit")
            ELSE pc' = "scrub" /\ cmd' = [cmd EXCEPT !.errs = TRUE]
    /\ UNCHANGED <<journalVars, suitePart, targetVars, opt, kills>>

(* Mutant: a failed commit falls back to deletion like any other failure. *)
CommitManifest_FallsBack ==
    /\ pc = "commit"
    /\ \E r \in SaveResults(CommitRetention(jm)) :
         /\ jm' = IF r = "ok" THEN CommitRetention(jm) ELSE jm
         /\ jd' = IF r \in {"lost", "invalid"} THEN jd ELSE CommitRetention(jm)
         /\ Charge(r)
         /\ IF r = "ok" THEN Goto("publish")
            ELSE pc' = "scrub" /\ cmd' = [cmd EXCEPT !.errs = TRUE]
    /\ UNCHANGED <<suitePart, targetVars, files, opt, kills>>

(* commit_suite_plan_retention: after a failed write nobody knows whether  *)
(* the plans are still owned, and nothing is deleted or published.         *)
CommitManifest ==
    /\ pc = "commit"
    /\ IF ~CanCommitRetention(jm) \/ files.staged # jm.kept
       THEN /\ pc' = "scrub" /\ cmd' = [cmd EXCEPT !.errs = TRUE]
            /\ UNCHANGED <<journalVars, faults>>
       ELSE \E r \in SaveResults(CommitRetention(jm)) :
              /\ jm' = IF r = "ok" THEN CommitRetention(jm) ELSE jm
              /\ jd' = IF r \in {"lost", "invalid"} THEN jd ELSE CommitRetention(jm)
              /\ Charge(r)
              /\ IF r = "ok" THEN Goto("publish")
                 ELSE pc' = "finale" /\ cmd' = [cmd EXCEPT !.errs = TRUE]
    /\ UNCHANGED <<suitePart, targetVars, files, opt, kills>>

(* publish_committed_suite_retention_manifest; a run tries it twice. *)
PublishManifest ==
    /\ pc = "publish"
    /\ \E r \in IF files.published = jm.kept THEN {"ok"} ELSE Outcomes({"unpublished"}) :
         /\ Charge(r)
         /\ files' = IF r = "ok"
                     THEN [files EXCEPT !.published = jm.kept, !.staged = {}] ELSE files
         /\ CASE cmd.ctx = "end" ->
                   pc' = "finale" /\ cmd' = [cmd EXCEPT !.errs = @ \/ r # "ok"]
              [] cmd.ctx # "end" -> IF r = "ok" THEN Goto("finish") ELSE Bail
    /\ UNCHANGED <<journalVars, suitePart, targetVars, opt, kills>>

(* cleanup_unretained_suite and the Suite half of recover_pending_runs: an *)
(* unresolved create stops both. Only the former discards the staged       *)
(* manifest (the latter looks for one after the disposition has changed).  *)
ScrubSuite ==
    /\ pc = "scrub"
    /\ LET next == IF cmd.ctx = "end" THEN "finale" ELSE "finish" IN
       IF SuiteSettled(jm) THEN Goto(next) /\ UNCHANGED <<run, files>>
       ELSE /\ files' = IF cmd.ctx = "end" /\ jm.disposition = "prepared"
                        THEN [files EXCEPT !.staged = {}] ELSE files
            /\ IF jm.intents # {} THEN Quit("failed") /\ UNCHANGED run
               ELSE /\ run' = [run EXCEPT !.todo = jm.plans, !.cleanupFailed = FALSE]
                    /\ Goto("erase")
    /\ UNCHANGED <<journalVars, suite, workerVars, faults, targetVars, opt, kills>>

(* recover_suite_resources deletes every owned plan. *)
EraseNext ==
    /\ pc = "erase" /\ run.todo # {}
    /\ LET p == FirstOf(run.todo) IN
       \E r \in DeleteResults(p) :
         /\ ChargeDelete(p, r)
         /\ suite' = Deleted(p, r)
         /\ run' = [run EXCEPT !.todo = @ \ {p}, !.cleanupFailed = @ \/ r # "ok"]
    /\ UNCHANGED <<pc, journalVars, workerVars, targetVars, files, cmd, opt, kills>>

Erased ==
    /\ pc = "erase" /\ run.todo = {}
    /\ IF run.cleanupFailed \/ ~CanMarkSuiteClean(jm)
       THEN Quit("failed") /\ UNCHANGED <<journalVars, faults>>
       ELSE \E r \in SaveResults(MarkSuiteClean(jm)) :
              /\ Save(MarkSuiteClean(jm), r)
              /\ IF r = "ok" THEN Goto(IF cmd.ctx = "end" THEN "finale" ELSE "finish")
                 ELSE Quit("failed")
    /\ UNCHANGED <<suitePart, targetVars, files, opt, kills>>

Finale ==
    /\ pc = "finale"
    /\ IF cmd.cleaned /\ SuiteSettled(jm) THEN Goto("finish") ELSE Quit("failed")
    /\ UNCHANGED <<journalVars, suitePart, faults, targetVars, files, opt, kills>>

----------------------------------------------------------------------------
(* finish: the journal is the last thing to go. *)

Unpublished == jm.disposition = "retained" /\ files.published # jm.kept

(* A retention whose publication failed is published now. *)
FinishPublish ==
    /\ pc = "finish" /\ Unpublished
    /\ \E r \in Outcomes({"unpublished"}) :
         /\ Charge(r)
         /\ files' = IF r = "ok"
                     THEN [files EXCEPT !.published = jm.kept, !.staged = {}] ELSE files
         /\ IF r = "ok" THEN Goto("finish") ELSE Quit("failed")
    /\ UNCHANGED <<journalVars, suitePart, targetVars, opt, kills>>

(* The obligations are met; the removal of the private material is         *)
(* announced in the journal first.                                         *)
AnnounceRemoval ==
    /\ pc = "finish" /\ ~Unpublished
    /\ IF ~ObligationsComplete(jm) \/ ~SuiteSettled(jm)
       THEN Quit("failed") /\ UNCHANGED <<journalVars, faults>>
       ELSE IF jm.removal THEN Goto("unlink") /\ UNCHANGED <<journalVars, faults>>
       ELSE LET new == [jm EXCEPT !.clean = TRUE, !.removal = TRUE] IN
            \E r \in SaveResults(new) :
              /\ Save(new, r)
              /\ IF r = "ok" THEN Goto("unlink") ELSE Quit("failed")
    /\ UNCHANGED <<suitePart, targetVars, files, opt, kills>>

RemoveMaterial ==
    /\ pc = "unlink"
    /\ \E r \in IF ~jm.removed THEN Outcomes({"undeleted"})
                ELSE IF files.material THEN {"remains"} ELSE {"ok"} :
         /\ Charge(IF r = "remains" THEN "ok" ELSE r)
         /\ files' = [files EXCEPT !.material = @ /\ r # "ok"]
         /\ IF r = "ok" THEN Goto("unlinked") ELSE Quit("failed")
    /\ UNCHANGED <<journalVars, suitePart, targetVars, opt, kills>>

ConfirmRemoval ==
    /\ pc = "unlinked"
    /\ LET new == [jm EXCEPT !.removed = TRUE] IN
       IF jm.removed THEN Goto("drop") /\ UNCHANGED <<journalVars, faults>>
       ELSE \E r \in SaveResults(new) :
              /\ Save(new, r)
              /\ IF r = "ok" THEN Goto("drop") ELSE Quit("failed")
    /\ UNCHANGED <<suitePart, targetVars, files, opt, kills>>

(* Mutant: a module that waits for a review does not count. *)
Succeeded_Unsettled == ~cmd.errs /\ run.errs = {} /\ ~run.failed

(* conformance_run_succeeds, and the status of the whole command: a run    *)
(* that went through to its end, a recovered retention, or a recovery      *)
(* after which a new run would begin.                                      *)
Succeeded == ~cmd.errs /\ run.errs = {} /\ run.settled /\ ~run.failed
Status == CASE cmd.ctx = "end"  -> IF Succeeded THEN "ok" ELSE "failed"
            [] cmd.ctx = "fail" -> "failed"
            [] OTHER -> IF jm.disposition = "retained" THEN "retained" ELSE "recovered"

(* remove_journal_and_lock *)
DropJournal ==
    /\ pc = "drop"
    /\ \E r \in Outcomes({"undeleted"}) :
         /\ Charge(r)
         /\ jd' = IF r = "ok" THEN None ELSE jd
         /\ Quit(IF r = "ok" THEN Status ELSE "failed")
    /\ UNCHANGED <<jm, suitePart, targetVars, files, opt, kills>>

(* The process ends: only its exit status is left of what it knew. *)
Vanish(code) ==
    /\ pc' = "off" /\ cmd' = [NoCmd EXCEPT !.exit = code]
    /\ jm' = None /\ run' = NoRun /\ queue' = <<>>
    /\ rep' = [p \in Plans |-> NoReport]
    /\ wk' = [w \in Workers |-> IdleWorker]
    /\ UNCHANGED <<jd, suite, faults, targetVars, files, opt>>

Exit == pc = "exit" /\ Vanish(cmd.exit) /\ UNCHANGED kills

Kill ==
    /\ pc # "off" /\ kills < MaxKills
    /\ kills' = kills + 1
    /\ Vanish("failed")

(* Ctrl+C while the Suite phase runs (ctrlc::set_handler). *)
Interrupt ==
    /\ pc \in {"suite", "plans", "pcreate", "precord", "work", "merge", "delete"}
    /\ ~run.user
    /\ run' = [run EXCEPT !.user = TRUE, !.intr = TRUE]
    /\ UNCHANGED <<pc, journalVars, suite, workerVars, faults, targetVars, files,
                   cmd, opt, kills>>

----------------------------------------------------------------------------
localVars == <<slot, tenant, files, cmd, opt, kills>>

SuiteWorks == /\ \/ SuiteStep(opt.retain)
                 \/ \E w \in Workers : WorkerStep(w, opt.retain, opt.failFast)
              /\ UNCHANGED localVars

Operate ==
    \/ PrepareOperation \/ PersistAnswer \/ ClearSlot \/ ResetCleanup
    \/ Claim \/ MatchPending \/ Matched \/ Judge \/ Authenticate
    \/ WriteMaterial \/ BeginRun \/ PrepareMutation \/ ProbeTenant
    \/ FinalizeMaterial \/ CleanResources \/ CleanTenant \/ TenantAbsent
    \/ SuiteResult \/ Settle \/ StageManifest \/ CommitManifest
    \/ PublishManifest \/ ScrubSuite \/ EraseNext \/ Erased \/ Finale
    \/ FinishPublish \/ AnnounceRemoval \/ RemoveMaterial \/ ConfirmRemoval \/ DropJournal \/ Exit

Disturb == LoseAnswer \/ RejectOperation \/ Kill \/ Interrupt

Next == Start \/ Operate \/ SuiteWorks \/ Serve \/ Disturb

Spec == Init /\ [][Next]_vars

(* The command's threads keep running, the target answers what it has      *)
(* accepted, and the operator starts a command that ended early again.     *)
FairSpec == Spec /\ WF_vars(Start) /\ WF_vars(Operate) /\ WF_vars(SuiteWorks)
                 /\ WF_vars(Serve)

----------------------------------------------------------------------------
(* Properties. *)

(* The owner of a plan, as a new command would find it in the run journal. *)
Owned(p) == /\ jd # None
            /\ \/ p \in jd.plans \/ <<p, 0>> \in jd.intents
               \/ jd.disposition = "retained" /\ p \in jd.kept

(* begin_suite_create, record_suite_plan, mark_suite_cleanup_complete,       *)
(* commit_suite_plan_retention: whatever write or answer is lost and wherever *)
(* the command is killed, a plan that exists at the Suite has a durable owner *)
(* (an intent, an id, a committed retention) or a published manifest names it.*)
SuiteOwned ==
    \A p \in Plans : suite[p].st = "live" => Owned(p) \/ p \in files.published

(* SuiteRetentionCommitResolution::Ambiguous: a plan whose retention is       *)
(* durable is never deleted, not even by the command that could not see its   *)
(* own commit succeed.                                                        *)
RetainedUntouched ==
    [][\A p \in Plans :
          suite[p].st = "live" /\ suite'[p].st = "gone" =>
             /\ p \notin files.published
             /\ jd.disposition = "retained" => p \notin jd.kept]_vars

(* finish, cleanup_failed_pre_suite_setup, recover_pending_runs: once the     *)
(* journal of a run is gone, so are its tenant, the resources and the private *)
(* material, and no operation is pending that could bring one of them back.   *)
FinishedClean ==
    files.begun /\ jd = None =>
        /\ tenant.st \in {"none", "gone"} /\ ~tenant.res
        /\ ~files.material
        /\ slot # None => slot.step = "Describe"

Resumable ==
    slot # None =>
        /\ ~LookupFails(jd, slot.step)
        /\ Cardinality(Matching(jd, slot.step)) = 1

(* select_unique_pending_candidate: whenever the command has stopped, the     *)
(* pending operation is found again from the run journal, as exactly one      *)
(* candidate. The exception is the code's: the Disable or Finalize of a tenant*)
(* that never was reloaded has no candidate (next_pending_for_run returns     *)
(* before it looks at them).                                                  *)
PendingMatched ==
    pc = "off" /\ ~Resumable =>
        slot.step \in {"Disable", "Finalize"} /\ ~jd.reloaded

(* conformance_run_succeeds: exit status 0 means that every module of every   *)
(* plan ended with a result the run accepts (it passed, with or without a     *)
(* warning or a review, or was an expected skip), nothing is left of the      *)
(* tenant or the journals, and the plans that still exist are those of the    *)
(* published manifest.                                                        *)
SuccessTrue ==
    cmd.exit = "ok" =>
        /\ jd = None /\ slot = None /\ tenant.st = "gone"
        /\ \A p \in Plans : suite[p].passed = Size[p]
        /\ {p \in Plans : suite[p].st = "live"} = files.published
        /\ files.published = IF opt.retain THEN Plans ELSE {}

(* What the code gives up on: a Suite create whose outcome is unknown, a plan *)
(* it still owns that the Suite never deletes, and a pending operation it can *)
(* neither match nor record.                                                  *)
Unresolved == jd # None /\ jd.intents # {}
Undeletable == jd # None /\ \E p \in jd.plans : suite[p].fixed
Wedged ==
    /\ slot # None
    /\ \/ ~Resumable
       \/ /\ jd # None /\ slot.res = "failed"
          /\ \/ FailureConflicts(jd, slot.step)
             \/ ~ValidJournal(RecordFailure(jd, slot.step))

(* recover_pending_runs: a run that was begun ends with neither a journal nor *)
(* a pending operation, if the command is started again as long as it is      *)
(* needed, unless the code gives up as above.                                 *)
RunSettles == \/ <>[](jd = None /\ slot = None)
              \/ <>[]Unresolved \/ <>[]Undeletable \/ <>[]Wedged

(* docs/oidf.md: "A terminal failed tenant Disable or Finalize settles that   *)
(* control operation." Refuted: found again by a recovery, the failure is     *)
(* first recorded as the run's, which a journal with complete cleanup refuses.*)
FailedCleanupSettles ==
    pc = "off" /\ slot # None /\ slot.step \in {"Disable", "Finalize"} => ~Wedged

=============================================================================
