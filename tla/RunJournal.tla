----------------------------- MODULE RunJournal -----------------------------
(***************************************************************************)
(* The durable journal of one conformance run (crates/nazoauthctl-         *)
(* conformance/src/recovery.rs): what the run knows about the temporary    *)
(* tenant and the resources it applied, and about the Suite plans it owns. *)
(* The operators below are the methods of ConformanceRecoveryGuard on the  *)
(* record; the modules that use them say when the record reaches the disk. *)
(* A stored control operation is abstracted to the step that issued it, a  *)
(* persisted directory revision to its presence, the Suite module ids to   *)
(* the create intents that precede them.                                   *)
(***************************************************************************)
EXTENDS Integers, FiniteSets

CONSTANTS Plans,        \* the selected Suite plans of the run
          None          \* no journal, no pending step, no failed step

(* The control operations of a run, by the step that issues them. Both     *)
(* enumerations carry the same payload.                                    *)
Steps == {"Describe", "Create", "KeyGen", "Reload", "Baseline", "Apply",
          "CleanupList", "Revoke", "Disable", "Finalize"}

(* TenantResourceRecoveryJournal *)
Journals ==
    [created : BOOLEAN, keyed : BOOLEAN, reloadRev : BOOLEAN, reloaded : BOOLEAN,
     disableRev : BOOLEAN, disabled : BOOLEAN, finalizeRev : BOOLEAN,
     tenantClean : BOOLEAN, absent : BOOLEAN, baseline : BOOLEAN, applied : BOOLEAN,
     listed : {"no", "present", "absent"}, revoked : BOOLEAN,
     failure : Steps \cup {None}, clean : BOOLEAN, removal : BOOLEAN,
     removed : BOOLEAN, suite : BOOLEAN, plans : SUBSET Plans,
     intents : SUBSET (Plans \X Nat), suiteClean : BOOLEAN,
     disposition : {"active", "prepared", "retained", "cleaned"},
     kept : SUBSET Plans]

ASSUME NoneIsAbsent == None \notin Journals
ASSUME NoneIsNoStep == None \notin Steps

(* begin_ordinary_run: the journal before any remote operation.            *)
FreshJournal ==
    [created |-> FALSE, keyed |-> FALSE, reloadRev |-> FALSE, reloaded |-> FALSE,
     disableRev |-> FALSE, disabled |-> FALSE, finalizeRev |-> FALSE,
     tenantClean |-> FALSE, absent |-> FALSE,
     baseline |-> FALSE, applied |-> FALSE, listed |-> "no", revoked |-> FALSE,
     failure |-> None, clean |-> FALSE, removal |-> FALSE, removed |-> FALSE,
     suite |-> FALSE, plans |-> {}, intents |-> {}, suiteClean |-> FALSE,
     disposition |-> "active", kept |-> {}]

Payload(s) == IF s \in {"Baseline", "CleanupList"} THEN "Enumerate" ELSE s

(* tenant_resource_obligations_complete *)
ObligationsComplete(j) ==
    /\ j.failure = None
    /\ \/ j.absent
       \/ j.applied /\ (j.listed = "absent" \/ (j.listed = "present" /\ j.revoked))

(* suite_resources_settled *)
SuiteSettled(j) ==
    j.disposition \in {"retained", "cleaned"} \/ ~j.suite \/ j.suiteClean

(* The order of the successful resource operations (phase). *)
Phase(j) == IF j.revoked THEN "CleanupRevoked"
            ELSE IF j.listed # "no" THEN "CleanupEnumerated"
            ELSE IF j.applied THEN "Applied"
            ELSE IF j.baseline THEN "BaselineEnumerated" ELSE "Intent"

----------------------------------------------------------------------------
(* The tenant side. *)

(* What the success of a step adds: mark_tenant_created,                   *)
(* mark_tenant_key_generated, mark_tenant_reloaded, mark_tenant_disabled,  *)
(* mark_tenant_cleanup_complete and the Succeeded branch of                *)
(* record_terminal_completion. `present` is what an enumeration returned.  *)
RecordSuccess(j, step, present) ==
    LET done == CASE step = "Create"      -> [j EXCEPT !.created = TRUE]
                  [] step = "KeyGen"      -> [j EXCEPT !.keyed = TRUE]
                  [] step = "Reload"      -> [j EXCEPT !.reloaded = TRUE]
                  [] step = "Disable"     -> [j EXCEPT !.disabled = TRUE]
                  [] step = "Finalize"    -> [j EXCEPT !.tenantClean = TRUE]
                  [] step = "Baseline"    -> [j EXCEPT !.baseline = TRUE]
                  [] step = "Apply"       -> [j EXCEPT !.applied = TRUE]
                  [] step = "CleanupList" ->
                        [j EXCEPT !.listed = IF present THEN "present" ELSE "absent"]
                  [] step = "Revoke"      -> [j EXCEPT !.revoked = TRUE]
                  [] step = "Describe"    -> j
    IN  IF step \in {"Baseline", "Apply", "CleanupList", "Revoke"}
        THEN [done EXCEPT !.clean = ObligationsComplete(done)]
        ELSE done

(* The Failed branch of record_terminal_completion: one failure is kept,   *)
(* another one conflicts with it (record_operation).                       *)
FailureConflicts(j, step) == j.failure \notin {None, step}
RecordFailure(j, step) == [j EXCEPT !.failure = step]

(* prepare_tenant_reload, prepare_tenant_disable, prepare_tenant_finalize *)
PrepareRevision(j, step) ==
    CASE step = "Reload"   -> [j EXCEPT !.reloadRev = TRUE]
      [] step = "Disable"  -> [j EXCEPT !.disableRev = TRUE]
      [] step = "Finalize" -> [j EXCEPT !.finalizeRev = TRUE]

(* reset_failed_tenant_cleanup: a settled failure frees the revision. *)
ResetFailedCleanup(j, step) ==
    [j EXCEPT !.finalizeRev = @ /\ ~j.disabled,
              !.disableRev  = @ /\ j.disabled,
              !.failure     = IF @ = step THEN None ELSE @]

MarkAbsent(j) ==
    [j EXCEPT !.absent = TRUE, !.failure = None, !.disableRev = FALSE,
              !.disabled = FALSE, !.finalizeRev = FALSE,
              !.tenantClean = TRUE, !.clean = TRUE]

----------------------------------------------------------------------------
(* The Suite side. An intent is <<plan, 0>> for a plan and <<plan, i>> for  *)
(* the i-th module of a plan.                                              *)

(* begin_suite_create_with_retention *)
BeginCreate(j, intent) ==
    [j EXCEPT !.suite = TRUE, !.intents = @ \cup {intent}]

(* record_suite_plan and record_suite_module: the id replaces the intent. *)
RecordCreated(j, intent) ==
    [j EXCEPT !.intents = @ \ {intent},
              !.plans = IF intent[2] = 0 THEN @ \cup {intent[1]} ELSE @]

(* release_deleted_suite_plan refuses while any create is unresolved. *)
CanRelease(j, p) == ~j.suiteClean /\ j.intents = {} /\ p \in j.plans
ReleasePlan(j, p) == [j EXCEPT !.plans = @ \ {p}]

(* mark_suite_cleanup_complete *)
CanMarkSuiteClean(j) ==
    j.disposition \in {"active", "prepared"} /\ j.suite /\ j.intents = {}
MarkSuiteClean(j) ==
    [j EXCEPT !.suiteClean = TRUE, !.plans = {}, !.disposition = "cleaned",
              !.kept = {}]

(* prepare_suite_plan_retention: the manifest covers exactly the plans the *)
(* journal still owns.                                                     *)
CanPrepareRetention(j, plans) ==
    /\ j.disposition = "active" /\ j.suite /\ ~j.suiteClean
    /\ j.intents = {} /\ plans # {} /\ plans = j.plans
PrepareRetention(j, plans) ==
    [j EXCEPT !.disposition = "prepared", !.kept = plans]

(* commit_suite_plan_retention: ownership leaves the journal. *)
CanCommitRetention(j) ==
    ObligationsComplete(j) /\ j.tenantClean /\ j.disposition = "prepared"
CommitRetention(j) == [j EXCEPT !.disposition = "retained", !.plans = {}]

----------------------------------------------------------------------------
(* validate_tenant_resource_journal: what claim_pending accepts. *)
ValidJournal(j) ==
    /\ j.failure # None => ~j.clean /\ ~j.removal /\ ~j.removed
    /\ j.clean => ObligationsComplete(j)
    /\ j.tenantClean => j.created \/ j.absent
    /\ j.absent => /\ j.tenantClean /\ j.clean /\ ~j.disableRev
                   /\ ~j.disabled /\ ~j.finalizeRev
    /\ ~j.absent =>
          /\ j.keyed => j.created
          /\ j.reloadRev => j.keyed
          /\ j.reloaded => j.reloadRev
          /\ j.disableRev => j.created
          /\ j.disabled => j.disableRev
          /\ j.finalizeRev => j.disabled
          /\ j.tenantClean => j.finalizeRev
    /\ j.removal => j.clean
    /\ j.removed => j.removal
    /\ j.suiteClean => j.intents = {}
    /\ j.disposition = "cleaned" =>
          j.suite /\ j.suiteClean /\ j.intents = {} /\ j.plans = {}
    /\ j.disposition = "prepared" =>
          j.suite /\ ~j.suiteClean /\ j.intents = {} /\ j.kept = j.plans
    /\ j.disposition = "retained" =>
          j.suite /\ ~j.suiteClean /\ j.intents = {} /\ j.plans = {}
    /\ j.applied => j.baseline
    /\ j.listed # "no" => j.applied
    /\ j.revoked => j.listed # "no"

----------------------------------------------------------------------------
(* Which step a pending control operation belongs to (ordinary_run.rs).    *)

(* next_pending_for_run *)
NextPending(j) ==
    CASE j.absent                                -> {}
      [] ~j.absent /\ ~j.created                 -> {"Create"}
      [] ~j.absent /\ j.created /\ ~j.keyed      -> {"KeyGen"}
      [] ~j.absent /\ j.keyed /\ ~j.reloaded     ->
            IF j.reloadRev THEN {"Reload"} ELSE {}
      [] OTHER ->
            IF ~j.disabled /\ j.disableRev THEN {"Disable"}
            ELSE IF ~j.tenantClean /\ j.finalizeRev THEN {"Finalize"}
            ELSE IF j.failure # None \/ j.disposition = "retained" THEN {}
            ELSE IF ~j.baseline THEN {"Baseline"}
            ELSE IF ~j.applied THEN {"Apply"}
            ELSE IF j.listed = "no" THEN {"CleanupList"}
            ELSE IF ~j.revoked /\ j.listed = "present" THEN {"Revoke"} ELSE {}

(* persisted_candidate_for_pending: an operation with the pending one's id *)
(* is already recorded; a recorded failure is read by the phase.           *)
PersistedCandidate(j, step) ==
    IF \/ step = "Baseline" /\ j.baseline
       \/ step = "Apply" /\ j.applied
       \/ step = "CleanupList" /\ j.listed # "no"
       \/ step = "Revoke" /\ j.revoked
    THEN {step}
    ELSE IF j.failure = step /\ step # None
    THEN CASE Phase(j) = "Intent"             -> {"Baseline"}
           [] Phase(j) = "BaselineEnumerated" -> {"Apply"}
           [] Phase(j) = "Applied"            -> {"CleanupList"}
           [] OTHER                           -> {"Revoke"}
    ELSE {}

(* A failure recorded after the Revoke makes the lookup itself an error. *)
LookupFails(j, step) == j # None /\ j.failure = step /\ Phase(j) = "CleanupRevoked"

(* Mutant: only what is still to be done can be pending. *)
CompletedCandidate_None(j) == {}

(* completed_lifecycle_candidate *)
CompletedCandidate(j) ==
    IF j.absent THEN {}
    ELSE IF j.tenantClean THEN (IF j.finalizeRev THEN {"Finalize"} ELSE {})
    ELSE IF j.disabled /\ ~j.finalizeRev
         THEN (IF j.disableRev THEN {"Disable"} ELSE {})
    ELSE IF Phase(j) # "Intent" \/ j.failure # None \/ j.disableRev THEN {}
    ELSE IF j.reloaded THEN {"Reload"}
    ELSE IF j.keyed /\ ~j.reloadRev THEN {"KeyGen"}
    ELSE IF j.created /\ ~j.keyed THEN {"Create"} ELSE {}

(* resume_pending_conformance_operation: every candidate of the journal    *)
(* whose payload is the pending one's, tagged by where it comes from.      *)
Matching(j, step) ==
    {c \in {<<"describe", "Describe">>}
           \cup (IF j = None THEN {}
                 ELSE {<<"persisted", s>> : s \in PersistedCandidate(j, step)}
                      \cup {<<"completed", s>> : s \in CompletedCandidate(j)}
                      \cup {<<"next", s>> : s \in NextPending(j)}) :
        Payload(c[2]) = Payload(step)}
=============================================================================
