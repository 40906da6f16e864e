------------------------------ MODULE SuiteRun ------------------------------
(***************************************************************************)
(* The Suite phase of a conformance run (crates/nazoauthctl-conformance/   *)
(* src/orchestrator.rs and orchestrator/parallel.rs): one thread creates   *)
(* every plan, worker threads run the plans' modules, and the first thread *)
(* deletes or retains the plans once every worker has stopped. The Suite   *)
(* is a remote service; every allocation is preceded by a durable intent.  *)
(***************************************************************************)
EXTENDS RunJournal, Sequences

CONSTANTS PlanSeq,      \* the plans in Matrix order
          Size,         \* modules of each plan
          Workers,      \* min(jobs, plans) worker threads
          MaxFaults     \* bound on failed writes, lost answers, refusals

ASSUME SuiteAssumption ==
    /\ PlanSeq \in Seq(Plans) /\ Len(PlanSeq) = Cardinality(Plans)
    /\ \A p \in Plans : \E i \in DOMAIN PlanSeq : PlanSeq[i] = p
    /\ Size \in [Plans -> Nat \ {0}] /\ MaxFaults \in Nat

VARIABLES
    pc,       \* position of the command's own thread
    jm, jd,   \* the run journal: in memory, on disk (None: no file)
    suite,    \* the Suite's plans and what became of their modules; a fixed
              \* plan is immutable and cannot be deleted
    rep,      \* each plan's report as its worker builds it
    wk,       \* each worker: position and plan
    queue,    \* plans no worker has taken
    run,      \* the shared flags and the merged report
    faults    \* faults so far

suiteVars == <<pc, jm, jd, suite, rep, wk, queue, run, faults>>

NoReport == [created |-> 0, terminal |-> 0, failed |-> FALSE, review |-> FALSE,
             errs |-> {}, cleanupFailed |-> FALSE, finished |-> FALSE]
NoRun == [stop |-> FALSE, intr |-> FALSE, user |-> FALSE, panicked |-> FALSE,
          errs |-> {}, ids |-> {}, keep |-> {}, todo |-> {},
          cleanupFailed |-> FALSE, settled |-> FALSE, failed |-> FALSE]
IdleWorker == [at |-> "stopped", plan |-> None]

SuiteInit ==
    /\ suite = [p \in Plans |-> [st |-> "none", passed |-> 0, live |-> FALSE,
                               fixed |-> FALSE]]
    /\ rep = [p \in Plans |-> NoReport]
    /\ wk = [w \in Workers |-> IdleWorker]
    /\ queue = <<>> /\ run = NoRun /\ faults = 0

(* persist_snapshot writes the record in memory once it is valid. A failed *)
(* write leaves the file as it was ("lost") or already replaced ("late":   *)
(* the rename happened, the directory sync failed).                        *)
Outcomes(bad) == {"ok"} \cup IF faults < MaxFaults THEN bad ELSE {}
Charge(r) == faults' = IF r \in {"ok", "invalid"} THEN faults ELSE faults + 1
Save(new, r) ==
    /\ jm' = new
    /\ jd' = IF r \in {"lost", "invalid"} THEN jd ELSE new
    /\ Charge(r)
SaveResults(new) ==
    IF ValidJournal(new) THEN Outcomes({"lost", "late"}) ELSE {"invalid"}

journalVars == <<jm, jd>>
workerVars == <<rep, wk, queue>>

----------------------------------------------------------------------------
(* Phase 1: prepare_run. The options of the invocation are parameters:     *)
(* retain (no --delete-suite-plans) and failFast (--fail-fast).            *)

PlanError(e) == /\ run' = [run EXCEPT !.errs = @ \cup {e}]
                /\ pc' = "merge"

(* probe_auth; run_signed_suite may also fail before it (no report). *)
ProbeSuite ==
    /\ pc = "suite"
    /\ \E r \in Outcomes({"unauthenticated", "no_report"}) :
         /\ Charge(r)
         /\ CASE r = "ok" -> pc' = "plans" /\ UNCHANGED run
              [] r = "unauthenticated" -> PlanError("error")
              [] r = "no_report" ->
                    /\ run' = [run EXCEPT !.errs = {"error"}, !.cleanupFailed = TRUE]
                    /\ pc' = "result"
    /\ UNCHANGED <<journalVars, suite, workerVars>>

(* The plan of a set that comes first in Matrix order. *)
FirstOf(S) == PlanSeq[CHOOSE i \in DOMAIN PlanSeq :
                         PlanSeq[i] \in S /\ \A k \in 1..(i - 1) : PlanSeq[k] \notin S]

Uncreated == Plans \ run.ids
NextPlan == FirstOf(Uncreated)

PlanInterrupted ==
    /\ pc = "plans" /\ Uncreated # {} /\ run.intr
    /\ PlanError("interrupted")
    /\ UNCHANGED <<journalVars, suite, workerVars, faults>>

(* Mutant: a create whose intent could not be written is tried anyway. *)
PlanIntent_Unchecked ==
    /\ pc = "plans" /\ Uncreated # {} /\ ~run.intr
    /\ \E r \in SaveResults(BeginCreate(jm, <<NextPlan, 0>>)) :
         Save(BeginCreate(jm, <<NextPlan, 0>>), r)
    /\ pc' = "pcreate"
    /\ UNCHANGED <<run, suite, workerVars>>

PlanIntent ==
    /\ pc = "plans" /\ Uncreated # {} /\ ~run.intr
    /\ \E r \in SaveResults(BeginCreate(jm, <<NextPlan, 0>>)) :
         /\ Save(BeginCreate(jm, <<NextPlan, 0>>), r)
         /\ IF r = "ok" THEN pc' = "pcreate" /\ UNCHANGED run
                        ELSE PlanError("error")
    /\ UNCHANGED <<suite, workerVars>>

(* The id is owned in memory as soon as the Suite returns it. *)
PlanCreate ==
    /\ pc = "pcreate"
    /\ \E r \in Outcomes({"refused", "answer_lost"}) :
         /\ Charge(r)
         /\ suite' = IF r = "refused" THEN suite
                     ELSE [suite EXCEPT ![NextPlan].st = "live"]
         /\ IF r = "ok"
            THEN /\ run' = [run EXCEPT !.ids = @ \cup {NextPlan}]
                 /\ pc' = "precord"
            ELSE PlanError("error")
    /\ UNCHANGED <<journalVars, workerVars>>

LastPlan == CHOOSE p \in run.ids : <<p, 0>> \in jm.intents

(* plan_created, then the definition and budget checks of the answer. *)
PlanRecord ==
    /\ pc = "precord"
    /\ \E r \in Outcomes({"lost", "late", "bad_definition"}) :
         /\ jm' = RecordCreated(jm, <<LastPlan, 0>>)
         /\ jd' = IF r = "lost" THEN jd ELSE jm'
         /\ Charge(r)
         /\ IF r = "ok" THEN pc' = "plans" /\ UNCHANGED run
                        ELSE PlanError("error")
    /\ UNCHANGED <<suite, workerVars>>

(* Every plan exists: the workers start (parallel::run, plan_work). *)
Launch ==
    /\ pc = "plans" /\ Uncreated = {}
    /\ queue' = PlanSeq
    /\ wk' = [w \in Workers |-> [at |-> "idle", plan |-> None]]
    /\ pc' = "work"
    /\ UNCHANGED <<journalVars, suite, rep, run, faults>>

----------------------------------------------------------------------------
(* Phase 2: a worker and the plan it took (run_prepared). *)

At(w, a) == pc = "work" /\ wk[w].at = a
WorkerGoes(w, a) == wk' = [wk EXCEPT ![w].at = a]

(* stop_launching and the interrupt are read before the queue is. *)
WorkerStops(w) ==
    /\ At(w, "idle") /\ (run.stop \/ run.intr \/ queue = <<>>)
    /\ wk' = [wk EXCEPT ![w] = IdleWorker]
    /\ UNCHANGED <<pc, journalVars, suite, rep, queue, run, faults>>

WorkerTakes(w) ==
    /\ At(w, "idle") /\ ~run.stop /\ ~run.intr /\ queue # <<>>
    /\ wk' = [wk EXCEPT ![w] = [at |-> "start", plan |-> Head(queue)]]
    /\ queue' = Tail(queue)
    /\ UNCHANGED <<pc, journalVars, suite, rep, run, faults>>

(* An interrupt before the first module leaves no error in the report. *)
PlanStart(w) ==
    /\ At(w, "start")
    /\ WorkerGoes(w, IF run.intr THEN "settle" ELSE "next")
    /\ UNCHANGED <<pc, journalVars, suite, rep, queue, run, faults>>

(* errors.push and errors.push_fatal: the plan stops at its error. *)
PlanFails(w, e, fatal, failFast) ==
    /\ rep' = [rep EXCEPT ![wk[w].plan].errs = @ \cup {e}]
    /\ run' = [run EXCEPT !.intr = @ \/ fatal \/ failFast]
    /\ WorkerGoes(w, "settle")

ModulesDone(w) ==
    /\ At(w, "next") /\ rep[wk[w].plan].created = Size[wk[w].plan]
    /\ WorkerGoes(w, "settle")
    /\ UNCHANGED <<pc, journalVars, suite, rep, queue, run, faults>>

ModuleInterrupted(w, failFast) ==
    /\ At(w, "next") /\ rep[wk[w].plan].created < Size[wk[w].plan] /\ run.intr
    /\ PlanFails(w, "interrupted", FALSE, failFast)
    /\ UNCHANGED <<pc, journalVars, suite, queue, faults>>

NextIntent(w) == <<wk[w].plan, rep[wk[w].plan].created + 1>>

ModuleIntent(w, failFast) ==
    /\ At(w, "next") /\ rep[wk[w].plan].created < Size[wk[w].plan] /\ ~run.intr
    /\ \E r \in SaveResults(BeginCreate(jm, NextIntent(w))) :
         /\ Save(BeginCreate(jm, NextIntent(w)), r)
         /\ IF r = "ok" THEN WorkerGoes(w, "create") /\ UNCHANGED <<rep, run>>
                        ELSE PlanFails(w, "error", TRUE, failFast)
    /\ UNCHANGED <<pc, suite, queue>>

ModuleCreate(w, failFast) ==
    /\ At(w, "create")
    /\ \E r \in Outcomes({"refused", "answer_lost"}) :
         /\ Charge(r)
         /\ suite' = IF r = "refused" THEN suite
                     ELSE [suite EXCEPT ![wk[w].plan].live = TRUE]
         /\ IF r = "ok"
            THEN /\ rep' = [rep EXCEPT ![wk[w].plan].created = @ + 1]
                 /\ WorkerGoes(w, "record") /\ UNCHANGED run
            ELSE PlanFails(w, "error", TRUE, failFast)
    /\ UNCHANGED <<pc, journalVars, queue>>

ModuleRecord(w, failFast) ==
    /\ At(w, "record")
    /\ \E r \in SaveResults(RecordCreated(jm, <<wk[w].plan, rep[wk[w].plan].created>>)) :
         /\ Save(RecordCreated(jm, <<wk[w].plan, rep[wk[w].plan].created>>), r)
         /\ IF r = "ok" THEN WorkerGoes(w, "drive") /\ UNCHANGED <<rep, run>>
                        ELSE PlanFails(w, "error", TRUE, failFast)
    /\ UNCHANGED <<pc, suite, queue>>

(* The module reached a terminal state while the worker drove it. A result *)
(* the run accepts (a pass, a warning, a review, an expected skip) counts  *)
(* as passed; a failure interrupts the run under --fail-fast. A terminal   *)
(* module with unusable browser evidence is an error, and the plan goes on.*)
ModuleEnds(w, failFast) ==
    /\ At(w, "drive")
    /\ \E r \in Outcomes({"no_evidence"}), passed \in BOOLEAN :
         /\ Charge(r)
         /\ LET p == wk[w].plan
                stops == ~passed /\ failFast IN
              /\ suite' = [suite EXCEPT ![p].live = FALSE,
                                        ![p].passed = IF passed THEN @ + 1 ELSE @]
              /\ rep' = [rep EXCEPT ![p].terminal = @ + 1,
                                    ![p].failed = @ \/ ~passed,
                                    ![p].errs = IF r = "ok" THEN @ ELSE @ \cup {"error"}]
              /\ run' = [run EXCEPT !.intr = @ \/ stops \/ (r # "ok" /\ failFast),
                                    !.stop = @ \/ stops]
              /\ WorkerGoes(w, IF stops THEN "settle" ELSE "next")
    /\ UNCHANGED <<pc, journalVars, queue>>

(* The module waits for an external review: the plan stops there. *)
ModuleReview(w) ==
    /\ At(w, "drive")
    /\ rep' = [rep EXCEPT ![wk[w].plan].review = TRUE]
    /\ WorkerGoes(w, "settle")
    /\ UNCHANGED <<pc, journalVars, suite, queue, run, faults>>

(* wait_for_state_until and the driving loops read the interrupt. *)
WaitInterrupted(w, failFast) ==
    /\ At(w, "drive") /\ run.intr
    /\ PlanFails(w, "interrupted", FALSE, failFast)
    /\ UNCHANGED <<pc, journalVars, suite, queue, faults>>

(* Starting, driving or reading the module fails, or its deadline passes. *)
ModuleAbandoned(w, failFast) ==
    /\ At(w, "drive") /\ faults < MaxFaults /\ Charge("timeout")
    /\ PlanFails(w, "error", FALSE, failFast)
    /\ UNCHANGED <<pc, journalVars, suite, queue>>

(* catch_unwind: the plan has no report, no further plan is launched. *)
WorkerPanics(w) ==
    /\ At(w, "drive") /\ faults < MaxFaults /\ Charge("panic")
    /\ run' = [run EXCEPT !.stop = TRUE, !.panicked = TRUE]
    /\ wk' = [wk EXCEPT ![w] = IdleWorker]
    /\ UNCHANGED <<pc, journalVars, suite, rep, queue>>

(* The retention a plan's own report asks for (diagnostic_retention). *)
Diagnostic(r, retain) ==
    retain /\ (r.failed \/ r.review \/ "error" \in r.errs)

(* collect_unreported_terminal_modules: a module abandoned while it ran is *)
(* read again; a module in review keeps its report.                        *)
Refreshed(r, ended) ==
    IF ended THEN [r EXCEPT !.terminal = @ + 1, !.failed = TRUE] ELSE r

(* The end of run_prepared in a worker: refresh, then cancel what still    *)
(* runs unless its plan may be retained. Plans are never deleted here.     *)
PlanSettles(w, retain, failFast) ==
    /\ At(w, "settle")
    /\ LET p == wk[w].plan
           running == suite[p].live /\ ~rep[p].review
                      /\ rep[p].terminal < rep[p].created IN
       \E ended \in IF running THEN BOOLEAN ELSE {FALSE},
          r \in Outcomes({"cancel_failed"}) :
         LET now == Refreshed(rep[p], ended)
             spared == Diagnostic(now, retain) /\ now.created > 0
             cancels == suite[p].live /\ now.terminal < now.created /\ ~spared
             final == [now EXCEPT
                         !.terminal = IF cancels /\ r = "ok" /\ ~now.review
                                      THEN @ + 1 ELSE @,
                         !.cleanupFailed = cancels /\ r # "ok",
                         !.finished = TRUE] IN
         /\ r # "ok" => cancels
         /\ Charge(r)
         /\ rep' = [rep EXCEPT ![p] = final]
         /\ suite' = [suite EXCEPT ![p].live = @ /\ ~ended /\ ~(cancels /\ r = "ok")]
         /\ run' = [run EXCEPT !.stop = @ \/ final.cleanupFailed
                        \/ (failFast /\ (final.failed \/ "error" \in final.errs))]
         /\ WorkerGoes(w, "idle")
    /\ UNCHANGED <<pc, journalVars, queue>>

----------------------------------------------------------------------------
(* The end of the Suite phase: merge_reports. *)

WorkersStopped == \A w \in Workers : wk[w].at = "stopped"

Join ==
    /\ pc = "work" /\ WorkersStopped
    /\ pc' = "merge"
    /\ UNCHANGED <<journalVars, suite, workerVars, run, faults>>

MergedErrors ==
    LET reported == run.errs \cup (UNION {rep[p].errs : p \in Plans})
                    \cup (IF run.panicked THEN {"error"} ELSE {}) IN
    IF (\A p \in Plans : rep[p].finished) \/ "interrupted" \in reported
    THEN reported ELSE reported \cup {"error"}

MergedReport(retain) ==
    LET errs == MergedErrors
        done == {p \in Plans : rep[p].finished}
        settled == /\ done = Plans
                   /\ \A p \in Plans : rep[p].created = Size[p]
                                       /\ rep[p].terminal = Size[p]
        failed == \E p \in done : rep[p].failed
        review == \E p \in done : rep[p].review
        certification == retain /\ ~run.panicked /\ errs = {} /\ settled
        diagnostic == retain /\ ~run.panicked
                      /\ (failed \/ review \/ "error" \in errs)
        keep == IF certification THEN run.ids
                ELSE IF diagnostic THEN {p \in done : rep[p].created > 0}
                ELSE {} IN
    [run EXCEPT !.errs = errs, !.settled = settled, !.failed = failed,
                !.keep = keep, !.todo = run.ids \ keep,
                !.cleanupFailed = \E p \in done : rep[p].cleanupFailed]

Merge(retain) ==
    /\ pc = "merge"
    /\ run' = MergedReport(retain)
    /\ rep' = [p \in Plans |-> NoReport]
    /\ wk' = [w \in Workers |-> IdleWorker]
    /\ queue' = <<>>
    /\ pc' = "delete"
    /\ UNCHANGED <<journalVars, suite, faults>>

(* delete_plan: an error is tried once more, and then the plan is left or  *)
(* only the answer lost. A plan that is immutable is so for good.          *)
DeleteResults(p) ==
    IF suite[p].fixed THEN {"immutable"}
    ELSE Outcomes({"failed", "answer_lost"}
                  \cup (IF suite[p].st = "live" THEN {"immutable"} ELSE {}))
Deleted(p, r) ==
    CASE r = "immutable" -> [suite EXCEPT ![p].fixed = TRUE]
      [] r = "failed"    -> suite
      [] OTHER           -> [suite EXCEPT ![p].st = "gone"]
ChargeDelete(p, r) == Charge(IF suite[p].fixed THEN "ok" ELSE r)

PlanDelete ==
    /\ pc = "delete" /\ run.todo # {}
    /\ LET p == FirstOf(run.todo) IN
       \E r \in DeleteResults(p) :
         /\ ChargeDelete(p, r)
         /\ suite' = Deleted(p, r)
         /\ IF r = "ok" THEN pc' = "release" /\ UNCHANGED run
            ELSE /\ run' = [run EXCEPT !.todo = @ \ {p}, !.cleanupFailed = TRUE]
                 /\ UNCHANGED pc
    /\ UNCHANGED <<journalVars, workerVars>>

(* record_deleted_plan *)
PlanRelease ==
    /\ pc = "release"
    /\ LET p == FirstOf(run.todo) IN
       IF CanRelease(jm, p)
       THEN \E r \in SaveResults(ReleasePlan(jm, p)) :
              /\ Save(ReleasePlan(jm, p), r)
              /\ run' = [run EXCEPT !.todo = @ \ {p}, !.cleanupFailed = @ \/ r # "ok"]
       ELSE /\ run' = [run EXCEPT !.todo = @ \ {p}, !.cleanupFailed = TRUE]
            /\ UNCHANGED <<jm, jd, faults>>
    /\ pc' = "delete"
    /\ UNCHANGED <<suite, workerVars>>

DeletesDone ==
    /\ pc = "delete" /\ run.todo = {}
    /\ pc' = "result"
    /\ UNCHANGED <<journalVars, suite, workerVars, run, faults>>

(* cleanup_complete and retention_eligible of the merged report. *)
CleanupComplete == run.keep = {} /\ ~run.panicked /\ ~run.cleanupFailed
RetentionEligible == run.keep # {} /\ ~run.cleanupFailed

WorkerStep(w, retain, failFast) ==
    \/ WorkerStops(w) \/ WorkerTakes(w) \/ PlanStart(w) \/ ModulesDone(w)
    \/ ModuleInterrupted(w, failFast) \/ ModuleIntent(w, failFast)
    \/ ModuleCreate(w, failFast) \/ ModuleRecord(w, failFast)
    \/ ModuleEnds(w, failFast) \/ ModuleReview(w)
    \/ WaitInterrupted(w, failFast) \/ ModuleAbandoned(w, failFast)
    \/ WorkerPanics(w)
    \/ PlanSettles(w, retain, failFast)

SuiteStep(retain) ==
    \/ ProbeSuite \/ PlanInterrupted \/ PlanIntent \/ PlanCreate \/ PlanRecord
    \/ Launch \/ Join \/ Merge(retain) \/ PlanDelete \/ PlanRelease \/ DeletesDone
=============================================================================
