---- MODULE ConformanceRun_proofs ----
(* ConformanceRun, for every number of plans, workers, failures and kills.    *)
(*                                                                            *)
(* A run has its journal in memory (jm) and on disk (jd), an operation slot   *)
(* that survives it, and two sides that meet in the journal: the Suite with   *)
(* its plans and worker threads, and the tenant on the target. RunInv says    *)
(* where in the command (pc, cmd) the two journals agree, which plans of the  *)
(* Suite have an owner there, what the journal claims of the tenant, and what *)
(* the operation in the slot may still do. Every step moves one of these      *)
(* parts, and the lemmas say so: they frame the Suite side and the tenant     *)
(* side apart from each other.                                                *)
(*                                                                            *)
(* PendInv, the second half, says in which journal an operation of each step  *)
(* can be pending; it is invariant under RunInv.                              *)
EXTENDS ConformanceRun, TLAPS, FiniteSetTheorems, WellFoundedInduction

RunConstants == SuiteAssumption /\ KillAssumption /\ NoneIsAbsent /\ NoneIsNoOperation

Deleting == {"delete", "release", "result"}
SuitePhase == {"suite", "plans", "pcreate", "precord", "work", "merge"} \cup Deleting
Closing == {"settle", "stage", "commit", "publish", "scrub", "erase", "finale"}
Removing == {"unlink", "unlinked", "drop"}
Finishing == Removing \cup {"finish"}
Recovering == {"off", "claim", "match", "matched", "auth"}
Places == SuitePhase \cup Closing \cup Finishing \cup Recovering
          \cup {"write", "begin", "do", "exit", "clean", "tenant", "absent", "prepare",
                "reset", "judge", "probe", "mapped"}

Errors == {"error", "interrupted"}
Results == [st : {"none", "live", "gone"}, passed : Nat, live : BOOLEAN,
            fixed : BOOLEAN]
Reports == [created : Nat, terminal : Nat, failed : BOOLEAN, review : BOOLEAN,
            errs : SUBSET Errors, cleanupFailed : BOOLEAN, finished : BOOLEAN]
Runs == [stop : BOOLEAN, intr : BOOLEAN, user : BOOLEAN, panicked : BOOLEAN,
         errs : SUBSET Errors, ids : SUBSET Plans, keep : SUBSET Plans,
         todo : SUBSET Plans, cleanupFailed : BOOLEAN, settled : BOOLEAN, failed : BOOLEAN]
Busy == {"start", "next", "create", "record", "drive", "settle"}
Threads == [at : Busy \cup {"stopped", "idle"}, plan : Plans \cup {None}]
Commands == [ctx : {"rec", "start", "setup", "end", "fail", "recfail"}, pass : {1, 2},
             step : Steps, back : {"judge", "begin", "prepare"},
             call : {"idle", "sent", "saved"}, resumed : BOOLEAN, present : BOOLEAN,
             elig : BOOLEAN, cleaned : BOOLEAN, errs : BOOLEAN,
             exit : {"none", "ok", "failed", "retained", "recovered"}]

(* The variables of the Suite phase, and those of the rest of the command.    *)
SuiteTypes ==
    /\ RunConstants
    /\ jm \in Journals \cup {None} /\ jd \in Journals \cup {None}
    /\ suite \in [Plans -> Results] /\ rep \in [Plans -> Reports]
    /\ wk \in [Workers -> Threads] /\ queue \in Seq(Plans) /\ run \in Runs /\ faults \in Nat

Types ==
    /\ pc \in Places /\ kills \in Nat
    /\ slot \in Operations \cup {None}
    /\ tenant \in [st : {"none", "active", "disabled", "gone"}, res : BOOLEAN]
    /\ files \in [begun : BOOLEAN, material : BOOLEAN, staged : SUBSET Plans,
                  published : SUBSET Plans]
    /\ cmd \in Commands /\ opt \in [retain : BOOLEAN, failFast : BOOLEAN]

Building == {"Create", "KeyGen", "Reload", "Baseline", "Apply"}

(* Where the command is, in which context, and what it must have in memory.  *)
Flow ==
    /\ jm = None =>
         /\ pc \in Recovering \cup {"write", "begin", "do", "exit"}
         /\ cmd.ctx \in {"rec", "start"}
         /\ pc = "do" => cmd.step = "Describe" /\ (cmd.resumed \/ cmd.ctx = "start")
    /\ jd = None => jm = None \/ pc = "exit"
    /\ pc = "off" => jm = None /\ cmd.ctx = "rec"
    /\ pc \in {"write", "begin"} => ~files.begun /\ jm = None
    /\ pc = "begin" => cmd.ctx = "start"
    /\ cmd.ctx \in {"start", "setup", "end"} => ~cmd.resumed
    /\ cmd.ctx = "start" =>
         /\ pc \in {"do", "begin", "exit"}
         /\ pc # "exit" => ~files.begun /\ jm = None
         /\ pc = "do" => cmd.step = "Describe" /\ cmd.back = "begin"
    /\ pc = "do" /\ cmd.step = "Describe" /\ cmd.back = "begin" /\ ~cmd.resumed
         => cmd.ctx = "start"
    /\ cmd.ctx = "setup" =>
         pc \in {"do", "prepare", "probe", "mapped"} /\ ~jm.suite
    /\ cmd.ctx = "setup" /\ pc = "do" =>
         cmd.step \in Building \/ (cmd.step = "Describe" /\ cmd.back = "prepare")
    /\ pc \in {"probe", "mapped"} => cmd.ctx = "setup"
    /\ pc = "do" /\ cmd.step \in Building /\ ~cmd.resumed => cmd.ctx = "setup"
    /\ cmd.ctx = "end" => pc \notin Recovering \cup {"write", "begin"}
    /\ pc \in SuitePhase \cup {"settle", "stage", "commit"} => cmd.ctx = "end"
    /\ cmd.cleaned => cmd.ctx = "end" /\ pc \in Closing \cup Finishing \cup {"exit"}

(* The slot holds what was sent and not settled.                              *)
Settled == {"matched", "auth", "write", "begin", "judge", "prepare", "probe", "mapped",
            "clean", "tenant", "absent", "reset"} \cup SuitePhase \cup Finishing
Slotted ==
    /\ pc = "do" /\ cmd.call # "idle" => slot # None /\ Payload(slot.step) = Payload(cmd.step)
    /\ pc = "do" /\ cmd.call = "saved" => slot.res # "none"
    /\ pc \in Settled => slot = None
    /\ pc \in Closing /\ (cmd.ctx # "end" \/ cmd.cleaned) => slot = None

Live(p) == suite[p].st = "live"
Owns(j, p) == p \in j.plans \/ <<p, 0>> \in j.intents \/ (j.disposition = "retained" /\ p \in j.kept)

Consistent(j) ==
    /\ j.disposition = "prepared" => j.suite /\ ~j.suiteClean /\ j.intents = {} /\ j.kept = j.plans
    /\ j.disposition = "retained" => j.suite /\ ~j.suiteClean /\ j.intents = {} /\ j.plans = {}
    /\ j.disposition = "cleaned" => j.intents = {} /\ j.plans = {}
    /\ j.suiteClean => j.disposition = "cleaned"
    /\ ~j.suite => j.disposition = "active" /\ j.intents = {} /\ j.plans = {}

(* A journal that may speak for the run: every plan has its owner in it.      *)
Vouches(j) == Consistent(j) /\ \A p \in Plans : Live(p) => Owns(j, p)

Owners ==
    /\ jm # None => Vouches(jm)
    /\ jd # None => Vouches(jd)
    /\ jd = None => \A p \in Plans : Live(p) => p \in files.published
    /\ ~files.begun => jd = None /\ jm = None /\ files.published = {}
    /\ files.published # {} /\ jd # None => jd.disposition = "retained"

(* The retention is committed on disk when it is in memory; it may be on disk *)
(* alone once the write has failed, and then nothing more is done.            *)
Agreement ==
    jm # None /\ jd # None =>
        /\ jm.disposition = "retained" => jd.disposition = "retained"
        /\ jd.disposition = "retained" /\ jm.disposition # "retained" =>
              pc = "exit" \/ (pc = "finale" /\ jm.disposition = "prepared")

(* What the Suite phase knows.                                                *)
Threading ==
    /\ \A w \in Workers : wk[w].at \in Busy => wk[w].plan \in Plans
    /\ \A w \in Workers : wk[w].at = "record" => rep[wk[w].plan].created > 0

Running ==
    /\ pc \in SuitePhase => jm.disposition = "active" /\ jm.plans \subseteq run.ids
    /\ pc = "pcreate" => Uncreated # {} /\ jm = jd /\ <<NextPlan, 0>> \in jm.intents
    /\ pc = "precord" => \E p \in run.ids : <<p, 0>> \in jm.intents
    /\ pc \in Deleting =>
         \A p \in run.ids : Live(p) => p \in run.keep \cup run.todo \/ run.cleanupFailed
    /\ pc = "release" => run.todo # {} /\ ~Live(FirstOf(run.todo))
    /\ pc = "result" => run.todo = {} \/ run.cleanupFailed

(* What the end of the run knows.                                             *)
Ending ==
    /\ pc = "erase" => /\ jm.intents = {} /\ jm.disposition \in {"active", "prepared"}
                       /\ jm.suite
                       /\ \A p \in Plans : Live(p) => p \in run.todo \/ run.cleanupFailed
    /\ pc = "publish" => jm.disposition = "retained"
    /\ pc \in Removing => SuiteSettled(jm) /\ ~Unpublished

(* What is known of the tenant.                                               *)
There == tenant.st \in {"active", "disabled"}
Absent == \/ tenant.st = "gone"
          \/ tenant.st = "none" /\ (slot # None => slot.step # "Create")
Gone == Absent /\ (pc = "do" /\ cmd.step = "Create" => tenant.st = "gone")

Tenant ==
    /\ ~There => ~tenant.res
    /\ jm # None /\ jm.tenantClean => Gone
    /\ jd # None /\ jd.tenantClean => Gone
    /\ slot # None /\ slot.step = "Describe" /\ slot.res = "ok" => slot.present = There
    /\ slot # None /\ slot.step = "Finalize" /\ slot.res = "ok" => tenant.st = "gone"
    /\ pc = "judge" => cmd.present = There
    /\ pc = "absent" => tenant.st = "gone"
    /\ cmd.cleaned => jm.tenantClean
    /\ pc \in Finishing => jm.tenantClean
    /\ pc \in {"publish", "scrub", "erase"} /\ cmd.ctx # "end" => jm.tenantClean
    /\ pc \in {"unlinked", "drop"} => ~files.material
    /\ files.begun /\ jd = None =>
         /\ pc \in Recovering \cup {"exit"}
         /\ slot = None /\ ~There /\ ~files.material

RunInv == SuiteTypes /\ Types /\ Flow /\ Slotted /\ Owners /\ Agreement
          /\ Threading /\ Running /\ Ending /\ Tenant

(***************************************************************************)
(* The record and its methods.                                             *)
(***************************************************************************)

Same(j, k) ==
    /\ k.suite = j.suite /\ k.plans = j.plans /\ k.intents = j.intents
    /\ k.suiteClean = j.suiteClean /\ k.disposition = j.disposition /\ k.kept = j.kept

(* A method of the tenant side leaves the Suite side alone.                   *)
TenantSide(j, k) == k \in Journals /\ Same(j, k) /\ k.tenantClean = j.tenantClean

LEMMA FreshIsJournal ==
  ASSUME RunConstants
  PROVE  /\ FreshJournal \in Journals /\ ~FreshJournal.suite /\ ~FreshJournal.suiteClean
         /\ FreshJournal.plans = {} /\ FreshJournal.intents = {}
         /\ FreshJournal.disposition = "active" /\ ~FreshJournal.tenantClean
  BY DEF FreshJournal, Journals

LEMMA SuccessOfCreation ==
  ASSUME NEW j \in Journals, NEW step \in {"Create", "KeyGen", "Reload", "Disable", "Describe"},
         NEW b \in BOOLEAN
  PROVE  TenantSide(j, RecordSuccess(j, step, b))
  <1>1. CASE step = "Create" BY <1>1 DEF RecordSuccess, TenantSide, Same, Journals
  <1>2. CASE step = "KeyGen" BY <1>2 DEF RecordSuccess, TenantSide, Same, Journals
  <1>3. CASE step = "Reload" BY <1>3 DEF RecordSuccess, TenantSide, Same, Journals
  <1>4. CASE step = "Disable" BY <1>4 DEF RecordSuccess, TenantSide, Same, Journals
  <1>5. CASE step = "Describe" BY <1>5 DEF RecordSuccess, TenantSide, Same, Journals
  <1> QED BY <1>1, <1>2, <1>3, <1>4, <1>5

LEMMA CleanIsBoolean ==
  ASSUME NEW j \in Journals
  PROVE  ObligationsComplete(j) \in BOOLEAN
  BY DEF ObligationsComplete

LEMMA SetClean ==
  ASSUME NEW j \in Journals, NEW k \in Journals, TenantSide(j, k), NEW b \in BOOLEAN
  PROVE  TenantSide(j, [k EXCEPT !.clean = b])
  BY DEF TenantSide, Same, Journals

LEMMA SuccessOfResources ==
  ASSUME NEW j \in Journals, NEW step \in {"Baseline", "Apply", "CleanupList", "Revoke"},
         NEW b \in BOOLEAN
  PROVE  TenantSide(j, RecordSuccess(j, step, b))
  <1>1. CASE step = "Baseline"
    <2> DEFINE k == [j EXCEPT !.baseline = TRUE]
    <2>1. TenantSide(j, k) /\ k \in Journals BY DEF TenantSide, Same, Journals
    <2>2. RecordSuccess(j, step, b) = [k EXCEPT !.clean = ObligationsComplete(k)]
      BY <1>1 DEF RecordSuccess
    <2> HIDE DEF k
    <2> QED BY <2>1, <2>2, CleanIsBoolean, SetClean
  <1>2. CASE step = "Apply"
    <2> DEFINE k == [j EXCEPT !.applied = TRUE]
    <2>1. TenantSide(j, k) /\ k \in Journals BY DEF TenantSide, Same, Journals
    <2>2. RecordSuccess(j, step, b) = [k EXCEPT !.clean = ObligationsComplete(k)]
      BY <1>2 DEF RecordSuccess
    <2> HIDE DEF k
    <2> QED BY <2>1, <2>2, CleanIsBoolean, SetClean
  <1>3. CASE step = "CleanupList"
    <2> DEFINE k == [j EXCEPT !.listed = IF b THEN "present" ELSE "absent"]
    <2>1. TenantSide(j, k) /\ k \in Journals BY DEF TenantSide, Same, Journals
    <2>2. RecordSuccess(j, step, b) = [k EXCEPT !.clean = ObligationsComplete(k)]
      BY <1>3 DEF RecordSuccess
    <2> HIDE DEF k
    <2> QED BY <2>1, <2>2, CleanIsBoolean, SetClean
  <1>4. CASE step = "Revoke"
    <2> DEFINE k == [j EXCEPT !.revoked = TRUE]
    <2>1. TenantSide(j, k) /\ k \in Journals BY DEF TenantSide, Same, Journals
    <2>2. RecordSuccess(j, step, b) = [k EXCEPT !.clean = ObligationsComplete(k)]
      BY <1>4 DEF RecordSuccess
    <2> HIDE DEF k
    <2> QED BY <2>1, <2>2, CleanIsBoolean, SetClean
  <1> QED BY <1>1, <1>2, <1>3, <1>4

(* Only a Finalize tells that the tenant is cleaned up.                       *)
LEMMA SuccessRecorded ==
  ASSUME NEW j \in Journals, NEW step \in Steps, NEW b \in BOOLEAN
  PROVE  LET k == RecordSuccess(j, step, b) IN
         /\ k \in Journals /\ Same(j, k)
         /\ k.tenantClean => j.tenantClean \/ step = "Finalize"
         /\ j.tenantClean => k.tenantClean
  <1>1. CASE step = "Finalize" BY <1>1 DEF RecordSuccess, Same, Journals
  <1>2. CASE step # "Finalize"
    <2>1. TenantSide(j, RecordSuccess(j, step, b))
      BY <1>2, SuccessOfCreation, SuccessOfResources DEF Steps
    <2> QED BY <2>1 DEF TenantSide
  <1> QED BY <1>1, <1>2

LEMMA FailureRecorded ==
  ASSUME NEW j \in Journals, NEW step \in Steps
  PROVE  TenantSide(j, RecordFailure(j, step))
  BY DEF RecordFailure, TenantSide, Same, Journals

LEMMA RevisionPrepared ==
  ASSUME NEW j \in Journals, NEW step \in {"Reload", "Disable", "Finalize"}
  PROVE  TenantSide(j, PrepareRevision(j, step))
  BY ZenonT(60) DEF PrepareRevision, TenantSide, Same, Journals

LEMMA CleanupReset ==
  ASSUME NEW j \in Journals, NEW step \in Steps
  PROVE  TenantSide(j, ResetFailedCleanup(j, step))
  <1> DEFINE a == j.finalizeRev /\ ~j.disabled
             b == j.disableRev /\ j.disabled
             c == IF j.failure = step THEN None ELSE j.failure
             k == [j EXCEPT !.finalizeRev = a]
             l == [k EXCEPT !.disableRev = b]
             m == [l EXCEPT !.failure = c]
  <1>1. ResetFailedCleanup(j, step) = m
    BY DEF ResetFailedCleanup, Journals
  <1>2. a \in BOOLEAN /\ b \in BOOLEAN
    OBVIOUS
  <1>3. c \in Steps \cup {None}
    BY DEF Journals
  <1> HIDE DEF a, b, c
  <1>4. TenantSide(j, k) /\ k \in Journals
    BY <1>2 DEF TenantSide, Same, Journals
  <1> HIDE DEF k
  <1>5. TenantSide(k, l) /\ l \in Journals
    BY <1>2, <1>4 DEF TenantSide, Same, Journals
  <1> HIDE DEF l
  <1>6. TenantSide(l, m) /\ m \in Journals
    BY <1>3, <1>5 DEF TenantSide, Same, Journals
  <1> HIDE DEF m
  <1> QED BY <1>1, <1>4, <1>5, <1>6 DEF TenantSide, Same

LEMMA AbsenceMarked ==
  ASSUME NEW j \in Journals
  PROVE  MarkAbsent(j) \in Journals /\ Same(j, MarkAbsent(j)) /\ MarkAbsent(j).tenantClean
  <1> DEFINE t == TRUE
             f == FALSE
             n == None
             k1 == [j EXCEPT !.absent = t]
             k2 == [k1 EXCEPT !.failure = n]
             k3 == [k2 EXCEPT !.disableRev = f]
             k4 == [k3 EXCEPT !.disabled = f]
             k5 == [k4 EXCEPT !.finalizeRev = f]
             k6 == [k5 EXCEPT !.tenantClean = t]
             k7 == [k6 EXCEPT !.clean = t]
  <1>1. MarkAbsent(j) = k7
    BY DEF MarkAbsent, Journals
  <1>2. t \in BOOLEAN /\ f \in BOOLEAN /\ n \in Steps \cup {None}
    OBVIOUS
  <1> HIDE DEF t, f, n
  <1>3. TenantSide(j, k1) /\ k1 \in Journals
    BY <1>2 DEF TenantSide, Same, Journals
  <1> HIDE DEF k1
  <1>4. TenantSide(k1, k2) /\ k2 \in Journals
    BY <1>2, <1>3 DEF TenantSide, Same, Journals
  <1> HIDE DEF k2
  <1>5. TenantSide(k2, k3) /\ k3 \in Journals
    BY <1>2, <1>4 DEF TenantSide, Same, Journals
  <1> HIDE DEF k3
  <1>6. TenantSide(k3, k4) /\ k4 \in Journals
    BY <1>2, <1>5 DEF TenantSide, Same, Journals
  <1> HIDE DEF k4
  <1>7. TenantSide(k4, k5) /\ k5 \in Journals
    BY <1>2, <1>6 DEF TenantSide, Same, Journals
  <1> HIDE DEF k5
  <1>8. k6 \in Journals /\ Same(k5, k6) /\ k6.tenantClean = t
    BY <1>2, <1>7 DEF TenantSide, Same, Journals
  <1> HIDE DEF k6
  <1>9. TenantSide(k6, k7) /\ k7 \in Journals
    BY <1>2, <1>8 DEF TenantSide, Same, Journals
  <1> HIDE DEF k7
  <1> QED BY <1>1, <1>3, <1>4, <1>5, <1>6, <1>7, <1>8, <1>9 DEF t, TenantSide, Same

LEMMA RemovalAnnounced ==
  ASSUME NEW j \in Journals
  PROVE  /\ TenantSide(j, [j EXCEPT !.clean = TRUE, !.removal = TRUE])
         /\ TenantSide(j, [j EXCEPT !.removed = TRUE])
  BY DEF TenantSide, Same, Journals

(* A method of the Suite side leaves the tenant side alone.                   *)
LEMMA CreateBegun ==
  ASSUME NEW j \in Journals, NEW p \in Plans, NEW i \in Nat
  PROVE  LET k == BeginCreate(j, <<p, i>>) IN
         /\ k \in Journals /\ k.tenantClean = j.tenantClean /\ k.suite
         /\ k.plans = j.plans /\ k.intents = j.intents \cup {<<p, i>>}
         /\ k.suiteClean = j.suiteClean /\ k.disposition = j.disposition /\ k.kept = j.kept
  <1>1. j.intents \cup {<<p, i>>} \in SUBSET (Plans \X Nat)
    BY DEF Journals
  <1> QED BY <1>1 DEF BeginCreate, Journals

LEMMA CreateRecorded ==
  ASSUME NEW j \in Journals, NEW p \in Plans, NEW i \in Nat
  PROVE  LET k == RecordCreated(j, <<p, i>>) IN
         /\ k \in Journals /\ k.tenantClean = j.tenantClean /\ k.suite = j.suite
         /\ k.plans = (IF i = 0 THEN j.plans \cup {p} ELSE j.plans)
         /\ k.intents = j.intents \ {<<p, i>>}
         /\ k.suiteClean = j.suiteClean /\ k.disposition = j.disposition /\ k.kept = j.kept
  BY ZenonT(60) DEF RecordCreated, Journals

LEMMA PlanReleased ==
  ASSUME NEW j \in Journals, NEW p \in Plans
  PROVE  LET k == ReleasePlan(j, p) IN
         /\ k \in Journals /\ k.tenantClean = j.tenantClean /\ k.suite = j.suite
         /\ k.plans = j.plans \ {p} /\ k.intents = j.intents
         /\ k.suiteClean = j.suiteClean /\ k.disposition = j.disposition /\ k.kept = j.kept
  BY DEF ReleasePlan, Journals

LEMMA SuiteMarked ==
  ASSUME NEW j \in Journals
  PROVE  LET k == MarkSuiteClean(j) IN
         /\ k \in Journals /\ k.tenantClean = j.tenantClean /\ k.suite = j.suite
         /\ k.plans = {} /\ k.intents = j.intents /\ k.suiteClean
         /\ k.disposition = "cleaned"
  BY DEF MarkSuiteClean, Journals

LEMMA RetentionPrepared ==
  ASSUME NEW j \in Journals, NEW S \in SUBSET Plans
  PROVE  LET k == PrepareRetention(j, S) IN
         /\ k \in Journals /\ k.tenantClean = j.tenantClean /\ k.suite = j.suite
         /\ k.plans = j.plans /\ k.intents = j.intents /\ k.suiteClean = j.suiteClean
         /\ k.disposition = "prepared" /\ k.kept = S
  BY DEF PrepareRetention, Journals

LEMMA RetentionCommitted ==
  ASSUME NEW j \in Journals
  PROVE  LET k == CommitRetention(j) IN
         /\ k \in Journals /\ k.tenantClean = j.tenantClean /\ k.suite = j.suite
         /\ k.plans = {} /\ k.intents = j.intents /\ k.suiteClean = j.suiteClean
         /\ k.disposition = "retained" /\ k.kept = j.kept
  BY DEF CommitRetention, Journals

(* The plan that comes first is one of the set.                               *)
LEMMA FirstIsOne ==
  ASSUME RunConstants, NEW S \in SUBSET Plans, S # {}
  PROVE  FirstOf(S) \in S
  <1> DEFINE Indices == {i \in DOMAIN PlanSeq : PlanSeq[i] \in S}
  <1>1. DOMAIN PlanSeq \subseteq Nat /\ DOMAIN PlanSeq = 1..Len(PlanSeq) /\ Len(PlanSeq) \in Nat
    BY DEF RunConstants, SuiteAssumption
  <1>2. Indices # {} /\ Indices \subseteq Nat
    BY <1>1 DEF RunConstants, SuiteAssumption
  <1>3. PICK i \in Indices : \A k \in Indices : <<k, i>> \notin OpToRel(<, Nat)
    <2>1. IsWellFoundedOn(OpToRel(<, Nat), Indices)
      BY <1>2, NatLessThanWellFounded, IsWellFoundedOnSubset
    <2> HIDE DEF Indices
    <2> QED BY <2>1, <1>2, WFMin, Zenon
  <1>4. \A k \in 1..(i - 1) : PlanSeq[k] \notin S
    <2> SUFFICES ASSUME NEW k \in 1..(i - 1), PlanSeq[k] \in S PROVE FALSE
      OBVIOUS
    <2>1. k \in Indices /\ k < i /\ k \in Nat /\ i \in Nat
      BY <1>1
    <2> QED BY <2>1, <1>3 DEF OpToRel
  <1>5. \E m \in DOMAIN PlanSeq : PlanSeq[m] \in S /\ \A k \in 1..(m - 1) : PlanSeq[k] \notin S
    BY <1>3, <1>4
  <1> QED BY <1>5, Zenon DEF FirstOf

-----------------------------------------------------------------------------
(* What a step leaves alone.                                                  *)

LEMMA Bounds ==
  ASSUME RunInv
  PROVE  /\ RunConstants /\ None \notin Journals /\ None \notin Operations
         /\ MaxFaults \in Nat /\ faults \in Nat
         /\ jm # None => jm \in Journals
         /\ jd # None => jd \in Journals
         /\ slot # None => slot \in Operations
         /\ pc # "exit" /\ jm # None => jd # None
  BY DEF RunInv, SuiteTypes, Types, Flow, RunConstants, SuiteAssumption, NoneIsAbsent,
         NoneIsNoOperation

LEMMA Charged ==
  ASSUME faults \in Nat, NEW r, Charge(r)
  PROVE  faults' \in Nat
  BY DEF Charge

LEMMA Written ==
  ASSUME faults \in Nat, NEW new, NEW r, Save(new, r)
  PROVE  /\ jm' = new /\ jd' \in {jd, new} /\ faults' \in Nat
         /\ r = "ok" => jd' = new
  BY Charged DEF Save

LEMMA SameVouches ==
  ASSUME NEW j, NEW k, Same(j, k), Vouches(j), UNCHANGED suite
  PROVE  Vouches(k)'
  <1>1. Vouches(k)
    BY DEF Vouches, Consistent, Owns, Same
  <1> QED BY <1>1 DEF Vouches, Live

(* A step that touches neither journal nor Suite.                             *)
LEMMA Quiet ==
  ASSUME RunInv, UNCHANGED <<jm, jd, suitePart>>, faults' \in Nat,
         files'.begun = files.begun, files'.published = files.published,
         pc \notin {"exit", "finale"} \/ pc' \in {pc, "exit"}
  PROVE  SuiteTypes' /\ Owners' /\ Agreement' /\ Threading'
  <1> USE DEF RunInv, suitePart
  <1>1. SuiteTypes' BY DEF SuiteTypes
  <1>2. Owners' BY DEF Owners, Vouches, Consistent, Owns, Live
  <1>3. Agreement' BY DEF Agreement
  <1>4. Threading' BY DEF Threading
  <1> QED BY <1>1, <1>2, <1>3, <1>4

(* A step of the tenant side saves the journal.                               *)
LEMMA TenantSaved ==
  ASSUME RunInv, UNCHANGED <<suitePart>>, jm # None, pc \notin {"exit", "finale"},
         files'.begun = files.begun, files'.published = files.published,
         NEW new \in Journals, Same(jm, new), NEW r, Save(new, r)
  PROVE  SuiteTypes' /\ Owners' /\ Agreement' /\ Threading'
  <1>0. /\ jm' = new /\ jd' \in {jd, new} /\ faults' \in Nat /\ jd # None
        /\ new # None /\ UNCHANGED <<suite, rep, wk, queue, run>>
    BY Bounds, Written DEF suitePart
  <1>1. SuiteTypes' BY <1>0 DEF RunInv, SuiteTypes
  <1>2. Owners'
    <2>1. jm'.disposition = jm.disposition /\ Vouches(jm)' /\ Vouches(jd)'
      <3>1. Vouches(jm) /\ Vouches(jd)
        BY <1>0 DEF RunInv, Owners
      <3>2. Same(jd, jd)
        BY DEF Same
      <3>3. Vouches(new)'
        BY <1>0, <3>1, SameVouches
      <3> QED BY <1>0, <3>1, <3>3 DEF Same, Vouches, Consistent, Owns, Live
    <2> QED BY <1>0, <2>1 DEF RunInv, Owners, Agreement, Live, Same
  <1>3. Agreement' BY <1>0 DEF RunInv, Agreement, Same
  <1>4. Threading' BY <1>0 DEF RunInv, Threading
  <1> QED BY <1>1, <1>2, <1>3, <1>4

Failing == {"claim", "match", "do", "reset", "judge", "auth", "write", "begin", "prepare",
            "probe", "mapped", "clean", "absent", "publish"}

(* A journal that tells of the tenant's end tells the truth.                  *)
Truthful ==
    /\ jm # None /\ jm.tenantClean => Absent
    /\ jd # None /\ jd.tenantClean => Absent

LEMMA TruthKnown == ASSUME RunInv PROVE Truthful
  BY DEF RunInv, Tenant, Gone, Truthful

Other == Types /\ Flow /\ Slotted /\ Running /\ Ending /\ Tenant

(* An error before, or after, the Suite phase.                                *)
LEMMA Bailed ==
  ASSUME RunInv, Bail, pc \in Failing, pc = "publish" => cmd.ctx # "end",
         jm' = None <=> jm = None, jd' = None => jd = None, jm # None => jm'.suite = jm.suite,
         UNCHANGED <<tenant, opt, kills>>, slot' \in {slot, None}, Truthful',
         files' = files \/ files' = [files EXCEPT !.material = FALSE]
  PROVE  Other'
  <1>0. /\ pc' \in {"match", "settle", "exit"} /\ cmd' \in Commands
        /\ cmd'.cleaned = cmd.cleaned /\ cmd'.resumed = cmd.resumed /\ cmd'.step = cmd.step
        /\ \/ cmd.ctx = "setup" /\ pc' = "match" /\ cmd'.ctx = "fail"
           \/ cmd.ctx = "end" /\ pc' = "settle" /\ cmd'.ctx = "end"
           \/ cmd.ctx \notin {"setup", "end"} /\ pc' = "exit" /\ cmd'.ctx = cmd.ctx
    BY DEF Bail, RunInv, Types, Commands
  <1>1. ~cmd.cleaned
    BY DEF RunInv, Flow, Failing, Closing, Finishing, Removing
  <1>2. pc' # "exit" => jm # None
    BY <1>0 DEF RunInv, Flow
  <1>3. Flow'
    BY <1>0, <1>1, <1>2 DEF RunInv, Flow, Failing, Recovering, SuitePhase, Deleting
  <1>4. Slotted'
    BY <1>0, <1>1 DEF Slotted, Settled, SuitePhase, Deleting, Closing, Finishing, Removing
  <1>5. Running'
    BY <1>0 DEF Running, SuitePhase, Deleting
  <1>6. Ending'
    BY <1>0 DEF Ending, Removing
  <1>7. /\ files'.begun = files.begun /\ (files'.material => files.material)
        /\ files' \in [begun : BOOLEAN, material : BOOLEAN, staged : SUBSET Plans,
                       published : SUBSET Plans]
    BY DEF RunInv, Types
  <1>8. Types'
    BY <1>0, <1>7 DEF RunInv, Types, Places, Recovering, Closing
  <1>9. Tenant'
    <2>1. pc' \notin {"do", "judge", "absent", "publish", "scrub", "erase"} \cup Finishing /\ ~cmd'.cleaned
      BY <1>0, <1>1 DEF Finishing, Removing
    <2>2. files'.begun /\ jd' = None =>
            pc' \in {"match", "exit"} /\ slot' = None /\ ~There /\ ~files'.material
      BY <1>0, <1>2, <1>7, Bounds DEF RunInv, Tenant, Failing
    <2> QED BY <2>1, <2>2 DEF RunInv, Tenant, There, Gone, Truthful, Recovering, Finishing, Removing
  <1> QED BY <1>3, <1>4, <1>5, <1>6, <1>8, <1>9 DEF Other

Asking(ctx, step, back) ==
    /\ pc' = "do" /\ cmd' \in Commands /\ cmd'.ctx = ctx /\ ~cmd'.cleaned
    /\ cmd'.step = step /\ cmd'.back = back /\ cmd'.call = "idle" /\ ~cmd'.resumed

LEMMA AskTells ==
  ASSUME NEW c \in Commands, ~c.cleaned, NEW step \in Steps,
         NEW back \in {"judge", "begin", "prepare"}, Ask(c, step, back)
  PROVE  Asking(c.ctx, step, back)
  BY DEF Ask, Asking, Commands

(* A control operation is asked for.                                          *)
LEMMA Asked ==
  ASSUME RunInv, NEW ctx, NEW step \in Steps, NEW back, Asking(ctx, step, back),
         jm' = None => ctx = "start", jd' = None => jm' = None,
         ctx = "start" <=> step = "Describe" /\ back = "begin",
         ctx = "start" => jm' = None /\ ~files'.begun,
         ctx = "setup" => ~jm'.suite,
         ctx = "setup" => step \in Building \/ (step = "Describe" /\ back = "prepare"),
         step \in Building => ctx = "setup",
         UNCHANGED <<tenant, opt, kills>>, slot' \in {slot, None}, Truthful',
         step = "Create" => /\ jm' # None => ~jm'.tenantClean
                            /\ jd' # None => ~jd'.tenantClean,
         files' \in [begun : BOOLEAN, material : BOOLEAN, staged : SUBSET Plans,
                     published : SUBSET Plans],
         files'.begun => jd' # None
  PROVE  Other'
  <1>1. Types' BY DEF Asking, RunInv, Types, Places
  <1>2. Flow' BY DEF Asking, Flow, Recovering, SuitePhase, Deleting
  <1>3. Slotted' BY DEF Asking, Slotted, Settled, SuitePhase, Deleting, Closing, Finishing, Removing
  <1>4. Running' BY DEF Asking, Running, SuitePhase, Deleting
  <1>5. Ending' BY DEF Asking, Ending, Removing
  <1>6. Tenant'
    BY DEF Asking, RunInv, Tenant, There, Gone, Truthful, Finishing, Removing
  <1> QED BY <1>1, <1>2, <1>3, <1>4, <1>5, <1>6 DEF Other

LEMMA InvSplits ==
  /\ RunInv' <=> (SuiteTypes' /\ Owners' /\ Agreement' /\ Threading') /\ Other'
  /\ RunInv <=> (SuiteTypes /\ Owners /\ Agreement /\ Threading) /\ Other
  BY DEF RunInv, Other

(* Everything but the place and the locals stays.                             *)
Stays == UNCHANGED <<jm, jd, suitePart, slot, tenant, files, opt, kills>> /\ faults' \in Nat

LEMMA BailStays ==
  ASSUME RunInv, Bail, Stays, pc \in Failing, pc = "publish" => cmd.ctx # "end"
  PROVE  RunInv'
  <1>1. pc \notin {"exit", "finale"} BY DEF Failing
  <1>2. SuiteTypes' /\ Owners' /\ Agreement' /\ Threading'
    BY <1>1, Quiet DEF Stays
  <1>3. Truthful' BY TruthKnown DEF Truthful, Stays, Absent
  <1>4. Other' BY <1>3, Bailed DEF Stays
  <1> QED BY <1>2, <1>4, InvSplits

LEMMA AskStays ==
  ASSUME RunInv, Stays, NEW step \in Steps \ {"Create"}, NEW back, Asking(cmd.ctx, step, back),
         jm # None, pc \notin {"exit", "finale"}, ~(step = "Describe" /\ back = "begin"),
         step \in Building => cmd.ctx = "setup",
         cmd.ctx = "setup" => step \in Building \/ (step = "Describe" /\ back = "prepare")
  PROVE  RunInv'
  <1>1. SuiteTypes' /\ Owners' /\ Agreement' /\ Threading'
    BY Quiet DEF Stays
  <1>2. Truthful' BY TruthKnown DEF Truthful, Stays, Absent
  <1>3. /\ jd # None /\ (cmd.ctx = "setup" => ~jm.suite) /\ cmd.ctx # "start"
        /\ files \in [begun : BOOLEAN, material : BOOLEAN, staged : SUBSET Plans,
                      published : SUBSET Plans]
    BY Bounds DEF RunInv, Flow, Types
  <1>4. Other'
    BY <1>2, <1>3, Asked DEF Stays
  <1> QED BY <1>1, <1>4, InvSplits

LEMMA TruthSaved ==
  ASSUME RunInv, UNCHANGED <<slot, tenant>>, NEW new, NEW r, Save(new, r),
         new.tenantClean => Absent
  PROVE  Truthful'
  <1>1. jm' = new /\ jd' \in {jd, new}
    BY Bounds, Written
  <1> QED BY <1>1, TruthKnown DEF Truthful, Absent

LEMMA BailSaved ==
  ASSUME RunInv, Bail, pc \in Failing, pc = "publish" => cmd.ctx # "end",
         UNCHANGED <<suitePart, slot, tenant, files, opt, kills>>, jm # None,
         NEW new \in Journals, Same(jm, new), NEW r, Save(new, r),
         new.tenantClean => Absent
  PROVE  RunInv'
  <1>1. SuiteTypes' /\ Owners' /\ Agreement' /\ Threading'
    BY TenantSaved DEF Failing
  <1>2. Truthful' BY TruthSaved
  <1>3. jm' = new /\ jd' \in {jd, new} /\ new # None
    BY Bounds, Written
  <1>4. Other' BY <1>2, <1>3, Bailed DEF Same
  <1> QED BY <1>1, <1>4, InvSplits

LEMMA AskSaved ==
  ASSUME RunInv, UNCHANGED <<suitePart, slot, tenant, files, opt, kills>>, jm # None,
         pc \notin {"exit", "finale"},
         NEW new \in Journals, Same(jm, new), NEW r, Save(new, r), new.tenantClean => Absent,
         NEW step \in Steps \ {"Create"}, NEW back, Asking(cmd.ctx, step, back),
         ~(step = "Describe" /\ back = "begin"), step \in Building => cmd.ctx = "setup",
         cmd.ctx = "setup" => step \in Building \/ (step = "Describe" /\ back = "prepare")
  PROVE  RunInv'
  <1>1. SuiteTypes' /\ Owners' /\ Agreement' /\ Threading'
    BY TenantSaved
  <1>2. Truthful' BY TruthSaved
  <1>3. /\ jd # None /\ (cmd.ctx = "setup" => ~jm.suite) /\ cmd.ctx # "start"
        /\ files \in [begun : BOOLEAN, material : BOOLEAN, staged : SUBSET Plans,
                      published : SUBSET Plans]
    BY Bounds DEF RunInv, Flow, Types
  <1>4. jm' = new /\ jd' \in {jd, new} /\ new # None
    BY Bounds, Written
  <1>5. Other' BY <1>2, <1>3, <1>4, Asked DEF Same
  <1> QED BY <1>1, <1>5, InvSplits

(* In memory the plans are owned, and nothing is retained: so it is on disk,  *)
(* unless the command is past its commit.                                     *)
LEMMA Unretained ==
  ASSUME RunInv, jm # None, jm.disposition # "retained", pc \notin {"exit", "finale"}
  PROVE  jd # None /\ jd.disposition # "retained" /\ files.published = {} /\ files.begun
  BY Bounds DEF RunInv, Agreement, Owners

(* A step of the Suite side saves the journal.                                *)
LEMMA SuiteSaved ==
  ASSUME RunInv, jm # None, jm.disposition # "retained", pc \notin {"exit", "finale"},
         NEW new \in Journals, Vouches(new)', new.disposition # "retained",
         Vouches(jd)', jm' = new, jd' \in {jd, new}, UNCHANGED files
  PROVE  Owners' /\ Agreement'
  <1>1. new # None BY Bounds
  <1> QED BY <1>1, Unretained DEF Owners, Agreement

LEMMA SettleKeeps ==
  ASSUME RunInv, Settle
  PROVE  RunInv'
  <1>1. /\ pc = "settle" /\ pc' \in {"stage", "scrub"} /\ cmd' = cmd /\ Stays
        /\ pc' = "stage" => cmd.cleaned
    BY Bounds DEF Settle, Goto, Stays, suitePart, targetVars, journalVars
  <1>10. SuiteTypes' /\ Owners' /\ Agreement' /\ Threading'
    BY <1>1, Quiet DEF Stays
  <1>11. Types'
    BY <1>1 DEF RunInv, Stays, Types, Places, Closing
  <1>12. Flow'
    BY <1>1 DEF RunInv, Flow, Stays, Closing, Recovering
  <1>13. Slotted'
    BY <1>1 DEF RunInv, Slotted, Flow, Settled, Stays, SuitePhase, Deleting, Finishing, Removing
  <1>14. Running'
    BY <1>1 DEF Running, SuitePhase, Deleting
  <1>15. Ending'
    BY <1>1 DEF Ending, Removing
  <1>16. Tenant'
    BY <1>1, Bounds DEF RunInv, Types, Tenant, Flow, Slotted, Stays, Gone, Absent, There,
       Finishing, Removing
  <1> QED BY <1>10, <1>11, <1>12, <1>13, <1>14, <1>15, <1>16 DEF RunInv

LEMMA StartKeeps ==
  ASSUME RunInv, Start
  PROVE  RunInv'
  <1>1. pc = "off" /\ pc' = "claim" /\ cmd' = NoCmd /\ Stays
    BY Bounds DEF Start, Stays, suitePart, targetVars, journalVars
  <1>2. cmd' \in Commands /\ cmd'.ctx = "rec" /\ ~cmd'.cleaned /\ ~cmd'.resumed
    BY <1>1 DEF NoCmd, Commands, Steps
  <1>10. SuiteTypes' /\ Owners' /\ Agreement' /\ Threading'
    BY <1>1, <1>2, Quiet DEF Stays
  <1>11. Types'
    BY <1>1, <1>2 DEF RunInv, Stays, Types, Places, Recovering
  <1>12. Flow'
    BY <1>1, <1>2 DEF RunInv, Flow, Stays, SuitePhase, Deleting, Recovering
  <1>13. Slotted'
    BY <1>1, <1>2 DEF RunInv, Slotted, Settled, SuitePhase, Deleting, Closing, Finishing, Removing
  <1>14. Running'
    BY <1>1 DEF Running, SuitePhase, Deleting
  <1>15. Ending'
    BY <1>1, <1>2 DEF Ending, Removing
  <1>16. Tenant'
    BY <1>1, <1>2, Bounds DEF RunInv, Types, Tenant, Flow, Slotted, Stays, Gone, Absent, There,
       Finishing, Removing, Recovering
  <1> QED BY <1>10, <1>11, <1>12, <1>13, <1>14, <1>15, <1>16 DEF RunInv

LEMMA MatchedKeeps ==
  ASSUME RunInv, Matched
  PROVE  RunInv'
  <1>1. pc = "matched" /\ cmd.ctx # "setup" /\ Stays /\ cmd \in Commands /\ ~cmd.cleaned
    BY Bounds DEF RunInv, Types, Matched, Stays, targetVars, journalVars, Flow, Closing, Finishing,
       Removing
  <1>2. \/ jm = None /\ pc' = "auth" /\ cmd' = cmd
        \/ jm = None /\ files.begun /\ Quit("recovered")
        \/ jm = None /\ ~files.begun /\ pc' = "write" /\ cmd' = cmd
        \/ jm # None /\ pc' = "clean" /\ cmd' = cmd
        \/ jm # None /\ Ask(cmd, "Describe", "judge")
    BY DEF Matched, Goto
  <1>3. CASE jm # None /\ Ask(cmd, "Describe", "judge")
    <2>1. Asking(cmd.ctx, "Describe", "judge")
      BY <1>1, <1>3, AskTells DEF Steps
    <2> QED BY <1>1, <1>3, <2>1, AskStays DEF Steps, Building
  <1>4. CASE jm = None /\ files.begun /\ Quit("recovered")
    <2>1. pc' = "exit" /\ cmd' \in Commands /\ cmd'.ctx = cmd.ctx /\ ~cmd'.cleaned /\ cmd'.resumed = cmd.resumed
      BY <1>1, <1>4 DEF Quit, Commands
    <2>10. SuiteTypes' /\ Owners' /\ Agreement' /\ Threading'
      BY <1>1, <1>4, <2>1, Quiet DEF Stays
    <2>11. Types'
      BY <1>1, <1>4, <2>1 DEF RunInv, Stays, Types, Places
    <2>12. Flow'
      BY <1>1, <1>4, <2>1 DEF RunInv, Flow, SuitePhase, Deleting
    <2>13. Slotted'
      BY <1>1, <1>4, <2>1 DEF RunInv, Slotted, Settled, Stays
    <2>14. Running'
      BY <1>1, <1>4, <2>1 DEF Running, SuitePhase, Deleting
    <2>15. Ending'
      BY <1>1, <1>4, <2>1 DEF Ending, Removing
    <2>16. Tenant'
      BY <1>1, <1>4, <2>1, Bounds DEF RunInv, Types, Tenant, Flow, Slotted, Stays, Gone, Absent,
         There, Finishing, Removing
    <2> QED BY <2>10, <2>11, <2>12, <2>13, <2>14, <2>15, <2>16 DEF RunInv
  <1>5. CASE /\ cmd' = cmd
             /\ \/ jm = None /\ pc' = "auth"
                \/ jm = None /\ ~files.begun /\ pc' = "write"
                \/ jm # None /\ pc' = "clean"
    <2>10. SuiteTypes' /\ Owners' /\ Agreement' /\ Threading'
      BY <1>1, <1>5, Quiet DEF Stays
    <2>11. Types'
      BY <1>1, <1>5 DEF RunInv, Stays, Types, Places, Recovering
    <2>12. Flow'
      BY <1>1, <1>5 DEF RunInv, Flow, Stays, SuitePhase, Deleting, Recovering
    <2>13. Slotted'
      BY <1>1, <1>5 DEF RunInv, Slotted, Settled, Stays
    <2>14. Running'
      BY <1>1, <1>5 DEF Running, SuitePhase, Deleting
    <2>15. Ending'
      BY <1>1, <1>5 DEF Ending, Removing
    <2>16. Tenant'
      BY <1>1, <1>5, Bounds DEF RunInv, Types, Tenant, Flow, Slotted, Stays, Gone, Absent, There,
         Finishing, Removing, Recovering
    <2> QED BY <2>10, <2>11, <2>12, <2>13, <2>14, <2>15, <2>16 DEF RunInv
  <1> QED BY <1>2, <1>3, <1>4, <1>5

LEMMA AuthenticateKeeps ==
  ASSUME RunInv, Authenticate
  PROVE  RunInv'
  <1>1. pc = "auth" /\ Stays /\ cmd \in Commands /\ ~cmd.cleaned
    BY Bounds, Charged DEF RunInv, Types, Authenticate, Stays, targetVars, journalVars, Flow,
       Closing, Finishing, Removing
  <1>2. Bail \/ (pc' = "claim" /\ cmd' = [cmd EXCEPT !.pass = 2])
    BY DEF Authenticate
  <1>3. CASE Bail
    BY <1>1, <1>3, BailStays DEF Failing
  <1>4. CASE pc' = "claim" /\ cmd' = [cmd EXCEPT !.pass = 2]
    <2>1. cmd' \in Commands /\ cmd'.ctx = cmd.ctx /\ ~cmd'.cleaned /\ cmd'.resumed = cmd.resumed
      BY <1>1, <1>4 DEF Commands
    <2>10. SuiteTypes' /\ Owners' /\ Agreement' /\ Threading'
      BY <1>1, <1>4, <2>1, Quiet DEF Stays
    <2>11. Types'
      BY <1>1, <1>4, <2>1 DEF RunInv, Stays, Types, Places, Recovering
    <2>12. Flow'
      BY <1>1, <1>4, <2>1 DEF RunInv, Flow, Stays, SuitePhase, Deleting, Recovering
    <2>13. Slotted'
      BY <1>1, <1>4, <2>1 DEF RunInv, Slotted, Settled, Stays
    <2>14. Running'
      BY <1>1, <1>4 DEF Running, SuitePhase, Deleting
    <2>15. Ending'
      BY <1>1, <1>4, <2>1 DEF Ending, Removing
    <2>16. Tenant'
      BY <1>1, <1>4, <2>1, Bounds DEF RunInv, Types, Tenant, Flow, Slotted, Stays, Gone, Absent,
         There, Finishing, Removing, Recovering
    <2> QED BY <2>10, <2>11, <2>12, <2>13, <2>14, <2>15, <2>16 DEF RunInv
  <1> QED BY <1>2, <1>3, <1>4

LEMMA ProbeTenantKeeps ==
  ASSUME RunInv, ProbeTenant
  PROVE  RunInv'
  <1>1. /\ pc = "probe" /\ Stays /\ cmd \in Commands /\ ~cmd.cleaned /\ jm # None
        /\ cmd.back \in {"judge", "begin", "prepare"} /\ cmd.ctx = "setup"
    BY Bounds, Charged DEF RunInv, Types, ProbeTenant, Stays, targetVars, journalVars, Flow,
       Commands
  <1>2. Bail \/ Ask(cmd, "Baseline", cmd.back)
    BY DEF ProbeTenant, Call
  <1>3. CASE Bail
    BY <1>1, <1>3, BailStays DEF Failing
  <1>4. CASE Ask(cmd, "Baseline", cmd.back)
    <2>1. Asking(cmd.ctx, "Baseline", cmd.back)
      BY <1>1, <1>4, AskTells DEF Steps
    <2> QED BY <1>1, <2>1, AskStays DEF Steps, Building
  <1> QED BY <1>2, <1>3, <1>4

LEMMA FinalizeMaterialKeeps ==
  ASSUME RunInv, FinalizeMaterial
  PROVE  RunInv'
  <1>1. /\ pc = "mapped" /\ Stays /\ cmd \in Commands /\ ~cmd.cleaned /\ jm # None
        /\ ~cmd.resumed /\ cmd.ctx = "setup" /\ jm.disposition = "active" /\ jm.plans = {}
    BY Bounds, Charged DEF RunInv, Types, FinalizeMaterial, Stays, suitePart, targetVars,
       journalVars, Flow, Owners, Vouches, Consistent
  <1>2. Bail \/ (pc' = "suite" /\ cmd' = [cmd EXCEPT !.ctx = "end"])
    BY DEF FinalizeMaterial
  <1>3. CASE Bail
    BY <1>1, <1>3, BailStays DEF Failing
  <1>4. CASE pc' = "suite" /\ cmd' = [cmd EXCEPT !.ctx = "end"]
    <2>1. cmd' \in Commands /\ cmd'.ctx = "end" /\ ~cmd'.cleaned /\ ~cmd'.resumed
      BY <1>1, <1>4 DEF Commands
    <2>10. SuiteTypes' /\ Owners' /\ Agreement' /\ Threading'
      BY <1>1, <1>4, <2>1, Quiet DEF Stays
    <2>11. Types'
      BY <1>1, <1>4, <2>1 DEF RunInv, Stays, Types, Places, SuitePhase
    <2>12. Flow'
      BY <1>1, <1>4, <2>1 DEF RunInv, Flow, Stays, Recovering
    <2>13. Slotted'
      BY <1>1, <1>4, <2>1 DEF RunInv, Slotted, Settled, Stays
    <2>14. Running'
      BY <1>1, <1>4 DEF Running, Stays, Deleting
    <2>15. Ending'
      BY <1>1, <1>4, <2>1 DEF Ending, Removing
    <2>16. Tenant'
      BY <1>1, <1>4, <2>1, Bounds DEF RunInv, Types, Tenant, Flow, Slotted, Stays, Gone, Absent,
         There, Finishing, Removing
    <2> QED BY <2>10, <2>11, <2>12, <2>13, <2>14, <2>15, <2>16 DEF RunInv
  <1> QED BY <1>2, <1>3, <1>4

(* What a pending operation is matched with is an operation like it.          *)
LEMMA MatchingSteps ==
  ASSUME NEW j, NEW step \in Steps, NEW c \in Matching(j, step)
  PROVE  /\ c[2] \in Steps /\ Payload(c[2]) = Payload(step)
         /\ j = None => c[2] = "Describe"
  <1>1. \A s \in PersistedCandidate(j, step) : s \in Steps
    BY DEF PersistedCandidate, Steps
  <1>2. \A s \in CompletedCandidate(j) : s \in Steps
    BY DEF CompletedCandidate, Steps
  <1>3. \A s \in NextPending(j) : s \in Steps
    BY DEF NextPending, Steps
  <1>4. Payload(c[2]) = Payload(step)
    BY DEF Matching
  <1>5. \/ c = <<"describe", "Describe">>
        \/ /\ j # None
           /\ \E s \in PersistedCandidate(j, step) \cup CompletedCandidate(j) \cup NextPending(j) : c[2] = s
    BY DEF Matching
  <1> QED BY <1>1, <1>2, <1>3, <1>4, <1>5 DEF Steps

LEMMA MatchPendingKeeps ==
  ASSUME RunInv, MatchPending
  PROVE  RunInv'
  <1>1. pc = "match" /\ Stays /\ cmd \in Commands /\ ~cmd.cleaned /\ cmd.ctx \notin {"start", "setup", "end"}
    BY Bounds DEF RunInv, Types, MatchPending, Stays, targetVars, journalVars, Flow, Recovering
  <1>2. CASE Bail
    BY <1>1, <1>2, BailStays DEF Failing
  <1>3. CASE slot = None /\ Goto("matched")
    <2>1. pc' = "matched" /\ cmd' = cmd /\ slot = None
      BY <1>3 DEF Goto
    <2>10. SuiteTypes' /\ Owners' /\ Agreement' /\ Threading'
      BY <1>1, <2>1, Quiet DEF Stays
    <2>11. Types'
      BY <1>1, <2>1 DEF RunInv, Stays, Types, Places, Recovering
    <2>12. Flow'
      BY <1>1, <2>1 DEF RunInv, Flow, Stays, SuitePhase, Deleting, Recovering
    <2>13. Slotted'
      BY <1>1, <2>1 DEF RunInv, Slotted, Stays
    <2>14. Running'
      BY <1>1, <2>1 DEF Running, SuitePhase, Deleting
    <2>15. Ending'
      BY <1>1, <2>1 DEF Ending, Removing
    <2>16. Tenant'
      BY <1>1, <2>1, Bounds DEF RunInv, Types, Tenant, Flow, Slotted, Stays, Gone, Absent, There,
         Finishing, Removing, Recovering
    <2> QED BY <2>10, <2>11, <2>12, <2>13, <2>14, <2>15, <2>16 DEF RunInv
  <1>4. CASE ~Bail /\ slot # None
    <2>1. slot.step \in Steps
      BY <1>4, Bounds DEF Operations
    <2>2. Matching(jm, slot.step) # {}
      BY <1>4, FS_EmptySet DEF MatchPending
    <2>3. PICK c : c \in Matching(jm, slot.step) /\ pc' = "do"
                   /\ cmd' = [cmd EXCEPT !.resumed = TRUE, !.call = "sent", !.step = c[2]]
      BY <1>4, <2>2 DEF MatchPending
    <2>4. c[2] \in Steps /\ Payload(c[2]) = Payload(slot.step) /\ (jm = None => c[2] = "Describe")
      BY <2>1, <2>3, MatchingSteps
    <2>5. /\ cmd' \in Commands /\ cmd'.ctx = cmd.ctx /\ ~cmd'.cleaned /\ cmd'.resumed
          /\ cmd'.call = "sent" /\ Payload(cmd'.step) = Payload(slot.step) /\ cmd'.step = c[2]
      BY <1>1, <2>3, <2>4 DEF Commands
    <2>6. jm = None => cmd'.step = "Describe"
      BY <2>4, <2>5
    <2>7. cmd'.step = "Create" => slot.step = "Create"
      BY <2>1, <2>5 DEF Payload, Steps
    <2>8. pc' = "do" BY <2>3
    <2>10. SuiteTypes' /\ Owners' /\ Agreement' /\ Threading'
      BY <1>1, <1>4, <2>5, <2>6, <2>7, <2>8, Quiet DEF Stays
    <2>11. Types'
      BY <1>1, <1>4, <2>5, <2>6, <2>7, <2>8 DEF RunInv, Stays, Types, Places
    <2>12. Flow'
      BY <1>1, <1>4, <2>5, <2>6, <2>7, <2>8 DEF RunInv, Flow, Stays, SuitePhase, Deleting
    <2>13. Slotted'
      BY <1>1, <1>4, <2>5, <2>6, <2>7, <2>8 DEF RunInv, Slotted, Settled, Stays, SuitePhase,
         Deleting, Closing, Finishing, Removing
    <2>14. Running'
      BY <1>1, <1>4, <2>5, <2>6, <2>7, <2>8 DEF Running, SuitePhase, Deleting
    <2>15. Ending'
      BY <1>1, <1>4, <2>5, <2>6, <2>7, <2>8 DEF Ending, Removing
    <2>16. Tenant'
      BY <1>1, <1>4, <2>5, <2>6, <2>7, <2>8, Bounds DEF RunInv, Types, Tenant, Flow, Slotted,
         Stays, Gone, Absent, There, Finishing, Removing
    <2> QED BY <2>10, <2>11, <2>12, <2>13, <2>14, <2>15, <2>16 DEF RunInv
  <1> QED BY <1>2, <1>3, <1>4 DEF MatchPending

LEMMA CleanResourcesKeeps ==
  ASSUME RunInv, CleanResources
  PROVE  RunInv'
  <1>1. /\ pc = "clean" /\ cmd.ctx # "setup" /\ Stays /\ cmd \in Commands /\ ~cmd.cleaned /\ jm # None
        /\ cmd.back \in {"judge", "begin", "prepare"}
    BY Bounds DEF RunInv, Types, CleanResources, Stays, targetVars, journalVars, Flow, Closing,
       Finishing, Removing, Recovering, Commands
  <1>2. \/ pc' = "tenant" /\ cmd' = cmd
        \/ \E step \in {"CleanupList", "Revoke"} : Ask(cmd, step, cmd.back)
        \/ Bail
    BY DEF CleanResources, Call, Goto
  <1>3. CASE Bail
    BY <1>1, <1>3, BailStays DEF Failing
  <1>4. CASE \E step \in {"CleanupList", "Revoke"} : Ask(cmd, step, cmd.back)
    <2>1. PICK step \in {"CleanupList", "Revoke"} : Ask(cmd, step, cmd.back)
      BY <1>4
    <2>2. Asking(cmd.ctx, step, cmd.back)
      BY <1>1, <2>1, AskTells DEF Steps
    <2> QED BY <1>1, <2>2, AskStays DEF Steps, Building
  <1>5. CASE pc' = "tenant" /\ cmd' = cmd
    <2>10. SuiteTypes' /\ Owners' /\ Agreement' /\ Threading'
      BY <1>1, <1>5, Quiet DEF Stays
    <2>11. Types'
      BY <1>1, <1>5 DEF RunInv, Stays, Types, Places
    <2>12. Flow'
      BY <1>1, <1>5 DEF RunInv, Flow, Stays, SuitePhase, Deleting, Recovering
    <2>13. Slotted'
      BY <1>1, <1>5 DEF RunInv, Slotted, Settled, Stays
    <2>14. Running'
      BY <1>1, <1>5 DEF Running, SuitePhase, Deleting
    <2>15. Ending'
      BY <1>1, <1>5 DEF Ending, Removing
    <2>16. Tenant'
      BY <1>1, <1>5, Bounds DEF RunInv, Types, Tenant, Flow, Slotted, Stays, Gone, Absent, There,
         Finishing, Removing
    <2> QED BY <2>10, <2>11, <2>12, <2>13, <2>14, <2>15, <2>16 DEF RunInv
  <1> QED BY <1>2, <1>3, <1>4, <1>5

LEMMA CleanTenantKeeps ==
  ASSUME RunInv, CleanTenant
  PROVE  RunInv'
  <1>1. /\ pc = "tenant" /\ Stays /\ cmd \in Commands /\ ~cmd.cleaned /\ jm # None
        /\ cmd.ctx \notin {"start", "setup"}
        /\ cmd.back \in {"judge", "begin", "prepare"}
    BY Bounds DEF RunInv, Types, CleanTenant, Stays, targetVars, journalVars, Flow, Closing,
       Finishing, Removing, Recovering, Commands
  <1>2. \/ jm.tenantClean /\ TenantDone
        \/ \E step \in {"Disable", "Finalize"} : Ask(cmd, step, cmd.back)
        \/ Ask(cmd, "Describe", "prepare")
    BY DEF CleanTenant, Call
  <1>3. CASE Ask(cmd, "Describe", "prepare")
    <2>1. Asking(cmd.ctx, "Describe", "prepare")
      BY <1>1, <1>3, AskTells DEF Steps
    <2> QED BY <1>1, <2>1, AskStays DEF Steps, Building
  <1>4. CASE \E step \in {"Disable", "Finalize"} : Ask(cmd, step, cmd.back)
    <2>1. PICK step \in {"Disable", "Finalize"} : Ask(cmd, step, cmd.back)
      BY <1>4
    <2>2. Asking(cmd.ctx, step, cmd.back)
      BY <1>1, <2>1, AskTells DEF Steps
    <2> QED BY <1>1, <2>2, AskStays DEF Steps, Building
  <1>5. CASE jm.tenantClean /\ TenantDone
    <2>1. /\ cmd' \in Commands /\ cmd'.ctx = cmd.ctx /\ cmd'.resumed = cmd.resumed
          /\ \/ cmd.ctx = "end" /\ pc' = "settle"
             \/ cmd.ctx = "fail" /\ pc' = "finish" /\ ~cmd'.cleaned
             \/ cmd.ctx = "recfail" /\ pc' = "exit" /\ ~cmd'.cleaned
             \/ cmd.ctx = "rec" /\ pc' \in {"auth", "scrub"} /\ ~cmd'.cleaned
             \/ /\ cmd.ctx = "rec" /\ pc' = "publish" /\ ~cmd'.cleaned
                /\ jm.disposition = "retained"
      <3>1. cmd.ctx \in {"end", "fail", "recfail", "rec"}
        BY <1>1 DEF Commands
      <3>2. CASE cmd.ctx = "end" BY ZenonT(60), <1>1, <1>5, <3>2 DEF TenantDone, Commands
      <3>3. CASE cmd.ctx = "fail" BY <1>1, <1>5, <3>3 DEF TenantDone, Goto
      <3>4. CASE cmd.ctx = "recfail" BY <1>1, <1>5, <3>4 DEF TenantDone, Quit, Commands
      <3>5. CASE cmd.ctx = "rec"
        <4>1. /\ cmd' = cmd
              /\ pc' = IF cmd.pass = 1 THEN "auth"
                       ELSE IF jm.disposition = "retained" THEN "publish" ELSE "scrub"
          BY <1>5, <3>5 DEF TenantDone, Goto
        <4> QED BY <1>1, <3>5, <4>1
      <3> QED BY <3>1, <3>2, <3>3, <3>4, <3>5
    <2>10. SuiteTypes' /\ Owners' /\ Agreement' /\ Threading'
      BY <1>1, <1>5, <2>1, Quiet DEF Stays
    <2>11. Types'
      BY <1>1, <1>5, <2>1 DEF RunInv, Stays, Types, Places, Closing, Finishing, Recovering
    <2>12. Flow'
      BY <1>1, <1>5, <2>1 DEF RunInv, Flow, Stays, SuitePhase, Deleting, Closing, Recovering
    <2>13. Slotted'
      BY <1>1, <1>5, <2>1 DEF RunInv, Slotted, Settled, Stays
    <2>14. Running'
      BY <1>1, <1>5, <2>1 DEF Running, SuitePhase, Deleting
    <2>15. Ending'
      BY <1>1, <1>5, <2>1 DEF Ending, Stays, Removing
    <2>16. Tenant'
      BY <1>1, <1>5, <2>1, Bounds DEF RunInv, Types, Tenant, Flow, Slotted, Stays, Gone, Absent,
         There
    <2> QED BY <2>10, <2>11, <2>12, <2>13, <2>14, <2>15, <2>16 DEF RunInv
  <1> QED BY <1>2, <1>3, <1>4, <1>5

LEMMA FinaleKeeps ==
  ASSUME RunInv, Finale
  PROVE  RunInv'
  <1>1. /\ pc = "finale" /\ cmd \in Commands /\ jm # None
        /\ UNCHANGED <<jm, jd, suitePart, slot, tenant, files, opt, kills, faults>>
    BY Bounds DEF RunInv, Types, Finale, targetVars, journalVars, Flow, Recovering
  <1>2. \/ pc' = "finish" /\ cmd' = cmd /\ cmd.cleaned /\ SuiteSettled(jm)
        \/ pc' = "exit" /\ cmd' = [cmd EXCEPT !.exit = "failed"]
    BY DEF Finale, Goto, Quit
  <1>3. /\ cmd' \in Commands /\ cmd'.ctx = cmd.ctx /\ cmd'.resumed = cmd.resumed
        /\ cmd'.cleaned = cmd.cleaned
    BY <1>1, <1>2 DEF Commands
  <1>4. SuiteTypes' /\ Owners' /\ Threading'
    <2>1. UNCHANGED <<suite, rep, wk, queue, run>>
      BY <1>1 DEF suitePart
    <2>2. SuiteTypes' BY <1>1, <2>1 DEF RunInv, SuiteTypes
    <2>3. Owners' BY <1>1, <2>1 DEF RunInv, Owners, Vouches, Consistent, Owns, Live
    <2>4. Threading' BY <1>1, <2>1 DEF RunInv, Threading
    <2> QED BY <2>2, <2>3, <2>4
  <1>5. Agreement'
    BY <1>1, <1>2 DEF RunInv, Agreement, Owners, Vouches, Consistent, SuiteSettled
  <1>11. Types'
    BY <1>1, <1>2, <1>3 DEF RunInv, Types, Places, Finishing
  <1>12. Flow'
    BY <1>1, <1>2, <1>3 DEF RunInv, Flow, SuitePhase, Deleting, Finishing, Recovering
  <1>13. Slotted'
    BY <1>1, <1>2, <1>3 DEF RunInv, Slotted, Settled, SuitePhase, Deleting, Closing, Finishing,
       Removing
  <1>14. Running'
    BY <1>1, <1>2 DEF Running, SuitePhase, Deleting
  <1>15. Ending'
    BY <1>1, <1>2, <1>3 DEF Ending, Removing
  <1>16. Tenant'
    BY <1>1, <1>2, <1>3, Bounds DEF RunInv, Types, Tenant, Flow, Slotted, Gone, Absent, There,
       Finishing, Removing
  <1> QED BY <1>4, <1>5, <1>11, <1>12, <1>13, <1>14, <1>15, <1>16 DEF RunInv

LEMMA WriteMaterialKeeps ==
  ASSUME RunInv, WriteMaterial
  PROVE  RunInv'
  <1>1. /\ pc = "write" /\ cmd \in Commands /\ ~cmd.cleaned /\ jm = None /\ jd = None
        /\ UNCHANGED <<jm, jd, suitePart, slot, tenant, opt, kills>> /\ faults' \in Nat
        /\ ~files.begun
    BY Bounds, Charged DEF RunInv, Types, WriteMaterial, targetVars, journalVars, Flow, Owners
  <1>2. \/ Bail /\ files' = [files EXCEPT !.material = FALSE]
        \/ /\ Ask([cmd EXCEPT !.ctx = "start"], "Describe", "begin")
           /\ files' = [files EXCEPT !.material = TRUE]
    BY DEF WriteMaterial
  <1>3. /\ files' \in [begun : BOOLEAN, material : BOOLEAN, staged : SUBSET Plans, published : SUBSET Plans]
        /\ files'.begun = files.begun /\ files'.published = files.published
    BY <1>2 DEF RunInv, Types
  <1>4. SuiteTypes' /\ Owners' /\ Agreement' /\ Threading'
    BY <1>1, <1>3, Quiet
  <1>5. CASE Bail /\ files' = [files EXCEPT !.material = FALSE]
    <2>1. Truthful' BY <1>1 DEF Truthful
    <2>2. Other' BY <1>1, <1>5, <2>1, Bailed DEF Failing
    <2> QED BY <1>4, <2>2, InvSplits
  <1>6. CASE Ask([cmd EXCEPT !.ctx = "start"], "Describe", "begin")
    <2> DEFINE c == [cmd EXCEPT !.ctx = "start"]
    <2>1. c \in Commands /\ ~c.cleaned /\ c.ctx = "start"
      BY <1>1 DEF Commands
    <2>2. Asking("start", "Describe", "begin")
      BY <1>6, <2>1, AskTells DEF Steps
    <2>3. Truthful' BY <1>1 DEF Truthful
    <2>4. Other' BY <1>1, <1>3, <2>2, <2>3, Asked DEF Steps, Building
    <2> QED BY <1>4, <2>4, InvSplits
  <1> QED BY <1>2, <1>5, <1>6

LEMMA StageManifestKeeps ==
  ASSUME RunInv, StageManifest
  PROVE  RunInv'
  <1>1. /\ pc = "stage" /\ cmd \in Commands /\ jm \in Journals
        /\ UNCHANGED <<jm, jd, suitePart, slot, tenant, opt, kills>> /\ faults' \in Nat
    BY Bounds, Charged DEF RunInv, Types, StageManifest, targetVars, journalVars, Flow
  <1>2. /\ \/ pc' = "commit" /\ cmd' = cmd
           \/ pc' = "scrub" /\ cmd' = [cmd EXCEPT !.errs = TRUE]
        /\ files' = files \/ files' = [files EXCEPT !.staged = jm.kept]
    BY DEF StageManifest, Goto, RunInv, Types
  <1>3. /\ files' \in [begun : BOOLEAN, material : BOOLEAN, staged : SUBSET Plans, published : SUBSET Plans]
        /\ files'.begun = files.begun /\ files'.published = files.published
        /\ files'.material = files.material
    BY <1>1, <1>2 DEF RunInv, Types, Journals
  <1>4. /\ cmd' \in Commands /\ cmd'.ctx = cmd.ctx /\ cmd'.resumed = cmd.resumed
        /\ cmd'.cleaned = cmd.cleaned /\ pc' \in {"commit", "scrub"}
    BY <1>1, <1>2 DEF Commands
  <1>10. SuiteTypes' /\ Owners' /\ Agreement' /\ Threading'
    BY <1>1, <1>3, Quiet
  <1>11. Types'
    BY <1>1, <1>3, <1>4 DEF RunInv, Types, Places, Closing
  <1>12. Flow'
    BY <1>1, <1>3, <1>4 DEF RunInv, Flow, Closing, Recovering
  <1>13. Slotted'
    BY <1>1, <1>3, <1>4 DEF RunInv, Slotted, Flow, Settled, SuitePhase, Deleting, Finishing,
       Removing
  <1>14. Running'
    BY <1>1, <1>3, <1>4 DEF Running, SuitePhase, Deleting
  <1>15. Ending'
    BY <1>1, <1>3, <1>4 DEF Ending, Removing
  <1>16. Tenant'
    BY <1>1, <1>3, <1>4, Bounds DEF RunInv, Types, Tenant, Flow, Slotted, Gone, Absent, There,
       Finishing, Removing
  <1> QED BY <1>10, <1>11, <1>12, <1>13, <1>14, <1>15, <1>16 DEF RunInv

LEMMA RemoveMaterialKeeps ==
  ASSUME RunInv, RemoveMaterial
  PROVE  RunInv'
  <1>1. /\ pc = "unlink" /\ cmd \in Commands /\ jm # None
        /\ UNCHANGED <<jm, jd, suitePart, slot, tenant, opt, kills>>
    BY Bounds DEF RunInv, Types, RemoveMaterial, targetVars, journalVars, Flow, Recovering
  <1>2. PICK r : /\ r \in (IF ~jm.removed THEN Outcomes({"undeleted"})
                         ELSE IF files.material THEN {"remains"} ELSE {"ok"})
                 /\ Charge(IF r = "remains" THEN "ok" ELSE r)
                 /\ files' = [files EXCEPT !.material = files.material /\ r # "ok"]
                 /\ IF r = "ok" THEN Goto("unlinked") ELSE Quit("failed")
    BY DEF RemoveMaterial
  <1>3. /\ files' \in [begun : BOOLEAN, material : BOOLEAN, staged : SUBSET Plans, published : SUBSET Plans]
        /\ files'.begun = files.begun /\ files'.published = files.published
        /\ r = "ok" => ~files'.material
        /\ files'.material => files.material
    <2> DEFINE m == files.material /\ r # "ok"
    <2>1. m \in BOOLEAN /\ (m => files.material) /\ (r = "ok" => ~m)
      BY DEF RunInv, Types
    <2>2. files' = [files EXCEPT !.material = m]
      BY <1>2
    <2> HIDE DEF m
    <2> QED BY <2>1, <2>2 DEF RunInv, Types
  <1>5. faults' \in Nat
    BY <1>2, Bounds, Charged
  <1>4. /\ cmd' \in Commands /\ cmd'.ctx = cmd.ctx /\ cmd'.resumed = cmd.resumed
        /\ cmd'.cleaned = cmd.cleaned /\ pc' \in {"unlinked", "exit"}
        /\ pc' = "unlinked" => ~files'.material
    BY <1>1, <1>2, <1>3 DEF Commands, Goto, Quit
  <1>10. SuiteTypes' /\ Owners' /\ Agreement' /\ Threading'
    BY <1>1, <1>3, <1>4, <1>5, Quiet
  <1>11. Types'
    BY <1>1, <1>3, <1>4, <1>5 DEF RunInv, Types, Places, Finishing, Removing
  <1>12. Flow'
    BY <1>1, <1>3, <1>4, <1>5 DEF RunInv, Flow, SuitePhase, Deleting, Finishing, Removing,
       Recovering
  <1>13. Slotted'
    BY <1>1, <1>3, <1>4, <1>5 DEF RunInv, Types, Slotted, Settled, Finishing, Removing
  <1>14. Running'
    BY <1>1, <1>3, <1>4, <1>5 DEF Running, SuitePhase, Deleting
  <1>15. Ending'
    BY <1>1, <1>3, <1>4, <1>5 DEF RunInv, Ending, Removing, Unpublished
  <1>16. Tenant'
    BY <1>1, <1>3, <1>4, <1>5, Bounds DEF RunInv, Types, Tenant, Flow, Slotted, Settled, Gone,
       Absent, There, Finishing, Removing
  <1> QED BY <1>10, <1>11, <1>12, <1>13, <1>14, <1>15, <1>16 DEF RunInv

LEMMA LoseAnswerKeeps ==
  ASSUME RunInv, LoseAnswer
  PROVE  RunInv'
  <1>1. pc = "do" /\ Stays /\ Bail
    BY Bounds, Charged DEF LoseAnswer, Stays, suitePart, targetVars, journalVars
  <1> QED BY <1>1, BailStays DEF Failing

LEMMA RejectOperationKeeps ==
  ASSUME RunInv, RejectOperation
  PROVE  RunInv'
  <1>1. /\ pc = "do" /\ Bail /\ slot' = None
        /\ UNCHANGED <<jm, jd, suitePart, tenant, files, opt, kills>> /\ faults' \in Nat
    BY Bounds, Charged DEF RejectOperation, journalVars
  <1>2. SuiteTypes' /\ Owners' /\ Agreement' /\ Threading'
    BY <1>1, Quiet
  <1>3. Truthful' BY <1>1, TruthKnown DEF Truthful, Absent
  <1>4. Other' BY <1>1, <1>3, Bailed DEF Failing
  <1> QED BY <1>2, <1>4, InvSplits

(* The operation as it is put in the slot.                                    *)
Sent == [step |-> cmd.step, res |-> "none", present |-> FALSE]
Sends == pc' = "do" /\ cmd' = [cmd EXCEPT !.call = "sent"]

LEMMA PrepareOperationKeeps ==
  ASSUME RunInv, PrepareOperation
  PROVE  RunInv'
  <1>1. /\ pc = "do" /\ cmd.call = "idle" /\ cmd \in Commands /\ ~cmd.cleaned
        /\ UNCHANGED <<jm, jd, suitePart, tenant, files, opt, kills>>
    BY DEF RunInv, Types, PrepareOperation, journalVars, Flow, Closing, Finishing, Removing
  <1>2. /\ faults' \in Nat
        /\ \/ slot' = slot /\ Bail
           \/ Sends /\ (slot' = Sent \/ (slot # None /\ slot' = slot /\ Payload(slot.step) = Payload(cmd.step)))
           \/ slot = None /\ slot' = Sent /\ Bail
    <2>1. CASE slot = None
      <3>1. PICK r \in Outcomes({"lost", "late"}) :
              /\ Charge(r)
              /\ slot' = IF r = "lost" THEN None ELSE Sent
              /\ IF r = "ok" THEN cmd' = [cmd EXCEPT !.call = "sent"] /\ pc' = pc ELSE Bail
        BY <2>1 DEF PrepareOperation, Sent
      <3>2. faults' \in Nat BY <3>1, Bounds, Charged
      <3>3. CASE r = "ok"
        <4>1. slot' = Sent BY <3>1, <3>3
        <4>2. Sends BY <1>1, <3>1, <3>3 DEF Sends
        <4> QED BY <3>2, <4>1, <4>2
      <3>4. CASE r = "lost" BY <2>1, <3>1, <3>2, <3>4
      <3>5. CASE r # "ok" /\ r # "lost" BY <2>1, <3>1, <3>2, <3>5
      <3> QED BY <3>3, <3>4, <3>5
    <2>2. CASE slot # None
      BY <1>1, <2>2, Bounds DEF PrepareOperation, Sends
    <2> QED BY <2>1, <2>2
  <1>3. Sent \in Operations /\ Sent # None
    <2>1. cmd.step \in Steps BY <1>1 DEF Commands
    <2>2. Sent \in Operations BY <2>1 DEF Operations, Sent
    <2> QED BY <2>2, Bounds
  <1>4. SuiteTypes' /\ Owners' /\ Agreement' /\ Threading'
    BY <1>1, <1>2, Quiet
  <1>5. CASE slot' = slot /\ Bail
    <2>1. Truthful' BY <1>1, <1>5, TruthKnown DEF Truthful, Absent
    <2>2. Other' BY <1>1, <1>5, <2>1, Bailed DEF Failing
    <2> QED BY <1>4, <2>2, InvSplits
  <1>6. CASE Sends /\ (slot' = Sent \/ (slot # None /\ slot' = slot /\ Payload(slot.step) = Payload(cmd.step)))
    <2>1. /\ cmd' \in Commands /\ cmd'.ctx = cmd.ctx /\ cmd'.resumed = cmd.resumed
          /\ ~cmd'.cleaned /\ pc' = "do" /\ cmd'.step = cmd.step /\ cmd'.back = cmd.back
          /\ cmd'.call = "sent"
      BY <1>1, <1>6 DEF Commands, Sends
    <2>2. /\ slot' \in Operations /\ slot' # None /\ Payload(slot'.step) = Payload(cmd.step)
          /\ slot' = slot \/ (slot'.step = cmd.step /\ slot'.res = "none")
      <3>1. CASE slot' = Sent
        <4>1. Sent.step = cmd.step /\ Sent.res = "none" BY DEF Sent
        <4> QED BY <1>3, <3>1, <4>1
      <3>2. CASE slot # None /\ slot' = slot /\ Payload(slot.step) = Payload(cmd.step)
        BY <3>2, Bounds
      <3> QED BY <1>6, <3>1, <3>2
    <2>10. SuiteTypes' /\ Owners' /\ Agreement' /\ Threading'
      BY <1>4
    <2>11. Types'
      BY <1>1, <2>1, <2>2 DEF RunInv, Types
    <2>12. Flow'
      BY <1>1, <2>1, <2>2 DEF RunInv, Flow
    <2>13. Slotted'
      BY <1>1, <2>1, <2>2 DEF RunInv, Slotted, Settled, SuitePhase, Deleting, Closing, Finishing,
         Removing
    <2>14. Running'
      BY <1>1, <2>1 DEF Running, SuitePhase, Deleting
    <2>15. Ending'
      BY <1>1, <2>1, <2>2 DEF Ending, Removing
    <2>16. Tenant'
      BY <1>1, <2>1, <2>2, Bounds DEF RunInv, Types, Tenant, Flow, Slotted, Gone, Absent, There,
         Recovering
    <2> QED BY <2>10, <2>11, <2>12, <2>13, <2>14, <2>15, <2>16 DEF RunInv
  <1>7. CASE slot = None /\ slot' = Sent /\ Bail
    <2>1. /\ slot' \in Operations /\ slot' # None /\ slot'.step = cmd.step /\ slot'.res = "none"
      BY <1>1, <1>7, <1>3 DEF Sent
    <2>2. /\ pc' \in {"match", "settle", "exit"} /\ cmd' \in Commands
          /\ ~cmd'.cleaned /\ cmd'.resumed = cmd.resumed /\ cmd'.step = cmd.step
          /\ \/ cmd.ctx = "setup" /\ pc' = "match" /\ cmd'.ctx = "fail"
             \/ cmd.ctx = "end" /\ pc' = "settle" /\ cmd'.ctx = "end"
             \/ cmd.ctx \notin {"setup", "end"} /\ pc' = "exit" /\ cmd'.ctx = cmd.ctx
      BY <1>1, <1>7 DEF Bail, Commands
    <2>3. jm # None \/ ~files.begun \/ cmd.resumed
      BY <1>1 DEF RunInv, Flow
    <2>10. SuiteTypes' /\ Owners' /\ Agreement' /\ Threading'
      BY <1>4
    <2>11. Types'
      BY <1>1, <1>7, <2>1, <2>2, <2>3 DEF RunInv, Types, Places, Closing, Recovering
    <2>12. Flow'
      BY <1>1, <1>7, <2>1, <2>2, <2>3 DEF RunInv, Flow, SuitePhase, Deleting, Recovering
    <2>13. Slotted'
      BY <1>1, <1>7, <2>1, <2>2, <2>3 DEF RunInv, Slotted, Settled, SuitePhase, Deleting, Closing,
         Finishing, Removing
    <2>14. Running'
      BY <1>1, <1>7, <2>1, <2>2 DEF Running, SuitePhase, Deleting
    <2>15. Ending'
      BY <1>1, <1>7, <2>1, <2>2, <2>3 DEF Ending, Removing
    <2>16. Tenant'
      BY <1>1, <1>7, <2>1, <2>2, <2>3, Bounds DEF RunInv, Types, Tenant, Flow, Slotted, Gone,
         Absent, There, Finishing, Removing, Recovering
    <2> QED BY <2>10, <2>11, <2>12, <2>13, <2>14, <2>15, <2>16 DEF RunInv
  <1> QED BY <1>2, <1>5, <1>6, <1>7

LEMMA ServeKeeps ==
  ASSUME RunInv, Serve
  PROVE  RunInv'
  <1>1. /\ UNCHANGED <<pc, jm, jd, suitePart, files, cmd, opt, kills>>
        /\ slot # None /\ slot.res = "none" /\ slot \in Operations
    BY Bounds DEF Serve, journalVars
  <1>2. PICK r : /\ r \in (IF ~Allowed(slot.step) THEN {"refused"}
                         ELSE IF slot.step = "Describe" THEN {"ok"} ELSE Outcomes({"failed"}))
                 /\ Charge(IF r = "refused" THEN "ok" ELSE r)
                 /\ tenant' = IF r = "ok" THEN Performed(slot.step) ELSE tenant
                 /\ slot' = [slot EXCEPT
                              !.res = IF r = "ok" THEN "ok" ELSE "failed",
                              !.present = IF slot.step = "Describe"
                                          THEN tenant.st \in {"active", "disabled"}
                                          ELSE r = "ok" /\ tenant.res]
    BY DEF Serve
  <1>3. faults' \in Nat
    BY <1>2, Bounds, Charged
  <1>4. /\ slot' \in Operations /\ slot' # None /\ slot'.step = slot.step
        /\ slot'.res = IF r = "ok" THEN "ok" ELSE "failed"
        /\ slot.step = "Describe" => slot'.present = There
    <2> DEFINE b == IF slot.step = "Describe" THEN tenant.st \in {"active", "disabled"}
                    ELSE r = "ok" /\ tenant.res
    <2>1. b \in BOOLEAN /\ (slot.step = "Describe" => b = There)
      <3>1. tenant.res \in BOOLEAN
        BY DEF RunInv, Types
      <3>2. CASE slot.step = "Describe"
        BY <3>2 DEF There
      <3>3. CASE slot.step # "Describe"
        BY <3>1, <3>3
      <3> QED BY <3>2, <3>3
    <2>2. slot' = [slot EXCEPT !.res = IF r = "ok" THEN "ok" ELSE "failed", !.present = b]
      BY <1>2
    <2> HIDE DEF b
    <2>3. slot' \in Operations
      BY <1>1, <2>1, <2>2 DEF Operations
    <2> QED BY <1>1, <2>1, <2>2, <2>3, Bounds DEF Operations
  <1>5. /\ tenant' \in [st : {"none", "active", "disabled", "gone"}, res : BOOLEAN]
        /\ tenant'.st \notin {"active", "disabled"} => ~tenant'.res
        /\ r = "ok" /\ slot.step = "Finalize" => tenant'.st = "gone"
        /\ r # "ok" \/ slot.step = "Describe" => tenant' = tenant
        /\ tenant.st = "gone" \/ (tenant.st = "none" /\ slot.step # "Create") => tenant' = tenant
    <2>1. /\ tenant \in [st : {"none", "active", "disabled", "gone"}, res : BOOLEAN]
          /\ tenant.st \notin {"active", "disabled"} => ~tenant.res
      BY DEF RunInv, Types, Tenant, There
    <2>2. CASE r # "ok"
      BY <1>2, <2>1, <2>2
    <2>3. CASE r = "ok"
      <3>1. tenant' = Performed(slot.step) /\ Allowed(slot.step) /\ slot.step \in Steps
        BY <1>1, <1>2, <2>3 DEF Operations
      <3> QED BY <2>1, <2>3, <3>1 DEF Performed, Allowed, Steps
    <2> QED BY <2>2, <2>3
  <1>6. /\ pc \notin Settled
        /\ ~(pc \in {"publish", "scrub", "erase"} /\ cmd.ctx # "end")
        /\ ~(files.begun /\ jd = None)
    BY <1>1 DEF RunInv, Slotted, Closing, Tenant
  <1>7. SuiteTypes' /\ Owners' /\ Agreement' /\ Threading'
    BY <1>1, <1>3, Quiet
  <1>8. Types' BY <1>1, <1>4, <1>5 DEF RunInv, Types
  <1>9. Flow' BY <1>1 DEF RunInv, Flow
  <1>10. Slotted' BY <1>1, <1>4, <1>6 DEF RunInv, Slotted
  <1>11. Running'
    <2>1. UNCHANGED <<pc, jm, jd, suite, rep, wk, queue, run>>
      BY <1>1 DEF suitePart
    <2> QED BY <2>1 DEF RunInv, Running, Uncreated, NextPlan, FirstOf, Live
  <1>12. Ending'
    <2>1. UNCHANGED <<pc, jm, jd, suite, rep, wk, queue, run, files>>
      BY <1>1 DEF suitePart
    <2> QED BY <2>1 DEF RunInv, Ending, SuiteSettled, Unpublished, Live
  <1>13. Tenant'
    <2>1. Gone => tenant' = tenant /\ Gone'
      BY <1>1, <1>4, <1>5 DEF Gone, Absent
    <2>2. pc \notin {"judge", "absent"} \cup Finishing
      BY <1>6 DEF Settled
    <2> QED BY <1>1, <1>4, <1>5, <2>1, <2>2 DEF RunInv, Tenant, There
  <1> QED BY <1>7, <1>8, <1>9, <1>10, <1>11, <1>12, <1>13 DEF RunInv

(* The operation is over: its answer is durable and the slot is freed.        *)
Answered == [cmd EXCEPT !.call = "idle", !.present = slot.present]

LEMMA ClearSlotKeeps ==
  ASSUME RunInv, ClearSlot
  PROVE  RunInv'
  <1>1. /\ pc = "do" /\ cmd.call = "saved" /\ cmd \in Commands /\ ~cmd.cleaned
        /\ UNCHANGED <<jm, jd, suitePart, tenant, files, opt, kills>>
        /\ slot # None /\ slot \in Operations /\ slot.res # "none"
        /\ Payload(slot.step) = Payload(cmd.step)
    BY Bounds DEF RunInv, Types, ClearSlot, Slotted, journalVars, Flow, Finishing, Removing
  <1>2. /\ Answered \in Commands /\ ~Answered.cleaned
        /\ Answered.ctx = cmd.ctx /\ Answered.step = cmd.step /\ Answered.back = cmd.back
        /\ Answered.resumed = cmd.resumed /\ Answered.present = slot.present
        /\ Answered.call = "idle"
    BY <1>1 DEF Answered, Commands, Operations
  <1>3. /\ faults' \in Nat
        /\ \/ slot' \in {slot, None} /\ Bail
           \/ /\ slot' = None /\ cmd' = Answered
              /\ \/ pc' = "reset" /\ cmd.step \in {"Disable", "Finalize"}
                 \/ pc' = "matched" /\ cmd.resumed
           \/ /\ slot' = None /\ Proceed(Answered)
              /\ slot.res # "failed" /\ ~cmd.resumed
    <2>1. PICK r \in Outcomes({"uncleared"}) :
            /\ Charge(r)
            /\ slot' = IF r = "ok" THEN None ELSE slot
            /\ IF r # "ok" THEN Bail
               ELSE IF slot.res = "failed" /\ cmd.step \in {"Disable", "Finalize"}
               THEN pc' = "reset" /\ cmd' = Answered
               ELSE IF slot.res = "failed" /\ (~cmd.resumed \/ cmd.step = "Describe") THEN Bail
               ELSE IF cmd.resumed THEN pc' = "matched" /\ cmd' = Answered
               ELSE Proceed(Answered)
      BY DEF ClearSlot, Answered
    <2>2. faults' \in Nat BY <2>1, Bounds, Charged
    <2> QED BY <2>1, <2>2
  <1>4. SuiteTypes' /\ Owners' /\ Agreement' /\ Threading'
    BY <1>1, <1>3, Quiet
  <1>5. CASE slot' \in {slot, None} /\ Bail
    <2>1. Truthful' BY <1>1, <1>5, TruthKnown DEF Truthful, Absent
    <2>2. Other' BY <1>1, <1>5, <2>1, Bailed DEF Failing
    <2> QED BY <1>4, <2>2, InvSplits
  <1>6. CASE /\ slot' = None /\ cmd' = Answered
             /\ \/ pc' = "reset" /\ cmd.step \in {"Disable", "Finalize"}
                \/ pc' = "matched" /\ cmd.resumed
    <2>1. cmd.step # "Describe" => jm # None
      BY <1>1 DEF RunInv, Flow
    <2>2. cmd' = Answered /\ slot' = None BY <1>6
    <2>10. SuiteTypes' /\ Owners' /\ Agreement' /\ Threading'
      BY <1>4
    <2>11. Types'
      BY <1>1, <1>2, <1>6, <2>1, <2>2 DEF RunInv, Types, Places, Recovering
    <2>12. Flow'
      BY <1>1, <1>2, <1>6, <2>1, <2>2 DEF RunInv, Flow, Building, SuitePhase, Deleting, Recovering
    <2>13. Slotted'
      BY <1>1, <1>2, <1>6, <2>1, <2>2 DEF RunInv, Slotted
    <2>14. Running'
      BY <1>1, <1>2, <1>6, <2>1 DEF Running, SuitePhase, Deleting
    <2>15. Ending'
      BY <1>1, <1>2, <1>6, <2>1, <2>2 DEF Ending, Removing
    <2>16. Tenant'
      BY <1>1, <1>2, <1>6, <2>1, <2>2, Bounds DEF RunInv, Types, Tenant, Flow, Slotted, Gone,
         Absent, There, Finishing, Removing
    <2> QED BY <2>10, <2>11, <2>12, <2>13, <2>14, <2>15, <2>16 DEF RunInv
  <1>7. CASE slot' = None /\ Proceed(Answered) /\ slot.res # "failed" /\ ~cmd.resumed
    <2>0. /\ cmd.step \in Steps /\ slot.step \in Steps /\ slot.res = "ok"
          /\ cmd.back \in {"judge", "begin", "prepare"}
      BY <1>1, <1>7 DEF Commands, Operations
    <2>1. CASE \E step \in {"KeyGen", "Apply"} :
                 Ask(Answered, step, Answered.back) /\ cmd.step \in {"Create", "Baseline"}
      <3>1. PICK step \in {"KeyGen", "Apply"} : Ask(Answered, step, Answered.back)
        BY <2>1
      <3>2. cmd.ctx = "setup" /\ jm # None /\ ~jm.suite
        BY <1>1, <1>7, <2>1 DEF RunInv, Flow, Building
      <3>3. Asking("setup", step, Answered.back)
        BY <1>2, <2>0, <3>1, <3>2, AskTells DEF Steps
      <3>4. Truthful' BY <1>1, <1>7, TruthKnown DEF Truthful, Absent
      <3>6. step \in Steps /\ step \in Building /\ step \notin {"Create", "Describe"}
        BY <3>1 DEF Steps, Building
      <3>5. Other'
        BY <1>1, <1>7, <3>2, <3>3, <3>4, <3>6, Asked, Bounds DEF RunInv, Types
      <3> QED BY <1>4, <3>5, InvSplits
    <2>2. CASE Ask(Answered, "Describe", "prepare") /\ cmd.step = "KeyGen"
      <3>2. cmd.ctx = "setup" /\ jm # None /\ ~jm.suite
        BY <1>1, <1>7, <2>2 DEF RunInv, Flow, Building
      <3>3. Asking("setup", "Describe", "prepare")
        BY <1>2, <2>0, <2>2, <3>2, AskTells DEF Steps
      <3>4. Truthful' BY <1>1, <1>7, TruthKnown DEF Truthful, Absent
      <3>5. Other'
        BY <1>1, <1>7, <3>2, <3>3, <3>4, Asked, Bounds DEF Steps, RunInv, Types
      <3> QED BY <1>4, <3>5, InvSplits
    <2>3. CASE /\ cmd' = Answered
               /\ \/ cmd.step = "Describe" /\ pc' = cmd.back
                  \/ cmd.step = "Reload" /\ pc' = "probe"
                  \/ cmd.step = "Apply" /\ pc' = "mapped"
                  \/ cmd.step = "Disable" /\ pc' = "tenant"
                  \/ cmd.step = "Finalize" /\ pc' = "absent"
                  \/ cmd.step \in {"CleanupList", "Revoke"} /\ pc' = "clean"
      <3>1. jm = None => cmd.ctx = "start" /\ cmd.step = "Describe" /\ cmd.back = "begin"
        BY <1>1, <1>7 DEF RunInv, Flow
      <3>2. cmd.step \in {"Describe", "Finalize"} => slot.step = cmd.step
        BY <1>1, <2>0 DEF Payload, Steps
      <3>3. /\ cmd.step \in Building => cmd.ctx = "setup"
            /\ cmd.ctx = "setup" => cmd.step \in Building \/ (cmd.step = "Describe" /\ cmd.back = "prepare")
            /\ cmd.ctx = "setup" => ~jm.suite
            /\ cmd.step = "Describe" /\ cmd.back = "begin" => cmd.ctx = "start"
            /\ cmd.ctx = "start" => /\ jm = None /\ ~files.begun
                                    /\ cmd.step = "Describe" /\ cmd.back = "begin"
        BY <1>1, <1>7 DEF RunInv, Flow
      <3>4. cmd' = Answered /\ slot' = None /\ slot.res = "ok"
        BY <1>7, <2>0, <2>3
      <3>10. SuiteTypes' /\ Owners' /\ Agreement' /\ Threading'
        BY <1>4
      <3>11. Types'
        BY <1>1, <1>2, <2>0, <2>3, <3>1, <3>2, <3>3, <3>4 DEF RunInv, Types, Places
      <3>12. Flow'
        BY <1>1, <1>2, <2>0, <2>3, <3>1, <3>2, <3>3, <3>4 DEF RunInv, Flow, Building, SuitePhase,
           Deleting, Recovering
      <3>13. Slotted'
        BY <1>1, <1>2, <2>0, <2>3, <3>1, <3>2, <3>3, <3>4 DEF RunInv, Slotted
      <3>14. Running'
        BY <1>1, <1>2, <2>0, <2>3, <3>1, <3>2, <3>3 DEF Running, SuitePhase, Deleting
      <3>15. Ending'
        BY <1>1, <1>2, <2>0, <2>3, <3>1, <3>2, <3>3, <3>4 DEF Ending, Removing
      <3>16. Tenant'
        BY <1>1, <1>2, <2>0, <2>3, <3>1, <3>2, <3>3, <3>4, Bounds DEF RunInv, Types, Tenant, Flow,
           Slotted, Gone, Absent, There, Finishing, Removing
      <3> QED BY <3>10, <3>11, <3>12, <3>13, <3>14, <3>15, <3>16 DEF RunInv
    <2> QED
      BY <1>2, <1>7, <2>0, <2>1, <2>2, <2>3 DEF Proceed, Steps
  <1> QED BY <1>3, <1>5, <1>6, <1>7

LEMMA TenantAbsentKeeps ==
  ASSUME RunInv, TenantAbsent
  PROVE  RunInv'
  <1> DEFINE new == MarkAbsent(jm)
  <1>1. /\ pc = "absent" /\ jm \in Journals /\ jm # None /\ slot = None
        /\ UNCHANGED <<suitePart, slot, tenant, files, opt, kills>> /\ tenant.st = "gone"
        /\ cmd \in Commands /\ ~cmd.cleaned /\ cmd.ctx # "setup"
    BY Bounds DEF RunInv, Types, TenantAbsent, Slotted, Settled, Tenant, targetVars, Flow, Closing,
       Finishing, Removing, Recovering
  <1>2. PICK r : Save(new, r) /\ (Bail \/ (pc' = "tenant" /\ cmd' = cmd))
    BY DEF TenantAbsent, Goto
  <1>3. new \in Journals /\ Same(jm, new) /\ Absent
    BY <1>1, AbsenceMarked DEF Absent
  <1> HIDE DEF new
  <1>4. CASE Bail
    BY <1>1, <1>2, <1>3, <1>4, BailSaved DEF Failing
  <1>5. CASE pc' = "tenant" /\ cmd' = cmd
    <2>1. jm' = new /\ jd' \in {jd, new} /\ new # None /\ jd # None /\ new \in Journals
      BY <1>1, <1>2, <1>3, Written, Bounds
    <2>10. SuiteTypes' /\ Owners' /\ Agreement' /\ Threading'
      BY <1>1, <1>2, <1>3, TenantSaved
    <2>11. Types'
      BY <1>1, <1>5 DEF RunInv, Types, Places
    <2>12. Flow'
      BY <1>1, <1>5, <2>1 DEF RunInv, Flow, SuitePhase, Deleting, Recovering
    <2>13. Slotted'
      BY <1>1, <1>5, <2>1 DEF Slotted
    <2>14. Running'
      BY <1>1, <1>5 DEF Running, SuitePhase, Deleting
    <2>15. Ending'
      BY <1>1, <1>5 DEF Ending, Removing
    <2>16. Tenant'
      BY <1>1, <1>5, <2>1, Bounds DEF RunInv, Types, Tenant, Flow, Gone, Absent, There, Finishing,
         Removing
    <2> QED BY <2>10, <2>11, <2>12, <2>13, <2>14, <2>15, <2>16 DEF RunInv
  <1> QED BY <1>2, <1>4, <1>5

LEMMA JudgeKeeps ==
  ASSUME RunInv, Judge
  PROVE  RunInv'
  <1> DEFINE new == MarkAbsent(jm)
             blocked == cmd.ctx = "rec" /\ jm.failure # None
             c == [cmd EXCEPT !.ctx = IF blocked THEN "recfail" ELSE @]
  <1>1. /\ pc = "judge" /\ jm \in Journals /\ jm # None /\ slot = None
        /\ UNCHANGED <<suitePart, slot, tenant, files, opt, kills>>
        /\ cmd \in Commands /\ ~cmd.cleaned /\ cmd.ctx \notin {"setup", "start"}
        /\ cmd.present = There
    BY Bounds DEF RunInv, Types, Judge, Slotted, Settled, Tenant, targetVars, Flow, Closing,
       Finishing, Removing, Recovering
  <1>2. c \in Commands /\ ~c.cleaned /\ (c.ctx = cmd.ctx \/ c.ctx = "recfail") /\ c.resumed = cmd.resumed
    BY <1>1 DEF Commands
  <1>3. \/ /\ pc' \in {"clean", "tenant"} /\ cmd' = c
           /\ UNCHANGED <<jm, jd, faults>>
        \/ /\ ~cmd.present
           /\ \E r : Save(new, r) /\ (Bail \/ (pc' \in {"clean", "tenant"} /\ cmd' = c))
    BY DEF Judge, journalVars
  <1>4. ASSUME ~cmd.present
        PROVE  new \in Journals /\ Same(jm, new) /\ Absent
    BY <1>1, <1>4, AbsenceMarked DEF Absent, There, RunInv, Types
  <1> HIDE DEF new, c
  <1>5. CASE pc' \in {"clean", "tenant"} /\ cmd' = c /\ UNCHANGED <<jm, jd, faults>>
    <2>1. Stays BY <1>1, <1>5, Bounds DEF Stays
    <2>10. SuiteTypes' /\ Owners' /\ Agreement' /\ Threading'
      BY <1>1, <1>2, <1>5, <2>1, Quiet DEF Stays
    <2>11. Types'
      BY <1>1, <1>2, <1>5, <2>1 DEF RunInv, Types, Places
    <2>12. Flow'
      BY <1>1, <1>2, <1>5, <2>1 DEF RunInv, Flow, SuitePhase, Deleting, Recovering
    <2>13. Slotted'
      BY <1>1, <1>2, <1>5, <2>1 DEF RunInv, Slotted
    <2>14. Running'
      BY <1>1, <1>2, <1>5 DEF Running, SuitePhase, Deleting
    <2>15. Ending'
      BY <1>1, <1>2, <1>5, <2>1 DEF Ending, Removing
    <2>16. Tenant'
      BY <1>1, <1>2, <1>5, <2>1, Bounds DEF RunInv, Types, Tenant, Flow, Slotted, Gone, Absent,
         There, Finishing, Removing
    <2> QED BY <2>10, <2>11, <2>12, <2>13, <2>14, <2>15, <2>16 DEF RunInv
  <1>6. ASSUME ~cmd.present, NEW r, Save(new, r), Bail
        PROVE  RunInv'
    BY <1>1, <1>4, <1>6, BailSaved DEF Failing
  <1>7. ASSUME ~cmd.present, NEW r, Save(new, r), pc' \in {"clean", "tenant"}, cmd' = c
        PROVE  RunInv'
    <2>1. jm' = new /\ jd' \in {jd, new} /\ new # None /\ jd # None /\ new \in Journals
      BY <1>1, <1>4, <1>7, Written, Bounds
    <2>2. Absent BY <1>4, <1>7
    <2>10. SuiteTypes' /\ Owners' /\ Agreement' /\ Threading'
      BY <1>1, <1>4, <1>7, TenantSaved
    <2>11. Types'
      BY <1>1, <1>2, <1>7, <2>1 DEF RunInv, Types, Places
    <2>12. Flow'
      BY <1>1, <1>2, <1>7, <2>1 DEF RunInv, Flow, SuitePhase, Deleting, Recovering
    <2>13. Slotted'
      BY <1>1, <1>2, <1>7, <2>1, <2>2 DEF Slotted
    <2>14. Running'
      BY <1>1, <1>2, <1>7 DEF Running, SuitePhase, Deleting
    <2>15. Ending'
      BY <1>1, <1>2, <1>7, <2>1 DEF Ending, Removing
    <2>16. Tenant'
      BY <1>1, <1>2, <1>7, <2>1, <2>2, Bounds DEF RunInv, Types, Tenant, Flow, Gone, Absent,
         Finishing, Removing
    <2> QED BY <2>10, <2>11, <2>12, <2>13, <2>14, <2>15, <2>16 DEF RunInv
  <1> QED BY <1>3, <1>5, <1>6, <1>7

LEMMA ResetCleanupKeeps ==
  ASSUME RunInv, ResetCleanup
  PROVE  RunInv'
  <1> DEFINE new == ResetFailedCleanup(jm, cmd.step)
  <1>1. /\ pc = "reset" /\ jm \in Journals /\ jm # None /\ slot = None
        /\ UNCHANGED <<suitePart, slot, tenant, files, opt, kills>>
        /\ cmd \in Commands /\ ~cmd.cleaned /\ cmd.ctx # "setup" /\ cmd.step \in Steps
    BY Bounds DEF RunInv, Types, ResetCleanup, Slotted, Settled, Commands, targetVars, Flow,
       Closing, Finishing, Removing, Recovering
  <1>2. PICK r : Save(new, r) /\ (Bail \/ (cmd.resumed /\ pc' = "matched" /\ cmd' = cmd))
    BY DEF ResetCleanup, Goto
  <1>3. /\ new \in Journals /\ Same(jm, new) /\ (new.tenantClean => Absent)
        /\ new.tenantClean = jm.tenantClean
    BY <1>1, CleanupReset, TruthKnown DEF TenantSide, Truthful
  <1> HIDE DEF new
  <1>4. CASE Bail
    BY <1>1, <1>2, <1>3, <1>4, BailSaved DEF Failing
  <1>5. CASE cmd.resumed /\ pc' = "matched" /\ cmd' = cmd
    <2>1. jm' = new /\ jd' \in {jd, new} /\ new # None /\ jd # None /\ new \in Journals
      BY <1>1, <1>2, <1>3, Written, Bounds
    <2>10. SuiteTypes' /\ Owners' /\ Agreement' /\ Threading'
      BY <1>1, <1>2, <1>3, TenantSaved
    <2>11. Types'
      BY <1>1, <1>3, <1>5 DEF RunInv, Types, Places, Recovering
    <2>12. Flow'
      BY <1>1, <1>3, <1>5, <2>1 DEF RunInv, Flow, SuitePhase, Deleting
    <2>13. Slotted'
      BY <1>1, <1>3, <1>5, <2>1 DEF Slotted
    <2>14. Running'
      BY <1>1, <1>3, <1>5 DEF Running, SuitePhase, Deleting
    <2>15. Ending'
      BY <1>1, <1>3, <1>5 DEF Ending, Removing
    <2>16. Tenant'
      BY <1>1, <1>3, <1>5, <2>1, Bounds DEF RunInv, Types, Tenant, Flow, Gone, Absent, There,
         Finishing, Removing
    <2> QED BY <2>10, <2>11, <2>12, <2>13, <2>14, <2>15, <2>16 DEF RunInv
  <1> QED BY <1>2, <1>4, <1>5

LEMMA PrepareMutationKeeps ==
  ASSUME RunInv, PrepareMutation
  PROVE  RunInv'
  <1> DEFINE step == IF cmd.ctx = "setup" THEN "Reload"
                     ELSE IF jm.disabled THEN "Finalize" ELSE "Disable"
             new == PrepareRevision(jm, step)
  <1>1. /\ pc = "prepare" /\ jm \in Journals /\ jm # None
        /\ UNCHANGED <<suitePart, slot, tenant, files, opt, kills>>
        /\ cmd \in Commands /\ ~cmd.cleaned /\ cmd.back \in {"judge", "begin", "prepare"}
    BY Bounds DEF RunInv, Types, PrepareMutation, Commands, targetVars, Flow, Closing, Finishing,
       Removing, Recovering
  <1>2. PICK r : Save(new, r) /\ (Bail \/ Ask(cmd, step, cmd.back))
    BY DEF PrepareMutation, Call
  <1>3. /\ step \in {"Reload", "Disable", "Finalize"}
        /\ step = "Reload" <=> cmd.ctx = "setup"
    OBVIOUS
  <1>4. /\ new \in Journals /\ Same(jm, new) /\ (new.tenantClean => Absent)
    BY <1>1, <1>3, RevisionPrepared, TruthKnown DEF TenantSide, Truthful
  <1> HIDE DEF new, step
  <1>5. CASE Bail
    BY <1>1, <1>2, <1>4, <1>5, BailSaved DEF Failing
  <1>6. CASE Ask(cmd, step, cmd.back)
    <2>1. step \in Steps \ {"Create"} /\ step # "Describe" /\ (step \in Building <=> cmd.ctx = "setup")
      BY <1>3 DEF Steps, Building
    <2>2. Asking(cmd.ctx, step, cmd.back)
      BY <1>1, <1>6, <2>1, AskTells
    <2> QED BY <1>1, <1>2, <1>4, <2>1, <2>2, AskSaved
  <1> QED BY <1>2, <1>5, <1>6

LEMMA AnnounceRemovalKeeps ==
  ASSUME RunInv, AnnounceRemoval
  PROVE  RunInv'
  <1> DEFINE new == [jm EXCEPT !.clean = TRUE, !.removal = TRUE]
  <1>1. /\ pc = "finish" /\ ~Unpublished /\ jm \in Journals /\ jm # None
        /\ UNCHANGED <<suitePart, slot, tenant, files, opt, kills>>
        /\ cmd \in Commands
    BY Bounds DEF RunInv, Types, AnnounceRemoval, targetVars, Flow, Recovering
  <1>2. \/ Quit("failed") /\ UNCHANGED <<jm, jd, faults>>
        \/ SuiteSettled(jm) /\ Goto("unlink") /\ UNCHANGED <<jm, jd, faults>>
        \/ SuiteSettled(jm) /\ \E r : Save(new, r) /\ (Quit("failed") \/ Goto("unlink"))
    BY DEF AnnounceRemoval, journalVars
  <1>3. /\ cmd' \in Commands /\ cmd'.ctx = cmd.ctx /\ cmd'.cleaned = cmd.cleaned
        /\ cmd'.resumed = cmd.resumed
        /\ pc' \in {"unlink", "exit"} /\ (pc' = "unlink" => SuiteSettled(jm))
    BY <1>1, <1>2 DEF Quit, Goto, Commands
  <1>4. new \in Journals /\ Same(jm, new) /\ new.tenantClean = jm.tenantClean
    BY <1>1, RemovalAnnounced DEF TenantSide
  <1> HIDE DEF new
  <1>5. CASE UNCHANGED <<jm, jd, faults>>
    <2>1. Stays BY <1>1, <1>5, Bounds DEF Stays
    <2>10. SuiteTypes' /\ Owners' /\ Agreement' /\ Threading'
      BY <1>1, <1>3, <2>1, Quiet DEF Stays
    <2>11. Types'
      BY <1>1, <1>3, <2>1 DEF RunInv, Stays, Types, Places, Finishing, Removing
    <2>12. Flow'
      BY <1>1, <1>3, <2>1 DEF RunInv, Types, Flow, Stays, SuitePhase, Deleting, Finishing,
         Removing, Recovering
    <2>13. Slotted'
      BY <1>1, <1>3, <2>1 DEF RunInv, Types, Slotted, Settled, Finishing
    <2>14. Running'
      BY <1>1, <1>3, <2>1 DEF RunInv, Running, SuitePhase, Deleting
    <2>15. Ending'
      BY <1>1, <1>3, <2>1 DEF RunInv, Types, Ending, Stays, Removing, Unpublished
    <2>16. Tenant'
      BY <1>1, <1>3, <2>1, Bounds DEF RunInv, Types, Tenant, Flow, Slotted, Settled, Stays, Gone,
         Absent, There, Finishing
    <2> QED BY <2>10, <2>11, <2>12, <2>13, <2>14, <2>15, <2>16 DEF RunInv
  <1>6. ASSUME NEW r, Save(new, r)
        PROVE  RunInv'
    <2>1. jm' = new /\ jd' \in {jd, new} /\ new # None /\ jd # None /\ new \in Journals
      BY <1>1, <1>4, <1>6, Written, Bounds
    <2>10. SuiteTypes' /\ Owners' /\ Agreement' /\ Threading'
      BY <1>1, <1>4, <1>6, TenantSaved
    <2>11. Types'
      BY <1>1, <1>3, <1>4, <2>1 DEF RunInv, Types, Places, Finishing, Removing
    <2>12. Flow'
      BY <1>1, <1>3, <1>4, <2>1 DEF RunInv, Types, Flow, SuitePhase, Deleting, Finishing, Removing,
         Recovering
    <2>13. Slotted'
      BY <1>1, <1>3, <1>4, <2>1 DEF RunInv, Types, Slotted, Settled, Finishing
    <2>14. Running'
      BY <1>1, <1>3, <1>4, <2>1 DEF RunInv, Running, SuitePhase, Deleting
    <2>15. Ending'
      BY <1>1, <1>3, <1>4, <2>1 DEF RunInv, Types, Ending, Removing, Unpublished, SuiteSettled, Same
    <2>16. Tenant'
      BY <1>1, <1>3, <1>4, <2>1, Bounds DEF RunInv, Types, Tenant, Flow, Slotted, Settled, Gone,
         Absent, There, Finishing
    <2> QED BY <2>10, <2>11, <2>12, <2>13, <2>14, <2>15, <2>16 DEF RunInv
  <1> QED BY <1>2, <1>5, <1>6

LEMMA ConfirmRemovalKeeps ==
  ASSUME RunInv, ConfirmRemoval
  PROVE  RunInv'
  <1> DEFINE new == [jm EXCEPT !.removed = TRUE]
  <1>1. /\ pc = "unlinked" /\ jm \in Journals /\ jm # None
        /\ UNCHANGED <<suitePart, slot, tenant, files, opt, kills>>
        /\ cmd \in Commands
    BY Bounds DEF RunInv, Types, ConfirmRemoval, targetVars, Flow, Recovering
  <1>2. \/ Goto("drop") /\ UNCHANGED <<jm, jd, faults>>
        \/ \E r : Save(new, r) /\ (Quit("failed") \/ Goto("drop"))
    BY DEF ConfirmRemoval, journalVars
  <1>3. /\ cmd' \in Commands /\ cmd'.ctx = cmd.ctx /\ cmd'.cleaned = cmd.cleaned
        /\ cmd'.resumed = cmd.resumed /\ pc' \in {"drop", "exit"}
    BY <1>1, <1>2 DEF Quit, Goto, Commands
  <1>4. new \in Journals /\ Same(jm, new) /\ new.tenantClean = jm.tenantClean
    BY <1>1, RemovalAnnounced DEF TenantSide
  <1> HIDE DEF new
  <1>5. CASE UNCHANGED <<jm, jd, faults>>
    <2>1. Stays BY <1>1, <1>5, Bounds DEF Stays
    <2>10. SuiteTypes' /\ Owners' /\ Agreement' /\ Threading'
      BY <1>1, <1>3, <2>1, Quiet DEF Stays
    <2>11. Types'
      BY <1>1, <1>3, <2>1 DEF RunInv, Stays, Types, Places, Finishing, Removing
    <2>12. Flow'
      BY <1>1, <1>3, <2>1 DEF RunInv, Types, Flow, Stays, SuitePhase, Deleting, Finishing,
         Removing, Recovering
    <2>13. Slotted'
      BY <1>1, <1>3, <2>1 DEF RunInv, Types, Slotted, Settled, Finishing, Removing
    <2>14. Running'
      BY <1>1, <1>3, <2>1 DEF RunInv, Running, SuitePhase, Deleting
    <2>15. Ending'
      BY <1>1, <1>3, <2>1 DEF RunInv, Types, Ending, Stays, Removing, Unpublished
    <2>16. Tenant'
      BY <1>1, <1>3, <2>1, Bounds DEF RunInv, Types, Tenant, Flow, Slotted, Settled, Stays, Gone,
         Absent, There, Finishing, Removing
    <2> QED BY <2>10, <2>11, <2>12, <2>13, <2>14, <2>15, <2>16 DEF RunInv
  <1>6. ASSUME NEW r, Save(new, r)
        PROVE  RunInv'
    <2>1. jm' = new /\ jd' \in {jd, new} /\ new # None /\ jd # None /\ new \in Journals
      BY <1>1, <1>4, <1>6, Written, Bounds
    <2>10. SuiteTypes' /\ Owners' /\ Agreement' /\ Threading'
      BY <1>1, <1>4, <1>6, TenantSaved
    <2>11. Types'
      BY <1>1, <1>3, <1>4, <2>1 DEF RunInv, Types, Places, Finishing, Removing
    <2>12. Flow'
      BY <1>1, <1>3, <1>4, <2>1 DEF RunInv, Types, Flow, SuitePhase, Deleting, Finishing, Removing,
         Recovering
    <2>13. Slotted'
      BY <1>1, <1>3, <1>4, <2>1 DEF RunInv, Types, Slotted, Settled, Finishing, Removing
    <2>14. Running'
      BY <1>1, <1>3, <1>4, <2>1 DEF RunInv, Running, SuitePhase, Deleting
    <2>15. Ending'
      BY <1>1, <1>3, <1>4, <2>1 DEF RunInv, Types, Ending, Removing, Unpublished, SuiteSettled, Same
    <2>16. Tenant'
      BY <1>1, <1>3, <1>4, <2>1, Bounds DEF RunInv, Types, Tenant, Flow, Slotted, Settled, Gone,
         Absent, There, Finishing, Removing
    <2> QED BY <2>10, <2>11, <2>12, <2>13, <2>14, <2>15, <2>16 DEF RunInv
  <1> QED BY <1>2, <1>5, <1>6

LEMMA PersistAnswerKeeps ==
  ASSUME RunInv, PersistAnswer
  PROVE  RunInv'
  <1>1. /\ pc = "do" /\ cmd.call = "sent" /\ cmd \in Commands /\ ~cmd.cleaned
        /\ UNCHANGED <<suitePart, slot, tenant, files, opt, kills>>
        /\ slot # None /\ slot \in Operations /\ slot.res # "none" /\ slot.step \in Steps
        /\ Payload(slot.step) = Payload(cmd.step) /\ cmd.step \in Steps
    BY Bounds DEF RunInv, Types, PersistAnswer, Slotted, Commands, Operations, targetVars, Flow,
       Finishing, Removing
  <1>2. \/ cmd' = [cmd EXCEPT !.call = "saved"] /\ UNCHANGED <<pc, jm, jd, faults>>
        \/ Bail /\ UNCHANGED <<jm, jd, faults>>
        \/ /\ cmd.step # "Describe"
           /\ \E r : /\ Save(Recorded, r)
                     /\ Bail \/ (cmd' = [cmd EXCEPT !.call = "saved"] /\ UNCHANGED pc)
    BY DEF PersistAnswer, Records, journalVars
  <1>3. cmd.step # "Describe" => jm # None /\ jm \in Journals
    BY <1>1, Bounds DEF RunInv, Flow
  <1>4. ASSUME cmd.step # "Describe"
        PROVE  /\ Recorded \in Journals /\ Same(jm, Recorded) /\ (Recorded.tenantClean => Absent)
               /\ jm.tenantClean => Recorded.tenantClean
    <2>1. CASE slot.res = "ok"
      <3>1. slot.present \in BOOLEAN
        BY <1>1 DEF Operations
      <3>2. Recorded = RecordSuccess(jm, cmd.step, slot.present)
        BY <2>1 DEF Recorded
      <3>3. cmd.step = "Finalize" => slot.step = "Finalize" /\ Absent
        BY <1>1, <2>1 DEF Payload, Steps, RunInv, Tenant, Absent
      <3> QED BY <1>1, <1>3, <1>4, <3>1, <3>2, <3>3, SuccessRecorded, TruthKnown DEF Truthful
    <2>2. CASE slot.res # "ok"
      BY <1>1, <1>3, <1>4, <2>2, FailureRecorded, TruthKnown DEF Recorded, TenantSide, Truthful
    <2> QED BY <2>1, <2>2
  <1>5. CASE Bail /\ UNCHANGED <<jm, jd, faults>>
    <2>1. Stays BY <1>1, <1>5, Bounds DEF Stays
    <2> QED BY <1>1, <1>5, <2>1, BailStays DEF Failing
  <1>6. ASSUME cmd.step # "Describe", NEW r, Save(Recorded, r), Bail
        PROVE  RunInv'
    BY <1>1, <1>3, <1>4, <1>6, BailSaved DEF Failing
  <1>7. CASE cmd' = [cmd EXCEPT !.call = "saved"] /\ UNCHANGED <<pc, jm, jd, faults>>
    <2>1. Stays BY <1>1, <1>7, Bounds DEF Stays
    <2>2. /\ cmd' \in Commands /\ cmd'.ctx = cmd.ctx /\ ~cmd'.cleaned /\ cmd'.resumed = cmd.resumed
          /\ cmd'.step = cmd.step /\ cmd'.back = cmd.back /\ cmd'.call = "saved" /\ pc' = "do"
      BY <1>1, <1>7 DEF Commands
    <2>10. SuiteTypes' /\ Owners' /\ Agreement' /\ Threading'
      BY <1>1, <2>1, <2>2, Quiet DEF Stays
    <2>11. Types'
      BY <1>1, <2>1, <2>2 DEF RunInv, Types
    <2>12. Flow'
      BY <1>1, <2>1, <2>2 DEF RunInv, Flow, Stays
    <2>13. Slotted'
      BY <1>1, <2>1, <2>2 DEF RunInv, Slotted
    <2>14. Running'
      BY <1>1, <2>1, <2>2 DEF Running, SuitePhase, Deleting
    <2>15. Ending'
      BY <1>1, <2>1, <2>2 DEF Ending, Removing
    <2>16. Tenant'
      BY <1>1, <2>1, <2>2, Bounds DEF RunInv, Types, Tenant, Flow, Slotted, Stays, Gone, Absent,
         There
    <2> QED BY <2>10, <2>11, <2>12, <2>13, <2>14, <2>15, <2>16 DEF RunInv
  <1>8. ASSUME cmd.step # "Describe", NEW r, Save(Recorded, r),
               cmd' = [cmd EXCEPT !.call = "saved"], UNCHANGED pc
        PROVE  RunInv'
    <2>1. jm' = Recorded /\ jd' \in {jd, Recorded} /\ Recorded # None /\ jd # None /\ Recorded \in Journals
      BY <1>1, <1>3, <1>4, <1>8, Written, Bounds
    <2>2. /\ cmd' \in Commands /\ cmd'.ctx = cmd.ctx /\ ~cmd'.cleaned /\ cmd'.resumed = cmd.resumed
          /\ cmd'.step = cmd.step /\ cmd'.back = cmd.back /\ cmd'.call = "saved" /\ pc' = "do"
      BY <1>1, <1>8 DEF Commands
    <2>3. /\ Recorded.tenantClean => Absent
          /\ jm # None /\ Recorded.suite = jm.suite
          /\ cmd.step = "Create" => slot.step = "Create"
      BY <1>1, <1>3, <1>4, <1>8 DEF Same, Payload, Steps
    <2>10. SuiteTypes' /\ Owners' /\ Agreement' /\ Threading'
      BY <1>1, <1>3, <1>4, <1>8, TenantSaved
    <2>11. Types'
      BY <1>1, <2>1, <2>2 DEF RunInv, Types
    <2>12. Flow'
      BY <1>1, <2>1, <2>2, <2>3 DEF RunInv, Flow
    <2>13. Slotted'
      BY <1>1, <2>1, <2>2, <2>3 DEF RunInv, Slotted
    <2>14. Running'
      BY <1>1, <2>1, <2>2 DEF Running, SuitePhase, Deleting
    <2>15. Ending'
      BY <1>1, <2>1, <2>2 DEF Ending, Removing
    <2>16. Tenant'
      BY <1>1, <2>1, <2>2, <2>3, Bounds DEF RunInv, Types, Tenant, Flow, Slotted, Settled, Gone,
         Absent, There
    <2> QED BY <2>10, <2>11, <2>12, <2>13, <2>14, <2>15, <2>16 DEF RunInv
  <1> QED BY <1>2, <1>5, <1>6, <1>7, <1>8

LEMMA ClaimKeeps ==
  ASSUME RunInv, Claim
  PROVE  RunInv'
  <1>1. /\ pc = "claim" /\ cmd \in Commands /\ ~cmd.cleaned
        /\ UNCHANGED <<jd, suitePart, slot, tenant, files, opt, kills, faults>>
    BY DEF RunInv, Types, Claim, targetVars, Flow, Closing, Finishing, Removing
  <1>2. \/ Bail /\ UNCHANGED jm
        \/ jm' = jd /\ pc' = "match" /\ cmd' = cmd
    BY DEF Claim, Goto
  <1>3. CASE Bail /\ UNCHANGED jm
    <2>1. Stays BY <1>1, <1>3, Bounds DEF Stays
    <2> QED BY <1>1, <1>3, <2>1, BailStays DEF Failing
  <1>4. CASE jm' = jd /\ pc' = "match" /\ cmd' = cmd
    <2>1. UNCHANGED <<suite, rep, wk, queue, run>>
      BY <1>1 DEF suitePart
    <2>2. SuiteTypes' BY <1>1, <1>4, <2>1 DEF RunInv, SuiteTypes
    <2>3. Owners' BY <1>1, <1>4, <2>1 DEF RunInv, Owners, Vouches, Live
    <2>4. Agreement' BY <1>1, <1>4 DEF Agreement
    <2>5. Threading' BY <2>1 DEF RunInv, Threading
    <2>10. SuiteTypes' /\ Owners' /\ Agreement' /\ Threading'
      BY <2>2, <2>3, <2>4, <2>5
    <2>6. jd = None => jm = None
      BY <1>1 DEF RunInv, Flow
    <2>11. Types'
      BY <1>1, <1>4 DEF RunInv, Types, Places, Recovering
    <2>12. Flow'
      BY <1>1, <1>4 DEF RunInv, Flow, SuitePhase, Deleting, Recovering
    <2>13. Slotted'
      BY <1>1, <1>4, <2>6 DEF Slotted, Settled, SuitePhase, Deleting, Closing, Finishing, Removing
    <2>14. Running'
      BY <1>1, <1>4 DEF Running, SuitePhase, Deleting
    <2>15. Ending'
      BY <1>1, <1>4 DEF Ending, Removing
    <2>16. Tenant'
      BY <1>1, <1>4, <2>6, Bounds DEF RunInv, Types, Tenant, Flow, Gone, Absent, There, Finishing,
         Removing, Recovering
    <2> QED BY <2>10, <2>11, <2>12, <2>13, <2>14, <2>15, <2>16 DEF RunInv
  <1> QED BY <1>2, <1>3, <1>4

LEMMA BeginRunKeeps ==
  ASSUME RunInv, BeginRun
  PROVE  RunInv'
  <1>1. /\ pc = "begin" /\ cmd \in Commands /\ ~cmd.cleaned /\ jm = None /\ jd = None
        /\ UNCHANGED <<suitePart, slot, tenant, opt, kills>>
        /\ ~files.begun /\ files.published = {} /\ cmd.ctx = "start" /\ slot = None
        /\ cmd.back \in {"judge", "begin", "prepare"} /\ ~cmd.resumed
    BY DEF RunInv, Types, BeginRun, Owners, Commands, Slotted, Settled, targetVars, Flow
  <1>2. PICK r : /\ Charge(r)
                 /\ jd' = IF r = "lost" THEN None ELSE FreshJournal
                 /\ jm' = IF r = "ok" THEN FreshJournal ELSE None
                 /\ files' = [files EXCEPT !.begun = r # "lost", !.material = r = "ok"]
                 /\ IF r = "ok" THEN Ask([cmd EXCEPT !.ctx = "setup"], "Create", cmd.back)
                    ELSE Bail
    BY DEF BeginRun
  <1>3. /\ files' \in [begun : BOOLEAN, material : BOOLEAN, staged : SUBSET Plans, published : SUBSET Plans]
        /\ files'.published = {} /\ (files'.begun <=> r # "lost")
    BY <1>1, <1>2 DEF RunInv, Types
  <1>4. UNCHANGED <<suite, rep, wk, queue, run>> /\ faults' \in Nat
    BY <1>1, <1>2, Bounds, Charged DEF suitePart
  <1>5. /\ FreshJournal \in Journals /\ FreshJournal # None /\ ~FreshJournal.suite
        /\ FreshJournal.disposition = "active" /\ ~FreshJournal.tenantClean
        /\ FreshJournal.plans = {} /\ FreshJournal.intents = {} /\ ~FreshJournal.suiteClean
    BY FreshIsJournal, Bounds
  <1>6. \A p \in Plans : ~Live(p)
    BY <1>1 DEF RunInv, Owners
  <1>7. jd' \in {FreshJournal, None} /\ jm' \in {FreshJournal, None}
    BY <1>2
  <1>10. SuiteTypes' /\ Owners' /\ Agreement' /\ Threading'
    <2>1. SuiteTypes' BY <1>4, <1>5, <1>7 DEF RunInv, SuiteTypes
    <2>2. Vouches(FreshJournal)' /\ \A p \in Plans : ~Live(p)'
      BY <1>4, <1>5, <1>6 DEF Vouches, Consistent, Live
    <2>3. Owners'
      BY <1>2, <1>3, <1>5, <1>7, <2>2 DEF Owners, Vouches, Consistent, Owns, Live
    <2>4. Agreement' BY <1>5, <1>7 DEF Agreement
    <2>5. Threading' BY <1>4 DEF RunInv, Threading
    <2> QED BY <2>1, <2>3, <2>4, <2>5
  <1>11. Truthful' BY <1>5, <1>7 DEF Truthful
  <1>12. CASE r = "ok"
    <2> DEFINE c == [cmd EXCEPT !.ctx = "setup"]
    <2>1. c \in Commands /\ ~c.cleaned /\ c.ctx = "setup"
      BY <1>1 DEF Commands
    <2>2. Ask(c, "Create", cmd.back) BY <1>2, <1>12
    <2>3. Asking("setup", "Create", cmd.back)
      BY <1>1, <2>1, <2>2, AskTells DEF Steps
    <2>4. jm' = FreshJournal /\ jd' = FreshJournal BY <1>2, <1>12
    <2>5. Other'
      BY <1>1, <1>3, <1>5, <1>11, <2>3, <2>4, Asked DEF Steps, Building
    <2> QED BY <1>10, <2>5, InvSplits
  <1>13. CASE r # "ok"
    <2>1. jm' = None /\ Bail BY <1>2, <1>13
    <2>2. /\ pc' = "exit" /\ cmd' \in Commands /\ cmd'.ctx = "start" /\ ~cmd'.cleaned
          /\ ~cmd'.resumed
      BY <1>1, <2>1 DEF Bail, Commands
    <2>3. files'.begun => jd' = FreshJournal
      BY <1>2, <1>3
    <2>10. SuiteTypes' /\ Owners' /\ Agreement' /\ Threading'
      BY <1>10
    <2>11. Types'
      BY <1>1, <1>3, <1>5, <1>7, <2>1, <2>2 DEF RunInv, Types, Places
    <2>12. Flow'
      BY <1>1, <1>3, <1>5, <1>7, <2>1, <2>2 DEF Flow, SuitePhase, Deleting
    <2>13. Slotted'
      BY <1>1, <1>3, <1>5, <1>7, <2>1, <2>2, <2>3 DEF Slotted
    <2>14. Running'
      BY <1>1, <1>3, <1>5, <1>7, <2>1, <2>2 DEF Running, SuitePhase, Deleting
    <2>15. Ending'
      BY <1>1, <1>3, <1>5, <1>7, <2>1, <2>2 DEF Ending, Removing
    <2>16. Tenant'
      BY <1>1, <1>3, <1>5, <1>7, <2>1, <2>2, <2>3, Bounds DEF RunInv, Types, Tenant, Flow, There,
         Finishing, Removing
    <2> QED BY <2>10, <2>11, <2>12, <2>13, <2>14, <2>15, <2>16 DEF RunInv
  <1> QED BY <1>12, <1>13

LEMMA CommitManifestKeeps ==
  ASSUME RunInv, CommitManifest
  PROVE  RunInv'
  <1> DEFINE new == CommitRetention(jm)
  <1>1. /\ pc = "commit" /\ jm \in Journals /\ jm # None /\ cmd \in Commands
        /\ UNCHANGED <<suitePart, slot, tenant, files, opt, kills>> /\ jd # None
    BY Bounds DEF RunInv, Types, CommitManifest, targetVars, Flow
  <1>2. \/ pc' = "scrub" /\ cmd' = [cmd EXCEPT !.errs = TRUE] /\ UNCHANGED <<jm, jd, faults>>
        \/ /\ jm.disposition = "prepared"
           /\ \E r : /\ jm' = IF r = "ok" THEN new ELSE jm
                     /\ jd' = IF r \in {"lost", "invalid"} THEN jd ELSE new
                     /\ Charge(r)
                     /\ IF r = "ok" THEN pc' = "publish" /\ cmd' = cmd
                        ELSE pc' = "finale" /\ cmd' = [cmd EXCEPT !.errs = TRUE]
    BY DEF CommitManifest, CanCommitRetention, Goto, journalVars
  <1>3. /\ cmd' \in Commands /\ cmd'.ctx = cmd.ctx /\ cmd'.cleaned = cmd.cleaned
        /\ cmd'.resumed = cmd.resumed
    BY <1>1, <1>2 DEF Commands
  <1>4. /\ new \in Journals /\ new.tenantClean = jm.tenantClean /\ new.suite = jm.suite
        /\ new.plans = {} /\ new.intents = jm.intents /\ new.suiteClean = jm.suiteClean
        /\ new.disposition = "retained" /\ new.kept = jm.kept /\ new # None
    BY <1>1, RetentionCommitted, Bounds
  <1> HIDE DEF new
  <1>5. CASE pc' = "scrub" /\ cmd' = [cmd EXCEPT !.errs = TRUE] /\ UNCHANGED <<jm, jd, faults>>
    <2>1. Stays BY <1>1, <1>5, Bounds DEF Stays
    <2>10. SuiteTypes' /\ Owners' /\ Agreement' /\ Threading'
      BY <1>1, <1>3, <1>5, <2>1, Quiet DEF Stays
    <2>11. Types'
      BY <1>1, <1>3, <1>5, <2>1 DEF RunInv, Types, Places, Closing
    <2>12. Flow'
      BY <1>1, <1>3, <1>5, <2>1 DEF RunInv, Flow, Closing, Recovering
    <2>13. Slotted'
      BY <1>1, <1>3, <1>5, <2>1 DEF RunInv, Slotted, Flow, Settled, SuitePhase, Deleting,
         Finishing, Removing
    <2>14. Running'
      BY <1>1, <1>3, <1>5 DEF Running, SuitePhase, Deleting
    <2>15. Ending'
      BY <1>1, <1>3, <1>5, <2>1 DEF Ending, Removing
    <2>16. Tenant'
      BY <1>1, <1>3, <1>5, <2>1, Bounds DEF RunInv, Types, Tenant, Flow, Slotted, Gone, Absent,
         There, Finishing, Removing
    <2> QED BY <2>10, <2>11, <2>12, <2>13, <2>14, <2>15, <2>16 DEF RunInv
  <1>6. ASSUME jm.disposition = "prepared", NEW r,
               jm' = IF r = "ok" THEN new ELSE jm,
               jd' = IF r \in {"lost", "invalid"} THEN jd ELSE new, Charge(r),
               IF r = "ok" THEN pc' = "publish" /\ cmd' = cmd
               ELSE pc' = "finale" /\ cmd' = [cmd EXCEPT !.errs = TRUE]
        PROVE  RunInv'
    <2>1. /\ jm' \in {jm, new} /\ jd' \in {jd, new}
          /\ \/ pc' = "publish" /\ jm' = new /\ jd' = new
             \/ pc' = "finale" /\ jm' = jm
      BY <1>6
    <2>2. UNCHANGED <<suite, rep, wk, queue, run>> /\ faults' \in Nat
      BY <1>1, <1>6, Bounds, Charged DEF suitePart
    <2>3. SuiteTypes' BY <1>1, <1>4, <2>1, <2>2 DEF RunInv, SuiteTypes
    <2>4. Vouches(jm) /\ Vouches(jd) /\ jd.disposition # "retained" /\ files.published = {} /\ files.begun
      BY <1>1, <1>6, Unretained DEF RunInv, Owners
    <2>5. Vouches(new)
      BY <1>4, <1>6, <2>4 DEF Vouches, Consistent, Owns
    <2>6. Owners'
      <3>1. (Vouches(jm) /\ Vouches(jd))'
        BY <2>1, <2>2, <2>4, <2>5 DEF Vouches, Consistent, Owns, Live
      <3> QED BY <1>1, <1>4, <2>1, <2>4, <3>1 DEF Owners
    <2>7. Agreement' BY <1>4, <1>6, <2>1, <2>4 DEF Agreement
    <2>8. Threading' BY <2>2 DEF RunInv, Threading
    <2>10. SuiteTypes' /\ Owners' /\ Agreement' /\ Threading'
      BY <2>3, <2>6, <2>7, <2>8
    <2>11. Types'
      BY <1>1, <1>3, <1>4, <2>1 DEF RunInv, Types, Places, Closing
    <2>12. Flow'
      BY <1>1, <1>3, <1>4, <2>1 DEF RunInv, Flow, Closing, Recovering
    <2>13. Slotted'
      BY <1>1, <1>3, <1>4, <2>1 DEF RunInv, Slotted, Flow, Settled, SuitePhase, Deleting,
         Finishing, Removing
    <2>14. Running'
      BY <1>1, <1>3, <2>1 DEF Running, SuitePhase, Deleting
    <2>15. Ending'
      BY <1>1, <1>3, <1>4, <2>1 DEF Ending, Removing
    <2>16. Tenant'
      BY <1>1, <1>3, <1>4, <2>1, Bounds DEF RunInv, Types, Tenant, Flow, Gone, Absent, There,
         Finishing, Removing
    <2> QED BY <2>10, <2>11, <2>12, <2>13, <2>14, <2>15, <2>16 DEF RunInv
  <1> QED BY <1>2, <1>5, <1>6

LEMMA ExitKeeps ==
  ASSUME RunInv, Exit
  PROVE  RunInv'
  <1>1. /\ pc' = "off" /\ cmd' \in Commands /\ cmd'.ctx = "rec" /\ ~cmd'.cleaned /\ ~cmd'.resumed
        /\ jm' = None /\ UNCHANGED <<jd, suite, faults, slot, tenant, files, opt>>
        /\ kills' \in Nat
    <2>1. /\ pc' = "off" /\ jm' = None /\ UNCHANGED <<jd, suite, faults, slot, tenant, files, opt>>
          /\ kills' \in Nat
          /\ \E e \in {"none", "ok", "failed", "retained", "recovered"} : cmd' = [NoCmd EXCEPT !.exit = e]
      BY DEF RunInv, Types, Exit, Vanish, Commands, targetVars
    <2> QED BY <2>1 DEF NoCmd, Commands, Steps
  <1>2. /\ run' \in Runs /\ queue' \in Seq(Plans) /\ rep' \in [Plans -> Reports]
        /\ wk' \in [Workers -> Threads] /\ \A w \in Workers : wk'[w].at = "stopped"
    BY DEF Exit, Vanish, NoRun, NoReport, IdleWorker, Runs, Reports, Threads
  <1>3. SuiteTypes' BY <1>1, <1>2 DEF RunInv, SuiteTypes
  <1>4. Owners' BY <1>1 DEF RunInv, Owners, Vouches, Consistent, Owns, Live
  <1>5. Agreement' BY <1>1 DEF Agreement
  <1>6. Threading' BY <1>2 DEF Threading, Busy
  <1>10. SuiteTypes' /\ Owners' /\ Agreement' /\ Threading'
    BY <1>3, <1>4, <1>5, <1>6
  <1>11. Types'
    BY <1>1 DEF RunInv, Types, Places, Recovering
  <1>12. Flow'
    BY <1>1 DEF Flow, SuitePhase, Deleting, Recovering
  <1>13. Slotted'
    BY <1>1 DEF Slotted, Settled, SuitePhase, Deleting, Closing, Finishing, Removing
  <1>14. Running'
    BY <1>1 DEF Running, SuitePhase, Deleting
  <1>15. Ending'
    BY <1>1 DEF Ending, Removing
  <1>16. Tenant'
    BY <1>1, Bounds DEF RunInv, Types, Tenant, Flow, Gone, Absent, There, Finishing, Removing,
       Recovering
  <1> QED BY <1>10, <1>11, <1>12, <1>13, <1>14, <1>15, <1>16 DEF RunInv

LEMMA KillKeeps ==
  ASSUME RunInv, Kill
  PROVE  RunInv'
  <1>1. /\ pc' = "off" /\ cmd' \in Commands /\ cmd'.ctx = "rec" /\ ~cmd'.cleaned /\ ~cmd'.resumed
        /\ jm' = None /\ UNCHANGED <<jd, suite, faults, slot, tenant, files, opt>>
        /\ kills' \in Nat
    <2>1. /\ pc' = "off" /\ jm' = None /\ UNCHANGED <<jd, suite, faults, slot, tenant, files, opt>>
          /\ kills' \in Nat
          /\ \E e \in {"none", "ok", "failed", "retained", "recovered"} : cmd' = [NoCmd EXCEPT !.exit = e]
      BY DEF RunInv, Types, Kill, Vanish, Commands, targetVars
    <2> QED BY <2>1 DEF NoCmd, Commands, Steps
  <1>2. /\ run' \in Runs /\ queue' \in Seq(Plans) /\ rep' \in [Plans -> Reports]
        /\ wk' \in [Workers -> Threads] /\ \A w \in Workers : wk'[w].at = "stopped"
    BY DEF Kill, Vanish, NoRun, NoReport, IdleWorker, Runs, Reports, Threads
  <1>3. SuiteTypes' BY <1>1, <1>2 DEF RunInv, SuiteTypes
  <1>4. Owners' BY <1>1 DEF RunInv, Owners, Vouches, Consistent, Owns, Live
  <1>5. Agreement' BY <1>1 DEF Agreement
  <1>6. Threading' BY <1>2 DEF Threading, Busy
  <1>10. SuiteTypes' /\ Owners' /\ Agreement' /\ Threading'
    BY <1>3, <1>4, <1>5, <1>6
  <1>11. Types'
    BY <1>1 DEF RunInv, Types, Places, Recovering
  <1>12. Flow'
    BY <1>1 DEF Flow, SuitePhase, Deleting, Recovering
  <1>13. Slotted'
    BY <1>1 DEF Slotted, Settled, SuitePhase, Deleting, Closing, Finishing, Removing
  <1>14. Running'
    BY <1>1 DEF Running, SuitePhase, Deleting
  <1>15. Ending'
    BY <1>1 DEF Ending, Removing
  <1>16. Tenant'
    BY <1>1, Bounds DEF RunInv, Types, Tenant, Flow, Gone, Absent, There, Finishing, Removing,
       Recovering
  <1> QED BY <1>10, <1>11, <1>12, <1>13, <1>14, <1>15, <1>16 DEF RunInv

LEMMA DropJournalKeeps ==
  ASSUME RunInv, DropJournal
  PROVE  RunInv'
  <1>1. /\ pc = "drop" /\ pc' = "exit" /\ cmd' \in Commands /\ cmd'.ctx = cmd.ctx
        /\ cmd'.cleaned = cmd.cleaned /\ cmd'.resumed = cmd.resumed /\ jd' \in {None, jd}
        /\ UNCHANGED <<jm, suitePart, slot, tenant, files, opt, kills>>
    BY DEF RunInv, Types, DropJournal, Quit, Status, Commands, targetVars
  <1>2. /\ jm # None /\ jd # None /\ slot = None /\ ~There /\ ~files.material
        /\ SuiteSettled(jm) /\ ~Unpublished /\ faults' \in Nat
    BY <1>1, Bounds, Charged DEF RunInv, DropJournal, Flow, Slotted, Settled, Ending, Tenant, Gone,
       Absent, There, Finishing, Removing, Recovering
  <1>3. UNCHANGED <<suite, rep, wk, queue, run>>
    BY <1>1 DEF suitePart
  <1>4. SuiteTypes' BY <1>1, <1>2, <1>3 DEF RunInv, SuiteTypes
  <1>5. \A p \in Plans : Live(p) => p \in files.published
    BY <1>2 DEF RunInv, Owners, Vouches, Consistent, Owns, SuiteSettled, Unpublished
  <1>6. Owners'
    BY <1>1, <1>2, <1>3, <1>5 DEF RunInv, Owners, Vouches, Consistent, Owns, Live
  <1>7. Agreement' BY <1>1 DEF RunInv, Agreement
  <1>8. Threading' BY <1>3 DEF RunInv, Threading
  <1>10. SuiteTypes' /\ Owners' /\ Agreement' /\ Threading'
    BY <1>4, <1>6, <1>7, <1>8
  <1>11. Types'
    BY <1>1 DEF RunInv, Types, Places
  <1>12. Flow'
    BY <1>1 DEF RunInv, Flow, SuitePhase, Deleting, Recovering
  <1>13. Slotted'
    BY <1>1, <1>2 DEF Slotted
  <1>14. Running'
    BY <1>1 DEF Running, SuitePhase, Deleting
  <1>15. Ending'
    BY <1>1 DEF Ending, Removing
  <1>16. Tenant'
    BY <1>1, <1>2, Bounds DEF RunInv, Types, Tenant, Flow, Gone, Absent, There, Finishing, Removing
  <1> QED BY <1>10, <1>11, <1>12, <1>13, <1>14, <1>15, <1>16 DEF RunInv

LEMMA PublishManifestKeeps ==
  ASSUME RunInv, PublishManifest
  PROVE  RunInv'
  <1>1. /\ pc = "publish" /\ jm \in Journals /\ jm # None /\ jd # None /\ files.begun
        /\ jm.disposition = "retained" /\ jd.disposition = "retained" /\ cmd \in Commands
        /\ UNCHANGED <<jm, jd, suitePart, slot, tenant, opt, kills>> /\ cmd.ctx # "setup" /\ cmd.ctx # "start"
    BY Bounds DEF RunInv, Types, PublishManifest, Ending, Agreement, Owners, targetVars,
       journalVars, Flow, Recovering
  <1>2. PICK r : /\ Charge(r)
                 /\ files' = IF r = "ok" THEN [files EXCEPT !.published = jm.kept, !.staged = {}]
                             ELSE files
                 /\ \/ cmd.ctx = "end" /\ pc' = "finale" /\ cmd' = [cmd EXCEPT !.errs = @ \/ r # "ok"]
                    \/ cmd.ctx # "end" /\ r = "ok" /\ pc' = "finish" /\ cmd' = cmd
                    \/ cmd.ctx # "end" /\ r # "ok" /\ Bail
    BY <1>1 DEF PublishManifest, Goto
  <1>3. jm.kept \in SUBSET Plans BY <1>1 DEF Journals
  <1>4. CASE cmd.ctx # "end" /\ r # "ok" /\ Bail
    <2>1. Stays BY <1>1, <1>2, <1>4, Bounds, Charged DEF Stays
    <2> QED BY <1>1, <1>4, <2>1, BailStays DEF Failing
  <1>5. CASE \/ cmd.ctx = "end" /\ pc' = "finale" /\ cmd' = [cmd EXCEPT !.errs = @ \/ r # "ok"]
             \/ cmd.ctx # "end" /\ r = "ok" /\ pc' = "finish" /\ cmd' = cmd
    <2>6. /\ cmd' \in Commands /\ cmd'.ctx = cmd.ctx /\ cmd'.cleaned = cmd.cleaned
          /\ cmd'.resumed = cmd.resumed
          /\ pc' = IF cmd.ctx = "end" THEN "finale" ELSE "finish"
      BY <1>1, <1>5 DEF Commands
    <2>1. /\ UNCHANGED <<suite, rep, wk, queue, run>> /\ faults' \in Nat
          /\ files' \in [begun : BOOLEAN, material : BOOLEAN, staged : SUBSET Plans, published : SUBSET Plans]
          /\ files'.begun /\ files'.material = files.material
          /\ files'.published \in {files.published, jm.kept}
      BY <1>1, <1>2, <1>3, Bounds, Charged DEF RunInv, Types, suitePart
    <2>2. SuiteTypes' BY <1>1, <1>2, <1>3, <2>1 DEF RunInv, SuiteTypes
    <2>3. Owners' BY <1>1, <2>1 DEF RunInv, Owners, Vouches, Live
    <2>4. Agreement' BY <1>1, <1>2, <1>3 DEF RunInv, Agreement
    <2>5. Threading' BY <2>1 DEF RunInv, Threading
    <2>10. SuiteTypes' /\ Owners' /\ Agreement' /\ Threading'
      BY <2>2, <2>3, <2>4, <2>5
    <2>11. Types'
      BY <1>1, <2>1, <2>6 DEF RunInv, Types, Places, Closing, Finishing
    <2>12. Flow'
      BY <1>1, <2>1, <2>6 DEF RunInv, Flow, SuitePhase, Deleting, Closing, Recovering
    <2>13. Slotted'
      BY <1>1, <2>1, <2>6 DEF RunInv, Slotted, Settled, SuitePhase, Deleting, Closing, Finishing,
         Removing
    <2>14. Running'
      BY <1>1, <2>6 DEF Running, SuitePhase, Deleting
    <2>15. Ending'
      BY <1>1, <2>1, <2>6 DEF Ending, Removing
    <2>16. Tenant'
      BY <1>1, <2>1, <2>6, Bounds DEF RunInv, Types, Tenant, Flow, Gone, Absent, There, Finishing,
         Removing
    <2> QED BY <2>10, <2>11, <2>12, <2>13, <2>14, <2>15, <2>16 DEF RunInv
  <1> QED BY <1>2, <1>4, <1>5

LEMMA FinishPublishKeeps ==
  ASSUME RunInv, FinishPublish
  PROVE  RunInv'
  <1>1. /\ pc = "finish" /\ jm \in Journals /\ jm # None /\ jd # None /\ files.begun
        /\ jm.disposition = "retained" /\ jd.disposition = "retained" /\ cmd \in Commands
        /\ UNCHANGED <<jm, jd, suitePart, slot, tenant, opt, kills>> /\ cmd.ctx # "setup" /\ cmd.ctx # "start"
    BY Bounds DEF RunInv, Types, FinishPublish, Ending, Agreement, Owners, Unpublished, targetVars,
       journalVars, Flow, Recovering
  <1>2. PICK r : /\ Charge(r)
                 /\ files' = IF r = "ok" THEN [files EXCEPT !.published = jm.kept, !.staged = {}]
                             ELSE files
                 /\ \/ pc' = "finish" /\ cmd' = cmd
                    \/ pc' = "exit" /\ cmd' = [cmd EXCEPT !.exit = "failed"]
    BY DEF FinishPublish, Goto, Quit
  <1>3. jm.kept \in SUBSET Plans BY <1>1 DEF Journals
  <1>4. /\ cmd' \in Commands /\ cmd'.ctx = cmd.ctx /\ cmd'.cleaned = cmd.cleaned
        /\ cmd'.resumed = cmd.resumed /\ pc' \in {"finish", "exit"}
    BY <1>1, <1>2 DEF Commands
  <1> QED
    <2>1. /\ UNCHANGED <<suite, rep, wk, queue, run>> /\ faults' \in Nat
          /\ files' \in [begun : BOOLEAN, material : BOOLEAN, staged : SUBSET Plans, published : SUBSET Plans]
          /\ files'.begun /\ files'.material = files.material
          /\ files'.published \in {files.published, jm.kept}
      BY <1>1, <1>2, <1>3, Bounds, Charged DEF RunInv, Types, suitePart
    <2>2. SuiteTypes' BY <1>1, <1>2, <1>3, <2>1 DEF RunInv, SuiteTypes
    <2>3. Owners' BY <1>1, <2>1 DEF RunInv, Owners, Vouches, Live
    <2>4. Agreement' BY <1>1, <1>2, <1>3 DEF RunInv, Agreement
    <2>5. Threading' BY <2>1 DEF RunInv, Threading
    <2>10. SuiteTypes' /\ Owners' /\ Agreement' /\ Threading'
      BY <2>2, <2>3, <2>4, <2>5
    <2>11. Types'
      BY <1>1, <1>4, <2>1 DEF RunInv, Types, Places
    <2>12. Flow'
      BY <1>1, <1>4 DEF RunInv, Flow, SuitePhase, Deleting, Recovering
    <2>13. Slotted'
      BY <1>1, <1>4, <2>1 DEF RunInv, Slotted, Settled, Finishing
    <2>14. Running'
      BY <1>1, <1>4 DEF Running, SuitePhase, Deleting
    <2>15. Ending'
      BY <1>1, <1>4 DEF Ending, Removing
    <2>16. Tenant'
      BY <1>1, <1>4, <2>1, Bounds DEF RunInv, Types, Tenant, Flow, Gone, Absent, There, Finishing
    <2> QED BY <2>10, <2>11, <2>12, <2>13, <2>14, <2>15, <2>16 DEF RunInv

LEMMA ScrubSuiteKeeps ==
  ASSUME RunInv, ScrubSuite
  PROVE  RunInv'
  <1>1. /\ pc = "scrub" /\ jm \in Journals /\ jm # None /\ jd # None /\ run \in Runs /\ cmd \in Commands
        /\ UNCHANGED <<jm, jd, suite, rep, wk, queue, faults, slot, tenant, opt, kills>>
    BY Bounds DEF RunInv, Types, SuiteTypes, ScrubSuite, workerVars, targetVars, journalVars, Flow,
       Recovering
  <1>2. \/ /\ pc' = IF cmd.ctx = "end" THEN "finale" ELSE "finish"
           /\ cmd' = cmd /\ UNCHANGED run
        \/ pc' = "exit" /\ cmd' = [cmd EXCEPT !.exit = "failed"] /\ UNCHANGED run
        \/ /\ ~SuiteSettled(jm) /\ jm.intents = {} /\ pc' = "erase" /\ cmd' = cmd
           /\ run' = [run EXCEPT !.todo = jm.plans, !.cleanupFailed = FALSE]
    BY DEF ScrubSuite, Goto, Quit
  <1>3. /\ files' \in [begun : BOOLEAN, material : BOOLEAN, staged : SUBSET Plans, published : SUBSET Plans]
        /\ files'.begun = files.begun /\ files'.material = files.material
        /\ files'.published = files.published
    BY DEF RunInv, Types, ScrubSuite
  <1>4. /\ cmd' \in Commands /\ cmd'.ctx = cmd.ctx /\ cmd'.cleaned = cmd.cleaned
        /\ cmd'.resumed = cmd.resumed /\ pc' \in {"finale", "finish", "exit", "erase"}
        /\ pc' = "finish" => cmd.ctx # "end"
    BY <1>1, <1>2 DEF Commands
  <1>5. run' \in Runs
    BY ZenonT(60), <1>1, <1>2 DEF Runs, Journals
  <1>6. pc' = "erase" =>
          /\ jm.intents = {} /\ jm.disposition \in {"active", "prepared"} /\ jm.suite
          /\ run'.todo = jm.plans
    BY <1>1, <1>2 DEF SuiteSettled, Runs, Journals
  <1>7. pc' = "erase" => \A p \in Plans : Live(p) => p \in run'.todo
    BY <1>1, <1>6 DEF RunInv, Owners, Vouches, Owns
  <1>8. SuiteTypes' BY <1>1, <1>5 DEF RunInv, SuiteTypes
  <1>9. Owners' /\ Agreement' /\ Threading'
    BY <1>1, <1>3 DEF RunInv, Owners, Vouches, Live, Agreement, Threading
  <1>10. SuiteTypes' /\ Owners' /\ Agreement' /\ Threading'
    BY <1>8, <1>9
  <1>11. Types'
    BY <1>1, <1>3, <1>4, <1>6, <1>7 DEF RunInv, Types, Places, Closing, Finishing
  <1>12. Flow'
    BY <1>1, <1>3, <1>4, <1>6, <1>7 DEF RunInv, Flow, SuitePhase, Deleting, Closing, Recovering
  <1>13. Slotted'
    BY <1>1, <1>3, <1>4, <1>6, <1>7 DEF RunInv, Slotted, Settled, SuitePhase, Deleting, Closing,
       Finishing, Removing
  <1>14. Running'
    BY <1>1, <1>3, <1>4, <1>6 DEF Running, SuitePhase, Deleting
  <1>15. Ending'
    BY <1>1, <1>3, <1>4, <1>6, <1>7 DEF Ending, Removing, Live
  <1>16. Tenant'
    BY <1>1, <1>3, <1>4, <1>6, <1>7, Bounds DEF RunInv, Types, Tenant, Flow, Slotted, Gone, Absent,
       There, Finishing, Removing
  <1> QED BY <1>10, <1>11, <1>12, <1>13, <1>14, <1>15, <1>16 DEF RunInv

(* A deletion that is not refused or lost leaves no live plan, and none comes *)
(* back.                                                                      *)
LEMMA Deletes ==
  ASSUME suite \in [Plans -> Results], NEW q \in Plans, NEW r, suite' = Deleted(q, r)
  PROVE  /\ suite' \in [Plans -> Results]
         /\ \A p \in Plans : Live(p)' => Live(p)
         /\ r = "ok" => ~Live(q)'
  <1> DEFINE yes == TRUE
             fixed == [suite[q] EXCEPT !.fixed = yes]
             gone == [suite[q] EXCEPT !.st = "gone"]
  <1>1. suite[q] \in Results OBVIOUS
  <1>2. yes \in BOOLEAN OBVIOUS
  <1> HIDE DEF yes
  <1>3. fixed \in Results /\ fixed.st = suite[q].st /\ gone \in Results /\ gone.st = "gone"
    BY <1>1, <1>2 DEF Results
  <1>4. \/ r # "ok" /\ suite' = [suite EXCEPT ![q] = fixed]
        \/ r # "ok" /\ suite' = suite
        \/ suite' = [suite EXCEPT ![q] = gone]
    BY DEF Deleted, yes
  <1> HIDE DEF fixed, gone
  <1> QED BY <1>3, <1>4 DEF Live

LEMMA EraseNextKeeps ==
  ASSUME RunInv, EraseNext
  PROVE  RunInv'
  <1>1. /\ pc = "erase" /\ pc' = pc /\ jm \in Journals /\ jm # None /\ jd # None /\ run \in Runs /\ cmd \in Commands
        /\ UNCHANGED <<cmd, jm, jd, rep, wk, queue, slot, tenant, files, opt, kills>> /\ run.todo # {}
        /\ suite \in [Plans -> Results]
    BY Bounds DEF RunInv, Types, SuiteTypes, EraseNext, workerVars, targetVars, journalVars, Flow,
       Recovering
  <1>3. PICK q \in Plans : q = FirstOf(run.todo) /\ q \in run.todo
    BY <1>1, Bounds, FirstIsOne DEF Runs
  <1>2. PICK r : /\ ChargeDelete(q, r)
                 /\ suite' = Deleted(q, r)
                 /\ run' = [run EXCEPT !.todo = @ \ {q}, !.cleanupFailed = @ \/ r # "ok"]
    BY <1>3 DEF EraseNext
  <1>4. /\ suite' \in [Plans -> Results] /\ run' \in Runs /\ faults' \in Nat
        /\ \A p \in Plans : Live(p)' => Live(p)
        /\ r = "ok" => ~Live(q)'
        /\ run'.todo = run.todo \ {q} /\ (run'.cleanupFailed <=> run.cleanupFailed \/ r # "ok")
    <2>1. /\ suite' \in [Plans -> Results] /\ \A p \in Plans : Live(p)' => Live(p)
          /\ r = "ok" => ~Live(q)'
      BY <1>1, <1>2, Deletes
    <2>2. faults' \in Nat
      BY <1>2, Bounds, Charged DEF ChargeDelete
    <2>3. /\ run' \in Runs
          /\ run'.todo = run.todo \ {q} /\ (run'.cleanupFailed <=> run.cleanupFailed \/ r # "ok")
      BY <1>1, <1>2, <1>3 DEF Runs
    <2> QED BY <2>1, <2>2, <2>3
  <1>5. SuiteTypes' BY <1>1, <1>4 DEF RunInv, SuiteTypes
  <1>6. Owners'
    <2>1. Vouches(jm)' /\ Vouches(jd)'
      BY <1>1, <1>4 DEF RunInv, Owners, Vouches, Consistent, Owns
    <2> QED BY <1>1, <1>4, <2>1 DEF RunInv, Owners
  <1>7. Agreement' /\ Threading'
    BY <1>1 DEF RunInv, Agreement, Threading
  <1>8. \A p \in Plans : Live(p)' => p \in run'.todo \/ run'.cleanupFailed
    BY <1>1, <1>4 DEF RunInv, Ending
  <1>10. SuiteTypes' /\ Owners' /\ Agreement' /\ Threading'
    BY <1>5, <1>6, <1>7
  <1>11. Types'
    BY <1>1 DEF RunInv, Types
  <1>12. Flow'
    BY <1>1 DEF RunInv, Flow
  <1>13. Slotted'
    BY <1>1, <1>8 DEF RunInv, Slotted
  <1>14. Running'
    BY <1>1 DEF Running, SuitePhase, Deleting
  <1>15. Ending'
    BY <1>1, <1>8 DEF RunInv, Ending, Removing
  <1>16. Tenant'
    BY <1>1, <1>8, Bounds DEF RunInv, Types, Tenant, Flow, Gone, Absent, There
  <1> QED BY <1>10, <1>11, <1>12, <1>13, <1>14, <1>15, <1>16 DEF RunInv

LEMMA ErasedKeeps ==
  ASSUME RunInv, Erased
  PROVE  RunInv'
  <1>0. PICK new : new = MarkSuiteClean(jm)
    OBVIOUS
  <1>1. /\ pc = "erase" /\ jm \in Journals /\ jm # None /\ jd # None /\ cmd \in Commands
        /\ UNCHANGED <<suitePart, slot, tenant, files, opt, kills>> /\ run.todo = {}
        /\ jm.disposition # "retained" /\ jm.intents = {} /\ jm.suite
    BY Bounds DEF RunInv, Types, Erased, Ending, targetVars, Flow, Recovering
  <1>2. \/ pc' = "exit" /\ cmd' = [cmd EXCEPT !.exit = "failed"] /\ UNCHANGED <<jm, jd, faults>>
        \/ /\ ~run.cleanupFailed
           /\ \E r : Save(new, r)
           /\ \/ pc' = "exit" /\ cmd' = [cmd EXCEPT !.exit = "failed"]
              \/ pc' = (IF cmd.ctx = "end" THEN "finale" ELSE "finish") /\ cmd' = cmd
    BY <1>0 DEF Erased, Goto, Quit, journalVars
  <1>3. /\ new \in Journals /\ new.tenantClean = jm.tenantClean /\ new.suite = jm.suite
        /\ new.plans = {} /\ new.intents = jm.intents /\ new.suiteClean /\ new.disposition = "cleaned" /\ new # None
    BY <1>0, <1>1, SuiteMarked, Bounds
  <1>4. /\ cmd' \in Commands /\ cmd'.ctx = cmd.ctx /\ cmd'.cleaned = cmd.cleaned
        /\ cmd'.resumed = cmd.resumed /\ pc' \in {"finale", "finish", "exit"}
        /\ pc' = "finish" => cmd.ctx # "end"
    BY <1>1, <1>2 DEF Commands
  <1>5. CASE pc' = "exit" /\ UNCHANGED <<jm, jd, faults>>
    <2>1. Stays BY <1>1, <1>5, Bounds DEF Stays
    <2>10. SuiteTypes' /\ Owners' /\ Agreement' /\ Threading'
      BY <1>1, <1>4, <1>5, <2>1, Quiet DEF Stays
    <2>11. Types'
      BY <1>1, <1>4, <1>5, <2>1 DEF RunInv, Types, Places
    <2>12. Flow'
      BY <1>1, <1>4, <1>5, <2>1 DEF RunInv, Flow, SuitePhase, Deleting, Recovering
    <2>13. Slotted'
      BY <1>1, <1>4, <1>5, <2>1 DEF RunInv, Slotted, Settled, SuitePhase, Deleting, Closing,
         Finishing, Removing
    <2>14. Running'
      BY <1>1, <1>4, <1>5 DEF Running, SuitePhase, Deleting
    <2>15. Ending'
      BY <1>1, <1>4, <1>5, <2>1 DEF Ending, Removing
    <2>16. Tenant'
      BY <1>1, <1>4, <1>5, <2>1, Bounds DEF RunInv, Types, Tenant, Flow, Slotted, Gone, Absent,
         There, Finishing, Removing
    <2> QED BY <2>10, <2>11, <2>12, <2>13, <2>14, <2>15, <2>16 DEF RunInv
  <1>6. ASSUME ~run.cleanupFailed, NEW r, Save(new, r)
        PROVE  RunInv'
    <2>6. \A p \in Plans : ~Live(p)
      BY <1>1, <1>6 DEF RunInv, Ending
    <2>1. UNCHANGED <<suite, rep, wk, queue, run>> /\ jm' = new /\ jd' \in {jd, new} /\ faults' \in Nat
      BY <1>1, <1>3, <1>6, <2>6, Bounds, Written DEF suitePart
    <2>2. SuiteTypes' BY <1>1, <1>3, <1>6, <2>6, <2>1 DEF RunInv, SuiteTypes
    <2>3. Vouches(new)' /\ Vouches(jd)'
      BY <1>1, <1>3, <2>6, <2>1 DEF RunInv, Owners, Vouches, Consistent, Live
    <2>4. Owners' /\ Agreement'
      BY <1>1, <1>3, <1>6, <2>6, <2>1, <2>3, SuiteSaved
    <2>5. Threading' BY <2>1 DEF RunInv, Threading
    <2>10. SuiteTypes' /\ Owners' /\ Agreement' /\ Threading'
      BY <2>2, <2>4, <2>5
    <2>11. Types'
      BY <1>1, <1>3, <1>4 DEF RunInv, Types, Places, Closing, Finishing
    <2>12. Flow'
      BY <1>1, <1>3, <1>4, <2>1 DEF RunInv, Flow, SuitePhase, Deleting, Closing, Recovering
    <2>13. Slotted'
      BY <1>1, <1>3, <1>4, <2>1 DEF RunInv, Slotted, Settled, SuitePhase, Deleting, Closing,
         Finishing, Removing
    <2>14. Running'
      BY <1>1, <1>3, <1>4 DEF Running, SuitePhase, Deleting
    <2>15. Ending'
      BY <1>1, <1>3, <1>4 DEF Ending, Removing
    <2>16. Tenant'
      BY <1>1, <1>3, <1>4, <2>1, Bounds DEF RunInv, Types, Tenant, Flow, Gone, Absent, There,
         Finishing, Removing
    <2> QED BY <2>10, <2>11, <2>12, <2>13, <2>14, <2>15, <2>16 DEF RunInv
  <1> QED BY <1>2, <1>5, <1>6

LEMMA SuiteResultKeeps ==
  ASSUME RunInv, SuiteResult
  PROVE  RunInv'
  <1> DEFINE c == [cmd EXCEPT !.errs = run.user]
  <1>1. /\ pc = "result" /\ jm \in Journals /\ jm # None /\ jd # None /\ cmd \in Commands /\ run \in Runs
        /\ UNCHANGED <<suitePart, slot, tenant, files, opt, kills>> /\ slot = None /\ ~cmd.cleaned
        /\ jm.disposition # "retained" /\ cmd.ctx = "end"
    BY Bounds DEF RunInv, Types, SuiteTypes, SuiteResult, Running, Slotted, Settled, SuitePhase,
       Deleting, targetVars, Flow, Closing, Finishing, Removing
  <1>2. \/ /\ pc' = "exit" /\ cmd' = [cmd EXCEPT !.exit = "failed"] /\ UNCHANGED <<jm, jd, faults>>
        \/ /\ \E e \in BOOLEAN : pc' = "clean" /\ cmd' = [c EXCEPT !.errs = @ \/ e]
           /\ UNCHANGED <<jm, jd, faults>>
        \/ /\ CleanupComplete /\ CanMarkSuiteClean(jm) /\ \E r : Save(MarkSuiteClean(jm), r)
           /\ \/ pc' = "exit" /\ cmd' = [cmd EXCEPT !.exit = "failed"]
              \/ pc' = "clean" /\ cmd' = c
        \/ /\ CanPrepareRetention(jm, run.keep)
           /\ \E r : /\ Save(PrepareRetention(jm, run.keep), r)
                     /\ cmd' = [c EXCEPT !.elig = r = "ok", !.errs = r # "ok"]
           /\ pc' = "clean"
    BY DEF SuiteResult, Quit, journalVars, RetentionEligible
  <1>4. /\ cmd' \in Commands /\ cmd'.ctx = cmd.ctx /\ cmd'.cleaned = cmd.cleaned
        /\ cmd'.resumed = cmd.resumed /\ pc' \in {"clean", "exit"}
    <2>1. c \in Commands /\ c.ctx = cmd.ctx /\ c.cleaned = cmd.cleaned /\ c.resumed = cmd.resumed
      BY <1>1 DEF Commands, Runs
    <2> HIDE DEF c
    <2>2. \/ pc' = "exit" /\ cmd' = [cmd EXCEPT !.exit = "failed"]
          \/ pc' = "clean" /\ cmd' = c
          \/ pc' = "clean" /\ \E e \in BOOLEAN : cmd' = [c EXCEPT !.errs = @ \/ e]
          \/ pc' = "clean" /\ \E e, f \in BOOLEAN : cmd' = [c EXCEPT !.elig = e, !.errs = f]
      BY <1>2
    <2>3. CASE pc' = "exit" /\ cmd' = [cmd EXCEPT !.exit = "failed"]
      BY <1>1, <2>3 DEF Commands
    <2>5. CASE pc' = "clean" /\ cmd' = c
      BY <1>1, <2>1, <2>5
    <2>6. CASE pc' = "clean" /\ \E e \in BOOLEAN : cmd' = [c EXCEPT !.errs = @ \/ e]
      BY <1>1, <2>1, <2>6 DEF Commands
    <2>4. CASE pc' = "clean" /\ \E e, f \in BOOLEAN : cmd' = [c EXCEPT !.elig = e, !.errs = f]
      BY ZenonT(60), <1>1, <2>1, <2>4 DEF Commands
    <2> QED BY <2>2, <2>3, <2>4, <2>5, <2>6
  <1> HIDE DEF c
  <1>5. CASE UNCHANGED <<jm, jd, faults>>
    <2>1. Stays BY <1>1, <1>5, Bounds DEF Stays
    <2>10. SuiteTypes' /\ Owners' /\ Agreement' /\ Threading'
      BY <1>1, <1>4, <1>5, <2>1, Quiet DEF Stays
    <2>11. Types'
      BY <1>1, <1>4, <1>5, <2>1 DEF RunInv, Types, Places
    <2>12. Flow'
      BY <1>1, <1>4, <1>5, <2>1 DEF RunInv, Flow, Recovering
    <2>13. Slotted'
      BY <1>1, <1>4, <1>5, <2>1 DEF RunInv, Slotted
    <2>14. Running'
      BY <1>1, <1>4, <1>5 DEF Running, SuitePhase, Deleting
    <2>15. Ending'
      BY <1>1, <1>4, <1>5, <2>1 DEF Ending, Removing
    <2>16. Tenant'
      BY <1>1, <1>4, <1>5, <2>1, Bounds DEF RunInv, Types, Tenant, Flow, Slotted, Gone, Absent,
         There, Finishing, Removing
    <2> QED BY <2>10, <2>11, <2>12, <2>13, <2>14, <2>15, <2>16 DEF RunInv
  <1>6. ASSUME NEW new \in Journals, NEW r, Save(new, r), Vouches(new), new.disposition # "retained",
               new.tenantClean = jm.tenantClean, new.suite = jm.suite
        PROVE  RunInv'
    <2>6. new # None BY Bounds
    <2>1. UNCHANGED <<suite, rep, wk, queue, run>> /\ jm' = new /\ jd' \in {jd, new} /\ faults' \in Nat
      BY <1>1, <1>6, Bounds, Written DEF suitePart
    <2>2. SuiteTypes' BY <1>1, <1>6, <2>1 DEF RunInv, SuiteTypes
    <2>3. Vouches(new)' /\ Vouches(jd)'
      BY <1>1, <1>6, <2>1 DEF RunInv, Owners, Vouches, Consistent, Owns, Live
    <2>4. Owners' /\ Agreement'
      BY <1>1, <1>6, <2>1, <2>3, SuiteSaved
    <2>5. Threading' BY <2>1 DEF RunInv, Threading
    <2>10. SuiteTypes' /\ Owners' /\ Agreement' /\ Threading'
      BY <2>2, <2>4, <2>5
    <2>11. Types'
      BY <1>1, <1>4, <1>6, <2>1 DEF RunInv, Types, Places
    <2>12. Flow'
      BY <1>1, <1>4, <1>6, <2>1, <2>6 DEF RunInv, Flow, Recovering
    <2>13. Slotted'
      BY <1>1, <1>4, <1>6, <2>1, <2>6 DEF Slotted
    <2>14. Running'
      BY <1>1, <1>4, <1>6 DEF Running, SuitePhase, Deleting
    <2>15. Ending'
      BY <1>1, <1>4, <1>6, <2>1 DEF Ending, Removing
    <2>16. Tenant'
      BY <1>1, <1>4, <1>6, <2>1, <2>6, Bounds DEF RunInv, Types, Tenant, Flow, Gone, Absent, There,
         Finishing, Removing
    <2> QED BY <2>10, <2>11, <2>12, <2>13, <2>14, <2>15, <2>16 DEF RunInv
  <1>7. ASSUME CleanupComplete, CanMarkSuiteClean(jm), NEW r, Save(MarkSuiteClean(jm), r)
        PROVE  RunInv'
    <2>1. \A p \in Plans : ~Live(p)
      <3>1. run.todo = {} /\ run.keep = {} /\ ~run.cleanupFailed /\ run.ids \subseteq Plans /\ jm.intents = {}
        BY <1>1, <1>7 DEF RunInv, Running, CleanupComplete, CanMarkSuiteClean, Runs
      <3>2. \A p \in Plans : Live(p) => p \in jm.plans
        BY <1>1, <3>1 DEF RunInv, Owners, Vouches, Owns
      <3> QED BY <1>1, <3>1, <3>2 DEF RunInv, Running, SuitePhase, Deleting
    <2>2. /\ MarkSuiteClean(jm) \in Journals /\ Vouches(MarkSuiteClean(jm))
          /\ MarkSuiteClean(jm).disposition # "retained"
          /\ MarkSuiteClean(jm).tenantClean = jm.tenantClean /\ MarkSuiteClean(jm).suite = jm.suite
      BY <1>1, <1>7, <2>1, SuiteMarked DEF Vouches, Consistent, CanMarkSuiteClean
    <2> QED BY <1>6, <1>7, <2>2
  <1>8. ASSUME CanPrepareRetention(jm, run.keep), NEW r, Save(PrepareRetention(jm, run.keep), r)
        PROVE  RunInv'
    <2> DEFINE new == PrepareRetention(jm, run.keep)
    <2>1. /\ new \in Journals /\ new.tenantClean = jm.tenantClean /\ new.suite = jm.suite
          /\ new.plans = jm.plans /\ new.intents = jm.intents /\ new.suiteClean = jm.suiteClean
          /\ new.disposition = "prepared" /\ new.kept = run.keep
      BY <1>1, RetentionPrepared DEF Runs
    <2> HIDE DEF new
    <2>2. Vouches(new)
      BY <1>1, <1>8, <2>1 DEF RunInv, Owners, Vouches, Consistent, Owns, CanPrepareRetention
    <2> QED BY <1>6, <1>8, <2>1, <2>2 DEF new
  <1> QED BY <1>2, <1>5, <1>7, <1>8

-----------------------------------------------------------------------------
(* The Suite phase and its workers.                                           *)

(* Inside the Suite phase the tenant's side does not move.                    *)
LEMMA InSuite ==
  ASSUME RunInv, pc \in SuitePhase, pc' \in SuitePhase, UNCHANGED localVars,
         jm' \in Journals, jd' \in {jd, jm'}, jm'.tenantClean = jm.tenantClean,
         jm'.disposition = "active", Vouches(jm)', Vouches(jd)',
         SuiteTypes', Threading', Running'
  PROVE  RunInv'
  <1>1. /\ jm # None /\ jd # None /\ jm' # None /\ jd' # None /\ cmd.ctx = "end" /\ slot = None
        /\ pc \notin {"exit", "finale"}
    BY Bounds DEF RunInv, Flow, Slotted, Settled, Recovering, SuitePhase, Deleting
  <1>2. UNCHANGED <<slot, tenant, files, cmd, opt, kills>>
    BY DEF localVars
  <1>3. /\ files.begun /\ files.published = {} /\ jd.disposition # "retained"
        /\ jd'.tenantClean \in {jd.tenantClean, jm.tenantClean}
        /\ jd'.disposition # "retained"
    BY <1>1, Unretained DEF RunInv, Running
  <1>4. Owners' /\ Agreement' BY <1>1, <1>2, <1>3 DEF Owners, Agreement
  <1>5. Types' BY <1>2 DEF RunInv, Types, Places
  <1>6. Flow'
    BY <1>1, <1>2 DEF RunInv, Flow, Recovering, Closing, Finishing, Removing, SuitePhase, Deleting
  <1>7. Slotted'
    BY <1>1, <1>2 DEF Slotted, Closing, SuitePhase, Deleting
  <1>8. Ending' BY DEF Ending, Removing, SuitePhase, Deleting
  <1>9. Tenant'
    BY <1>1, <1>2, <1>3 DEF RunInv, Tenant, There, Gone, Absent, Flow, Recovering, Finishing,
       Removing,
       Closing, SuitePhase, Deleting
  <1> QED BY <1>4, <1>5, <1>6, <1>7, <1>8, <1>9 DEF RunInv

(* A step that leaves the journal alone and creates no plan.                  *)
LEMMA Unwritten ==
  ASSUME RunInv, pc \in SuitePhase, pc' \in SuitePhase, UNCHANGED <<jm, jd>>, UNCHANGED localVars,
         \A p \in Plans : Live(p)' => Live(p), SuiteTypes', Threading', Running'
  PROVE  RunInv'
  <1>1. /\ jm # None /\ jd # None /\ jm \in Journals /\ jm.disposition = "active"
        /\ Vouches(jm) /\ Vouches(jd)
    BY Bounds DEF RunInv, Flow, Running, Owners, Recovering, SuitePhase, Deleting
  <1>2. Vouches(jm)' /\ Vouches(jd)'
    BY <1>1 DEF Vouches, Consistent, Owns
  <1> QED BY <1>1, <1>2, InSuite

LEMMA Phased ==
  ASSUME RunInv, pc \in SuitePhase
  PROVE  /\ jm # None /\ jm \in Journals /\ jm.disposition = "active" /\ jm.plans \subseteq run.ids
         /\ jd # None /\ Vouches(jm) /\ Vouches(jd) /\ RunConstants /\ run \in Runs /\ faults \in Nat
         /\ suite \in [Plans -> Results] /\ rep \in [Plans -> Reports]
         /\ wk \in [Workers -> Threads] /\ queue \in Seq(Plans) /\ jd \in Journals
  BY DEF RunInv, SuiteTypes, Flow, Running, Owners, SuitePhase, Deleting

LEMMA ProbeSuiteKeeps ==
  ASSUME RunInv, ProbeSuite, UNCHANGED localVars
  PROVE  RunInv'
  <1>1. /\ pc = "suite" /\ UNCHANGED <<jm, jd, suite, rep, wk, queue>>
    BY DEF ProbeSuite, journalVars, workerVars
  <1>2. PICK r : /\ Charge(r)
                 /\ \/ pc' = "plans" /\ UNCHANGED run
                    \/ pc' = "merge" /\ run' = [run EXCEPT !.errs = @ \cup {"error"}]
                    \/ pc' = "result" /\ run' = [run EXCEPT !.errs = {"error"}, !.cleanupFailed = TRUE]
    BY DEF ProbeSuite, Outcomes, PlanError
  <1>3. pc \in SuitePhase BY <1>1 DEF SuitePhase
  <1>4. /\ run' \in Runs /\ run'.ids = run.ids /\ pc' \in {"plans", "merge", "result"}
        /\ pc' = "result" => run'.cleanupFailed
    <2>1. run \in Runs BY <1>3, Phased
    <2>2. CASE pc' = "plans" /\ UNCHANGED run BY <2>1, <2>2
    <2>3. CASE pc' = "merge" /\ run' = [run EXCEPT !.errs = @ \cup {"error"}]
      BY <2>1, <2>3 DEF Runs, Errors
    <2>4. CASE pc' = "result" /\ run' = [run EXCEPT !.errs = {"error"}, !.cleanupFailed = TRUE]
      BY <2>1, <2>4 DEF Runs, Errors
    <2> QED BY <1>2, <2>2, <2>3, <2>4
  <1>5. SuiteTypes' /\ Threading'
    BY <1>1, <1>2, <1>4, Bounds, Charged DEF RunInv, SuiteTypes, Threading
  <1>6. Running' BY <1>1, <1>3, <1>4, Phased DEF Running, Deleting, SuitePhase
  <1> QED BY <1>1, <1>3, <1>4, <1>5, <1>6, Unwritten DEF SuitePhase, Deleting, Live

LEMMA PlanInterruptedKeeps ==
  ASSUME RunInv, PlanInterrupted, UNCHANGED localVars
  PROVE  RunInv'
  <1>1. /\ pc = "plans" /\ UNCHANGED <<jm, jd, suite, rep, wk, queue, faults>> /\ pc' = "merge"
        /\ run' = [run EXCEPT !.errs = @ \cup {"interrupted"}]
    BY DEF PlanInterrupted, journalVars, workerVars, PlanError
  <1>2. pc \in SuitePhase /\ pc' \in SuitePhase BY <1>1 DEF SuitePhase
  <1>3. run' \in Runs /\ run'.ids = run.ids
    BY <1>1, <1>2, Phased DEF Runs, Errors
  <1>4. SuiteTypes' /\ Threading' BY <1>1, <1>3 DEF RunInv, SuiteTypes, Threading
  <1>5. Running' BY <1>1, <1>2, <1>3, Phased DEF Running, Deleting
  <1> QED BY <1>1, <1>2, <1>4, <1>5, Unwritten DEF Live

LEMMA PlanIntentKeeps ==
  ASSUME RunInv, PlanIntent, UNCHANGED localVars
  PROVE  RunInv'
  <1>1. /\ pc = "plans" /\ UNCHANGED <<suite, rep, wk, queue>> /\ Uncreated # {}
    BY DEF PlanIntent, workerVars
  <1>2. pc \in SuitePhase BY <1>1 DEF SuitePhase
  <1>3. PICK q \in Plans : q = NextPlan
    BY <1>1, <1>2, Phased, FirstIsOne DEF Uncreated, NextPlan
  <1>4. PICK r : /\ Save(BeginCreate(jm, <<q, 0>>), r)
                 /\ \/ r = "ok" /\ pc' = "pcreate" /\ UNCHANGED run
                    \/ pc' = "merge" /\ run' = [run EXCEPT !.errs = @ \cup {"error"}]
    BY <1>3 DEF PlanIntent, PlanError
  <1>5. /\ jm' \in Journals /\ jm'.tenantClean = jm.tenantClean /\ jm'.suite
        /\ jm'.plans = jm.plans /\ jm'.intents = jm.intents \cup {<<q, 0>>}
        /\ jm'.suiteClean = jm.suiteClean /\ jm'.disposition = jm.disposition /\ jm'.kept = jm.kept
        /\ jd' \in {jd, jm'} /\ faults' \in Nat /\ (r = "ok" => jd' = jm')
    BY <1>2, <1>4, Phased, CreateBegun, Written
  <1>6. run' \in Runs /\ run'.ids = run.ids /\ pc' \in {"pcreate", "merge"}
    BY ZenonT(60), <1>2, <1>4, Phased DEF Runs, Errors
  <1>7. SuiteTypes' /\ Threading'
    BY <1>1, <1>2, <1>5, <1>6, Phased DEF RunInv, SuiteTypes, Threading
  <1>8. Vouches(jm)' /\ Vouches(jd)'
    BY <1>1, <1>2, <1>5, Phased DEF Vouches, Consistent, Owns, Live
  <1>9. Running'
    <2>1. Uncreated' = Uncreated /\ NextPlan' = NextPlan
      BY <1>6 DEF Uncreated, NextPlan, FirstOf
    <2> QED BY <1>1, <1>2, <1>3, <1>4, <1>5, <1>6, <2>1, Phased DEF Running, Deleting
  <1> QED BY <1>2, <1>5, <1>6, <1>7, <1>8, <1>9, Phased, InSuite DEF SuitePhase

LEMMA PlanCreateKeeps ==
  ASSUME RunInv, PlanCreate, UNCHANGED localVars
  PROVE  RunInv'
  <1>1. /\ pc = "pcreate" /\ UNCHANGED <<jm, jd, rep, wk, queue>> /\ Uncreated # {} /\ jm = jd
        /\ <<NextPlan, 0>> \in jm.intents
    BY DEF PlanCreate, workerVars, journalVars, RunInv, Running
  <1>2. pc \in SuitePhase BY <1>1 DEF SuitePhase
  <1>3. PICK q \in Plans : q = NextPlan
    BY <1>1, <1>2, Phased, FirstIsOne DEF Uncreated, NextPlan
  <1>4. PICK r : /\ Charge(r)
                 /\ suite' \in {suite, [suite EXCEPT ![q].st = "live"]}
                 /\ \/ pc' = "precord" /\ run' = [run EXCEPT !.ids = @ \cup {q}]
                    \/ pc' = "merge" /\ run' = [run EXCEPT !.errs = @ \cup {"error"}]
    BY <1>3 DEF PlanCreate, PlanError
  <1>5. /\ run' \in Runs /\ run'.ids \in {run.ids, run.ids \cup {q}} /\ pc' \in {"precord", "merge"}
        /\ pc' = "precord" => q \in run'.ids
    BY <1>2, <1>4, Phased DEF Runs, Errors
  <1>6. /\ suite' \in [Plans -> Results] /\ faults' \in Nat
        /\ \A p \in Plans : Live(p)' => Live(p) \/ p = q
    BY <1>2, <1>4, Phased, Charged DEF Results, Live
  <1>7. SuiteTypes' /\ Threading'
    BY <1>1, <1>5, <1>6 DEF RunInv, SuiteTypes, Threading
  <1>8. Vouches(jm)' /\ Vouches(jd)'
    BY <1>1, <1>2, <1>3, <1>6, Phased DEF Vouches, Consistent, Owns
  <1>9. Running'
    BY <1>1, <1>2, <1>3, <1>5, Phased DEF Running, Deleting
  <1> QED BY <1>1, <1>2, <1>5, <1>7, <1>8, <1>9, Phased, InSuite DEF SuitePhase

LEMMA PlanRecordKeeps ==
  ASSUME RunInv, PlanRecord, UNCHANGED localVars
  PROVE  RunInv'
  <1>1. /\ pc = "precord" /\ UNCHANGED <<suite, rep, wk, queue>>
        /\ \E p \in run.ids : <<p, 0>> \in jm.intents
    BY DEF PlanRecord, workerVars, RunInv, Running
  <1>2. pc \in SuitePhase BY <1>1 DEF SuitePhase
  <1>3. LastPlan \in run.ids
    BY <1>1 DEF LastPlan
  <1>4. PICK q \in Plans : q = LastPlan
    BY <1>2, <1>3, Phased DEF Runs
  <1>5. PICK r : /\ Charge(r) /\ jm' = RecordCreated(jm, <<q, 0>>) /\ jd' \in {jd, jm'}
                 /\ \/ pc' = "plans" /\ UNCHANGED run
                    \/ pc' = "merge" /\ run' = [run EXCEPT !.errs = @ \cup {"error"}]
    BY <1>4 DEF PlanRecord, PlanError
  <1>6. /\ jm' \in Journals /\ jm'.tenantClean = jm.tenantClean /\ jm'.suite = jm.suite
        /\ jm'.plans = jm.plans \cup {q} /\ jm'.intents = jm.intents \ {<<q, 0>>}
        /\ jm'.suiteClean = jm.suiteClean /\ jm'.disposition = jm.disposition /\ jm'.kept = jm.kept
    BY <1>2, <1>5, Phased, CreateRecorded
  <1>7. /\ run' \in Runs /\ run'.ids = run.ids /\ pc' \in {"plans", "merge"} /\ faults' \in Nat
    BY <1>2, <1>5, Phased, Charged DEF Runs, Errors
  <1>8. SuiteTypes' /\ Threading'
    BY <1>1, <1>2, <1>5, <1>6, <1>7, Phased DEF RunInv, SuiteTypes, Threading
  <1>9. jm.suite BY <1>1, <1>2, Phased DEF Vouches, Consistent
  <1>10. Vouches(jm)' /\ Vouches(jd)'
    BY <1>1, <1>2, <1>5, <1>6, <1>9, Phased DEF Vouches, Consistent, Owns, Live
  <1>11. Running'
    BY <1>2, <1>3, <1>4, <1>6, <1>7, Phased DEF Running, Deleting
  <1> QED BY <1>2, <1>5, <1>6, <1>8, <1>10, <1>11, Phased, InSuite DEF SuitePhase

LEMMA LaunchKeeps ==
  ASSUME RunInv, Launch, UNCHANGED localVars
  PROVE  RunInv'
  <1>1. /\ pc = "plans" /\ pc' = "work" /\ UNCHANGED <<jm, jd, suite, rep, run, faults>>
        /\ queue' = PlanSeq /\ wk' = [w \in Workers |-> [at |-> "idle", plan |-> None]]
    BY DEF Launch, journalVars
  <1>2. pc \in SuitePhase /\ pc' \in SuitePhase BY <1>1 DEF SuitePhase
  <1>3. queue' \in Seq(Plans) /\ wk' \in [Workers -> Threads]
    BY <1>1, <1>2, Phased DEF RunConstants, SuiteAssumption, Threads
  <1>4. SuiteTypes' BY <1>1, <1>3 DEF RunInv, SuiteTypes
  <1>5. Threading' BY <1>1 DEF Threading, Busy
  <1>6. Running' BY <1>1, <1>2, Phased DEF Running, Deleting
  <1> QED BY <1>1, <1>2, <1>4, <1>5, <1>6, Unwritten DEF Live

LEMMA JoinKeeps ==
  ASSUME RunInv, Join, UNCHANGED localVars
  PROVE  RunInv'
  <1>1. /\ pc = "work" /\ pc' = "merge" /\ UNCHANGED <<jm, jd, suite, rep, wk, queue, run, faults>>
    BY DEF Join, journalVars, workerVars
  <1>2. pc \in SuitePhase /\ pc' \in SuitePhase BY <1>1 DEF SuitePhase
  <1>4. SuiteTypes' /\ Threading' BY <1>1 DEF RunInv, SuiteTypes, Threading
  <1>6. Running' BY <1>1, <1>2, Phased DEF Running, Deleting
  <1> QED BY <1>1, <1>2, <1>4, <1>6, Unwritten DEF Live

LEMMA DeletesDoneKeeps ==
  ASSUME RunInv, DeletesDone, UNCHANGED localVars
  PROVE  RunInv'
  <1>1. /\ pc = "delete" /\ pc' = "result" /\ UNCHANGED <<jm, jd, suite, rep, wk, queue, run, faults>>
        /\ run.todo = {}
    BY DEF DeletesDone, journalVars, workerVars
  <1>2. pc \in SuitePhase /\ pc' \in SuitePhase BY <1>1 DEF SuitePhase, Deleting
  <1>4. SuiteTypes' /\ Threading' BY <1>1 DEF RunInv, SuiteTypes, Threading
  <1>6. Running' BY <1>1, <1>2, Phased DEF RunInv, Running, Deleting, Live
  <1> QED BY <1>1, <1>2, <1>4, <1>6, Unwritten DEF Live

LEMMA InterruptKeeps ==
  ASSUME RunInv, Interrupt
  PROVE  RunInv'
  <1>1. /\ pc \in {"suite", "plans", "pcreate", "precord", "work", "merge", "delete"}
        /\ UNCHANGED <<pc, jm, jd, suite, rep, wk, queue, faults, slot, tenant, files, cmd, opt, kills>>
        /\ run' = [run EXCEPT !.user = TRUE, !.intr = TRUE]
    BY DEF Interrupt, journalVars, workerVars, targetVars
  <1>2. pc \in SuitePhase /\ pc' \in SuitePhase BY <1>1 DEF SuitePhase, Deleting
  <1>3. /\ run' \in Runs /\ run'.ids = run.ids /\ run'.keep = run.keep /\ run'.todo = run.todo
        /\ run'.cleanupFailed = run.cleanupFailed
    BY <1>1, <1>2, Phased DEF Runs
  <1>4. SuiteTypes' /\ Threading' BY <1>1, <1>3 DEF RunInv, SuiteTypes, Threading
  <1>5. Uncreated' = Uncreated /\ NextPlan' = NextPlan
    BY <1>3 DEF Uncreated, NextPlan, FirstOf
  <1>6. Running'
    BY <1>1, <1>2, <1>3, <1>5, Phased DEF RunInv, Running, Deleting, Live
  <1> QED BY <1>1, <1>2, <1>4, <1>6, Unwritten DEF Live, localVars

LEMMA MergedTyped ==
  ASSUME run \in Runs, rep \in [Plans -> Reports], NEW retain \in BOOLEAN
  PROVE  /\ MergedReport(retain) \in Runs /\ MergedReport(retain).ids = run.ids
         /\ run.ids \subseteq MergedReport(retain).keep \cup MergedReport(retain).todo
  <1>1. MergedErrors \in SUBSET Errors
    <2>1. \A p \in Plans : rep[p].errs \subseteq Errors BY DEF Reports
    <2>2. UNION {rep[p].errs : p \in Plans} \subseteq Errors BY <2>1
    <2>3. run.errs \subseteq Errors BY DEF Runs
    <2> DEFINE told == UNION {rep[p].errs : p \in Plans}
               fell == IF run.panicked THEN {"error"} ELSE {}
               reported == run.errs \cup told \cup fell
    <2>4. fell \subseteq Errors BY DEF Errors
    <2>5. MergedErrors = IF (\A p \in Plans : rep[p].finished) \/ "interrupted" \in reported
                         THEN reported ELSE reported \cup {"error"}
      BY DEF MergedErrors
    <2> HIDE DEF told, fell
    <2>6. reported \subseteq Errors BY <2>2, <2>3, <2>4 DEF told
    <2> HIDE DEF reported
    <2> QED BY <2>5, <2>6 DEF Errors
  <1> DEFINE done == {p \in Plans : rep[p].finished}
             settled == /\ done = Plans
                        /\ \A p \in Plans : rep[p].created = Size[p]
                                            /\ rep[p].terminal = Size[p]
             failed == \E p \in done : rep[p].failed
             review == \E p \in done : rep[p].review
             certification == retain /\ ~run.panicked /\ MergedErrors = {} /\ settled
             diagnostic == retain /\ ~run.panicked
                           /\ (failed \/ review \/ "error" \in MergedErrors)
             keep == IF certification THEN run.ids
                     ELSE IF diagnostic THEN {p \in done : rep[p].created > 0}
                     ELSE {}
             unclean == \E p \in done : rep[p].cleanupFailed
  <1>2. MergedReport(retain) =
          [run EXCEPT !.errs = MergedErrors, !.settled = settled, !.failed = failed,
                      !.keep = keep, !.todo = run.ids \ keep, !.cleanupFailed = unclean]
    BY DEF MergedReport
  <1>3. /\ settled \in BOOLEAN /\ failed \in BOOLEAN /\ unclean \in BOOLEAN /\ keep \in SUBSET Plans
    BY DEF Runs
  <1> HIDE DEF settled, failed, unclean, keep
  <1> QED BY ZenonT(60), <1>1, <1>2, <1>3 DEF Runs

LEMMA MergeKeeps ==
  ASSUME RunInv, NEW retain \in BOOLEAN, Merge(retain), UNCHANGED localVars
  PROVE  RunInv'
  <1>1. /\ pc = "merge" /\ pc' = "delete" /\ UNCHANGED <<jm, jd, suite, faults>>
        /\ run' = MergedReport(retain) /\ rep' = [p \in Plans |-> NoReport]
        /\ wk' = [w \in Workers |-> IdleWorker] /\ queue' = <<>>
    BY DEF Merge, journalVars
  <1>2. pc \in SuitePhase /\ pc' \in SuitePhase BY <1>1 DEF SuitePhase, Deleting
  <1>3. run' \in Runs /\ run'.ids = run.ids /\ run.ids \subseteq run'.keep \cup run'.todo
    BY <1>1, <1>2, Phased, MergedTyped
  <1>4. rep' \in [Plans -> Reports] /\ wk' \in [Workers -> Threads] /\ queue' \in Seq(Plans)
    BY <1>1 DEF NoReport, IdleWorker, Reports, Threads, Errors
  <1>5. SuiteTypes' BY <1>1, <1>3, <1>4 DEF RunInv, SuiteTypes
  <1>6. Threading' BY <1>1 DEF Threading, Busy, IdleWorker
  <1>7. Running' BY <1>1, <1>2, <1>3, Phased DEF Running
  <1> QED BY <1>1, <1>2, <1>5, <1>6, <1>7, Unwritten DEF Live

LEMMA PlanDeleteKeeps ==
  ASSUME RunInv, PlanDelete, UNCHANGED localVars
  PROVE  RunInv'
  <1>1. /\ pc = "delete" /\ UNCHANGED <<jm, jd, rep, wk, queue>> /\ run.todo # {}
    BY DEF PlanDelete, journalVars, workerVars
  <1>2. pc \in SuitePhase BY <1>1 DEF SuitePhase, Deleting
  <1>3. PICK q \in Plans : q = FirstOf(run.todo) /\ q \in run.todo
    BY <1>1, <1>2, Phased, FirstIsOne DEF Runs
  <1>4. PICK r : /\ ChargeDelete(q, r)
                 /\ suite' = Deleted(q, r)
                 /\ \/ r = "ok" /\ pc' = "release" /\ UNCHANGED run
                    \/ /\ pc' = pc
                       /\ run' = [run EXCEPT !.todo = @ \ {q}, !.cleanupFailed = TRUE]
    BY <1>3 DEF PlanDelete
  <1>5. /\ suite' \in [Plans -> Results] /\ \A p \in Plans : Live(p)' => Live(p)
        /\ r = "ok" => ~Live(q)'
    <2>1. suite \in [Plans -> Results] BY <1>2, Phased
    <2> QED BY <1>4, <2>1, Deletes
  <1>6. /\ run' \in Runs /\ run'.ids = run.ids /\ pc' \in {"delete", "release"}
        /\ pc' = "delete" => run'.cleanupFailed
        /\ pc' = "release" => UNCHANGED run
    BY <1>1, <1>2, <1>4, Phased DEF Runs
  <1>7. pc' = "release" => ~Live(FirstOf(run.todo))'
    BY <1>1, <1>3, <1>4, <1>5, <1>6
  <1>8. faults' \in Nat
    BY <1>2, <1>4, Phased, Charged DEF ChargeDelete
  <1>9. SuiteTypes' /\ Threading'
    BY <1>1, <1>4, <1>5, <1>6, <1>8 DEF RunInv, SuiteTypes, Threading
  <1>10. Running'
    <2>1. /\ jm'.disposition = "active" /\ jm'.plans \subseteq run'.ids
          /\ \A p \in run.ids : Live(p) => p \in run.keep \cup run.todo \/ run.cleanupFailed
          /\ run.ids \subseteq Plans
      BY <1>1, <1>2, <1>6, Phased DEF RunInv, Running, Deleting, Runs
    <2>2. CASE pc' = "delete" BY <1>6, <2>1, <2>2 DEF Running
    <2>3. CASE pc' = "release" BY <1>1, <1>5, <1>6, <1>7, <2>1, <2>3 DEF Running
    <2> QED BY <1>6, <2>2, <2>3
  <1> QED BY <1>1, <1>2, <1>5, <1>6, <1>9, <1>10, Unwritten DEF SuitePhase, Deleting

LEMMA PlanReleaseKeeps ==
  ASSUME RunInv, PlanRelease, UNCHANGED localVars
  PROVE  RunInv'
  <1>1. /\ pc = "release" /\ pc' = "delete" /\ UNCHANGED <<suite, rep, wk, queue>> /\ run.todo # {}
        /\ ~Live(FirstOf(run.todo))
    BY DEF PlanRelease, workerVars, RunInv, Running
  <1>2. pc \in SuitePhase /\ pc' \in SuitePhase BY <1>1 DEF SuitePhase, Deleting
  <1>3. PICK q \in Plans : q = FirstOf(run.todo) /\ q \in run.todo
    BY <1>1, <1>2, Phased, FirstIsOne DEF Runs
  <1>4. \/ /\ \E r : /\ Save(ReleasePlan(jm, q), r)
                     /\ run' = [run EXCEPT !.todo = @ \ {q}, !.cleanupFailed = @ \/ r # "ok"]
        \/ /\ run' = [run EXCEPT !.todo = @ \ {q}, !.cleanupFailed = TRUE]
           /\ UNCHANGED <<jm, jd, faults>>
    BY <1>3 DEF PlanRelease
  <1>5. /\ run' \in Runs /\ run'.ids = run.ids /\ run'.keep = run.keep
        /\ run'.todo = run.todo \ {q} /\ (run.cleanupFailed => run'.cleanupFailed)
    BY <1>2, <1>4, Phased DEF Runs
  <1>6. \A p \in run.ids : Live(p)' => p \in run'.keep \cup run'.todo \/ run'.cleanupFailed
    BY <1>1, <1>3, <1>5 DEF RunInv, Running, Deleting, Live
  <1>7. CASE UNCHANGED <<jm, jd, faults>>
    <2>1. SuiteTypes' /\ Threading' BY <1>1, <1>5, <1>7 DEF RunInv, SuiteTypes, Threading
    <2>2. Running' BY <1>1, <1>2, <1>5, <1>6, <1>7, Phased DEF Running
    <2> QED BY <1>1, <1>2, <1>7, <2>1, <2>2, Unwritten DEF Live
  <1>8. ASSUME NEW r, Save(ReleasePlan(jm, q), r)
        PROVE  RunInv'
    <2>1. /\ jm' \in Journals /\ jm'.tenantClean = jm.tenantClean /\ jm'.suite = jm.suite
          /\ jm'.plans = jm.plans \ {q} /\ jm'.intents = jm.intents
          /\ jm'.suiteClean = jm.suiteClean /\ jm'.disposition = jm.disposition /\ jm'.kept = jm.kept
          /\ jd' \in {jd, jm'} /\ faults' \in Nat
      BY <1>2, <1>8, Phased, PlanReleased, Written
    <2>2. SuiteTypes' /\ Threading'
      BY <1>1, <1>2, <1>5, <2>1, Phased DEF RunInv, SuiteTypes, Threading
    <2>3. Vouches(jm)' /\ Vouches(jd)'
      BY <1>1, <1>2, <1>3, <2>1, Phased DEF Vouches, Consistent, Owns, Live
    <2>4. Running' BY <1>1, <1>2, <1>5, <1>6, <2>1, Phased DEF Running
    <2> QED BY <1>1, <1>2, <2>1, <2>2, <2>3, <2>4, Phased, InSuite
  <1> QED BY <1>4, <1>7, <1>8

(* What a worker's step does to the plans, the reports and the flags.         *)
LEMMA WorkerFrame ==
  ASSUME RunInv, NEW w \in Workers, pc = "work", pc' = pc, UNCHANGED localVars,
         jm' \in Journals, jm'.tenantClean = jm.tenantClean, jm'.disposition = "active",
         jm'.plans = jm.plans, jm'.suiteClean = jm.suiteClean, jm.suite => jm'.suite,
         \A p \in Plans : <<p, 0>> \in jm.intents => <<p, 0>> \in jm'.intents,
         ~jm'.suite => jm'.intents = {},
         jd' \in {jd, jm'}, faults' \in Nat,
         suite' \in [Plans -> Results], \A p \in Plans : suite'[p].st = suite[p].st,
         rep' \in [Plans -> Reports], \A p \in Plans : rep'[p].created >= rep[p].created,
         wk' \in [Workers -> Threads], \A v \in Workers \ {w} : wk'[v] = wk[v],
         wk'[w].at \in Busy => wk'[w].plan \in Plans,
         wk'[w].at = "record" => rep'[wk'[w].plan].created > 0,
         queue' \in Seq(Plans), run' \in Runs, run'.ids = run.ids
  PROVE  RunInv'
  <1>1. pc \in SuitePhase /\ pc' \in SuitePhase BY DEF SuitePhase
  <1>2. SuiteTypes' BY <1>1, Phased DEF SuiteTypes, RunInv
  <1>3. Vouches(jm)' /\ Vouches(jd)'
    <2>1. \A p \in Plans : Live(p)' => Live(p) BY DEF Live
    <2>2. Vouches(jm)'
      BY <1>1, <2>1, Phased DEF Vouches, Consistent, Owns
    <2>3. jd' = jd => Vouches(jd)'
      BY <1>1, <2>1, Phased DEF Vouches, Consistent, Owns
    <2> QED BY <2>2, <2>3
  <1>4. Threading'
    <2>1. \A v \in Workers : wk'[v].at \in Busy => wk'[v].plan \in Plans
      BY DEF RunInv, Threading
    <2>2. \A v \in Workers \ {w} : wk'[v].at = "record" => rep'[wk'[v].plan].created > 0
      <3> SUFFICES ASSUME NEW v \in Workers \ {w}, wk[v].at = "record"
                   PROVE  rep'[wk[v].plan].created > 0
        OBVIOUS
      <3>1. wk[v].plan \in Plans /\ rep[wk[v].plan].created > 0
        BY DEF RunInv, Threading, Busy
      <3>2. rep[wk[v].plan].created \in Nat /\ rep'[wk[v].plan].created \in Nat
        BY <1>1, <3>1, Phased DEF Reports
      <3> QED BY <3>1, <3>2
    <2> QED BY <2>1, <2>2 DEF Threading
  <1>5. Running' BY <1>1, Phased DEF Running, Deleting
  <1> QED BY <1>1, <1>2, <1>3, <1>4, <1>5, InSuite

(* A worker that leaves the journal alone.                                    *)
LEMMA WorkerQuiet ==
  ASSUME RunInv, NEW w \in Workers, pc = "work", pc' = pc, UNCHANGED localVars,
         UNCHANGED <<jm, jd>>, faults' \in Nat,
         suite' \in [Plans -> Results], \A p \in Plans : suite'[p].st = suite[p].st,
         rep' \in [Plans -> Reports], \A p \in Plans : rep'[p].created >= rep[p].created,
         wk' \in [Workers -> Threads], \A v \in Workers \ {w} : wk'[v] = wk[v],
         wk'[w].at \in Busy => wk'[w].plan \in Plans,
         wk'[w].at = "record" => rep'[wk'[w].plan].created > 0,
         queue' \in Seq(Plans), run' \in Runs, run'.ids = run.ids
  PROVE  RunInv'
  <1>1. pc \in SuitePhase BY DEF SuitePhase
  <1>2. /\ jm \in Journals /\ jm.disposition = "active" /\ (~jm.suite => jm.intents = {})
    BY <1>1, Phased DEF Vouches, Consistent
  <1> QED BY <1>2, WorkerFrame

LEMMA Working ==
  ASSUME RunInv, pc = "work"
  PROVE  /\ run \in Runs /\ faults \in Nat /\ jm \in Journals /\ jm.disposition = "active"
         /\ (~jm.suite => jm.intents = {})
         /\ suite \in [Plans -> Results] /\ rep \in [Plans -> Reports]
         /\ wk \in [Workers -> Threads] /\ queue \in Seq(Plans)
         /\ \A p \in Plans : rep[p].created >= rep[p].created
         /\ \A w \in Workers : wk[w].at \in Busy => wk[w].plan \in Plans
         /\ \A w \in Workers : wk[w].at = "record" => rep[wk[w].plan].created > 0
  <1>1. pc \in SuitePhase BY DEF SuitePhase
  <1>2. \A p \in Plans : rep[p].created \in Nat BY <1>1, Phased DEF Reports
  <1> QED BY <1>1, <1>2, Phased DEF Vouches, Consistent, RunInv, Threading

(* Where a worker goes, and how its plan fails.                               *)
LEMMA Going ==
  ASSUME wk \in [Workers -> Threads], NEW w \in Workers, NEW a \in Busy \cup {"stopped", "idle"},
         WorkerGoes(w, a)
  PROVE  /\ wk' \in [Workers -> Threads] /\ \A v \in Workers \ {w} : wk'[v] = wk[v]
         /\ wk'[w].at = a /\ wk'[w].plan = wk[w].plan
  BY DEF WorkerGoes, Threads

LEMMA FailingNow ==
  ASSUME RunInv, pc = "work", NEW w \in Workers, wk[w].at \in Busy, NEW e \in Errors,
         NEW fatal \in BOOLEAN, NEW failFast \in BOOLEAN, PlanFails(w, e, fatal, failFast)
  PROVE  /\ wk' \in [Workers -> Threads] /\ \A v \in Workers \ {w} : wk'[v] = wk[v]
         /\ wk'[w].at = "settle" /\ wk'[w].plan = wk[w].plan /\ wk[w].plan \in Plans
         /\ rep' \in [Plans -> Reports] /\ \A p \in Plans : rep'[p].created >= rep[p].created
         /\ run' \in Runs /\ run'.ids = run.ids
  <1>1. wk[w].plan \in Plans BY Working
  <1>2. /\ wk' \in [Workers -> Threads] /\ \A v \in Workers \ {w} : wk'[v] = wk[v]
        /\ wk'[w].at = "settle" /\ wk'[w].plan = wk[w].plan
    BY Working, Going DEF PlanFails, Busy
  <1>3. run' \in Runs /\ run'.ids = run.ids
    BY Working DEF PlanFails, Runs
  <1>4. rep' \in [Plans -> Reports] /\ \A p \in Plans : rep'[p].created = rep[p].created
    <2>1. rep \in [Plans -> Reports] BY Working
    <2>2. rep' = [rep EXCEPT ![wk[w].plan].errs = @ \cup {e}] BY DEF PlanFails
    <2> QED BY <1>1, <2>1, <2>2 DEF Reports
  <1> QED BY <1>1, <1>2, <1>3, <1>4, Working

LEMMA WorkerStopsKeeps ==
  ASSUME RunInv, NEW w \in Workers, WorkerStops(w), UNCHANGED localVars
  PROVE  RunInv'
  <1>1. /\ pc = "work" /\ wk' = [wk EXCEPT ![w] = IdleWorker]
        /\ UNCHANGED <<pc, jm, jd, suite, rep, queue, run, faults>>
    BY DEF WorkerStops, At, journalVars
  <1>2. /\ wk' \in [Workers -> Threads] /\ \A v \in Workers \ {w} : wk'[v] = wk[v]
        /\ wk'[w].at = "stopped"
    BY <1>1, Working DEF IdleWorker, Threads
  <1> QED BY <1>1, <1>2, Working, WorkerQuiet DEF Busy

LEMMA WorkerTakesKeeps ==
  ASSUME RunInv, NEW w \in Workers, WorkerTakes(w), UNCHANGED localVars
  PROVE  RunInv'
  <1>1. /\ pc = "work" /\ wk' = [wk EXCEPT ![w] = [at |-> "start", plan |-> Head(queue)]]
        /\ queue # <<>> /\ queue' = Tail(queue)
        /\ UNCHANGED <<pc, jm, jd, suite, rep, run, faults>>
    BY DEF WorkerTakes, At, journalVars
  <1>2. Head(queue) \in Plans /\ queue' \in Seq(Plans)
    BY <1>1, Working
  <1>3. /\ wk' \in [Workers -> Threads] /\ \A v \in Workers \ {w} : wk'[v] = wk[v]
        /\ wk'[w].at = "start" /\ wk'[w].plan \in Plans
    BY <1>1, <1>2, Working DEF Threads, Busy
  <1> QED BY <1>1, <1>2, <1>3, Working, WorkerQuiet

LEMMA PlanStartKeeps ==
  ASSUME RunInv, NEW w \in Workers, PlanStart(w), UNCHANGED localVars
  PROVE  RunInv'
  <1>1. /\ pc = "work" /\ wk[w].at \in Busy /\ (WorkerGoes(w, "settle") \/ WorkerGoes(w, "next"))
        /\ UNCHANGED <<pc, jm, jd, suite, rep, queue, run, faults>>
    BY DEF PlanStart, At, journalVars, Busy
  <1>2. /\ wk' \in [Workers -> Threads] /\ \A v \in Workers \ {w} : wk'[v] = wk[v]
        /\ wk'[w].at # "record" /\ wk'[w].plan = wk[w].plan
    BY <1>1, Working, Going DEF Busy
  <1> QED BY <1>1, <1>2, Working, WorkerQuiet

LEMMA ModulesDoneKeeps ==
  ASSUME RunInv, NEW w \in Workers, ModulesDone(w), UNCHANGED localVars
  PROVE  RunInv'
  <1>1. /\ pc = "work" /\ wk[w].at \in Busy /\ WorkerGoes(w, "settle")
        /\ UNCHANGED <<pc, jm, jd, suite, rep, queue, run, faults>>
    BY DEF ModulesDone, At, journalVars, Busy
  <1>2. /\ wk' \in [Workers -> Threads] /\ \A v \in Workers \ {w} : wk'[v] = wk[v]
        /\ wk'[w].at # "record" /\ wk'[w].plan = wk[w].plan
    BY <1>1, Working, Going DEF Busy
  <1> QED BY <1>1, <1>2, Working, WorkerQuiet

LEMMA ModuleReviewKeeps ==
  ASSUME RunInv, NEW w \in Workers, ModuleReview(w), UNCHANGED localVars
  PROVE  RunInv'
  <1>1. /\ pc = "work" /\ wk[w].at \in Busy /\ WorkerGoes(w, "settle")
        /\ rep' = [rep EXCEPT ![wk[w].plan].review = TRUE]
        /\ UNCHANGED <<pc, jm, jd, suite, queue, run, faults>>
    BY DEF ModuleReview, At, journalVars, Busy
  <1>2. /\ wk' \in [Workers -> Threads] /\ \A v \in Workers \ {w} : wk'[v] = wk[v]
        /\ wk'[w].at # "record" /\ wk'[w].plan = wk[w].plan /\ wk[w].plan \in Plans
    BY <1>1, Working, Going DEF Busy
  <1>3. rep' \in [Plans -> Reports] /\ \A p \in Plans : rep'[p].created = rep[p].created
    <2>1. rep \in [Plans -> Reports] BY <1>1, Working
    <2> QED BY ZenonT(60), <1>1, <1>2, <2>1 DEF Reports
  <1> QED BY <1>1, <1>2, <1>3, Working, WorkerQuiet

LEMMA ModuleInterruptedKeeps ==
  ASSUME RunInv, NEW w \in Workers, NEW failFast \in BOOLEAN,
         ModuleInterrupted(w, failFast) \/ WaitInterrupted(w, failFast), UNCHANGED localVars
  PROVE  RunInv'
  <1>1. /\ pc = "work" /\ wk[w].at \in Busy /\ PlanFails(w, "interrupted", FALSE, failFast)
        /\ UNCHANGED <<pc, jm, jd, suite, queue, faults>>
    BY DEF ModuleInterrupted, WaitInterrupted, At, journalVars, Busy
  <1> QED BY <1>1, Working, FailingNow, WorkerQuiet DEF Errors

LEMMA ModuleAbandonedKeeps ==
  ASSUME RunInv, NEW w \in Workers, NEW failFast \in BOOLEAN,
         ModuleAbandoned(w, failFast), UNCHANGED localVars
  PROVE  RunInv'
  <1>1. /\ pc = "work" /\ wk[w].at \in Busy /\ PlanFails(w, "error", FALSE, failFast)
        /\ UNCHANGED <<pc, jm, jd, suite, queue>> /\ Charge("timeout")
    BY DEF ModuleAbandoned, At, journalVars, Busy
  <1>2. faults' \in Nat BY <1>1, Working, Charged
  <1> QED BY <1>1, <1>2, Working, FailingNow, WorkerQuiet DEF Errors

LEMMA WorkerPanicsKeeps ==
  ASSUME RunInv, NEW w \in Workers, WorkerPanics(w), UNCHANGED localVars
  PROVE  RunInv'
  <1>1. /\ pc = "work" /\ wk' = [wk EXCEPT ![w] = IdleWorker]
        /\ run' = [run EXCEPT !.stop = TRUE, !.panicked = TRUE]
        /\ UNCHANGED <<pc, jm, jd, suite, rep, queue>> /\ Charge("panic")
    BY DEF WorkerPanics, At, journalVars
  <1>2. /\ wk' \in [Workers -> Threads] /\ \A v \in Workers \ {w} : wk'[v] = wk[v]
        /\ wk'[w].at = "stopped"
    BY <1>1, Working DEF IdleWorker, Threads
  <1>3. faults' \in Nat /\ run' \in Runs /\ run'.ids = run.ids
    BY <1>1, Working, Charged DEF Runs
  <1> QED BY <1>1, <1>2, <1>3, Working, WorkerQuiet DEF Busy

LEMMA ModuleIntentKeeps ==
  ASSUME RunInv, NEW w \in Workers, NEW failFast \in BOOLEAN,
         ModuleIntent(w, failFast), UNCHANGED localVars
  PROVE  RunInv'
  <1>1. /\ pc = "work" /\ wk[w].at \in Busy /\ UNCHANGED <<pc, suite, queue>>
    BY DEF ModuleIntent, At, Busy
  <1>2. PICK r : /\ Save(BeginCreate(jm, NextIntent(w)), r)
                 /\ \/ WorkerGoes(w, "create") /\ UNCHANGED <<rep, run>>
                    \/ PlanFails(w, "error", TRUE, failFast)
    BY DEF ModuleIntent
  <1>3. wk[w].plan \in Plans /\ rep[wk[w].plan].created + 1 \in Nat /\ rep[wk[w].plan].created \in Nat
    <2>1. rep \in [Plans -> Reports] /\ wk[w].plan \in Plans BY <1>1, Working
    <2> QED BY <2>1 DEF Reports
  <1>4. /\ jm' \in Journals /\ jm'.tenantClean = jm.tenantClean /\ jm'.disposition = "active"
        /\ jm'.plans = jm.plans /\ jm'.suiteClean = jm.suiteClean /\ jm'.suite
        /\ \A p \in Plans : <<p, 0>> \in jm.intents => <<p, 0>> \in jm'.intents
        /\ jd' \in {jd, jm'} /\ faults' \in Nat
    BY <1>1, <1>2, <1>3, Working, CreateBegun, Written DEF NextIntent
  <1>5. /\ wk' \in [Workers -> Threads] /\ \A v \in Workers \ {w} : wk'[v] = wk[v]
        /\ wk'[w].at \in {"create", "settle"} /\ wk'[w].plan \in Plans
        /\ rep' \in [Plans -> Reports] /\ \A p \in Plans : rep'[p].created >= rep[p].created
        /\ run' \in Runs /\ run'.ids = run.ids
    <2>1. CASE WorkerGoes(w, "create") /\ UNCHANGED <<rep, run>>
      BY <1>1, <1>3, <2>1, Working, Going DEF Busy
    <2>2. CASE PlanFails(w, "error", TRUE, failFast)
      BY <1>1, <2>2, FailingNow DEF Errors
    <2> QED BY <1>2, <2>1, <2>2
  <1>6. suite' \in [Plans -> Results] /\ \A p \in Plans : suite'[p].st = suite[p].st
    BY <1>1, Working
  <1>7. queue' \in Seq(Plans) BY <1>1, Working
  <1> QED BY <1>1, <1>4, <1>5, <1>6, <1>7, WorkerFrame

LEMMA ModuleRecordKeeps ==
  ASSUME RunInv, NEW w \in Workers, NEW failFast \in BOOLEAN,
         ModuleRecord(w, failFast), UNCHANGED localVars
  PROVE  RunInv'
  <1> DEFINE i == rep[wk[w].plan].created
  <1>1. /\ pc = "work" /\ wk[w].at = "record" /\ wk[w].at \in Busy /\ UNCHANGED <<pc, suite, queue>>
    BY DEF ModuleRecord, At, Busy
  <1>2. PICK r : /\ Save(RecordCreated(jm, <<wk[w].plan, i>>), r)
                 /\ \/ WorkerGoes(w, "drive") /\ UNCHANGED <<rep, run>>
                    \/ PlanFails(w, "error", TRUE, failFast)
    BY DEF ModuleRecord
  <1>3. wk[w].plan \in Plans /\ i \in Nat /\ i # 0
    <2>1. rep \in [Plans -> Reports] /\ wk[w].plan \in Plans /\ i > 0 BY <1>1, Working
    <2> QED BY <2>1 DEF Reports
  <1>9. PICK m \in Nat : m = i /\ m # 0 BY <1>3
  <1>10. PICK q \in Plans : q = wk[w].plan BY <1>3
  <1> HIDE DEF i
  <1>4. /\ jm' \in Journals /\ jm'.tenantClean = jm.tenantClean /\ jm'.disposition = "active"
        /\ jm'.plans = jm.plans /\ jm'.suiteClean = jm.suiteClean /\ jm'.suite = jm.suite
        /\ jm'.intents = jm.intents \ {<<q, m>>}
        /\ jd' \in {jd, jm'} /\ faults' \in Nat
    <2>1. Save(RecordCreated(jm, <<q, m>>), r) BY <1>2, <1>9, <1>10
    <2>2. jm \in Journals /\ jm.disposition = "active" /\ faults \in Nat BY <1>1, Working
    <2>3. jm' = RecordCreated(jm, <<q, m>>) /\ jd' \in {jd, jm'} /\ faults' \in Nat
      BY <2>1, <2>2, Written
    <2> DEFINE k == RecordCreated(jm, <<q, m>>)
    <2>4. /\ k \in Journals /\ k.tenantClean = jm.tenantClean /\ k.suite = jm.suite
          /\ k.plans = (IF m = 0 THEN jm.plans \cup {q} ELSE jm.plans)
          /\ k.intents = jm.intents \ {<<q, m>>}
          /\ k.suiteClean = jm.suiteClean /\ k.disposition = jm.disposition
      BY <2>2, CreateRecorded
    <2> HIDE DEF k
    <2> QED BY <1>9, <2>2, <2>3, <2>4 DEF k
  <1>5. /\ wk' \in [Workers -> Threads] /\ \A v \in Workers \ {w} : wk'[v] = wk[v]
        /\ wk'[w].at \in {"drive", "settle"} /\ wk'[w].plan \in Plans
        /\ rep' \in [Plans -> Reports] /\ \A p \in Plans : rep'[p].created >= rep[p].created
        /\ run' \in Runs /\ run'.ids = run.ids
    <2>1. CASE WorkerGoes(w, "drive") /\ UNCHANGED <<rep, run>>
      BY <1>1, <1>3, <2>1, Working, Going DEF Busy
    <2>2. CASE PlanFails(w, "error", TRUE, failFast)
      BY <1>1, <2>2, FailingNow DEF Errors
    <2> QED BY <1>2, <2>1, <2>2
  <1>6. suite' \in [Plans -> Results] /\ \A p \in Plans : suite'[p].st = suite[p].st
    BY <1>1, Working
  <1>7. queue' \in Seq(Plans) BY <1>1, Working
  <1>8. /\ \A p \in Plans : <<p, 0>> \in jm.intents => <<p, 0>> \in jm'.intents
        /\ ~jm'.suite => jm'.intents = {}
    BY <1>1, <1>4, <1>9, Working
  <1> QED BY <1>1, <1>4, <1>5, <1>6, <1>7, <1>8, WorkerFrame

LEMMA ModuleCreateKeeps ==
  ASSUME RunInv, NEW w \in Workers, NEW failFast \in BOOLEAN,
         ModuleCreate(w, failFast), UNCHANGED localVars
  PROVE  RunInv'
  <1>1. /\ pc = "work" /\ wk[w].at \in Busy /\ UNCHANGED <<pc, jm, jd, queue>>
    BY DEF ModuleCreate, At, Busy, journalVars
  <1>2. PICK r : /\ Charge(r)
                 /\ suite' \in {suite, [suite EXCEPT ![wk[w].plan].live = TRUE]}
                 /\ \/ WorkerGoes(w, "record") /\ UNCHANGED run /\ rep' = [rep EXCEPT ![wk[w].plan].created = @ + 1]
                    \/ PlanFails(w, "error", TRUE, failFast)
    BY DEF ModuleCreate
  <1>3. wk[w].plan \in Plans /\ rep \in [Plans -> Reports] /\ suite \in [Plans -> Results]
    BY <1>1, Working
  <1>4. faults' \in Nat BY <1>1, <1>2, Working, Charged
  <1>5. suite' \in [Plans -> Results] /\ \A p \in Plans : suite'[p].st = suite[p].st
    <2> DEFINE v == [suite[wk[w].plan] EXCEPT !.live = TRUE]
    <2>1. suite' = suite \/ suite' = [suite EXCEPT ![wk[w].plan] = v]
      BY <1>2
    <2>2. v \in Results /\ v.st = suite[wk[w].plan].st
      BY <1>3 DEF Results
    <2> HIDE DEF v
    <2> QED BY <1>3, <2>1, <2>2
  <1>6. /\ wk' \in [Workers -> Threads] /\ \A v \in Workers \ {w} : wk'[v] = wk[v]
        /\ wk'[w].at \in {"record", "settle"} /\ wk'[w].plan \in Plans
        /\ rep' \in [Plans -> Reports] /\ \A p \in Plans : rep'[p].created >= rep[p].created
        /\ run' \in Runs /\ run'.ids = run.ids
        /\ wk'[w].at = "record" => rep'[wk'[w].plan].created > 0
    <2>1. CASE WorkerGoes(w, "record") /\ UNCHANGED run /\ rep' = [rep EXCEPT ![wk[w].plan].created = @ + 1]
      <3>1. /\ rep' \in [Plans -> Reports] /\ \A p \in Plans : rep'[p].created >= rep[p].created
            /\ rep'[wk[w].plan].created > 0
        BY <1>3, <2>1 DEF Reports
      <3> QED BY <1>1, <1>3, <2>1, <3>1, Working, Going DEF Busy
    <2>2. CASE PlanFails(w, "error", TRUE, failFast)
      BY <1>1, <2>2, FailingNow DEF Errors
    <2> QED BY <1>2, <2>1, <2>2
  <1>7. queue' \in Seq(Plans) BY <1>1, Working
  <1> QED BY <1>1, <1>4, <1>5, <1>6, <1>7, WorkerQuiet

LEMMA ModuleEndsKeeps ==
  ASSUME RunInv, NEW w \in Workers, NEW failFast \in BOOLEAN,
         ModuleEnds(w, failFast), UNCHANGED localVars
  PROVE  RunInv'
  <1>1. /\ pc = "work" /\ wk[w].at \in Busy /\ UNCHANGED <<pc, jm, jd, queue>>
    BY DEF ModuleEnds, At, Busy, journalVars
  <1>3. rep \in [Plans -> Reports] /\ suite \in [Plans -> Results] /\ wk[w].plan \in Plans
    BY <1>1, Working
  <1>10. PICK p \in Plans : p = wk[w].plan BY <1>3
  <1>2. PICK r : \E passed \in BOOLEAN :
          LET stops == ~passed /\ failFast IN
          /\ Charge(r)
          /\ suite' = [suite EXCEPT ![p].live = FALSE,
                                    ![p].passed = IF passed THEN @ + 1 ELSE @]
          /\ rep' = [rep EXCEPT ![p].terminal = @ + 1,
                                ![p].failed = @ \/ ~passed,
                                ![p].errs = IF r = "ok" THEN @ ELSE @ \cup {"error"}]
          /\ run' = [run EXCEPT !.intr = @ \/ stops \/ (r # "ok" /\ failFast),
                                !.stop = @ \/ stops]
          /\ (WorkerGoes(w, "settle") \/ WorkerGoes(w, "next"))
    BY <1>10 DEF ModuleEnds
  <1>4. faults' \in Nat BY <1>1, <1>2, Working, Charged
  <1>5. suite' \in [Plans -> Results] /\ \A q \in Plans : suite'[q].st = suite[q].st
    <2>1. PICK k \in BOOLEAN : suite' = [suite EXCEPT ![p].live = FALSE, ![p].passed = IF k THEN @ + 1 ELSE @]
      BY <1>2
    <2> DEFINE n == IF k THEN suite[p].passed + 1 ELSE suite[p].passed
               v == [suite[p] EXCEPT !.live = FALSE, !.passed = n]
    <2>2. suite' = [suite EXCEPT ![p] = v]
      BY <2>1
    <2>3. suite[p] \in Results BY <1>3
    <2>4. n \in Nat BY <2>3 DEF Results
    <2> HIDE DEF n
    <2>5. v \in Results /\ v.st = suite[p].st
      BY <2>3, <2>4 DEF Results
    <2> HIDE DEF v
    <2> QED BY <1>3, <2>2, <2>5
  <1>6. rep' \in [Plans -> Reports] /\ \A q \in Plans : rep'[q].created = rep[q].created
    <2>1. PICK k \in BOOLEAN : rep' = [rep EXCEPT ![p].terminal = @ + 1, ![p].failed = @ \/ ~k,
                                 ![p].errs = IF r = "ok" THEN @ ELSE @ \cup {"error"}]
      BY <1>2
    <2> DEFINE e == IF r = "ok" THEN rep[p].errs ELSE rep[p].errs \cup {"error"}
               t == rep[p].terminal + 1
               f == rep[p].failed \/ ~k
               v == [rep[p] EXCEPT !.terminal = t, !.failed = f, !.errs = e]
    <2>2. rep' = [rep EXCEPT ![p] = v]
      BY <2>1
    <2>3. rep[p] \in Reports BY <1>3
    <2>4. e \in SUBSET Errors /\ t \in Nat /\ f \in BOOLEAN BY <2>3 DEF Reports, Errors
    <2> HIDE DEF e, t, f
    <2>5. v \in Reports /\ v.created = rep[p].created
      BY <2>3, <2>4 DEF Reports
    <2> HIDE DEF v
    <2> QED BY <1>3, <2>2, <2>5
  <1>7. run' \in Runs /\ run'.ids = run.ids
    BY <1>1, <1>2, Working DEF Runs
  <1>8. /\ wk' \in [Workers -> Threads] /\ \A v \in Workers \ {w} : wk'[v] = wk[v]
        /\ wk'[w].at # "record" /\ wk'[w].plan \in Plans
    BY <1>1, <1>2, <1>3, Working, Going DEF Busy
  <1>9. queue' \in Seq(Plans) /\ \A q \in Plans : rep'[q].created >= rep[q].created
    BY <1>1, <1>6, Working
  <1> QED BY <1>1, <1>4, <1>5, <1>6, <1>7, <1>8, <1>9, WorkerQuiet

LEMMA PlanSettlesKeeps ==
  ASSUME RunInv, NEW w \in Workers, NEW retain \in BOOLEAN, NEW failFast \in BOOLEAN,
         PlanSettles(w, retain, failFast), UNCHANGED localVars
  PROVE  RunInv'
  <1>1. /\ pc = "work" /\ wk[w].at \in Busy /\ UNCHANGED <<pc, jm, jd, queue>>
    BY DEF PlanSettles, At, Busy, journalVars
  <1> DEFINE p == wk[w].plan
  <1>2. p \in Plans BY <1>1, Working
  <1>3. rep \in [Plans -> Reports] /\ suite \in [Plans -> Results] /\ run \in Runs
    BY <1>1, Working
  <1> DEFINE Body(ended, r) ==
          LET now == Refreshed(rep[p], ended)
              spared == Diagnostic(now, retain) /\ now.created > 0
              cancels == suite[p].live /\ now.terminal < now.created /\ ~spared
              final == [now EXCEPT
                          !.terminal = IF cancels /\ r = "ok" /\ ~now.review
                                       THEN @ + 1 ELSE @,
                          !.cleanupFailed = cancels /\ r # "ok",
                          !.finished = TRUE] IN
          /\ r # "ok" => cancels
          /\ Charge(r)
          /\ rep' = [rep EXCEPT ![p] = final]
          /\ suite' = [suite EXCEPT ![p].live = @ /\ ~ended /\ ~(cancels /\ r = "ok")]
          /\ run' = [run EXCEPT !.stop = @ \/ final.cleanupFailed
                         \/ (failFast /\ (final.failed \/ "error" \in final.errs))]
          /\ WorkerGoes(w, "idle")
  <1>40. \E ended \in IF suite[p].live /\ ~rep[p].review /\ rep[p].terminal < rep[p].created
                    THEN BOOLEAN ELSE {FALSE}, r \in Outcomes({"cancel_failed"}) :
            Body(ended, r)
    BY DEF PlanSettles
  <1>41. PICK ended \in BOOLEAN : \E r : Body(ended, r)
    <2> HIDE DEF Body
    <2> QED BY <1>40
  <1>4. PICK r : Body(ended, r)
    BY <1>41
  <1> DEFINE now == Refreshed(rep[p], ended)
             spared == Diagnostic(now, retain) /\ now.created > 0
             cancels == suite[p].live /\ now.terminal < now.created /\ ~spared
             ends == IF cancels /\ r = "ok" /\ ~now.review THEN now.terminal + 1 ELSE now.terminal
             final == [now EXCEPT !.terminal = ends, !.cleanupFailed = cancels /\ r # "ok",
                                  !.finished = TRUE]
             halts == final.cleanupFailed \/ (failFast /\ (final.failed \/ "error" \in final.errs))
  <1>5. now \in Reports /\ now.created = rep[p].created
    <2>1. rep[p] \in Reports BY <1>2, <1>3
    <2>2. CASE ended
      <3>1. now = [rep[p] EXCEPT !.terminal = rep[p].terminal + 1, !.failed = TRUE]
        BY <2>1, <2>2 DEF Refreshed
      <3>2. rep[p].terminal + 1 \in Nat BY <2>1 DEF Reports
      <3> HIDE DEF now
      <3> QED BY <2>1, <3>1, <3>2 DEF Reports
    <2>3. CASE ~ended
      BY <2>1, <2>3 DEF Refreshed, Reports
    <2> QED BY <2>2, <2>3
  <1>6. cancels \in BOOLEAN
    OBVIOUS
  <1>7. /\ rep' = [rep EXCEPT ![p] = final]
        /\ suite' = [suite EXCEPT ![p].live = @ /\ ~ended /\ ~(cancels /\ r = "ok")]
        /\ run' = [run EXCEPT !.stop = @ \/ halts]
    BY <1>4, <1>5 DEF Reports
  <1>17. Charge(r) /\ WorkerGoes(w, "idle")
    BY <1>4
  <1> HIDE DEF now, cancels, Body, p
  <1>8. ends \in Nat BY <1>5 DEF Reports
  <1> HIDE DEF ends
  <1>9. final \in Reports /\ final.created = rep[p].created
    BY <1>5, <1>6, <1>8 DEF Reports
  <1>10. halts \in BOOLEAN
    BY <1>9 DEF Reports
  <1> HIDE DEF final, halts
  <1>11. faults' \in Nat BY <1>1, <1>17, Working, Charged
  <1>12. suite' \in [Plans -> Results] /\ \A q \in Plans : suite'[q].st = suite[q].st
    BY <1>2, <1>3, <1>6, <1>7 DEF Results
  <1>13. rep' \in [Plans -> Reports] /\ \A q \in Plans : rep'[q].created = rep[q].created
    BY <1>2, <1>3, <1>7, <1>9
  <1>14. run' \in Runs /\ run'.ids = run.ids
    BY <1>3, <1>7, <1>10 DEF Runs
  <1>15. /\ wk' \in [Workers -> Threads] /\ \A v \in Workers \ {w} : wk'[v] = wk[v]
         /\ wk'[w].at = "idle"
    BY <1>1, <1>17, Working, Going
  <1>16. queue' \in Seq(Plans) /\ \A q \in Plans : rep'[q].created >= rep[q].created
    BY <1>1, <1>13, Working
  <1> QED BY <1>1, <1>11, <1>12, <1>13, <1>14, <1>15, <1>16, WorkerQuiet DEF Busy

-----------------------------------------------------------------------------
(* The invariant holds at first and every step keeps it.                      *)

LEMMA InitHolds ==
  ASSUME Init
  PROVE  RunInv
  <1>1. RunConstants
    BY SuiteAssumption, KillAssumption, NoneIsAbsent, NoneIsNoOperation DEF RunConstants
  <1>2. SuiteTypes
    BY <1>1 DEF Init, SuiteInit, SuiteTypes, NoRun, NoReport, IdleWorker, Results, Reports, Runs,
       Threads, Errors, RunConstants, SuiteAssumption
  <1>3. cmd \in Commands /\ cmd = NoCmd BY DEF Init, NoCmd, Commands, Steps
  <1>4. Types BY <1>3 DEF Init, Types, Places, Recovering
  <1>5. Flow /\ Slotted /\ Running /\ Ending
    BY DEF Init, NoCmd, Flow, Slotted, Settled, Running, Ending, Recovering, SuitePhase, Deleting,
       Closing, Finishing, Removing
  <1>6. Owners /\ Agreement /\ Threading
    BY DEF Init, SuiteInit, Owners, Agreement, Threading, Live, IdleWorker, Busy
  <1>7. Tenant
    BY DEF Init, NoCmd, Tenant, There, Finishing, Removing
  <1> QED BY <1>2, <1>4, <1>5, <1>6, <1>7 DEF RunInv

LEMMA OperateKeeps ==
  ASSUME RunInv, Operate
  PROVE  RunInv'
  <1>1. CASE \/ PrepareOperation \/ PersistAnswer \/ ClearSlot \/ ResetCleanup \/ Claim
             \/ MatchPending \/ Matched \/ Judge \/ Authenticate \/ WriteMaterial
             \/ BeginRun \/ PrepareMutation \/ ProbeTenant \/ FinalizeMaterial \/ CleanResources \/ CleanTenant
    BY <1>1, PrepareOperationKeeps, PersistAnswerKeeps, ClearSlotKeeps, ResetCleanupKeeps,
       ClaimKeeps, MatchPendingKeeps, MatchedKeeps, JudgeKeeps,
       AuthenticateKeeps, WriteMaterialKeeps, BeginRunKeeps, PrepareMutationKeeps,
       ProbeTenantKeeps, FinalizeMaterialKeeps, CleanResourcesKeeps, CleanTenantKeeps
  <1>2. CASE \/ TenantAbsent \/ SuiteResult \/ Settle \/ StageManifest \/ CommitManifest
             \/ PublishManifest \/ ScrubSuite \/ EraseNext \/ Erased \/ Finale
             \/ FinishPublish \/ AnnounceRemoval \/ RemoveMaterial \/ ConfirmRemoval \/ DropJournal \/ Exit
    BY <1>2, TenantAbsentKeeps, SuiteResultKeeps, SettleKeeps, StageManifestKeeps,
       CommitManifestKeeps, PublishManifestKeeps, ScrubSuiteKeeps, EraseNextKeeps,
       ErasedKeeps, FinaleKeeps, FinishPublishKeeps, AnnounceRemovalKeeps,
       RemoveMaterialKeeps, ConfirmRemovalKeeps, DropJournalKeeps, ExitKeeps
  <1> QED BY <1>1, <1>2 DEF Operate

LEMMA SuiteWorksKeeps ==
  ASSUME RunInv, SuiteWorks
  PROVE  RunInv'
  <1>1. opt.retain \in BOOLEAN /\ opt.failFast \in BOOLEAN /\ UNCHANGED localVars
    BY DEF RunInv, Types, SuiteWorks
  <1>2. CASE SuiteStep(opt.retain)
    BY <1>1, <1>2, MergeKeeps, ProbeSuiteKeeps, PlanInterruptedKeeps, PlanIntentKeeps,
       PlanCreateKeeps,
       PlanRecordKeeps, LaunchKeeps, JoinKeeps, PlanDeleteKeeps,
       PlanReleaseKeeps, DeletesDoneKeeps DEF SuiteStep
  <1>3. ASSUME NEW w \in Workers, WorkerStep(w, opt.retain, opt.failFast)
        PROVE  RunInv'
    BY <1>1, <1>3, PlanSettlesKeeps, ModuleInterruptedKeeps, WorkerStopsKeeps, WorkerTakesKeeps,
       PlanStartKeeps, ModulesDoneKeeps,
       ModuleReviewKeeps, WorkerPanicsKeeps, ModuleIntentKeeps, ModuleCreateKeeps,
       ModuleRecordKeeps, ModuleEndsKeeps, ModuleAbandonedKeeps DEF WorkerStep
  <1> QED BY <1>2, <1>3 DEF SuiteWorks

LEMMA NextKeeps ==
  ASSUME RunInv, [Next]_vars
  PROVE  RunInv'
  <1>1. CASE Start BY <1>1, StartKeeps
  <1>2. CASE Operate BY <1>2, OperateKeeps
  <1>3. CASE SuiteWorks BY <1>3, SuiteWorksKeeps
  <1>4. CASE Serve BY <1>4, ServeKeeps
  <1>5. CASE Disturb
    BY <1>5, LoseAnswerKeeps, RejectOperationKeeps, KillKeeps, InterruptKeeps DEF Disturb
  <1>6. CASE UNCHANGED vars
    <2>1. UNCHANGED <<pc, jm, jd, suite, rep, wk, queue, run, faults, slot, tenant, files, cmd, opt, kills>>
      BY <1>6 DEF vars, suiteVars
    <2>2. SuiteTypes' /\ Owners' /\ Agreement' /\ Threading'
      BY <2>1, Bounds, Quiet DEF suitePart
    <2>3. Types' /\ Flow' /\ Slotted'
      BY <2>1 DEF RunInv, Types, Flow, Slotted
    <2>6. Ending' BY <2>1 DEF RunInv, Ending, Unpublished, SuiteSettled, Live
    <2>4. Running'
      BY <2>1 DEF RunInv, Running, Live, Uncreated, NextPlan, FirstOf
    <2>5. Tenant' BY <2>1 DEF RunInv, Tenant, There, Gone, Absent
    <2> QED BY <2>2, <2>3, <2>4, <2>5, <2>6 DEF RunInv
  <1> QED BY <1>1, <1>2, <1>3, <1>4, <1>5, <1>6 DEF Next

(* RunInv: the invariant of the command, its threads, the journal and the     *)
(* target, along every step, loss and kill.                                   *)
THEOREM RunInvariant == Spec => []RunInv
  <1>1. Init => RunInv BY InitHolds
  <1>2. RunInv /\ [Next]_vars => RunInv' BY NextKeeps
  <1> QED BY <1>1, <1>2, PTL DEF Spec

(* begin_suite_create, record_suite_plan, mark_suite_cleanup_complete,        *)
(* commit_suite_plan_retention: a plan that exists at the Suite has a durable *)
(* owner, or a published manifest names it, whatever is lost and wherever the *)
(* command is killed.                                                         *)
THEOREM PlansOwned == Spec => []SuiteOwned
  <1>1. RunInv => SuiteOwned
    BY DEF RunInv, Owners, Vouches, Owns, Live, SuiteOwned, Owned
  <1> QED BY <1>1, RunInvariant, PTL

(* finish, cleanup_failed_pre_suite_setup, recover_pending_runs: when the     *)
(* journal of a begun run is gone, nothing of the run is left behind.         *)
THEOREM NothingLeft == Spec => []FinishedClean
  <1>1. RunInv => FinishedClean
    BY DEF RunInv, Types, Tenant, There, FinishedClean
  <1> QED BY <1>1, RunInvariant, PTL

(* Only two steps delete a plan, both on behalf of a journal that retains     *)
(* nothing.                                                                   *)
LEMMA OthersSpare ==
  ASSUME RunInv, [Next]_vars, ~PlanDelete, ~EraseNext, NEW p \in Plans, suite[p].st = "live"
  PROVE  suite'[p].st # "gone"

  <1>1. suite \in [Plans -> Results] BY DEF RunInv, SuiteTypes
  <1>2. CASE UNCHANGED suite BY <1>2
  <1>3. CASE Operate
    <2>1. UNCHANGED suite
      BY <1>3 DEF Operate, PrepareOperation, PersistAnswer, ClearSlot, ResetCleanup, Claim,
         MatchPending, Matched, Judge, Authenticate, WriteMaterial, BeginRun, PrepareMutation,
         ProbeTenant, FinalizeMaterial, CleanResources, CleanTenant, TenantAbsent, SuiteResult,
         Settle, StageManifest, CommitManifest, PublishManifest, ScrubSuite, Erased, Finale,
         FinishPublish, AnnounceRemoval, RemoveMaterial, ConfirmRemoval, DropJournal, Exit,
         journalVars, suitePart, workerVars, Vanish
    <2> QED BY <1>2, <2>1
  <1>4. CASE SuiteStep(opt.retain)
    <2>1. UNCHANGED suite \/ suite' = [suite EXCEPT ![NextPlan].st = "live"]
      BY <1>4 DEF SuiteStep, ProbeSuite, PlanInterrupted, PlanIntent, PlanCreate, PlanRecord,
         Launch, Join,
         Merge, PlanRelease, DeletesDone
    <2> QED BY <1>1, <2>1 DEF Results
  <1>5. ASSUME NEW w \in Workers, WorkerStep(w, opt.retain, opt.failFast)
        PROVE  suite'[p].st = suite[p].st
    <2>1. CASE \/ WorkerStops(w) \/ WorkerTakes(w) \/ PlanStart(w) \/ ModulesDone(w)
               \/ ModuleInterrupted(w, opt.failFast) \/ ModuleIntent(w, opt.failFast)
               \/ ModuleRecord(w, opt.failFast) \/ ModuleReview(w)
               \/ WaitInterrupted(w, opt.failFast) \/ ModuleAbandoned(w, opt.failFast) \/ WorkerPanics(w)
      BY <2>1 DEF WorkerStops, WorkerTakes, PlanStart, ModulesDone, ModuleInterrupted, ModuleIntent,
         ModuleRecord, ModuleReview, WaitInterrupted, ModuleAbandoned, WorkerPanics
    <2>2. CASE ModuleCreate(w, opt.failFast)
      BY <1>1, <2>2 DEF ModuleCreate, Results
    <2>3. CASE ModuleEnds(w, opt.failFast)
      BY <1>1, <2>3 DEF ModuleEnds, Results
    <2>4. CASE PlanSettles(w, opt.retain, opt.failFast)
      BY <1>1, <2>4 DEF PlanSettles, Results
    <2> QED BY <1>5, <2>1, <2>2, <2>3, <2>4 DEF WorkerStep
  <1>6. CASE Start \/ Serve \/ LoseAnswer \/ RejectOperation \/ Kill \/ Interrupt \/ UNCHANGED vars
    <2>1. UNCHANGED suite
      BY <1>6 DEF Start, Serve, LoseAnswer, RejectOperation, Kill, Interrupt, Vanish, vars,
         suiteVars,
         suitePart, journalVars, workerVars
    <2> QED BY <1>2, <2>1
  <1> QED BY <1>3, <1>4, <1>5, <1>6 DEF Next, SuiteWorks, Disturb

(* SuiteRetentionCommitResolution::Ambiguous: a plan whose retention is       *)
(* durable, or that a published manifest names, is never deleted.             *)
THEOREM RetentionStays == Spec => RetainedUntouched
  <1> DEFINE Spares == \A p \in Plans :
               suite[p].st = "live" /\ suite'[p].st = "gone" =>
                 /\ p \notin files.published
                 /\ jd.disposition = "retained" => p \notin jd.kept
  <1>1. RunInv /\ [Next]_vars => Spares
    <2> SUFFICES ASSUME RunInv, [Next]_vars, NEW p \in Plans,
                        suite[p].st = "live", suite'[p].st = "gone"
                 PROVE  /\ p \notin files.published
                        /\ jd.disposition # "retained"
      OBVIOUS
    <2>1. PlanDelete \/ EraseNext BY OthersSpare
    <2>2. jm # None /\ jm.disposition # "retained" /\ pc \notin {"exit", "finale"}
      BY <2>1 DEF RunInv, PlanDelete, EraseNext, Running, Ending, Flow, SuitePhase, Deleting,
         Recovering
    <2> QED BY <2>2, Unretained
  <1>2. RunInv /\ [Next]_vars => [Spares]_vars BY <1>1
  <1> QED BY <1>2, RunInvariant, PTL DEF Spec, RetainedUntouched

-----------------------------------------------------------------------------
(* The pending operation is found again: what PendingMatched needs.           *)

Undoing == {"Disable", "Finalize"}
Forward == {"Create", "KeyGen", "Reload"} \cup ResourceSteps

(* The result of a step is in the journal.                                    *)
Done(j, step) ==
    CASE step = "Create"      -> j.created
      [] step = "KeyGen"      -> j.keyed
      [] step = "Reload"      -> j.reloaded
      [] step = "Baseline"    -> j.baseline
      [] step = "Apply"       -> j.applied
      [] step = "CleanupList" -> j.listed # "no"
      [] step = "Revoke"      -> j.revoked

(* Nothing is left to clean up before the tenant, or a failure forbids it.    *)
Cleared(j) == ~j.applied \/ j.failure \in ResourceSteps \/ j.listed = "absent" \/ j.revoked

(* What the order of the steps leaves in a journal, beyond ValidJournal.      *)
Sound(j) ==
    /\ j.baseline => j.reloaded
    /\ j.applied => j.baseline
    /\ j.revoked => j.clean
    /\ j.disposition = "retained" => j.tenantClean
    /\ j.disableRev => Cleared(j)
    /\ j.failure # "Describe"
    /\ j.failure \in {"Create", "KeyGen", "Reload"} => ~j.baseline
    /\ j.failure = "Disable" => j.disableRev
    /\ j.failure = "Finalize" => j.disabled /\ j.disableRev

(* The journal is at this step: the earlier ones are done, no later one is.   *)
Reached(j, step) ==
    /\ step # "Create" => j.created
    /\ step \notin {"Create", "KeyGen"} => j.keyed /\ j.reloadRev
    /\ step \in ResourceSteps => j.reloaded
    /\ step \in ResourceSteps \ {"Baseline"} => j.baseline
    /\ step \in {"CleanupList", "Revoke"} => j.applied
    /\ step = "Revoke" => j.listed = "present"
    /\ step = "Create" => ~j.keyed
    /\ step \in {"Create", "KeyGen"} => ~j.reloadRev /\ ~j.reloaded
    /\ step \in {"Create", "KeyGen", "Reload"} => ~j.baseline
    /\ step \in {"Create", "KeyGen", "Reload", "Baseline"} => ~j.applied
    /\ step \notin {"CleanupList", "Revoke"} => j.listed = "no"
    /\ step # "Revoke" => ~j.revoked

FitsForward(j, step) ==
    /\ ~j.absent /\ ~j.disableRev /\ ~j.disabled /\ ~j.finalizeRev /\ ~j.tenantClean
    /\ j.disposition # "retained" /\ Reached(j, step)
    /\ j.failure \in {None, step} /\ (Done(j, step) => j.failure = None)

(* The journal in which an operation of this step may be pending.             *)
Fits(j, step) ==
    /\ step \in Forward => FitsForward(j, step)
    /\ step = "Disable" => ~j.absent /\ j.disableRev /\ ~j.finalizeRev /\ ~j.tenantClean
    /\ step = "Finalize" => ~j.absent /\ j.disableRev /\ j.disabled /\ j.finalizeRev

(* What the journal says of an operation, and the answer it has had.          *)
Awaits(j, step, res) ==
    /\ Fits(j, step)
    /\ step \in Forward /\ res # "ok" => ~Done(j, step)
    /\ step \in Forward /\ res # "failed" => j.failure # step

(* The same tenant and the same resources in both.                            *)
SameTenant(j, k) ==
    /\ k.created = j.created /\ k.keyed = j.keyed /\ k.reloadRev = j.reloadRev
    /\ k.reloaded = j.reloaded /\ k.disableRev = j.disableRev /\ k.disabled = j.disabled
    /\ k.finalizeRev = j.finalizeRev /\ k.tenantClean = j.tenantClean /\ k.absent = j.absent
    /\ k.baseline = j.baseline /\ k.applied = j.applied /\ k.listed = j.listed
    /\ k.revoked = j.revoked /\ k.failure = j.failure /\ k.clean = j.clean
    /\ k.disposition = "retained" <=> j.disposition = "retained"

LEMMA TenantReads ==
  ASSUME NEW j, NEW k, SameTenant(j, k), NEW s, NEW r
  PROVE  /\ Sound(j) <=> Sound(k)
         /\ Fits(j, s) <=> Fits(k, s)
         /\ Awaits(j, s, r) <=> Awaits(k, s, r)
         /\ Cleared(j) <=> Cleared(k)
         /\ SameTenant(k, j)
  <1>1. Cleared(j) <=> Cleared(k) BY DEF SameTenant, Cleared
  <1>2. Sound(j) <=> Sound(k) BY <1>1 DEF SameTenant, Sound
  <1>3. Done(j, s) <=> Done(k, s) BY DEF SameTenant, Done
  <1>4. FitsForward(j, s) <=> FitsForward(k, s) BY <1>3 DEF SameTenant, FitsForward, Reached
  <1>5. Fits(j, s) <=> Fits(k, s) BY <1>4 DEF SameTenant, Fits
  <1>6. Awaits(j, s, r) <=> Awaits(k, s, r) BY <1>3, <1>5 DEF SameTenant, Awaits
  <1>7. SameTenant(k, j) BY DEF SameTenant
  <1> QED BY <1>1, <1>2, <1>5, <1>6, <1>7

(* The methods of the Suite side, and the first step of finish.               *)
LEMMA SuiteMethods ==
  ASSUME NEW j \in Journals
  PROVE  /\ \A i : SameTenant(j, BeginCreate(j, i)) /\ SameTenant(j, RecordCreated(j, i))
         /\ \A p : SameTenant(j, ReleasePlan(j, p))
         /\ j.disposition # "retained" => \A p : SameTenant(j, PrepareRetention(j, p))
         /\ j.disposition # "retained" => SameTenant(j, MarkSuiteClean(j))
  BY DEF Journals, SameTenant, BeginCreate, RecordCreated, ReleasePlan, PrepareRetention,
     MarkSuiteClean

LEMMA NoneIsOther == None \notin Steps
  BY NoneIsNoStep DEF NoneIsNoStep

(* The tenant side of ValidJournal.                                           *)
Ordered(j) ==
    /\ j.failure # None => ~j.clean
    /\ j.clean => ObligationsComplete(j)
    /\ j.absent => j.tenantClean
    /\ ~j.absent => /\ j.keyed => j.created
                    /\ j.reloadRev => j.keyed
                    /\ j.reloaded => j.reloadRev
                    /\ j.disableRev => j.created
                    /\ j.disabled => j.disableRev
                    /\ j.finalizeRev => j.disabled
                    /\ j.tenantClean => j.finalizeRev
    /\ j.listed # "no" => j.applied
    /\ j.revoked => j.listed # "no"

LEMMA ValidIsOrdered ==
  ASSUME NEW j, ValidJournal(j)
  PROVE  Ordered(j)
  BY DEF ValidJournal, Ordered

LEMMA OrderedReads ==
  ASSUME NEW j, NEW k, SameTenant(j, k), Ordered(j)
  PROVE  Ordered(k)
  <1>1. ObligationsComplete(j) <=> ObligationsComplete(k)
    BY DEF SameTenant, ObligationsComplete
  <1> QED BY <1>1 DEF SameTenant, Ordered

(* A success is recorded where the operation was awaited.                     *)
LEMMA ResourceFits ==
  ASSUME NEW j \in Journals, NEW d, NEW step \in ResourceSteps, Sound(j), FitsForward(j, step),
         j.failure = None, NEW b \in BOOLEAN,
         \/ step = "Baseline" /\ d = [j EXCEPT !.baseline = TRUE]
         \/ step = "Apply" /\ d = [j EXCEPT !.applied = TRUE]
         \/ step = "CleanupList" /\ d = [j EXCEPT !.listed = IF b THEN "present" ELSE "absent"]
         \/ step = "Revoke" /\ d = [j EXCEPT !.revoked = TRUE],
         NEW k, k = [d EXCEPT !.clean = ObligationsComplete(d)]
  PROVE  Sound(k) /\ Awaits(k, step, "ok") /\ Done(k, step) /\ k.failure = None
  <1>1. /\ d \in Journals /\ d.failure = None /\ ~d.absent /\ ~d.disableRev /\ ~d.disabled
        /\ ~d.finalizeRev /\ ~d.tenantClean /\ d.disposition # "retained"
        /\ Reached(d, step) /\ Done(d, step)
    <2>1. CASE step = "Baseline"
      <3>1. d = [j EXCEPT !.baseline = TRUE] BY <2>1
      <3> QED BY ZenonT(60), <2>1, <3>1 DEF Journals, FitsForward, Reached, Done, ResourceSteps
    <2>2. CASE step = "Apply"
      <3>1. d = [j EXCEPT !.applied = TRUE] BY <2>2
      <3> QED BY ZenonT(60), <2>2, <3>1 DEF Journals, FitsForward, Reached, Done, ResourceSteps
    <2>3. CASE step = "CleanupList"
      <3>1. PICK l \in {"present", "absent"} : d = [j EXCEPT !.listed = l] BY <2>3
      <3> QED BY <2>3, <3>1 DEF Journals, FitsForward, Reached, Done, ResourceSteps
    <2>4. CASE step = "Revoke"
      <3>1. d = [j EXCEPT !.revoked = TRUE] BY <2>4
      <3> QED BY <2>4, <3>1 DEF Journals, FitsForward, Reached, Done, ResourceSteps
    <2> QED BY <2>1, <2>2, <2>3, <2>4 DEF ResourceSteps
  <1>2. FitsForward(d, step)
    BY <1>1 DEF FitsForward
  <1>3. d.revoked => ObligationsComplete(d)
    BY <1>1 DEF Reached, ResourceSteps, ObligationsComplete
  <1>4. ObligationsComplete(d) \in BOOLEAN
    BY <1>1, CleanIsBoolean
  <1>5. /\ k.failure = None /\ ~k.absent /\ ~k.disableRev /\ ~k.disabled
        /\ ~k.finalizeRev /\ ~k.tenantClean /\ k.disposition # "retained"
        /\ k.clean = ObligationsComplete(d) /\ k.revoked = d.revoked
        /\ k.baseline = d.baseline /\ k.reloaded = d.reloaded /\ k.applied = d.applied
    BY <1>1 DEF Journals
  <1>6. Reached(k, step) /\ Done(k, step)
    BY <1>1 DEF Journals, Reached, Done, ResourceSteps
  <1>7. Sound(k)
    <2>1. d.baseline => d.reloaded
      BY <1>1 DEF Reached, ResourceSteps
    <2>2. d.applied => d.baseline
      BY <1>1 DEF Reached, ResourceSteps
    <2> QED BY <1>3, <1>5, <2>1, <2>2, NoneIsOther DEF Sound, Steps
  <1> QED BY <1>5, <1>6, <1>7, NoneIsOther DEF Awaits, Fits, FitsForward, ResourceSteps, Steps

LEMMA SuccessFits ==
  ASSUME NEW j \in Journals, NEW step \in Steps \ {"Describe"}, NEW b \in BOOLEAN,
         Sound(j), Awaits(j, step, "ok")
  PROVE  LET k == RecordSuccess(j, step, b) IN
         /\ Sound(k) /\ Awaits(k, step, "ok")
         /\ step \in Forward => Done(k, step) /\ k.failure = None
  <1> DEFINE k == RecordSuccess(j, step, b)
  <1>0. step \in Forward => FitsForward(j, step) /\ j.failure = None
    BY DEF Awaits, Fits, FitsForward
  <1>1. CASE step = "Create"
    <2>1. k = [j EXCEPT !.created = TRUE] BY <1>1 DEF RecordSuccess
    <2> QED BY <1>0, <1>1, <2>1 DEF Journals, Sound, Cleared, Awaits, Fits, FitsForward, Reached,
               Done, Forward, ResourceSteps
  <1>2. CASE step = "KeyGen"
    <2>1. k = [j EXCEPT !.keyed = TRUE] BY <1>2 DEF RecordSuccess
    <2> QED BY <1>0, <1>2, <2>1 DEF Journals, Sound, Cleared, Awaits, Fits, FitsForward, Reached,
               Done, Forward, ResourceSteps
  <1>3. CASE step = "Reload"
    <2>1. k = [j EXCEPT !.reloaded = TRUE] BY <1>3 DEF RecordSuccess
    <2> QED BY <1>0, <1>3, <2>1 DEF Journals, Sound, Cleared, Awaits, Fits, FitsForward, Reached,
               Done, Forward, ResourceSteps
  <1>4. CASE step = "Disable"
    <2>1. k = [j EXCEPT !.disabled = TRUE] BY <1>4 DEF RecordSuccess
    <2> QED BY <1>4, <2>1 DEF Journals, Sound, Cleared, Awaits, Fits, Forward, ResourceSteps
  <1>5. CASE step = "Finalize"
    <2>1. k = [j EXCEPT !.tenantClean = TRUE] BY <1>5 DEF RecordSuccess
    <2> QED BY <1>5, <2>1 DEF Journals, Sound, Cleared, Awaits, Fits, Forward, ResourceSteps
  <1>6. CASE step = "Baseline"
    <2> DEFINE d == [j EXCEPT !.baseline = TRUE]
    <2>1. k = [d EXCEPT !.clean = ObligationsComplete(d)] BY <1>6 DEF RecordSuccess
    <2> QED BY <1>0, <1>6, <2>1, ResourceFits DEF Forward, ResourceSteps
  <1>7. CASE step = "Apply"
    <2> DEFINE d == [j EXCEPT !.applied = TRUE]
    <2>1. k = [d EXCEPT !.clean = ObligationsComplete(d)] BY <1>7 DEF RecordSuccess
    <2> QED BY <1>0, <1>7, <2>1, ResourceFits DEF Forward, ResourceSteps
  <1>8. CASE step = "CleanupList"
    <2> DEFINE d == [j EXCEPT !.listed = IF b THEN "present" ELSE "absent"]
    <2>1. k = [d EXCEPT !.clean = ObligationsComplete(d)] BY <1>8 DEF RecordSuccess
    <2> QED BY <1>0, <1>8, <2>1, ResourceFits DEF Forward, ResourceSteps
  <1>9. CASE step = "Revoke"
    <2> DEFINE d == [j EXCEPT !.revoked = TRUE]
    <2>1. k = [d EXCEPT !.clean = ObligationsComplete(d)] BY <1>9 DEF RecordSuccess
    <2> QED BY <1>0, <1>9, <2>1, ResourceFits DEF Forward, ResourceSteps
  <1> QED BY <1>1, <1>2, <1>3, <1>4, <1>5, <1>6, <1>7, <1>8, <1>9 DEF Steps

(* So is a failure.                                                           *)
LEMMA FailureFits ==
  ASSUME NEW j \in Journals, NEW step \in Steps \ {"Describe"}, Sound(j),
         Awaits(j, step, "failed"), ~FailureConflicts(j, step)
  PROVE  LET k == RecordFailure(j, step) IN Sound(k) /\ Awaits(k, step, "failed")
  <1> DEFINE k == RecordFailure(j, step)
  <1>1. k = [j EXCEPT !.failure = step] /\ j.failure \in {None, step} /\ k \in Journals
    BY DEF RecordFailure, FailureConflicts, Journals
  <1>2. CASE step \in Forward
    <2>1. FitsForward(j, step) /\ ~Done(j, step) BY <1>2 DEF Awaits, Fits
    <2>2. FitsForward(k, step) /\ ~Done(k, step)
      BY ZenonT(60), <1>1, <1>2, <2>1 DEF Journals, FitsForward, Reached, Done, Forward, ResourceSteps
    <2>3. Sound(k)
      BY <1>1, <1>2, <2>1 DEF Journals, Sound, FitsForward, Reached, Forward, ResourceSteps
    <2> QED BY <1>2, <2>2, <2>3 DEF Awaits, Fits, Forward, ResourceSteps
  <1>3. CASE step \in Undoing
    <2>1. /\ k.failure = step /\ k.baseline = j.baseline /\ k.reloaded = j.reloaded
          /\ k.applied = j.applied /\ k.revoked = j.revoked /\ k.clean = j.clean
          /\ k.disposition = j.disposition /\ k.tenantClean = j.tenantClean
          /\ k.disableRev = j.disableRev /\ k.disabled = j.disabled /\ k.listed = j.listed
          /\ k.absent = j.absent /\ k.finalizeRev = j.finalizeRev
      BY <1>1 DEF Journals
    <2>2. Fits(j, step) /\ Fits(k, step) BY <1>3, <2>1 DEF Awaits, Fits, Undoing, Forward,
          ResourceSteps
    <2>3. j.failure \notin ResourceSteps /\ j.disableRev
      BY <1>1, <1>3, <2>2, NoneIsOther DEF Fits, Undoing, ResourceSteps, Steps
    <2>4. Cleared(k) BY <2>1, <2>3 DEF Sound, Cleared
    <2>5. Sound(k) BY <1>3, <2>1, <2>2, <2>4 DEF Sound, Fits, Undoing
    <2> QED BY <1>3, <2>2, <2>5 DEF Awaits, Undoing, Forward, ResourceSteps
  <1> QED BY <1>2, <1>3 DEF Steps, Forward, Undoing, ResourceSteps

(* The other methods of the tenant side.                                      *)
LEMMA ResetSound ==
  ASSUME NEW j \in Journals, NEW step \in Undoing, Fits(j, step), Sound(j)
  PROVE  Sound(ResetFailedCleanup(j, step))
  <1> DEFINE k == ResetFailedCleanup(j, step)
  <1>1. /\ k.disableRev = (j.disableRev /\ j.disabled)
        /\ k.failure = (IF j.failure = step THEN None ELSE j.failure)
        /\ k.baseline = j.baseline /\ k.reloaded = j.reloaded /\ k.applied = j.applied
        /\ k.revoked = j.revoked /\ k.clean = j.clean /\ k.disabled = j.disabled
        /\ k.disposition = j.disposition /\ k.tenantClean = j.tenantClean /\ k.listed = j.listed
    BY DEF ResetFailedCleanup, Journals
  <1> HIDE DEF k
  <1>2. j.disableRev /\ step \notin ResourceSteps
    BY DEF Fits, Undoing, ResourceSteps
  <1>3. Cleared(k)
    BY <1>1, <1>2 DEF Sound, Cleared
  <1>4. k.disableRev \in BOOLEAN /\ j.disabled \in BOOLEAN
    BY <1>1 DEF Journals
  <1>5. k.failure = "Disable" => k.disableRev
    BY <1>1, <1>2, NoneIsOther DEF Sound, Steps, Fits, Undoing
  <1>6. Sound(k)
    BY <1>1, <1>2, <1>3, <1>5, NoneIsOther DEF Sound, Steps
  <1> QED BY <1>6 DEF k

LEMMA AbsentSound ==
  ASSUME NEW j \in Journals, Sound(j)
  PROVE  /\ Sound(MarkAbsent(j)) /\ MarkAbsent(j).absent /\ MarkAbsent(j).failure = None
  <1> DEFINE k == MarkAbsent(j)
  <1>1. /\ ~k.disableRev /\ k.failure = None /\ k.clean /\ k.tenantClean /\ k.absent
        /\ k.baseline = j.baseline /\ k.reloaded = j.reloaded /\ k.applied = j.applied
    BY DEF MarkAbsent, Journals
  <1> HIDE DEF k
  <1>2. Sound(k)
    BY <1>1, NoneIsOther DEF Sound, Steps
  <1> QED BY <1>1, <1>2 DEF k

LEMMA ReloadPrepared ==
  ASSUME NEW j \in Journals, Sound(j), Fits(j, "KeyGen"), j.keyed
  PROVE  LET k == PrepareRevision(j, "Reload") IN
         /\ Sound(k) /\ Fits(k, "Reload") /\ ~Done(k, "Reload") /\ k.failure = None
         /\ ~k.applied /\ ~k.disableRev /\ ~k.disabled
  <1> DEFINE k == PrepareRevision(j, "Reload")
  <1>1. k = [j EXCEPT !.reloadRev = TRUE] BY DEF PrepareRevision
  <1>2. FitsForward(j, "KeyGen") /\ j.failure = None
    BY DEF Fits, FitsForward, Done, Forward
  <1> QED BY <1>1, <1>2 DEF Journals, Sound, Fits, FitsForward, Reached, Done, Forward,
             ResourceSteps

LEMMA UndoPrepared ==
  ASSUME NEW j \in Journals, Sound(j), Cleared(j), ~j.tenantClean
  PROVE  LET step == IF j.disabled THEN "Finalize" ELSE "Disable"
             k == PrepareRevision(j, step)
         IN  Sound(k) /\ (Ordered(k) => Fits(k, step))
  <1>1. CASE j.disabled
    <2> DEFINE k == PrepareRevision(j, "Finalize")
    <2>1. k = [j EXCEPT !.finalizeRev = TRUE] BY DEF PrepareRevision
    <2>2. Cleared(k) <=> Cleared(j) BY <2>1 DEF Journals, Cleared
    <2>3. Sound(k) BY <2>1, <2>2 DEF Journals, Sound
    <2>4. Ordered(k) => Fits(k, "Finalize")
      BY <1>1, <2>1 DEF Journals, Ordered, Fits, Forward, ResourceSteps
    <2> QED BY <1>1, <2>3, <2>4
  <1>2. CASE ~j.disabled
    <2> DEFINE k == PrepareRevision(j, "Disable")
    <2>1. k = [j EXCEPT !.disableRev = TRUE] BY DEF PrepareRevision
    <2>2. Cleared(k) BY <2>1 DEF Journals, Cleared
    <2>3. Sound(k) BY <1>2, <2>1, <2>2 DEF Journals, Sound
    <2>4. Ordered(k) => Fits(k, "Disable")
      BY <1>2, <2>1 DEF Journals, Ordered, Fits, Forward, ResourceSteps
    <2> QED BY <1>2, <2>3, <2>4
  <1> QED BY <1>1, <1>2

LEMMA FreshFits ==
  ASSUME RunConstants
  PROVE  /\ Sound(FreshJournal) /\ ValidJournal(FreshJournal) /\ Fits(FreshJournal, "Create")
         /\ ~Done(FreshJournal, "Create") /\ FreshJournal.failure = None
  BY NoneIsOther DEF FreshJournal, Sound, ValidJournal, Fits, FitsForward, Reached, Done, Forward,
     ResourceSteps, Steps, ObligationsComplete

(* From one step to the next.                                                 *)
LEMMA NextFits ==
  ASSUME NEW j \in Journals, Sound(j), Ordered(j), j.failure = None
  PROVE  /\ Fits(j, "Create") /\ j.created => Fits(j, "KeyGen") /\ ~Done(j, "KeyGen")
         /\ Fits(j, "Reload") /\ j.reloaded => Fits(j, "Baseline") /\ ~Done(j, "Baseline")
         /\ Fits(j, "Baseline") /\ j.baseline => Fits(j, "Apply") /\ ~Done(j, "Apply")
         /\ ~(j.absent \/ ~j.applied \/ ObligationsComplete(j)) /\ j.listed = "no" =>
              Fits(j, "CleanupList") /\ ~Done(j, "CleanupList")
         /\ ~(j.absent \/ ~j.applied \/ ObligationsComplete(j)) /\ j.listed = "present" /\ ~j.revoked =>
              Fits(j, "Revoke") /\ ~Done(j, "Revoke")
  <1>1. Fits(j, "Create") /\ j.created => Fits(j, "KeyGen") /\ ~Done(j, "KeyGen")
    BY DEF Fits, FitsForward, Reached, Done, Forward, ResourceSteps
  <1>2. Fits(j, "Reload") /\ j.reloaded => Fits(j, "Baseline") /\ ~Done(j, "Baseline")
    BY DEF Fits, FitsForward, Reached, Done, Forward, ResourceSteps
  <1>3. Fits(j, "Baseline") /\ j.baseline => Fits(j, "Apply") /\ ~Done(j, "Apply")
    BY DEF Fits, FitsForward, Reached, Done, Forward, ResourceSteps
  <1>4. ASSUME ~j.absent, j.applied, ~ObligationsComplete(j)
        PROVE  /\ ~j.disableRev /\ ~j.disabled /\ ~j.finalizeRev /\ ~j.tenantClean
               /\ j.disposition # "retained" /\ j.created /\ j.keyed /\ j.reloadRev
               /\ j.reloaded /\ j.baseline /\ ~j.revoked
    BY <1>4, NoneIsOther DEF Sound, Ordered, Cleared, ObligationsComplete, Journals, ResourceSteps,
       Steps
  <1>5. ~(j.absent \/ ~j.applied \/ ObligationsComplete(j)) /\ j.listed = "no" =>
              Fits(j, "CleanupList") /\ ~Done(j, "CleanupList")
    BY <1>4 DEF Fits, FitsForward, Reached, Done, Forward, ResourceSteps
  <1>6. ~(j.absent \/ ~j.applied \/ ObligationsComplete(j)) /\ j.listed = "present" /\ ~j.revoked =>
              Fits(j, "Revoke") /\ ~Done(j, "Revoke")
    BY <1>4 DEF Fits, FitsForward, Reached, Done, Forward, ResourceSteps
  <1> QED BY <1>1, <1>2, <1>3, <1>5, <1>6

(* What the pending operation is matched with.                                *)
Others(S, step) == \A s \in S : Payload(s) # Payload(step)

LEMMA MatchedOnce ==
  ASSUME NEW j, j # None, NEW step \in Steps \ {"Describe"},
         LET P == PersistedCandidate(j, step)
             C == CompletedCandidate(j)
             N == NextPending(j)
         IN  \/ P = {step} /\ Others(C, step) /\ Others(N, step)
             \/ C = {step} /\ Others(P, step) /\ Others(N, step)
             \/ N = {step} /\ Others(P, step) /\ Others(C, step)
  PROVE  \E c : c[2] = step /\ Matching(j, step) = {c}
  <1> DEFINE P == PersistedCandidate(j, step)
             C == CompletedCandidate(j)
             N == NextPending(j)
  <1>1. Payload("Describe") # Payload(step)
    BY DEF Payload, Steps
  <1>2. \A c : c \in Matching(j, step) <=>
              /\ \/ c = <<"describe", "Describe">>
                 \/ \E s \in P : c = <<"persisted", s>>
                 \/ \E s \in C : c = <<"completed", s>>
                 \/ \E s \in N : c = <<"next", s>>
              /\ Payload(c[2]) = Payload(step)
    BY DEF Matching
  <1> HIDE DEF P, C, N
  <1>3. CASE P = {step} /\ Others(C, step) /\ Others(N, step)
    <2>1. Matching(j, step) = {<<"persisted", step>>}
      BY <1>1, <1>2, <1>3 DEF Others
    <2> QED BY <2>1
  <1>4. CASE C = {step} /\ Others(P, step) /\ Others(N, step)
    <2>1. Matching(j, step) = {<<"completed", step>>}
      BY <1>1, <1>2, <1>4 DEF Others
    <2> QED BY <2>1
  <1>5. CASE N = {step} /\ Others(P, step) /\ Others(C, step)
    <2>1. Matching(j, step) = {<<"next", step>>}
      BY <1>1, <1>2, <1>5 DEF Others
    <2> QED BY <2>1
  <1> QED BY <1>3, <1>4, <1>5 DEF P, C, N

LEMMA ForwardMatched ==
  ASSUME NEW j \in Journals, NEW step \in Forward, Fits(j, step)
  PROVE  \E c : c[2] = step /\ Matching(j, step) = {c}
  <1> DEFINE P == PersistedCandidate(j, step)
             C == CompletedCandidate(j)
             N == NextPending(j)
  <1>0. FitsForward(j, step) /\ step \in Steps \ {"Describe"} /\ step # None /\ j # None
    BY NoneIsOther, NoneIsAbsent DEF Fits, Forward, ResourceSteps, Steps, NoneIsAbsent
  <1>1. CASE step = "Create"
    <2>1. Others(P, step)
      BY <1>0, <1>1 DEF FitsForward, Reached, PersistedCandidate, Phase, Payload, Others
    <2>2. CASE j.created
      <3>1. C = {step} BY <1>0, <1>1, <2>2 DEF FitsForward, Reached, CompletedCandidate, Phase, Done
      <3>2. N = {"KeyGen"} BY <1>0, <1>1, <2>2 DEF FitsForward, Reached, NextPending
      <3> QED BY <1>0, <1>1, <2>1, <3>1, <3>2, MatchedOnce DEF Others, Payload
    <2>3. CASE ~j.created
      <3>1. C = {} BY <1>0, <1>1, <2>3 DEF FitsForward, Reached, CompletedCandidate, Phase
      <3>2. N = {step} BY <1>0, <1>1, <2>3 DEF FitsForward, Reached, NextPending
      <3> QED BY <1>0, <1>1, <2>1, <3>1, <3>2, MatchedOnce DEF Others, Payload
    <2> QED BY <2>2, <2>3
  <1>2. CASE step = "KeyGen"
    <2>1. Others(P, step)
      BY <1>0, <1>2 DEF FitsForward, Reached, PersistedCandidate, Phase, Payload, Others
    <2>2. CASE j.keyed
      <3>1. C = {step} BY <1>0, <1>2, <2>2 DEF FitsForward, Reached, CompletedCandidate, Phase, Done
      <3>2. N = {} BY <1>0, <1>2, <2>2 DEF FitsForward, Reached, NextPending
      <3> QED BY <1>0, <1>2, <2>1, <3>1, <3>2, MatchedOnce DEF Others, Payload
    <2>3. CASE ~j.keyed
      <3>1. C \subseteq {"Create"} BY <1>0, <1>2, <2>3 DEF FitsForward, Reached,
                                      CompletedCandidate, Phase
      <3>2. N = {step} BY <1>0, <1>2, <2>3 DEF FitsForward, Reached, NextPending
      <3> QED BY <1>0, <1>2, <2>1, <3>1, <3>2, MatchedOnce DEF Others, Payload
    <2> QED BY <2>2, <2>3
  <1>3. CASE step = "Reload"
    <2>1. Others(P, step)
      BY <1>0, <1>3 DEF FitsForward, Reached, PersistedCandidate, Phase, Payload, Others
    <2>2. CASE j.reloaded
      <3>1. C = {step} BY <1>0, <1>3, <2>2 DEF FitsForward, Reached, CompletedCandidate, Phase, Done
      <3>2. N = {"Baseline"} BY <1>0, <1>3, <2>2 DEF FitsForward, Reached, NextPending, Done
      <3> QED BY <1>0, <1>3, <2>1, <3>1, <3>2, MatchedOnce DEF Others, Payload
    <2>3. CASE ~j.reloaded
      <3>1. C = {} BY <1>0, <1>3, <2>3 DEF FitsForward, Reached, CompletedCandidate, Phase
      <3>2. N = {step} BY <1>0, <1>3, <2>3 DEF FitsForward, Reached, NextPending
      <3> QED BY <1>0, <1>3, <2>1, <3>1, <3>2, MatchedOnce DEF Others, Payload
    <2> QED BY <2>2, <2>3
  <1>4. CASE step \in ResourceSteps /\ Done(j, step)
    <2>1. P = {step}
      BY <1>0, <1>4 DEF FitsForward, Reached, Done, PersistedCandidate, ResourceSteps
    <2>2. C = {}
      BY <1>0, <1>4 DEF FitsForward, Reached, Done, CompletedCandidate, Phase, ResourceSteps
    <2>3. Others(N, step)
      BY <1>0, <1>4 DEF FitsForward, Reached, Done, NextPending, ResourceSteps, Others, Payload
    <2> QED BY <1>0, <2>1, <2>2, <2>3, MatchedOnce DEF Others
  <1>5. CASE step \in ResourceSteps /\ ~Done(j, step) /\ j.failure = step
    <2>1. P = {step}
      BY <1>0, <1>5 DEF FitsForward, Reached, Done, PersistedCandidate, Phase, ResourceSteps
    <2>2. C = {}
      BY <1>0, <1>5 DEF FitsForward, Reached, CompletedCandidate
    <2>3. N = {}
      BY <1>0, <1>5 DEF FitsForward, Reached, NextPending, ResourceSteps
    <2> QED BY <1>0, <2>1, <2>2, <2>3, MatchedOnce DEF Others
  <1>6. CASE step \in ResourceSteps /\ ~Done(j, step) /\ j.failure = None
    <2>1. P = {}
      BY <1>0, <1>6 DEF Done, PersistedCandidate, ResourceSteps
    <2>2. C \subseteq {"Reload"}
      BY <1>0, <1>6 DEF FitsForward, Reached, CompletedCandidate, Phase, ResourceSteps
    <2>3. N = {step}
      BY <1>0, <1>6 DEF FitsForward, Reached, Done, NextPending, ResourceSteps
    <2> QED BY <1>0, <1>6, <2>1, <2>2, <2>3, MatchedOnce DEF Others, Payload, ResourceSteps
  <1> QED BY <1>0, <1>1, <1>2, <1>3, <1>4, <1>5, <1>6 DEF Forward, FitsForward

LEMMA UndoingMatched ==
  ASSUME NEW j \in Journals, NEW step \in Undoing, Fits(j, step), Ordered(j), j.reloaded
  PROVE  \E c : c[2] = step /\ Matching(j, step) = {c}
  <1> DEFINE P == PersistedCandidate(j, step)
             C == CompletedCandidate(j)
             N == NextPending(j)
  <1>0. /\ step \in Steps \ {"Describe"} /\ step # None /\ j # None
        /\ j.keyed /\ j.created /\ ~j.absent /\ j.disableRev
    BY NoneIsOther, NoneIsAbsent DEF Fits, Ordered, Undoing, Steps, NoneIsAbsent
  <1>1. Others(P, step)
    BY DEF PersistedCandidate, Phase, Payload, Others, Undoing
  <1>2. CASE step = "Disable" /\ ~j.disabled
    <2>1. C = {} BY <1>0, <1>2 DEF Fits, CompletedCandidate
    <2>2. N = {step} BY <1>0, <1>2 DEF Fits, NextPending
    <2> QED BY <1>0, <1>1, <2>1, <2>2, MatchedOnce DEF Others
  <1>3. CASE step = "Disable" /\ j.disabled
    <2>1. C = {step} BY <1>0, <1>3 DEF Fits, CompletedCandidate
    <2>2. Others(N, step) BY <1>0, <1>3 DEF Fits, NextPending, Others, Payload
    <2> QED BY <1>0, <1>1, <2>1, <2>2, MatchedOnce DEF Others
  <1>4. CASE step = "Finalize" /\ ~j.tenantClean
    <2>1. C = {} BY <1>0, <1>4 DEF Fits, CompletedCandidate
    <2>2. N = {step} BY <1>0, <1>4 DEF Fits, NextPending
    <2> QED BY <1>0, <1>1, <2>1, <2>2, MatchedOnce DEF Others
  <1>5. CASE step = "Finalize" /\ j.tenantClean
    <2>1. C = {step} BY <1>0, <1>5 DEF Fits, CompletedCandidate
    <2>2. Others(N, step) BY <1>0, <1>5 DEF Fits, NextPending, Others, Payload
    <2> QED BY <1>0, <1>1, <2>1, <2>2, MatchedOnce DEF Others
  <1> QED BY <1>2, <1>3, <1>4, <1>5 DEF Undoing

LEMMA DescribeMatched ==
  ASSUME NEW j
  PROVE  Matching(j, "Describe") = {<<"describe", "Describe">>}
  <1>1. \A s \in PersistedCandidate(j, "Describe") : Payload(s) # "Describe"
    BY DEF PersistedCandidate, Payload
  <1>2. \A s \in CompletedCandidate(j) : Payload(s) # "Describe"
    BY DEF CompletedCandidate, Payload
  <1>3. \A s \in NextPending(j) : Payload(s) # "Describe"
    BY DEF NextPending, Payload
  <1>4. Payload("Describe") = "Describe" BY DEF Payload
  <1> QED BY <1>1, <1>2, <1>3, <1>4 DEF Matching

(* The lookup only fails after the last resource operation.                   *)
LEMMA LookupWorks ==
  ASSUME NEW j \in Journals, NEW step \in Steps, Fits(j, step), Sound(j), Ordered(j)
  PROVE  ~LookupFails(j, step)
  <1> SUFFICES ASSUME j.failure = step, j.revoked PROVE FALSE
    BY DEF LookupFails, Phase
  <1> QED BY NoneIsOther DEF Sound, Ordered, Steps

LEMMA MatchedStep ==
  ASSUME NEW j, NEW step \in Steps, step \in Forward => j = None \/ (j \in Journals /\ Fits(j, step)),
         NEW c \in Matching(j, step)
  PROVE  c[2] = step
  <1>1. c[2] \in Steps /\ Payload(c[2]) = Payload(step) /\ (j = None => c[2] = "Describe")
    BY MatchingSteps
  <1>2. CASE step \in Forward /\ j # None
    BY <1>2, ForwardMatched
  <1>3. CASE step \notin Forward \/ j = None
    BY <1>1, <1>3 DEF Payload, Forward, ResourceSteps, Steps
  <1> QED BY <1>2, <1>3

-----------------------------------------------------------------------------
(* The invariant.                                                             *)
Agree == jm # None /\ jd # None /\ SameTenant(jm, jd)

(* The journal in memory agrees with the one on disk, or nothing of what it   *)
(* is ahead by matters to the operations that may still be issued.            *)
Near == Agree \/ (cmd.ctx = "fail" /\ ~jm.applied /\ ~jm.disableRev /\ ~jm.disabled)

SoundJournals ==
    /\ jm # None => Sound(jm)
    /\ jd # None => Sound(jd) /\ ValidJournal(jd)

Awaited ==
    slot # None /\ slot.step # "Describe" =>
        /\ jd # None /\ Awaits(jd, slot.step, slot.res)
        /\ jm # None => Awaits(jm, slot.step, slot.res)

Describing == pc = "do" /\ cmd.step = "Describe"
Asks(back) == Describing /\ ~cmd.resumed /\ cmd.back = back

(* An operation under way is one that the journal awaits.                     *)
Called ==
    /\ pc = "do" /\ cmd.call = "idle" => slot = None /\ ~cmd.resumed
    /\ pc = "do" /\ cmd.call = "idle" /\ cmd.step # "Describe" =>
         /\ jm # None /\ Fits(jm, cmd.step)
         /\ cmd.step \in Forward => ~Done(jm, cmd.step) /\ jm.failure = None
    /\ pc = "do" /\ cmd.call # "idle" => slot.step = cmd.step
    /\ pc = "do" /\ cmd.step # "Describe" /\ (cmd.call = "saved" \/ ~cmd.resumed) => Agree
    /\ pc = "do" /\ cmd.call = "saved" /\ slot.res = "ok" /\ cmd.step \in Forward =>
         Done(jm, cmd.step)
    /\ pc = "reset" => cmd.step \in Undoing /\ Fits(jm, cmd.step)

(* Where the journal in memory agrees with the one on disk.                   *)
Together ==
    /\ jm # None /\ (\/ pc \in {"matched", "judge", "tenant", "prepare"} \/ Describing
                     \/ pc = "match" /\ (slot # None => slot.step = "Describe")) => Near
    /\ pc \in {"clean", "mapped"} \cup SuitePhase => Agree /\ jm.failure = None
    /\ cmd.ctx = "setup" => Agree
    /\ pc = "precord" => jm = jd

(* What the setup and the cleanup have reached.                               *)
Reaching ==
    /\ cmd.ctx = "setup" /\ (pc = "prepare" \/ Describing) => Fits(jm, "KeyGen") /\ jm.keyed
    /\ pc = "probe" => Fits(jm, "Reload") /\ jm.reloaded
    /\ pc = "judge" \/ Asks("judge") =>
         cmd.ctx = "rec" \/ (cmd.ctx = "fail" /\ (~jm.applied \/ jm.failure # None))
    /\ pc = "tenant" => jm.absent \/ Cleared(jm)
    /\ cmd.ctx # "setup" /\ (pc = "prepare" \/ Asks("prepare")) =>
         ~jm.tenantClean /\ Cleared(jm)
    /\ cmd.ctx = "recfail" => \/ pc \in {"tenant", "prepare", "absent", "exit"}
                              \/ /\ pc \in {"do", "reset"} /\ ~cmd.resumed
                                 /\ cmd.step \in Undoing \cup {"Describe"}

PendInv == SoundJournals /\ Awaited /\ Called /\ Together /\ Reaching

-----------------------------------------------------------------------------
(* What the steps have in common.                                             *)
LEMMA Unread ==
  ASSUME PendInv, jm' \in {jm, None}, jd' \in {jd, None}, slot' = slot,
         jd' = jd \/ slot = None \/ slot.step = "Describe"
  PROVE  SoundJournals' /\ Awaited'
  BY DEF PendInv, SoundJournals, Awaited

LEMMA SaveTells ==
  ASSUME NEW new, NEW r \in SaveResults(new), Save(new, r)
  PROVE  /\ jm' = new /\ (jd' = jd \/ (jd' = new /\ ValidJournal(new)))
         /\ r = "ok" => jd' = new /\ ValidJournal(new)
  BY DEF Save, SaveResults

LEMMA SavedSound ==
  ASSUME PendInv, NEW new, Sound(new), new # None, jm' = new,
         jd' = jd \/ (jd' = new /\ ValidJournal(new)), slot' = slot,
         slot # None /\ slot.step # "Describe" => Awaits(new, slot.step, slot.res)
  PROVE  SoundJournals' /\ Awaited'
  BY DEF PendInv, SoundJournals, Awaited

(* A save on the Suite side.                                                  *)
LEMMA SuiteSideSaved ==
  ASSUME PendInv, jm # None, NEW new, new # None, SameTenant(jm, new), jm' = new,
         jd' = jd \/ (jd' = new /\ ValidJournal(new)), slot' = slot
  PROVE  SoundJournals' /\ Awaited' /\ (Agree => Agree' /\ jm'.failure = jm.failure)
  <1>1. Sound(new) BY TenantReads DEF PendInv, SoundJournals
  <1>2. slot # None /\ slot.step # "Describe" => Awaits(new, slot.step, slot.res)
    BY TenantReads DEF PendInv, Awaited
  <1>3. Agree => Agree' BY DEF Agree, SameTenant
  <1>4. new.failure = jm.failure BY DEF SameTenant
  <1> QED BY <1>1, <1>2, <1>3, <1>4, SavedSound

Minding == {"do", "reset", "match", "matched", "judge", "clean", "tenant", "prepare", "probe",
            "mapped"} \cup SuitePhase

LEMMA Left ==
  ASSUME pc' \notin Minding, cmd'.ctx # "setup",
         cmd'.ctx = "recfail" => pc' \in {"exit", "absent"}, SoundJournals', Awaited'
  PROVE  PendInv'
  BY DEF PendInv, Called, Together, Reaching, Describing, Asks, Minding, SuitePhase

LEMMA BailPends ==
  ASSUME RunInv, PendInv, pc \in Failing, Bail, SoundJournals', Awaited',
         cmd.ctx = "setup" =>
            \/ slot' # None /\ slot'.step # "Describe"
            \/ Agree'
            \/ ~jm'.applied /\ ~jm'.disableRev /\ ~jm'.disabled
  PROVE  PendInv'
  <1>0. cmd \in Commands BY DEF RunInv, Types
  <1>1. CASE cmd.ctx = "setup"
    <2>1. pc' = "match" /\ cmd'.ctx = "fail" BY <1>0, <1>1 DEF Bail, Commands
    <2>2. Called' BY <2>1 DEF Called
    <2>3. Together' BY <1>1, <2>1 DEF Together, Near, Describing, SuitePhase, Deleting
    <2>4. Reaching' BY <2>1 DEF Reaching, Describing, Asks
    <2> QED BY <2>2, <2>3, <2>4 DEF PendInv
  <1>2. CASE cmd.ctx # "setup"
    <2>1. pc' \in {"settle", "exit"} /\ cmd'.ctx = cmd.ctx /\ (cmd.ctx = "end" <=> pc' = "settle")
      BY <1>0, <1>2 DEF Bail, Commands
    <2> QED BY <1>2, <2>1, Left DEF Minding, SuitePhase, Deleting
  <1> QED BY <1>1, <1>2

LEMMA AskPends ==
  ASSUME NEW ctx, NEW step, NEW back, Asking(ctx, step, back), slot' = None,
         SoundJournals', jm' # None => Agree' \/ (ctx = "fail" /\ ~jm'.applied /\ ~jm'.disableRev /\ ~jm'.disabled),
         ctx = "setup" => Agree', ctx = "recfail" => step \in Undoing \cup {"Describe"},
         step # "Describe" => /\ Agree' /\ Fits(jm, step)'
                              /\ step \in Forward => ~Done(jm, step)' /\ jm'.failure = None,
         step = "Describe" =>
            /\ ctx = "setup" => Fits(jm, "KeyGen")' /\ jm'.keyed
            /\ back = "judge" => ctx = "rec" \/ (ctx = "fail" /\ (~jm'.applied \/ jm'.failure # None))
            /\ ctx # "setup" /\ back = "prepare" => ~jm'.tenantClean /\ Cleared(jm)'
  PROVE  PendInv'
  <1>1. Awaited' BY DEF Awaited
  <1>2. Called' BY DEF Called, Asking, Agree
  <1>3. Together' BY DEF Together, Asking, Near, Describing, SuitePhase, Deleting
  <1>4. Reaching' BY DEF Reaching, Asking, Describing, Asks
  <1> QED BY <1>1, <1>2, <1>3, <1>4 DEF PendInv

-----------------------------------------------------------------------------
(* One step each.                                                             *)

LEMMA FailureCleared ==
  ASSUME NEW j \in Journals, Sound(j), j.failure # None
  PROVE  Cleared(j)
  BY DEF Sound, Cleared, Journals, Steps, ResourceSteps

LEMMA JournalsKnown ==
  ASSUME RunInv, PendInv
  PROVE  /\ jm # None => jm \in Journals /\ Sound(jm)
         /\ jd # None => jd \in Journals /\ Sound(jd) /\ ValidJournal(jd) /\ Ordered(jd)
         /\ Agree => jm # None /\ jd # None /\ Ordered(jm)
         /\ cmd \in Commands /\ slot \in Operations \cup {None}
  <1>1. Agree => Ordered(jm)
    BY ValidIsOrdered, OrderedReads, TenantReads DEF PendInv, SoundJournals, Agree
  <1> QED BY <1>1, Bounds, ValidIsOrdered DEF PendInv, SoundJournals, Agree, RunInv, Types

LEMMA SameIsTogether == \A j : SameTenant(j, j)
  BY DEF SameTenant

LEMMA ServePends ==
  ASSUME RunInv, PendInv, Serve
  PROVE  PendInv'
  <1>1. /\ slot # None /\ slot.res = "none" /\ slot' # None /\ slot'.step = slot.step
        /\ slot'.res \in {"ok", "failed"} /\ UNCHANGED <<pc, jm, jd, cmd>>
    <2>1. PICK r : slot' = [slot EXCEPT
                              !.res = IF r = "ok" THEN "ok" ELSE "failed",
                              !.present = IF slot.step = "Describe"
                                          THEN tenant.st \in {"active", "disabled"}
                                          ELSE r = "ok" /\ tenant.res]
      BY DEF Serve
    <2> DEFINE b == IF slot.step = "Describe" THEN tenant.st \in {"active", "disabled"}
                    ELSE r = "ok" /\ tenant.res
    <2>2. slot # None /\ slot.res = "none" /\ UNCHANGED <<pc, jm, jd, cmd>> /\ slot \in Operations
      BY JournalsKnown DEF Serve, journalVars
    <2>3. b \in BOOLEAN
      <3>1. tenant.res \in BOOLEAN BY DEF RunInv, Types
      <3>2. CASE slot.step = "Describe" BY <3>2
      <3>3. CASE slot.step # "Describe" BY <3>1, <3>3
      <3> QED BY <3>2, <3>3
    <2>4. slot' = [slot EXCEPT !.res = IF r = "ok" THEN "ok" ELSE "failed", !.present = b]
      BY <2>1
    <2> HIDE DEF b
    <2>5. slot' \in Operations /\ slot'.step = slot.step /\ slot'.res \in {"ok", "failed"}
      BY <2>2, <2>3, <2>4 DEF Operations
    <2> QED BY <2>2, <2>5, Bounds
  <1>2. SoundJournals' BY <1>1 DEF PendInv, SoundJournals
  <1>3. \A j : Awaits(j, slot.step, "none") => Awaits(j, slot.step, slot'.res)
    BY <1>1 DEF Awaits
  <1>4. Awaited' BY <1>1, <1>3 DEF PendInv, Awaited
  <1>5. pc = "do" => cmd.call \notin {"idle", "saved"}
    BY <1>1 DEF RunInv, Slotted, PendInv, Called
  <1>6. Called' BY <1>1, <1>5, JournalsKnown DEF PendInv, Called, Agree
  <1>7. Together' BY <1>1 DEF PendInv, Together, Near, Agree, Describing
  <1>8. Reaching' BY <1>1 DEF PendInv, Reaching, Describing, Asks
  <1> QED BY <1>2, <1>4, <1>6, <1>7, <1>8 DEF PendInv

LEMMA LoseAnswerPends ==
  ASSUME RunInv, PendInv, LoseAnswer
  PROVE  PendInv'
  <1>1. pc = "do" /\ Bail /\ UNCHANGED <<jm, jd, slot>>
    BY DEF LoseAnswer, journalVars, targetVars
  <1>2. SoundJournals' /\ Awaited' BY <1>1, Unread
  <1>3. cmd.ctx = "setup" => Agree' BY <1>1 DEF PendInv, Together, Agree
  <1> QED BY <1>1, <1>2, <1>3, BailPends DEF Failing

LEMMA RejectOperationPends ==
  ASSUME RunInv, PendInv, RejectOperation
  PROVE  PendInv'
  <1>1. pc = "do" /\ Bail /\ UNCHANGED <<jm, jd>> /\ slot' = None
    BY DEF RejectOperation, journalVars
  <1>2. SoundJournals' BY <1>1 DEF PendInv, SoundJournals
  <1>3. Awaited' BY <1>1 DEF Awaited
  <1>4. cmd.ctx = "setup" => Agree' BY <1>1 DEF PendInv, Together, Agree
  <1> QED BY <1>1, <1>2, <1>3, <1>4, BailPends DEF Failing

LEMMA PrepareOperationPends ==
  ASSUME RunInv, PendInv, PrepareOperation
  PROVE  PendInv'
  <1>1. /\ pc = "do" /\ cmd.call = "idle" /\ UNCHANGED <<jm, jd>> /\ slot = None /\ ~cmd.resumed
        /\ slot' \in {None, Sent}
        /\ Bail \/ (slot' = Sent /\ pc' = pc /\ cmd' = [cmd EXCEPT !.call = "sent"])
    BY DEF PrepareOperation, journalVars, PendInv, Called, Sent
  <1>2. SoundJournals' BY <1>1 DEF PendInv, SoundJournals
  <1>3. Sent # None => Sent.step = cmd.step /\ Sent.res = "none"
    BY DEF Sent
  <1>4. Awaited'
    <2> SUFFICES ASSUME slot' # None, cmd.step # "Describe"
                 PROVE  /\ jd # None /\ Awaits(jd, cmd.step, "none")
                        /\ jm # None => Awaits(jm, cmd.step, "none")
      BY <1>1, <1>3 DEF Awaited
    <2>1. /\ jm # None /\ Fits(jm, cmd.step) /\ Agree
          /\ cmd.step \in Forward => ~Done(jm, cmd.step) /\ jm.failure = None
      BY <1>1 DEF PendInv, Called
    <2>2. cmd.step \in Forward => cmd.step # None
      BY JournalsKnown, NoneIsOther DEF Commands
    <2>3. Awaits(jm, cmd.step, "none") BY <2>1, <2>2 DEF Awaits
    <2> QED BY <2>1, <2>3, TenantReads DEF Agree
  <1>5. cmd.ctx = "setup" => Agree' BY <1>1 DEF PendInv, Together, Agree
  <1>6. CASE Bail
    BY <1>1, <1>2, <1>4, <1>5, <1>6, BailPends DEF Failing
  <1>7. CASE slot' = Sent /\ pc' = pc /\ cmd' = [cmd EXCEPT !.call = "sent"]
    <2>1. /\ cmd'.call = "sent" /\ cmd'.step = cmd.step /\ cmd'.ctx = cmd.ctx
          /\ cmd'.back = cmd.back /\ cmd'.resumed = cmd.resumed /\ pc' = "do"
      BY <1>1, <1>7, JournalsKnown DEF Commands
    <2>2. Called' BY <1>1, <1>3, <1>7, <2>1 DEF PendInv, Called, Agree, Sent
    <2>3. Together' BY <1>1, <2>1 DEF PendInv, Together, Near, Agree, Describing, SuitePhase,
                       Deleting
    <2>4. Reaching' BY <1>1, <2>1 DEF PendInv, Reaching, Describing, Asks
    <2> QED BY <1>2, <1>4, <2>2, <2>3, <2>4 DEF PendInv
  <1> QED BY <1>1, <1>6, <1>7

LEMMA PersistAnswerPends ==
  ASSUME RunInv, PendInv, PersistAnswer
  PROVE  PendInv'
  <1>1. /\ pc = "do" /\ cmd.call = "sent" /\ UNCHANGED slot /\ slot # None
        /\ slot.step = cmd.step /\ slot.res \in {"ok", "failed"} /\ slot.present \in BOOLEAN
        /\ cmd.step \in Steps
    <2>1. pc = "do" /\ cmd.call = "sent" /\ slot.res # "none" /\ UNCHANGED slot
      BY DEF PersistAnswer, targetVars
    <2>2. slot # None BY <2>1 DEF RunInv, Slotted
    <2>3. slot.step = cmd.step BY <2>1 DEF PendInv, Called
    <2> QED BY <2>1, <2>2, <2>3, JournalsKnown DEF Operations, Commands
  <1>s. cmd.ctx = "setup" => Agree BY DEF PendInv, Together
  <1>2. CASE Bail /\ UNCHANGED <<jm, jd>>
    <2>1. SoundJournals' /\ Awaited' BY <1>1, <1>2, Unread
    <2> QED BY <1>1, <1>2, <1>s, <2>1, BailPends DEF Failing, Agree
  <1>3. CASE ~Records /\ pc' = pc /\ UNCHANGED <<jm, jd>> /\ cmd' = [cmd EXCEPT !.call = "saved"]
    <2>1. /\ cmd'.call = "saved" /\ cmd'.step = cmd.step /\ cmd'.ctx = cmd.ctx
          /\ cmd'.back = cmd.back /\ cmd'.resumed = cmd.resumed /\ pc' = "do"
      BY <1>1, <1>3, JournalsKnown DEF Commands
    <2>2. cmd.step # "Describe" => slot.res # "ok" /\ ~cmd.resumed
      BY <1>3 DEF Records
    <2>3. Called' BY <1>1, <1>3, <2>1, <2>2 DEF PendInv, Called, Agree, Forward, ResourceSteps
    <2>4. Together' BY <1>1, <1>3, <2>1 DEF PendInv, Together, Near, Agree, Describing, SuitePhase,
                       Deleting
    <2>5. Reaching' BY <1>1, <1>3, <2>1 DEF PendInv, Reaching, Describing, Asks
    <2> QED BY <1>1, <1>3, <2>3, <2>4, <2>5, Unread DEF PendInv
  <1>4. CASE /\ Records
             /\ slot.res = "failed" => ~FailureConflicts(jm, cmd.step)
             /\ \E r \in SaveResults(Recorded) :
                  /\ Save(Recorded, r)
                  /\ IF r = "ok" THEN pc' = pc /\ cmd' = [cmd EXCEPT !.call = "saved"] ELSE Bail
    <2>1. PICK r \in SaveResults(Recorded) :
                  /\ Save(Recorded, r)
                  /\ IF r = "ok" THEN pc' = pc /\ cmd' = [cmd EXCEPT !.call = "saved"] ELSE Bail
      BY <1>4
    <2>2. jm' = Recorded /\ (jd' = jd \/ (jd' = Recorded /\ ValidJournal(Recorded)))
          /\ (r = "ok" => jd' = Recorded /\ ValidJournal(Recorded))
      BY <2>1, SaveTells
    <2>0. Records BY <1>4
    <2>00. slot.res = "failed" => ~FailureConflicts(jm, cmd.step) BY <1>4
    <2>3. cmd.step # "Describe" BY <2>0 DEF Records
    <2>4. jm # None /\ jm \in Journals /\ Sound(jm) /\ Awaits(jm, cmd.step, slot.res)
      BY <1>1, <2>3, JournalsKnown DEF RunInv, Flow, PendInv, Awaited
    <2>5. /\ Sound(Recorded) /\ Awaits(Recorded, cmd.step, slot.res)
          /\ slot.res = "ok" /\ cmd.step \in Forward => Done(Recorded, cmd.step)
      <3>1. CASE slot.res = "ok"
        BY <1>1, <2>3, <2>4, <3>1, SuccessFits DEF Recorded
      <3>2. CASE slot.res = "failed"
        <4>1. ~FailureConflicts(jm, cmd.step) BY <2>00, <3>2
        <4>2. Recorded = RecordFailure(jm, cmd.step) BY <3>2 DEF Recorded
        <4> QED BY <1>1, <2>3, <2>4, <3>2, <4>1, <4>2, FailureFits
      <3> QED BY <1>1, <3>1, <3>2
    <2>6. Recorded # None
      BY <1>1, <2>3, <2>4, SuccessRecorded, FailureRecorded, Bounds DEF Recorded, TenantSide
    <2>7. SoundJournals' /\ Awaited'
      BY <1>1, <2>2, <2>5, <2>6, SavedSound
    <2>8. CASE r # "ok"
      BY <1>1, <2>1, <2>3, <2>7, <2>8, BailPends DEF Failing
    <2>9. CASE r = "ok"
      <3>1. /\ cmd'.call = "saved" /\ cmd'.step = cmd.step /\ cmd'.ctx = cmd.ctx
            /\ cmd'.back = cmd.back /\ cmd'.resumed = cmd.resumed /\ pc' = "do"
        BY <1>1, <2>1, <2>9, JournalsKnown DEF Commands
      <3>2. Agree' BY <2>2, <2>6, <2>9, SameIsTogether DEF Agree
      <3>3. Called' BY <1>1, <2>2, <2>3, <2>5, <3>1, <3>2 DEF Called
      <3>4. Together' BY <2>3, <3>1, <3>2 DEF Together, Near, Describing, SuitePhase, Deleting
      <3>5. Reaching' BY <1>1, <2>3, <3>1 DEF PendInv, Reaching, Describing, Asks
      <3> QED BY <2>7, <3>3, <3>4, <3>5 DEF PendInv
    <2> QED BY <2>8, <2>9
  <1> QED BY <1>2, <1>3, <1>4 DEF PersistAnswer, journalVars

LEMMA ProceedPends ==
  ASSUME RunInv, PendInv, pc = "do", cmd.call = "saved", slot # None, slot.res = "ok",
         ~cmd.resumed, slot' = None, UNCHANGED <<jm, jd>>,
         NEW c \in Commands, c.step = cmd.step, c.ctx = cmd.ctx, c.back = cmd.back,
         c.call = "idle", ~c.resumed, ~c.cleaned, Proceed(c), SoundJournals'
  PROVE  PendInv'
  <1>1. /\ slot.step = cmd.step /\ cmd.step \in Steps /\ cmd.back \in {"judge", "begin", "prepare"}
        /\ cmd.ctx = "setup" => Agree
    BY JournalsKnown DEF PendInv, Called, Together, Commands
  <1>2. cmd.step # "Describe" => /\ Agree /\ Ordered(jm) /\ Sound(jm) /\ jm \in Journals
                                 /\ Fits(jm, cmd.step)
    BY <1>1, JournalsKnown DEF PendInv, Called, Awaited, Awaits
  <1>3. cmd.step \in Forward => Done(jm, cmd.step) /\ jm.failure = None
    <2>1. cmd.step \in Forward => cmd.step # "Describe" BY DEF Forward, ResourceSteps
    <2> QED BY <1>1, <1>2, <2>1 DEF PendInv, Called, Fits, FitsForward
  <1>4. cmd.ctx = "recfail" => cmd.step \in Undoing \cup {"Describe"}
    BY DEF PendInv, Reaching
  <1>5. Awaited' BY DEF Awaited
  <1>6. Agree => Agree' BY DEF Agree
  <1>7. ASSUME NEW next \in Forward, next # "Describe", Ask(c, next, c.back), Agree,
               Fits(jm, next), ~Done(jm, next), jm.failure = None, cmd.ctx # "recfail"
        PROVE  PendInv'
    <2>1. Asking(cmd.ctx, next, c.back)
      BY <1>1, <1>7, AskTells DEF Forward, ResourceSteps, Steps
    <2> QED BY <1>6, <1>7, <2>1, AskPends
  <1>8. CASE cmd.step = "Create"
    <2>1. Ask(c, "KeyGen", c.back) BY <1>8 DEF Proceed
    <2>2. Fits(jm, "KeyGen") /\ ~Done(jm, "KeyGen")
      BY <1>2, <1>3, <1>8, NextFits DEF Forward, Done
    <2> QED BY <1>2, <1>3, <1>4, <1>7, <1>8, <2>1, <2>2 DEF Forward, Undoing
  <1>9. CASE cmd.step = "KeyGen"
    <2>1. Ask(c, "Describe", "prepare") BY <1>9 DEF Proceed
    <2>2. Asking(cmd.ctx, "Describe", "prepare") BY <2>1, AskTells DEF Steps
    <2>3. cmd.ctx = "setup" BY <1>9 DEF RunInv, Flow, Building
    <2>4. Fits(jm, "KeyGen") /\ jm.keyed BY <1>2, <1>3, <1>9 DEF Forward, Done
    <2> QED BY <1>2, <1>6, <1>9, <2>2, <2>3, <2>4, AskPends
  <1>10. CASE cmd.step = "Baseline"
    <2>1. Ask(c, "Apply", c.back) BY <1>10 DEF Proceed
    <2>2. Fits(jm, "Apply") /\ ~Done(jm, "Apply")
      BY <1>2, <1>3, <1>10, NextFits DEF Forward, Done, ResourceSteps
    <2> QED BY <1>2, <1>3, <1>4, <1>7, <1>10, <2>1, <2>2 DEF Forward, ResourceSteps, Undoing
  <1>11. CASE cmd.step \notin {"Create", "KeyGen", "Baseline"}
    <2>1. /\ cmd' = c
          /\ pc' = CASE cmd.step = "Describe" -> cmd.back
                     [] cmd.step = "Reload"   -> "probe"
                     [] cmd.step = "Apply"    -> "mapped"
                     [] cmd.step = "Disable"  -> "tenant"
                     [] cmd.step = "Finalize" -> "absent"
                     [] OTHER               -> "clean"
      BY <1>11 DEF Proceed
    <2>2. CASE cmd.step = "Describe"
      <3>1. pc' = cmd.back /\ Describing BY <2>1, <2>2 DEF Describing
      <3>2. jm # None => Near BY <3>1 DEF PendInv, Together
      <3>3. cmd.back = "begin" => jm = None BY <2>2 DEF RunInv, Flow
      <3>4. Called' BY <1>1, <3>1 DEF Called
      <3>5. Together'
        BY <1>1, <1>6, <2>1, <3>1, <3>2, <3>3 DEF Together, Near, Describing, SuitePhase, Deleting
      <3>6. Reaching'
        BY <1>1, <2>1, <3>1, <2>2 DEF PendInv, RunInv, Flow, Reaching, Describing, Asks
      <3> QED BY <1>5, <3>4, <3>5, <3>6 DEF PendInv
    <2>3. CASE cmd.step # "Describe"
      <3>1. pc' \in {"probe", "mapped", "tenant", "absent", "clean"}
        BY <2>1, <2>3
      <3>2. Called' BY <3>1 DEF Called
      <3>3. pc' \in {"mapped", "clean"} => cmd.step \in Forward
        BY <1>1, <1>11, <2>1, <2>3 DEF Steps, Forward, ResourceSteps
      <3>4. Together'
        BY <1>1, <1>2, <1>3, <1>6, <2>1, <2>3, <3>1, <3>3 DEF Together, Near, Describing,
           SuitePhase, Deleting
      <3>5. pc' = "probe" => Fits(jm, "Reload") /\ jm.reloaded
        BY <1>1, <1>2, <1>3, <1>11, <2>1, <2>3 DEF Forward, Done
      <3>6. pc' = "tenant" => Cleared(jm)
        BY <1>1, <1>2, <1>11, <2>1, <2>3 DEF Fits, Sound
      <3>7. cmd.ctx = "recfail" => pc' \in {"tenant", "absent"}
        BY <1>4, <2>1, <2>3 DEF Undoing
      <3>8. Reaching'
        BY <2>1, <3>1, <3>5, <3>6, <3>7 DEF Reaching, Describing, Asks
      <3> QED BY <1>5, <3>2, <3>4, <3>8 DEF PendInv
    <2> QED BY <2>2, <2>3
  <1> QED BY <1>8, <1>9, <1>10, <1>11

LEMMA ClearSlotPends ==
  ASSUME RunInv, PendInv, ClearSlot
  PROVE  PendInv'
  <1>1. /\ pc = "do" /\ cmd.call = "saved" /\ UNCHANGED <<jm, jd>>
        /\ slot # None /\ slot.res \in {"ok", "failed"} /\ slot.present \in BOOLEAN
        /\ slot.step = cmd.step /\ cmd.step \in Steps /\ ~cmd.cleaned
    <2>1. pc = "do" /\ cmd.call = "saved" /\ UNCHANGED <<jm, jd>>
      BY DEF ClearSlot, journalVars
    <2>2. slot # None /\ slot.res # "none" BY <2>1 DEF RunInv, Slotted
    <2>3. slot.step = cmd.step BY <2>1 DEF PendInv, Called
    <2>4. ~cmd.cleaned BY <2>1 DEF RunInv, Flow, Closing, Finishing, Removing
    <2> QED BY <2>1, <2>2, <2>3, <2>4, JournalsKnown DEF Operations, Commands
  <1>2. SoundJournals' BY <1>1 DEF PendInv, SoundJournals
  <1>3. Agree => Agree' BY <1>1 DEF Agree
  <1>4. slot' \in {slot, None}
    BY DEF ClearSlot
  <1>5. Awaited' BY <1>1, <1>4 DEF PendInv, Awaited
  <1>6. CASE Bail
    BY <1>1, <1>2, <1>3, <1>5, <1>6, BailPends DEF Failing, PendInv, Together
  <1> DEFINE c == [cmd EXCEPT !.call = "idle", !.present = slot.present]
  <1>7. /\ c \in Commands /\ c.step = cmd.step /\ c.ctx = cmd.ctx /\ c.back = cmd.back
        /\ c.call = "idle" /\ c.resumed = cmd.resumed /\ ~c.cleaned
    BY <1>1, JournalsKnown DEF Commands
  <1>8. \/ Bail
        \/ slot' = None /\ slot.res = "failed" /\ cmd.step \in Undoing /\ pc' = "reset" /\ cmd' = c
        \/ slot' = None /\ cmd.resumed /\ pc' = "matched" /\ cmd' = c
        \/ slot' = None /\ slot.res # "failed" /\ ~cmd.resumed /\ Proceed(c)
    BY DEF ClearSlot, Undoing
  <1> HIDE DEF c
  <1>9. CASE slot' = None /\ slot.res = "failed" /\ cmd.step \in Undoing /\ pc' = "reset" /\ cmd' = c
    <2>1. cmd.step # "Describe" BY <1>9 DEF Undoing
    <2>2. Fits(jm, cmd.step) /\ Agree
      BY <1>1, <2>1 DEF PendInv, Awaited, Awaits, Called, Agree
    <2>3. Called' BY <1>1, <1>7, <1>9, <2>2 DEF Called
    <2>4. Together' BY <1>3, <1>9, <2>2 DEF Together, Describing, SuitePhase, Deleting
    <2>5. Reaching' BY <1>1, <1>7, <1>9 DEF PendInv, Reaching, Describing, Asks
    <2> QED BY <1>2, <1>5, <2>3, <2>4, <2>5 DEF PendInv
  <1>10. CASE slot' = None /\ cmd.resumed /\ pc' = "matched" /\ cmd' = c
    <2>1. jm # None => Near
      BY <1>1 DEF PendInv, Called, Together, Describing, Near
    <2>2. cmd.ctx # "setup" BY <1>10 DEF RunInv, Flow
    <2>3. Called' BY <1>10 DEF Called
    <2>4. Together' BY <1>1, <1>3, <1>7, <1>10, <2>1, <2>2 DEF Together, Near, Describing,
                       SuitePhase, Deleting
    <2>5. Reaching' BY <1>1, <1>7, <1>10 DEF PendInv, Reaching, Describing, Asks
    <2> QED BY <1>2, <1>5, <2>3, <2>4, <2>5 DEF PendInv
  <1>11. CASE slot' = None /\ slot.res # "failed" /\ ~cmd.resumed /\ Proceed(c)
    BY <1>1, <1>2, <1>7, <1>11, ProceedPends
  <1> QED BY <1>6, <1>8, <1>9, <1>10, <1>11

LEMMA ResetCleanupPends ==
  ASSUME RunInv, PendInv, ResetCleanup
  PROVE  PendInv'
  <1> DEFINE new == ResetFailedCleanup(jm, cmd.step)
  <1>1. pc = "reset" /\ UNCHANGED slot
    BY DEF ResetCleanup, targetVars
  <1>2. PICK r \in SaveResults(new) :
          Save(new, r) /\ (IF r = "ok" /\ cmd.resumed THEN Goto("matched") ELSE Bail)
    BY DEF ResetCleanup
  <1>3. /\ jm # None /\ jm \in Journals /\ Sound(jm) /\ slot = None /\ cmd.ctx # "setup"
        /\ cmd.step \in Undoing /\ Fits(jm, cmd.step) /\ cmd.step \in Steps
    BY <1>1, JournalsKnown DEF RunInv, Flow, Slotted, Settled, Recovering, PendInv, Called,
       Undoing, Steps
  <1>4. Sound(new) /\ new # None
    BY <1>3, ResetSound, CleanupReset, Bounds DEF TenantSide
  <1>5. jm' = new /\ (jd' = jd \/ (jd' = new /\ ValidJournal(new))) /\ (r = "ok" => jd' = new)
    BY <1>2, SaveTells
  <1>6. SoundJournals' /\ Awaited'
    BY <1>1, <1>3, <1>4, <1>5, SavedSound
  <1>7. CASE Bail
    BY <1>1, <1>3, <1>6, <1>7, BailPends DEF Failing
  <1>8. CASE r = "ok" /\ cmd.resumed /\ Goto("matched")
    <2>1. pc' = "matched" /\ cmd' = cmd BY <1>8 DEF Goto
    <2>2. Agree' BY <1>4, <1>5, <1>8, SameIsTogether DEF Agree
    <2>3. Called' BY <2>1 DEF Called
    <2>4. Together' BY <2>1, <2>2 DEF Together, Near, Describing, SuitePhase, Deleting
    <2>5. Reaching' BY <1>1, <1>3, <1>8, <2>1 DEF PendInv, Reaching, Describing, Asks
    <2> QED BY <1>6, <2>3, <2>4, <2>5 DEF PendInv
  <1> QED BY <1>2, <1>7, <1>8

LEMMA ClaimPends ==
  ASSUME RunInv, PendInv, Claim
  PROVE  PendInv'
  <1>1. pc = "claim" /\ UNCHANGED <<jd, slot>> /\ cmd.ctx \notin {"setup", "recfail"}
    BY DEF Claim, targetVars, RunInv, Flow, PendInv, Reaching
  <1>2. CASE jm' = jd /\ Goto("match")
    <2>1. pc' = "match" /\ cmd' = cmd BY <1>2 DEF Goto
    <2>2. SoundJournals' BY <1>1, <1>2 DEF PendInv, SoundJournals
    <2>3. Awaited' BY <1>1, <1>2 DEF PendInv, Awaited
    <2>4. jm' # None => Agree' BY <1>1, <1>2, SameIsTogether DEF Agree
    <2>5. Called' BY <2>1 DEF Called
    <2>6. Together' BY <1>1, <2>1, <2>4 DEF Together, Near, Describing, SuitePhase, Deleting
    <2>7. Reaching' BY <1>1, <2>1 DEF Reaching, Describing, Asks
    <2> QED BY <2>2, <2>3, <2>5, <2>6, <2>7 DEF PendInv
  <1>3. CASE Bail /\ UNCHANGED jm
    <2>1. SoundJournals' /\ Awaited' BY <1>1, <1>3, Unread
    <2> QED BY <1>1, <1>3, <2>1, BailPends DEF Failing
  <1> QED BY <1>2, <1>3 DEF Claim

LEMMA MatchPendingPends ==
  ASSUME RunInv, PendInv, MatchPending
  PROVE  PendInv'
  <1>1. /\ pc = "match" /\ UNCHANGED <<jm, jd, slot>>
        /\ cmd.ctx \notin {"start", "setup", "end", "recfail"} /\ cmd \in Commands
    BY JournalsKnown DEF MatchPending, targetVars, journalVars, RunInv, Flow, Recovering, PendInv,
       Reaching
  <1>2. SoundJournals' /\ Awaited' BY <1>1, Unread
  <1>3. CASE Bail
    BY <1>1, <1>2, <1>3, BailPends DEF Failing
  <1>4. CASE slot = None /\ Goto("matched")
    <2>1. pc' = "matched" /\ cmd' = cmd BY <1>4 DEF Goto
    <2>2. jm # None => Near BY <1>1, <1>4 DEF PendInv, Together
    <2>3. Called' BY <2>1 DEF Called
    <2>4. Together' BY <1>1, <2>1, <2>2 DEF Together, Near, Agree, Describing, SuitePhase, Deleting
    <2>5. Reaching' BY <1>1, <2>1 DEF Reaching, Describing, Asks
    <2> QED BY <1>2, <2>3, <2>4, <2>5 DEF PendInv
  <1>5. CASE ~Bail /\ slot # None
    <2>1. slot.step \in Steps
      BY <1>5, Bounds DEF Operations
    <2>2. Matching(jm, slot.step) # {}
      BY <1>5, FS_EmptySet DEF MatchPending
    <2>3. PICK c : c \in Matching(jm, slot.step) /\ pc' = "do"
                   /\ cmd' = [cmd EXCEPT !.resumed = TRUE, !.call = "sent", !.step = c[2]]
      BY <1>5, <2>2 DEF MatchPending
    <2>4. slot.step \in Forward => jm = None \/ (jm \in Journals /\ Fits(jm, slot.step))
      BY <1>5, JournalsKnown DEF PendInv, Awaited, Awaits, Forward, ResourceSteps
    <2>5. c[2] = slot.step
      BY <2>1, <2>3, <2>4, MatchedStep
    <2>6. /\ cmd'.resumed /\ cmd'.call = "sent" /\ cmd'.step = slot.step /\ cmd'.ctx = cmd.ctx
      BY <1>1, <2>1, <2>3, <2>5 DEF Commands
    <2>7. Called' BY <1>1, <2>3, <2>6 DEF Called
    <2>8. Together' BY <1>1, <2>3, <2>6 DEF PendInv, Together, Near, Agree, Describing, SuitePhase,
                       Deleting
    <2>9. Reaching' BY <1>1, <2>3, <2>6 DEF Reaching, Describing, Asks
    <2> QED BY <1>2, <2>7, <2>8, <2>9 DEF PendInv
  <1> QED BY <1>3, <1>4, <1>5 DEF MatchPending

LEMMA MatchedPends ==
  ASSUME RunInv, PendInv, Matched
  PROVE  PendInv'
  <1>1. /\ pc = "matched" /\ UNCHANGED <<jm, jd, slot>> /\ slot = None
        /\ cmd.ctx \in {"rec", "fail"} /\ cmd \in Commands /\ ~cmd.cleaned
    BY JournalsKnown DEF Matched, targetVars, journalVars, RunInv, Flow, Slotted, Settled,
       Recovering,
       PendInv, Reaching, Commands, Closing, Finishing, Removing
  <1>2. SoundJournals' /\ Awaited' BY <1>1, Unread
  <1>3. CASE jm = None
    <2>1. pc' \in {"auth", "write", "exit"} /\ cmd'.ctx = cmd.ctx
      BY <1>1, <1>3 DEF Matched, Goto, Quit, Commands
    <2> QED BY <1>1, <1>2, <2>1, Left DEF Minding, SuitePhase, Deleting
  <1>4. CASE jm # None /\ cmd.ctx = "fail" /\ jm.applied /\ jm.failure = None
    <2>1. pc' = "clean" /\ cmd' = cmd BY <1>4 DEF Matched, Goto
    <2>2. Agree BY <1>1, <1>4 DEF PendInv, Together, Near
    <2>3. Called' BY <2>1 DEF Called
    <2>4. Together' BY <1>1, <1>4, <2>1, <2>2 DEF Together, Near, Agree, Describing, SuitePhase,
                       Deleting
    <2>5. Reaching' BY <1>1, <2>1 DEF Reaching, Describing, Asks
    <2> QED BY <1>2, <2>3, <2>4, <2>5 DEF PendInv
  <1>5. CASE jm # None /\ ~(cmd.ctx = "fail" /\ jm.applied /\ jm.failure = None)
    <2>1. Asking(cmd.ctx, "Describe", "judge")
      BY <1>1, <1>5, AskTells DEF Matched, Steps
    <2>2. Agree' \/ (cmd.ctx = "fail" /\ ~jm'.applied /\ ~jm'.disableRev /\ ~jm'.disabled)
      BY <1>1, <1>5 DEF PendInv, Together, Near, Agree
    <2>3. slot' = None BY <1>1
    <2>4. cmd.ctx = "rec" \/ (cmd.ctx = "fail" /\ (~jm'.applied \/ jm'.failure # None))
      BY <1>1, <1>5
    <2> QED BY <1>1, <1>2, <2>1, <2>2, <2>3, <2>4, AskPends
  <1> QED BY <1>3, <1>4, <1>5

LEMMA JudgePends ==
  ASSUME RunInv, PendInv, Judge
  PROVE  PendInv'
  <1> DEFINE blocked == cmd.ctx = "rec" /\ jm.failure # None
             c == [cmd EXCEPT !.ctx = IF blocked THEN "recfail" ELSE @]
             next == IF cmd.ctx = "rec" /\ ~blocked /\ jm.disposition # "retained"
                     THEN "clean" ELSE "tenant"
             new == MarkAbsent(jm)
  <1>1. /\ pc = "judge" /\ UNCHANGED slot /\ slot = None /\ cmd.ctx \in {"rec", "fail"}
        /\ jm # None /\ jm \in Journals /\ Sound(jm) /\ Near
        /\ cmd.ctx = "fail" => ~jm.applied \/ jm.failure # None
    BY JournalsKnown DEF Judge, targetVars, RunInv, Flow, Slotted, Settled, Recovering, PendInv,
       Reaching,
       Together
  <1>2. /\ c \in Commands /\ c.ctx \in {"rec", "fail", "recfail"}
        /\ c.ctx = "fail" <=> cmd.ctx = "fail"
        /\ c.ctx = "recfail" <=> cmd.ctx = "rec" /\ jm.failure # None
    BY <1>1, JournalsKnown DEF Commands
  <1>3. next \in {"clean", "tenant"} /\ (next = "clean" => c.ctx = "rec" /\ jm.failure = None)
    BY <1>1, <1>2
  <1>4. ASSUME pc' = next, cmd' = c, jm' # None => Near', SoundJournals', Awaited',
               next = "clean" => Agree' /\ jm'.failure = None,
               next = "tenant" => jm'.absent \/ Cleared(jm)'
        PROVE  PendInv'
    <2>1. Called' BY <1>3, <1>4 DEF Called
    <2>2. Together' BY <1>2, <1>3, <1>4 DEF Together, Describing, SuitePhase, Deleting
    <2>3. Reaching' BY <1>2, <1>3, <1>4 DEF Reaching, Describing, Asks
    <2> QED BY <1>4, <2>1, <2>2, <2>3 DEF PendInv
  <1>5. CASE cmd.present
    <2>1. pc' = next /\ cmd' = c /\ UNCHANGED <<jm, jd>>
      BY <1>5 DEF Judge, journalVars
    <2>2. SoundJournals' /\ Awaited' BY <1>1, <2>1, Unread
    <2>3. Near' BY <1>1, <1>2, <2>1 DEF Near, Agree
    <2>4. ~jm.tenantClean
      BY <1>1, <1>5 DEF RunInv, Tenant, Gone, Absent, There
    <2>5. jm.disposition # "retained" BY <1>1, <2>4 DEF Sound
    <2>6. next = "tenant" => Cleared(jm)
      <3>1. next = "tenant" => ~jm.applied \/ jm.failure # None BY <1>1, <2>5
      <3> QED BY <1>1, <3>1, FailureCleared DEF Cleared
    <2>7. next = "clean" => Agree' /\ jm'.failure = None
      BY <1>1, <1>2, <1>3, <2>1 DEF Near, Agree
    <2> HIDE DEF c, next
    <2> QED BY <1>4, <2>1, <2>2, <2>3, <2>6, <2>7
  <1>6. CASE ~cmd.present
    <2>1. PICK r \in SaveResults(new) :
            Save(new, r) /\ (IF r = "ok" THEN pc' = next /\ cmd' = c ELSE Bail)
      BY <1>6 DEF Judge
    <2> HIDE DEF c, next
    <2>2. Sound(new) /\ new.absent /\ new.failure = None
      BY <1>1, AbsentSound
    <2>3. new # None
      BY <1>1, AbsenceMarked, Bounds
    <2>4. jm' = new /\ (jd' = jd \/ (jd' = new /\ ValidJournal(new))) /\ (r = "ok" => jd' = new)
      BY <2>1, SaveTells
    <2> HIDE DEF new
    <2>5. SoundJournals' /\ Awaited'
      BY <1>1, <2>2, <2>3, <2>4, SavedSound
    <2>6. CASE r = "ok"
      <3>1. Agree' BY <2>3, <2>4, <2>6, SameIsTogether DEF Agree
      <3> QED BY <1>4, <2>1, <2>2, <2>4, <2>5, <2>6, <3>1 DEF Near
    <2>7. CASE r # "ok"
      BY <1>1, <2>1, <2>5, <2>7, BailPends DEF Failing
    <2> QED BY <2>6, <2>7
  <1> QED BY <1>5, <1>6

LEMMA AuthenticatePends ==
  ASSUME RunInv, PendInv, Authenticate
  PROVE  PendInv'
  <1>1. /\ pc = "auth" /\ UNCHANGED <<jm, jd, slot>> /\ cmd.ctx \notin {"setup", "recfail"}
        /\ Bail \/ (pc' = "claim" /\ cmd' = [cmd EXCEPT !.pass = 2])
    BY DEF Authenticate, targetVars, journalVars, RunInv, Flow, PendInv, Reaching
  <1>2. SoundJournals' /\ Awaited' BY <1>1, Unread
  <1>3. CASE Bail BY <1>1, <1>2, <1>3, BailPends DEF Failing
  <1>4. CASE pc' = "claim" /\ cmd' = [cmd EXCEPT !.pass = 2]
    <2>1. cmd'.ctx = cmd.ctx BY <1>4, JournalsKnown DEF Commands
    <2> QED BY <1>1, <1>2, <1>4, <2>1, Left DEF Minding, SuitePhase, Deleting
  <1> QED BY <1>1, <1>3, <1>4

LEMMA WriteMaterialPends ==
  ASSUME RunInv, PendInv, WriteMaterial
  PROVE  PendInv'
  <1>1. /\ pc = "write" /\ UNCHANGED <<jm, jd, slot>> /\ cmd.ctx \notin {"setup", "recfail"}
        /\ jm = None /\ slot = None /\ ~cmd.cleaned /\ cmd \in Commands
        /\ Bail \/ Ask([cmd EXCEPT !.ctx = "start"], "Describe", "begin")
    BY JournalsKnown DEF WriteMaterial, targetVars, journalVars, RunInv, Flow, Slotted, Settled,
       PendInv, Reaching,
       Closing, Finishing, Removing
  <1>2. SoundJournals' /\ Awaited' BY <1>1, Unread
  <1>3. CASE Bail BY <1>1, <1>2, <1>3, BailPends DEF Failing
  <1>4. CASE Ask([cmd EXCEPT !.ctx = "start"], "Describe", "begin")
    <2> DEFINE c == [cmd EXCEPT !.ctx = "start"]
    <2>1. c \in Commands /\ ~c.cleaned /\ c.ctx = "start" BY <1>1 DEF Commands
    <2> HIDE DEF c
    <2>2. Asking("start", "Describe", "begin") BY <1>4, <2>1, AskTells DEF c, Steps
    <2> QED BY <1>1, <1>2, <2>2, AskPends
  <1> QED BY <1>1, <1>3, <1>4

LEMMA BeginRunPends ==
  ASSUME RunInv, PendInv, BeginRun
  PROVE  PendInv'
  <1>1. /\ pc = "begin" /\ UNCHANGED slot /\ slot = None /\ cmd.ctx = "start"
        /\ ~cmd.cleaned /\ cmd \in Commands
    BY JournalsKnown DEF BeginRun, targetVars, RunInv, Flow, Slotted, Settled, Closing, Finishing,
       Removing
  <1>2. PICK r : /\ jd' = IF r = "lost" THEN None ELSE FreshJournal
                 /\ jm' = IF r = "ok" THEN FreshJournal ELSE None
                 /\ IF r = "ok" THEN Ask([cmd EXCEPT !.ctx = "setup"], "Create", cmd.back)
                                ELSE Bail
    BY DEF BeginRun
  <1>3. /\ Sound(FreshJournal) /\ ValidJournal(FreshJournal) /\ Fits(FreshJournal, "Create")
        /\ ~Done(FreshJournal, "Create") /\ FreshJournal.failure = None
        /\ FreshJournal # None
    BY FreshFits, FreshIsJournal, Bounds
  <1>4. SoundJournals' BY <1>2, <1>3 DEF SoundJournals
  <1>5. Awaited' BY <1>1 DEF Awaited
  <1>6. CASE Bail BY <1>1, <1>4, <1>5, <1>6, BailPends DEF Failing
  <1>7. CASE r = "ok" /\ Ask([cmd EXCEPT !.ctx = "setup"], "Create", cmd.back)
    <2> DEFINE c == [cmd EXCEPT !.ctx = "setup"]
    <2>1. c \in Commands /\ ~c.cleaned /\ c.ctx = "setup" BY <1>1 DEF Commands
    <2> HIDE DEF c
    <2>2. Asking("setup", "Create", cmd.back) BY <1>1, <1>7, <2>1, AskTells DEF c, Steps, Commands
    <2>3. Agree' BY <1>2, <1>3, <1>7, SameIsTogether DEF Agree
    <2> QED BY <1>1, <1>2, <1>3, <1>4, <1>7, <2>2, <2>3, AskPends DEF Forward
  <1> QED BY <1>2, <1>6, <1>7

LEMMA PrepareMutationPends ==
  ASSUME RunInv, PendInv, PrepareMutation
  PROVE  PendInv'
  <1> DEFINE step == IF cmd.ctx = "setup" THEN "Reload"
                     ELSE IF jm.disabled THEN "Finalize" ELSE "Disable"
             new == PrepareRevision(jm, step)
  <1>1. /\ pc = "prepare" /\ UNCHANGED slot /\ slot = None /\ jm # None /\ jm \in Journals
        /\ Sound(jm) /\ cmd \in Commands /\ ~cmd.cleaned /\ cmd.ctx \notin {"start"}
    BY JournalsKnown DEF PrepareMutation, targetVars, RunInv, Flow, Slotted, Settled, Recovering,
       Closing, Finishing, Removing
  <1>2. PICK r \in SaveResults(new) :
          Save(new, r) /\ (IF r = "ok" THEN Call(step) ELSE Bail)
    BY DEF PrepareMutation
  <1>3. /\ jm' = new /\ (jd' = jd \/ (jd' = new /\ ValidJournal(new)))
        /\ r = "ok" => jd' = new /\ ValidJournal(new)
    BY <1>2, SaveTells
  <1>4. step \in {"Reload", "Disable", "Finalize"} /\ step \in Steps
    BY DEF Steps
  <1>5. new # None BY <1>1, <1>4, RevisionPrepared, Bounds DEF TenantSide
  <1>6. /\ Sound(new)
        /\ cmd.ctx = "setup" => /\ step = "Reload" /\ Fits(new, "Reload") /\ ~Done(new, "Reload")
                                /\ new.failure = None
                                /\ ~new.applied /\ ~new.disableRev /\ ~new.disabled
        /\ cmd.ctx # "setup" => step \in Undoing /\ (Ordered(new) => Fits(new, step))
    <2>1. CASE cmd.ctx = "setup"
      <3>1. Fits(jm, "KeyGen") /\ jm.keyed BY <1>1, <2>1 DEF PendInv, Reaching
      <3> QED BY <1>1, <2>1, <3>1, ReloadPrepared
    <2>2. CASE cmd.ctx # "setup"
      <3>1. ~jm.tenantClean /\ Cleared(jm) BY <1>1, <2>2 DEF PendInv, Reaching
      <3> QED BY <1>1, <2>2, <3>1, UndoPrepared DEF Undoing
    <2> QED BY <2>1, <2>2
  <1> HIDE DEF new, step
  <1>7. SoundJournals' /\ Awaited'
    BY <1>1, <1>3, <1>5, <1>6, SavedSound
  <1>8. CASE r # "ok"
    BY <1>1, <1>2, <1>3, <1>6, <1>7, <1>8, BailPends DEF Failing
  <1>9. CASE r = "ok"
    <2>1. Asking(cmd.ctx, step, cmd.back)
      BY <1>1, <1>2, <1>4, <1>9, AskTells DEF Call, Commands
    <2>2. Agree' BY <1>3, <1>5, <1>9, SameIsTogether DEF Agree
    <2>3. Fits(new, step) BY <1>3, <1>6, <1>9, ValidIsOrdered
    <2>4. step \in Forward => step = "Reload" /\ cmd.ctx = "setup"
      BY <1>6 DEF Undoing, Forward, ResourceSteps
    <2>5. step # "Describe" BY <1>4
    <2>6. cmd.ctx = "recfail" => step \in Undoing BY <1>6
    <2> QED BY <1>1, <1>3, <1>6, <1>7, <2>1, <2>2, <2>3, <2>4, <2>5, <2>6, AskPends
  <1> QED BY <1>8, <1>9

LEMMA ProbeTenantPends ==
  ASSUME RunInv, PendInv, ProbeTenant
  PROVE  PendInv'
  <1>1. /\ pc = "probe" /\ UNCHANGED <<jm, jd, slot>> /\ slot = None /\ cmd.ctx = "setup"
        /\ ~cmd.cleaned /\ cmd \in Commands /\ Agree /\ jm \in Journals /\ Sound(jm)
        /\ Ordered(jm) /\ Fits(jm, "Reload") /\ jm.reloaded
        /\ Bail \/ Call("Baseline")
    BY JournalsKnown DEF ProbeTenant, targetVars, journalVars, RunInv, Flow, Slotted, Settled,
       PendInv,
       Together, Reaching, Closing, Finishing, Removing
  <1>2. SoundJournals' /\ Awaited' /\ Agree' BY <1>1, Unread DEF Agree
  <1>3. CASE Bail BY <1>1, <1>2, <1>3, BailPends DEF Failing
  <1>4. CASE Call("Baseline")
    <2>1. Asking("setup", "Baseline", cmd.back)
      BY <1>1, <1>4, AskTells DEF Call, Commands, Steps
    <2>2. jm.failure = None BY <1>1 DEF Fits, FitsForward, Forward, Done
    <2>3. Fits(jm, "Baseline") /\ ~Done(jm, "Baseline") BY <1>1, <2>2, NextFits
    <2> QED BY <1>1, <1>2, <2>1, <2>2, <2>3, AskPends
  <1> QED BY <1>1, <1>3, <1>4

LEMMA FinalizeMaterialPends ==
  ASSUME RunInv, PendInv, FinalizeMaterial
  PROVE  PendInv'
  <1>1. /\ pc = "mapped" /\ UNCHANGED <<jm, jd, slot>> /\ cmd \in Commands
        /\ Agree /\ jm.failure = None
        /\ Bail \/ (pc' = "suite" /\ cmd' = [cmd EXCEPT !.ctx = "end"])
    BY JournalsKnown DEF FinalizeMaterial, targetVars, journalVars, PendInv, Together
  <1>2. SoundJournals' /\ Awaited' /\ Agree' BY <1>1, Unread DEF Agree
  <1>3. CASE Bail BY <1>1, <1>2, <1>3, BailPends DEF Failing
  <1>4. CASE pc' = "suite" /\ cmd' = [cmd EXCEPT !.ctx = "end"]
    <2>1. cmd'.ctx = "end" BY <1>1, <1>4 DEF Commands
    <2>2. Called' BY <1>4 DEF Called
    <2>3. Together' BY <1>1, <1>2, <1>4, <2>1 DEF Together, Describing
    <2>4. Reaching' BY <1>4, <2>1 DEF Reaching, Describing, Asks
    <2> QED BY <1>2, <2>2, <2>3, <2>4 DEF PendInv
  <1> QED BY <1>1, <1>3, <1>4

LEMMA CleanResourcesPends ==
  ASSUME RunInv, PendInv, CleanResources
  PROVE  PendInv'
  <1>1. /\ pc = "clean" /\ UNCHANGED <<jm, jd, slot>> /\ slot = None
        /\ cmd.ctx \notin {"setup", "recfail"} /\ cmd \in Commands
        /\ Agree /\ jm.failure = None /\ jm \in Journals /\ Sound(jm) /\ Ordered(jm)
    BY JournalsKnown DEF CleanResources, targetVars, journalVars, RunInv, Flow, Slotted, Settled,
       PendInv,
       Together, Reaching
  <1>2. SoundJournals' /\ Awaited' /\ Agree' BY <1>1, Unread DEF Agree
  <1>3. CASE Bail BY <1>1, <1>2, <1>3, BailPends DEF Failing
  <1>4. CASE (jm.absent \/ ~jm.applied \/ ObligationsComplete(jm)) /\ Goto("tenant")
    <2>1. pc' = "tenant" /\ cmd' = cmd BY <1>4 DEF Goto
    <2>2. jm.absent \/ Cleared(jm) BY <1>4 DEF ObligationsComplete, Cleared
    <2>3. Called' BY <2>1 DEF Called
    <2>4. Together' BY <1>1, <1>2, <2>1 DEF Together, Near, Describing, SuitePhase, Deleting
    <2>5. Reaching' BY <1>1, <2>1, <2>2 DEF Reaching, Describing, Asks
    <2> QED BY <1>2, <2>3, <2>4, <2>5 DEF PendInv
  <1>5. ASSUME NEW step \in {"CleanupList", "Revoke"}, Call(step), Fits(jm, step), ~Done(jm, step)
        PROVE  PendInv'
    <2>1. ~cmd.cleaned BY <1>1 DEF RunInv, Flow, Closing, Finishing, Removing
    <2>2. Asking(cmd.ctx, step, cmd.back)
      BY <1>1, <1>5, <2>1, AskTells DEF Call, Commands, Steps
    <2> QED BY <1>1, <1>2, <1>5, <2>2, AskPends
  <1>6. CASE ~(jm.absent \/ ~jm.applied \/ ObligationsComplete(jm)) /\ ~Bail
    <2>1. \/ jm.listed = "no" /\ Call("CleanupList")
          \/ jm.listed = "present" /\ ~jm.revoked /\ Call("Revoke")
      BY <1>6 DEF CleanResources
    <2> QED BY <1>1, <1>5, <1>6, <2>1, NextFits
  <1> QED BY <1>3, <1>4, <1>6 DEF CleanResources

LEMMA CleanTenantPends ==
  ASSUME RunInv, PendInv, CleanTenant
  PROVE  PendInv'
  <1>1. /\ pc = "tenant" /\ UNCHANGED <<jm, jd, slot>> /\ slot = None
        /\ cmd.ctx \notin {"setup", "start"} /\ cmd \in Commands /\ ~cmd.cleaned
        /\ jm # None /\ jm \in Journals /\ Sound(jm) /\ Near /\ (jm.absent \/ Cleared(jm))
    BY JournalsKnown DEF CleanTenant, targetVars, journalVars, RunInv, Flow, Slotted, Settled,
       PendInv,
       Together, Reaching, Recovering, Closing, Finishing, Removing
  <1>2. SoundJournals' /\ Awaited' BY <1>1, Unread
  <1>3. Agree => Agree' BY <1>1 DEF Agree
  <1>4. CASE jm.tenantClean
    <2>1. TenantDone BY <1>4 DEF CleanTenant
    <2>2. /\ pc' \in {"settle", "finish", "exit", "auth", "publish", "scrub"} /\ cmd'.ctx = cmd.ctx
          /\ cmd.ctx = "recfail" => pc' = "exit"
      BY <1>1, <2>1 DEF TenantDone, Goto, Quit, Commands
    <2> QED BY <1>1, <1>2, <2>2, Left DEF Minding, SuitePhase, Deleting
  <1>5. CASE ~jm.tenantClean /\ \E step \in Undoing : /\ Call(step) /\ jm.disableRev
                                                      /\ step = "Finalize" => jm.disabled /\ jm.finalizeRev
                                                      /\ step = "Disable" => ~jm.disabled
    <2>1. PICK step \in Undoing : /\ Call(step) /\ jm.disableRev
                                  /\ step = "Finalize" => jm.disabled /\ jm.finalizeRev
                                  /\ step = "Disable" => ~jm.disabled
      BY <1>5
    <2>2. Agree /\ Ordered(jm)
      BY <1>1, <2>1, JournalsKnown DEF Near
    <2>3. ~jm.absent /\ (~jm.disabled => ~jm.finalizeRev)
      BY <1>5, <2>2 DEF Ordered
    <2>4. Fits(jm, step)
      BY <1>5, <2>1, <2>3 DEF Fits, Undoing, Forward, ResourceSteps
    <2>5. Asking(cmd.ctx, step, cmd.back)
      BY <1>1, <2>1, AskTells DEF Call, Commands, Steps, Undoing
    <2>6. step \notin Forward \cup {"Describe"} BY DEF Undoing, Forward, ResourceSteps
    <2> QED BY <1>1, <1>2, <1>3, <2>2, <2>4, <2>5, <2>6, AskPends
  <1>6. CASE ~jm.tenantClean /\ Ask(cmd, "Describe", "prepare")
    <2>1. Asking(cmd.ctx, "Describe", "prepare")
      BY <1>1, <1>6, AskTells DEF Steps
    <2>2. Cleared(jm)
      <3>1. Agree => Cleared(jm) BY <1>1, <1>6, JournalsKnown DEF Ordered
      <3> QED BY <1>1, <3>1 DEF Near, Cleared
    <2>3. Agree' \/ (cmd.ctx = "fail" /\ ~jm'.applied /\ ~jm'.disableRev /\ ~jm'.disabled)
      BY <1>1, <1>3 DEF Near
    <2> QED BY <1>1, <1>2, <1>6, <2>1, <2>2, <2>3, AskPends
  <1>7. ~jm.tenantClean /\ jm.disabled /\ jm.finalizeRev => jm.disableRev
    <2>1. jm.disabled => Agree BY <1>1 DEF Near
    <2> QED BY <2>1, JournalsKnown DEF Ordered
  <1> QED BY <1>4, <1>5, <1>6, <1>7 DEF CleanTenant, Undoing

LEMMA TenantAbsentPends ==
  ASSUME RunInv, PendInv, TenantAbsent
  PROVE  PendInv'
  <1> DEFINE new == MarkAbsent(jm)
  <1>1. /\ pc = "absent" /\ UNCHANGED slot /\ slot = None /\ cmd.ctx \notin {"setup", "start"}
        /\ jm # None /\ jm \in Journals /\ Sound(jm)
    BY JournalsKnown DEF TenantAbsent, targetVars, RunInv, Flow, Slotted, Settled, Recovering
  <1>2. PICK r \in SaveResults(new) :
          Save(new, r) /\ (IF r = "ok" THEN Goto("tenant") ELSE Bail)
    BY DEF TenantAbsent
  <1>3. Sound(new) /\ new.absent /\ new # None
    BY <1>1, AbsentSound, AbsenceMarked, Bounds
  <1>4. jm' = new /\ (jd' = jd \/ (jd' = new /\ ValidJournal(new))) /\ (r = "ok" => jd' = new)
    BY <1>2, SaveTells
  <1> HIDE DEF new
  <1>5. SoundJournals' /\ Awaited'
    BY <1>1, <1>3, <1>4, SavedSound
  <1>6. CASE r = "ok"
    <2>1. pc' = "tenant" /\ cmd' = cmd BY <1>2, <1>6 DEF Goto
    <2>2. Agree' BY <1>3, <1>4, <1>6, SameIsTogether DEF Agree
    <2>3. Called' BY <2>1 DEF Called
    <2>4. Together' BY <1>1, <2>1, <2>2 DEF Together, Near, Describing, SuitePhase, Deleting
    <2>5. Reaching' BY <1>1, <1>3, <1>4, <2>1 DEF Reaching, Describing, Asks
    <2> QED BY <1>5, <2>3, <2>4, <2>5 DEF PendInv
  <1>7. CASE r # "ok"
    BY <1>1, <1>2, <1>5, <1>7, BailPends DEF Failing
  <1> QED BY <1>6, <1>7

LEMMA SuiteResultPends ==
  ASSUME RunInv, PendInv, SuiteResult
  PROVE  PendInv'
  <1>1. /\ pc = "result" /\ UNCHANGED slot /\ cmd.ctx = "end" /\ cmd \in Commands
        /\ Agree /\ jm.failure = None /\ jm \in Journals /\ jm.disposition = "active"
    BY JournalsKnown DEF SuiteResult, targetVars, RunInv, Flow, Running, PendInv, Together,
       SuitePhase, Deleting
  <1>2. ASSUME pc' = "clean" \/ pc' = "exit", cmd'.ctx = "end", SoundJournals', Awaited',
               Agree', jm'.failure = None
        PROVE  PendInv'
    <2>1. Called' BY <1>2 DEF Called
    <2>2. Together' BY <1>2 DEF Together, Describing, SuitePhase, Deleting
    <2>3. Reaching' BY <1>2 DEF Reaching, Describing, Asks
    <2> QED BY <1>2, <2>1, <2>2, <2>3 DEF PendInv
  <1>3. (pc' = "clean" \/ pc' = "exit") /\ cmd'.ctx = "end"
    BY <1>1 DEF SuiteResult, Quit, Commands
  <1>4. CASE UNCHANGED <<jm, jd>>
    BY <1>1, <1>2, <1>3, <1>4, Unread DEF Agree
  <1>5. CASE \E new, r : /\ new = MarkSuiteClean(jm) \/ new = PrepareRetention(jm, run.keep)
                         /\ r \in SaveResults(new) /\ Save(new, r)
    <2>1. PICK new, r : /\ new = MarkSuiteClean(jm) \/ new = PrepareRetention(jm, run.keep)
                        /\ r \in SaveResults(new) /\ Save(new, r)
      BY <1>5
    <2>2. SameTenant(jm, new) BY <1>1, <2>1, SuiteMethods
    <2>3. jm' = new /\ (jd' = jd \/ (jd' = new /\ ValidJournal(new))) BY <2>1, SaveTells
    <2>4. new # None
      BY <1>1, <2>1, SuiteMarked, RetentionPrepared, Bounds DEF RunInv, SuiteTypes, Runs
    <2> QED BY <1>1, <1>2, <1>3, <2>2, <2>3, <2>4, SuiteSideSaved DEF Agree
  <1> QED BY <1>4, <1>5 DEF SuiteResult, journalVars

(* The steps after the cleanup of a run, and of a recovery.                   *)
Leaves == /\ pc \in Closing \cup Finishing /\ pc' \in Closing \cup Finishing \cup {"exit"}
          /\ cmd'.ctx = cmd.ctx

LEMMA LeavingPends ==
  ASSUME RunInv, PendInv, Leaves, SoundJournals', Awaited'
  PROVE  PendInv'
  <1>1. cmd'.ctx \notin {"setup", "recfail"}
    BY DEF Leaves, RunInv, Flow, PendInv, Reaching, Closing, Finishing, Removing
  <1> QED BY <1>1, Left DEF Leaves, Minding, SuitePhase, Deleting, Closing, Finishing, Removing

LEMMA QuietLeavePends ==
  ASSUME RunInv, PendInv, Leaves, UNCHANGED <<jm, jd, slot>>
  PROVE  PendInv'
  <1>1. SoundJournals' /\ Awaited' BY Unread
  <1> QED BY <1>1, LeavingPends

LEMMA ClosingKnown ==
  ASSUME RunInv, PendInv, pc \in Closing \cup Finishing
  PROVE  /\ jm # None /\ jm \in Journals /\ Sound(jm) /\ cmd \in Commands /\ cmd.ctx # "setup"
         /\ pc \in Finishing => slot = None
  BY JournalsKnown DEF RunInv, Flow, Slotted, Settled, Closing, Finishing, Removing, Recovering

LEMMA EndingPends ==
  ASSUME RunInv, PendInv,
         \/ Settle \/ StageManifest \/ PublishManifest \/ ScrubSuite \/ EraseNext \/ Finale
         \/ FinishPublish \/ RemoveMaterial
  PROVE  PendInv'
  <1> USE DEF Leaves, Goto, Quit, Commands, Closing, Finishing, Removing, journalVars, targetVars
  <1>1. CASE Settle BY <1>1, ClosingKnown, QuietLeavePends DEF Settle
  <1>2. CASE StageManifest
    <2>1. PICK r : IF r = "ok" THEN Goto("commit")
                   ELSE pc' = "scrub" /\ cmd' = [cmd EXCEPT !.errs = TRUE]
      BY <1>2 DEF StageManifest
    <2>2. pc = "stage" /\ UNCHANGED <<jm, jd, slot>> BY <1>2 DEF StageManifest
    <2> QED BY <2>1, <2>2, ClosingKnown, QuietLeavePends
  <1>3. CASE PublishManifest
    <2>1. PICK r : CASE cmd.ctx = "end" ->
                          pc' = "finale" /\ cmd' = [cmd EXCEPT !.errs = @ \/ r # "ok"]
                     [] cmd.ctx # "end" -> IF r = "ok" THEN Goto("finish") ELSE Bail
      BY <1>3 DEF PublishManifest
    <2>2. pc = "publish" /\ UNCHANGED <<jm, jd, slot>> BY <1>3 DEF PublishManifest
    <2> QED BY <2>1, <2>2, ClosingKnown, QuietLeavePends DEF Bail
  <1>4. CASE ScrubSuite
    <2>1. pc = "scrub" /\ UNCHANGED <<jm, jd, slot>> BY <1>4 DEF ScrubSuite
    <2>2. pc' \in {"finale", "finish", "exit", "erase"} /\ cmd'.ctx = cmd.ctx
      BY <1>4, <2>1, ClosingKnown DEF ScrubSuite
    <2> QED BY <2>1, <2>2, QuietLeavePends
  <1>5. CASE EraseNext BY <1>5, QuietLeavePends DEF EraseNext
  <1>6. CASE Finale
    <2>1. pc = "finale" /\ UNCHANGED <<jm, jd, slot>> BY <1>6 DEF Finale
    <2>2. pc' \in {"finish", "exit"} /\ cmd'.ctx = cmd.ctx BY <1>6, <2>1, ClosingKnown DEF Finale
    <2> QED BY <2>1, <2>2, QuietLeavePends
  <1>7. CASE FinishPublish
    <2>1. PICK r : IF r = "ok" THEN Goto("finish") ELSE Quit("failed")
      BY <1>7 DEF FinishPublish
    <2>2. pc = "finish" /\ UNCHANGED <<jm, jd, slot>> BY <1>7 DEF FinishPublish
    <2> QED BY <2>1, <2>2, ClosingKnown, QuietLeavePends
  <1>8. CASE RemoveMaterial
    <2>1. PICK r : IF r = "ok" THEN Goto("unlinked") ELSE Quit("failed")
      BY <1>8 DEF RemoveMaterial
    <2>2. pc = "unlink" /\ UNCHANGED <<jm, jd, slot>> BY <1>8 DEF RemoveMaterial
    <2> QED BY <2>1, <2>2, ClosingKnown, QuietLeavePends
  <1> QED BY <1>1, <1>2, <1>3, <1>4, <1>5, <1>6, <1>7, <1>8

LEMMA ErasedPends ==
  ASSUME RunInv, PendInv, Erased
  PROVE  PendInv'
  <1>1. pc = "erase" /\ UNCHANGED slot BY DEF Erased, targetVars
  <1>2. Leaves
    BY <1>1, ClosingKnown DEF Erased, Leaves, Goto, Quit, Commands, Closing, Finishing
  <1>3. CASE UNCHANGED <<jm, jd>> BY <1>1, <1>2, <1>3, QuietLeavePends
  <1>4. CASE \E r \in SaveResults(MarkSuiteClean(jm)) : Save(MarkSuiteClean(jm), r)
    <2>1. jm # None /\ jm \in Journals /\ jm.disposition # "retained"
      BY <1>1, ClosingKnown DEF RunInv, Ending, Closing
    <2>2. SameTenant(jm, MarkSuiteClean(jm)) /\ MarkSuiteClean(jm) # None
      BY <2>1, SuiteMethods, SuiteMarked, Bounds
    <2>3. /\ jm' = MarkSuiteClean(jm)
          /\ jd' = jd \/ (jd' = MarkSuiteClean(jm) /\ ValidJournal(MarkSuiteClean(jm)))
      BY <1>4, SaveTells
    <2> QED BY <1>1, <1>2, <2>1, <2>2, <2>3, SuiteSideSaved, LeavingPends
  <1> QED BY <1>3, <1>4 DEF Erased, journalVars

LEMMA RemovalSaved ==
  ASSUME RunInv, PendInv, Leaves, pc \in Finishing, UNCHANGED slot,
         NEW new, new = [jm EXCEPT !.clean = TRUE, !.removal = TRUE] \/ new = [jm EXCEPT !.removed = TRUE],
         jm' = new, jd' = jd \/ (jd' = new /\ ValidJournal(new))
  PROVE  PendInv'
  <1>1. jm \in Journals /\ Sound(jm) /\ slot = None BY ClosingKnown
  <1>2. new # None BY <1>1, RemovalAnnounced, Bounds DEF TenantSide
  <1>3. /\ new.baseline = jm.baseline /\ new.reloaded = jm.reloaded /\ new.applied = jm.applied
        /\ new.revoked = jm.revoked /\ (jm.clean => new.clean) /\ new.disposition = jm.disposition
        /\ new.tenantClean = jm.tenantClean /\ new.disableRev = jm.disableRev
        /\ new.disabled = jm.disabled /\ new.failure = jm.failure /\ new.listed = jm.listed
    BY <1>1 DEF Journals
  <1>4. Cleared(jm) => Cleared(new) BY <1>3 DEF Cleared
  <1>5. Sound(new) BY <1>1, <1>3, <1>4 DEF Sound
  <1> QED BY <1>1, <1>2, <1>5, SavedSound, LeavingPends

LEMMA AnnounceRemovalPends ==
  ASSUME RunInv, PendInv, AnnounceRemoval
  PROVE  PendInv'
  <1> DEFINE new == [jm EXCEPT !.clean = TRUE, !.removal = TRUE]
  <1>1. pc = "finish" /\ pc \in Finishing /\ UNCHANGED slot
      BY DEF AnnounceRemoval, targetVars, Finishing
  <1>2. Leaves
    BY <1>1, ClosingKnown DEF AnnounceRemoval, Leaves, Goto, Quit, Commands, Finishing, Removing
  <1>3. CASE UNCHANGED <<jm, jd>> BY <1>1, <1>2, <1>3, QuietLeavePends
  <1>4. CASE \E r \in SaveResults(new) : Save(new, r)
    <2>1. jm' = new /\ (jd' = jd \/ (jd' = new /\ ValidJournal(new))) BY <1>4, SaveTells
    <2> QED BY <1>1, <1>2, <2>1, RemovalSaved
  <1> QED BY <1>3, <1>4 DEF AnnounceRemoval, journalVars

LEMMA ConfirmRemovalPends ==
  ASSUME RunInv, PendInv, ConfirmRemoval
  PROVE  PendInv'
  <1> DEFINE new == [jm EXCEPT !.removed = TRUE]
  <1>1. pc = "unlinked" /\ pc \in Finishing /\ UNCHANGED slot
    BY DEF ConfirmRemoval, targetVars, Finishing, Removing
  <1>2. Leaves
    BY <1>1, ClosingKnown DEF ConfirmRemoval, Leaves, Goto, Quit, Commands, Finishing, Removing
  <1>3. CASE UNCHANGED <<jm, jd>> BY <1>1, <1>2, <1>3, QuietLeavePends
  <1>4. CASE \E r \in SaveResults(new) : Save(new, r)
    <2>1. jm' = new /\ (jd' = jd \/ (jd' = new /\ ValidJournal(new))) BY <1>4, SaveTells
    <2> QED BY <1>1, <1>2, <2>1, RemovalSaved
  <1> QED BY <1>3, <1>4 DEF ConfirmRemoval, journalVars

LEMMA CommitManifestPends ==
  ASSUME RunInv, PendInv, CommitManifest
  PROVE  PendInv'
  <1> DEFINE new == CommitRetention(jm)
  <1>1. pc = "commit" /\ UNCHANGED slot BY DEF CommitManifest, targetVars
  <1>2. jm \in Journals /\ jm # None /\ Sound(jm) /\ cmd \in Commands
    BY <1>1, ClosingKnown DEF Closing
  <1>3. Leaves
    BY <1>1, <1>2 DEF CommitManifest, Leaves, Goto, Commands, Closing
  <1>4. CASE UNCHANGED <<jm, jd>> BY <1>1, <1>3, <1>4, QuietLeavePends
  <1>5. CASE CanCommitRetention(jm) /\ \E r \in SaveResults(new) :
               /\ jm' = IF r = "ok" THEN new ELSE jm
               /\ jd' = IF r \in {"lost", "invalid"} THEN jd ELSE new
    <2>1. /\ jm' \in {jm, new} /\ jd' \in {jd, new} /\ (jd' = jd \/ ValidJournal(new))
          /\ jm.tenantClean
      BY <1>5 DEF SaveResults, CanCommitRetention
    <2>2. /\ new # None /\ new.tenantClean /\ new.absent = jm.absent
          /\ new.disableRev = jm.disableRev /\ new.disabled = jm.disabled
          /\ new.finalizeRev = jm.finalizeRev /\ new.baseline = jm.baseline
          /\ new.reloaded = jm.reloaded /\ new.applied = jm.applied /\ new.revoked = jm.revoked
          /\ new.clean = jm.clean /\ new.failure = jm.failure /\ new.listed = jm.listed
      <3>1. new # None /\ new.tenantClean BY <1>2, <2>1, RetentionCommitted, Bounds
      <3>2. new = [jm EXCEPT !.disposition = "retained", !.plans = {}] BY DEF CommitRetention
      <3> HIDE DEF new
      <3> QED BY <1>2, <3>1, <3>2 DEF Journals
    <2>3. Sound(new)
      <3>1. Cleared(jm) => Cleared(new) BY <2>2 DEF Cleared
      <3> QED BY <1>2, <2>2, <3>1 DEF Sound
    <2>4. SoundJournals' BY <1>2, <2>1, <2>2, <2>3 DEF PendInv, SoundJournals
    <2>5. Awaited'
      <3> SUFFICES ASSUME slot # None, slot.step # "Describe"
                   PROVE  /\ jd' # None /\ Awaits(jd', slot.step, slot.res)
                          /\ jm' # None => Awaits(jm', slot.step, slot.res)
        BY <1>1 DEF Awaited
      <3>1. /\ jd # None /\ Awaits(jd, slot.step, slot.res)
            /\ Awaits(jm, slot.step, slot.res)
        BY <1>2 DEF PendInv, Awaited
      <3>2. slot.step = "Finalize"
        BY <2>1, <3>1, JournalsKnown DEF Awaits, Fits, FitsForward, Operations, Steps, Forward,
           ResourceSteps
      <3>3. Awaits(new, slot.step, slot.res)
        BY <2>2, <3>1, <3>2 DEF Awaits, Fits, Forward, ResourceSteps
      <3> QED BY <2>1, <2>2, <3>1, <3>3
    <2> QED BY <1>3, <2>4, <2>5, LeavingPends
  <1> QED BY <1>4, <1>5 DEF CommitManifest, journalVars

LEMMA DropJournalPends ==
  ASSUME RunInv, PendInv, DropJournal
  PROVE  PendInv'
  <1>1. pc = "drop" /\ UNCHANGED <<jm, slot>> /\ jd' \in {jd, None}
    BY DEF DropJournal, targetVars
  <1>2. Leaves
    BY <1>1, ClosingKnown DEF DropJournal, Leaves, Quit, Commands, Finishing, Removing
  <1>3. slot = None BY <1>1, ClosingKnown DEF Finishing, Removing
  <1>4. SoundJournals' /\ Awaited' BY <1>1, <1>3, Unread
  <1> QED BY <1>2, <1>4, LeavingPends

LEMMA OffPends ==
  ASSUME RunInv, PendInv, Exit \/ Kill \/ Start
  PROVE  PendInv'
  <1>1. jm' \in {jm, None} /\ UNCHANGED <<jd, slot>> /\ pc' \in {"off", "claim"} /\ cmd'.ctx = "rec"
    <2>1. CASE Exit \/ Kill
      BY <2>1 DEF Exit, Kill, Vanish, NoCmd, targetVars
    <2>2. CASE Start
      BY <2>2 DEF Start, NoCmd, targetVars, journalVars
    <2> QED BY <2>1, <2>2
  <1>2. SoundJournals' /\ Awaited' BY <1>1, Unread
  <1> QED BY <1>1, <1>2, Left DEF Minding, SuitePhase, Deleting

LEMMA InterruptPends ==
  ASSUME RunInv, PendInv, Interrupt
  PROVE  PendInv'
  <1>1. UNCHANGED <<pc, jm, jd, slot, cmd>> BY DEF Interrupt, targetVars, journalVars
  <1>2. SoundJournals' /\ Awaited' BY <1>1, Unread
  <1>3. Called' BY <1>1 DEF PendInv, Called, Agree
  <1>4. Together' BY <1>1 DEF PendInv, Together, Near, Agree, Describing
  <1>5. Reaching' BY <1>1 DEF PendInv, Reaching, Describing, Asks
  <1> QED BY <1>2, <1>3, <1>4, <1>5 DEF PendInv

(* The save of an answer of the Suite is valid even where the code does not   *)
(* validate it.                                                               *)
LEMMA RecordedValid ==
  ASSUME NEW j \in Journals, ValidJournal(j), j.disposition = "active", ~j.suiteClean, NEW i
  PROVE  ValidJournal(RecordCreated(j, i))
  <1> DEFINE k == RecordCreated(j, i)
  <1>1. SameTenant(j, k) BY SuiteMethods
  <1>2. /\ k.removal = j.removal /\ k.removed = j.removed
        /\ k.disposition = "active" /\ ~k.suiteClean
    BY DEF RecordCreated, Journals
  <1> HIDE DEF k
  <1>3. ObligationsComplete(j) <=> ObligationsComplete(k)
      BY <1>1 DEF SameTenant, ObligationsComplete
  <1>4. ValidJournal(k) BY <1>1, <1>2, <1>3 DEF SameTenant, ValidJournal
  <1> QED BY <1>4 DEF k

(* A step of the Suite phase leaves the journals alone, or saves a method of  *)
(* the Suite side.                                                            *)
SuiteSaves == \E new : /\ jm' = new /\ SameTenant(jm, new)
                       /\ jd' = jd \/ (jd' = new /\ ValidJournal(new))

LEMMA SuiteWorksSaves ==
  ASSUME RunInv, PendInv, SuiteWorks
  PROVE  /\ pc \in SuitePhase /\ pc' \in SuitePhase
         /\ UNCHANGED <<jm, jd>> \/ SuiteSaves
         /\ pc' = "precord" => jm' = jd'
  <1> USE DEF SuitePhase, Deleting
  <1>0. ASSUME pc \in SuitePhase
        PROVE  jm \in Journals /\ jm.disposition = "active" /\ jm # None
    BY <1>0, JournalsKnown DEF RunInv, Flow, Running, Recovering
  <1>1. ASSUME pc \in SuitePhase, NEW new, NEW r \in SaveResults(new), Save(new, r),
               (\E i : new = BeginCreate(jm, i)) \/ (\E i : new = RecordCreated(jm, i))
                  \/ \E p : new = ReleasePlan(jm, p)
        PROVE  SuiteSaves
    BY <1>0, <1>1, SaveTells, SuiteMethods DEF SuiteSaves
  <1>2. CASE SuiteStep(opt.retain)
    <2>1. CASE ProbeSuite
      <3>1. PICK r \in Outcomes({"unauthenticated", "no_report"}) :
              CASE r = "ok" -> pc' = "plans" /\ UNCHANGED run
                [] r = "unauthenticated" -> PlanError("error")
                [] r = "no_report" ->
                      /\ run' = [run EXCEPT !.errs = {"error"}, !.cleanupFailed = TRUE]
                      /\ pc' = "result"
        BY <2>1 DEF ProbeSuite
      <3>2. r \in {"ok", "unauthenticated", "no_report"} BY DEF Outcomes
      <3>3. pc' \in {"plans", "merge", "result"} BY <3>1, <3>2 DEF PlanError
      <3> QED BY <2>1, <3>3 DEF ProbeSuite, journalVars
    <2>2. CASE PlanInterrupted BY <2>2 DEF PlanInterrupted, PlanError, journalVars
    <2>3. CASE PlanIntent
      <3>1. pc = "plans" /\ pc' \in {"pcreate", "merge"} BY <2>3 DEF PlanIntent, PlanError
      <3>2. PICK r \in SaveResults(BeginCreate(jm, <<NextPlan, 0>>)) :
              Save(BeginCreate(jm, <<NextPlan, 0>>), r)
        BY <2>3 DEF PlanIntent
      <3> QED BY <1>1, <3>1, <3>2
    <2>4. CASE PlanCreate
      <3>1. pc = "pcreate" /\ pc' \in {"precord", "merge"} /\ UNCHANGED <<jm, jd>>
        BY <2>4 DEF PlanCreate, PlanError, journalVars
      <3>2. jm = jd BY <3>1 DEF RunInv, Running
      <3> QED BY <3>1, <3>2
    <2>5. CASE PlanRecord
      <3> DEFINE new == RecordCreated(jm, <<LastPlan, 0>>)
      <3>1. pc = "precord" /\ pc' \in {"plans", "merge"} /\ jm' = new /\ jd' \in {jd, new}
        BY <2>5 DEF PlanRecord, PlanError
      <3>2. jm = jd BY <3>1 DEF PendInv, Together
      <3>3. ~jm.suiteClean /\ ValidJournal(jm)
        BY <1>0, <3>1, <3>2 DEF RunInv, Owners, Vouches, Consistent, PendInv, SoundJournals
      <3>4. SameTenant(jm, new) /\ ValidJournal(new)
        BY <1>0, <3>1, <3>3, SuiteMethods, RecordedValid
      <3> QED BY <3>1, <3>4 DEF SuiteSaves
    <2>6. CASE Launch BY <2>6 DEF Launch, journalVars
    <2>7. CASE Join BY <2>7 DEF Join, journalVars
    <2>8. CASE Merge(opt.retain) BY <2>8 DEF Merge, journalVars
    <2>9. CASE PlanDelete BY <2>9 DEF PlanDelete, journalVars
    <2>10. CASE PlanRelease
      <3> DEFINE new == ReleasePlan(jm, FirstOf(run.todo))
      <3>1. pc = "release" /\ pc' = "delete" BY <2>10 DEF PlanRelease
      <3>2. UNCHANGED <<jm, jd>> \/ \E r \in SaveResults(new) : Save(new, r)
        BY <2>10 DEF PlanRelease
      <3> QED BY <1>1, <3>1, <3>2
    <2>11. CASE DeletesDone BY <2>11 DEF DeletesDone, journalVars
    <2> QED BY <1>2, <2>1, <2>2, <2>3, <2>4, <2>5, <2>6, <2>7, <2>8, <2>9, <2>10, <2>11
               DEF SuiteStep
  <1>3. ASSUME NEW w \in Workers, WorkerStep(w, opt.retain, opt.failFast)
        PROVE  pc = "work" /\ UNCHANGED pc /\ (UNCHANGED <<jm, jd>> \/ SuiteSaves)
    <2> USE DEF At, journalVars
    <2>1. CASE WorkerStops(w) BY <2>1 DEF WorkerStops
    <2>2. CASE WorkerTakes(w) BY <2>2 DEF WorkerTakes
    <2>3. CASE PlanStart(w) BY <2>3 DEF PlanStart
    <2>4. CASE ModulesDone(w) BY <2>4 DEF ModulesDone
    <2>5. CASE ModuleInterrupted(w, opt.failFast) BY <2>5 DEF ModuleInterrupted
    <2>6. CASE ModuleIntent(w, opt.failFast)
      <3>1. pc = "work" /\ UNCHANGED pc BY <2>6 DEF ModuleIntent
      <3>2. PICK r \in SaveResults(BeginCreate(jm, NextIntent(w))) : Save(BeginCreate(jm, NextIntent(w)), r)
        BY <2>6 DEF ModuleIntent
      <3> QED BY <1>1, <3>1, <3>2
    <2>7. CASE ModuleCreate(w, opt.failFast) BY <2>7 DEF ModuleCreate
    <2>8. CASE ModuleRecord(w, opt.failFast)
      <3> DEFINE new == RecordCreated(jm, <<wk[w].plan, rep[wk[w].plan].created>>)
      <3>1. pc = "work" /\ UNCHANGED pc BY <2>8 DEF ModuleRecord
      <3>2. PICK r \in SaveResults(new) : Save(new, r)
        BY <2>8 DEF ModuleRecord
      <3> QED BY <1>1, <3>1, <3>2
    <2>9. CASE ModuleEnds(w, opt.failFast) BY <2>9 DEF ModuleEnds
    <2>10. CASE ModuleReview(w) BY <2>10 DEF ModuleReview
    <2>11. CASE WaitInterrupted(w, opt.failFast) BY <2>11 DEF WaitInterrupted
    <2>12. CASE ModuleAbandoned(w, opt.failFast) BY <2>12 DEF ModuleAbandoned
    <2>13. CASE WorkerPanics(w) BY <2>13 DEF WorkerPanics
    <2>14. CASE PlanSettles(w, opt.retain, opt.failFast) BY <2>14 DEF PlanSettles
    <2> QED BY <1>3, <2>1, <2>2, <2>3, <2>4, <2>5, <2>6, <2>7, <2>8, <2>9, <2>10, <2>11, <2>12,
               <2>13, <2>14 DEF WorkerStep
  <1>4. CASE \E w \in Workers : WorkerStep(w, opt.retain, opt.failFast)
    BY <1>3, <1>4
  <1> QED BY <1>2, <1>4 DEF SuiteWorks

LEMMA SuiteWorksPends ==
  ASSUME RunInv, RunInv', PendInv, SuiteWorks
  PROVE  PendInv'
  <1>1. /\ pc \in SuitePhase /\ pc' \in SuitePhase /\ UNCHANGED <<slot, cmd>>
        /\ UNCHANGED <<jm, jd>> \/ SuiteSaves
        /\ pc' = "precord" => jm' = jd'
    BY SuiteWorksSaves DEF SuiteWorks, localVars
  <1>2. /\ jm # None /\ jm' # None /\ cmd.ctx \notin {"setup", "recfail"}
        /\ Agree /\ jm.failure = None
    BY <1>1 DEF RunInv, Flow, Recovering, SuitePhase, Deleting, PendInv, Together, Reaching
  <1>3. SoundJournals' /\ Awaited' /\ Agree' /\ jm'.failure = None
    <2>1. CASE UNCHANGED <<jm, jd>> BY <1>1, <1>2, <2>1, Unread DEF Agree
    <2>2. CASE SuiteSaves BY <1>1, <1>2, <2>2, SuiteSideSaved DEF SuiteSaves
    <2> QED BY <1>1, <2>1, <2>2
  <1>4. Called' BY <1>1 DEF Called, SuitePhase, Deleting
  <1>5. Together' BY <1>1, <1>2, <1>3 DEF Together, Describing, SuitePhase, Deleting
  <1>6. Reaching' BY <1>1, <1>2 DEF Reaching, Describing, Asks, SuitePhase, Deleting
  <1> QED BY <1>3, <1>4, <1>5, <1>6 DEF PendInv

LEMMA NextPends ==
  ASSUME RunInv, PendInv, [Next]_vars
  PROVE  PendInv'
  <1>1. CASE UNCHANGED vars
    <2>1. UNCHANGED <<pc, jm, jd, slot, cmd>> BY <1>1 DEF vars, suiteVars, journalVars
    <2>2. SoundJournals' /\ Awaited' BY <2>1, Unread
    <2>3. Called' BY <2>1 DEF PendInv, Called, Agree
    <2>4. Together' BY <2>1 DEF PendInv, Together, Near, Agree, Describing
    <2>5. Reaching' BY <2>1 DEF PendInv, Reaching, Describing, Asks
    <2> QED BY <2>2, <2>3, <2>4, <2>5 DEF PendInv
  <1>2. CASE Operate
    BY <1>2, PrepareOperationPends, PersistAnswerPends, ClearSlotPends, ResetCleanupPends,
       ClaimPends,
       MatchPendingPends, MatchedPends, JudgePends, AuthenticatePends, WriteMaterialPends,
       BeginRunPends, PrepareMutationPends, ProbeTenantPends, FinalizeMaterialPends,
       CleanResourcesPends, CleanTenantPends, TenantAbsentPends, SuiteResultPends, EndingPends,
       CommitManifestPends, ErasedPends, AnnounceRemovalPends, ConfirmRemovalPends, DropJournalPends,
       OffPends DEF Operate
  <1>3. CASE SuiteWorks
    <2>1. RunInv' BY <1>3, NextKeeps DEF Next
    <2> QED BY <1>3, <2>1, SuiteWorksPends
  <1>4. CASE Start \/ Serve \/ Disturb
    BY <1>4, OffPends, ServePends, LoseAnswerPends, RejectOperationPends, InterruptPends DEF Disturb
  <1> QED BY <1>1, <1>2, <1>3, <1>4 DEF Next

LEMMA PendsAtFirst == Init => PendInv
  BY DEF Init, NoCmd, PendInv, SoundJournals, Awaited, Called, Together, Reaching, Describing, Asks,
     SuitePhase, Deleting

LEMMA PendingKept ==
  ASSUME RunInv, PendInv
  PROVE  PendingMatched
  <1> SUFFICES ASSUME pc = "off", slot # None
               PROVE  Resumable \/ (slot.step \in Undoing /\ ~jd.reloaded)
    BY DEF PendingMatched, Resumable, Undoing
  <1>1. slot.step \in Steps BY JournalsKnown DEF Operations
  <1>2. \A c : Cardinality({c}) = 1 BY FS_Singleton
  <1>3. CASE slot.step = "Describe"
    <2>1. ~LookupFails(jd, "Describe")
      BY DEF PendInv, SoundJournals, Sound, LookupFails
    <2> QED BY <1>2, <1>3, <2>1, DescribeMatched DEF Resumable
  <1>4. CASE slot.step # "Describe"
    <2>1. jd # None /\ jd \in Journals /\ Fits(jd, slot.step) /\ Sound(jd) /\ Ordered(jd)
      BY <1>4, JournalsKnown DEF PendInv, Awaited, Awaits
    <2>2. ~LookupFails(jd, slot.step) BY <1>1, <2>1, LookupWorks
    <2>3. CASE slot.step \in Forward
      <3>1. \E c : Matching(jd, slot.step) = {c} BY <2>1, <2>3, ForwardMatched
      <3>2. Cardinality(Matching(jd, slot.step)) = 1 BY <1>2, <3>1
      <3> QED BY <2>2, <3>2 DEF Resumable
    <2>4. CASE slot.step \in Undoing /\ jd.reloaded
      <3>0. \E c : c[2] = slot.step /\ Matching(jd, slot.step) = {c}
        BY <2>1, <2>4, UndoingMatched
      <3>1. \E c : Matching(jd, slot.step) = {c} BY <3>0
      <3>2. Cardinality(Matching(jd, slot.step)) = 1 BY <1>2, <3>1
      <3> QED BY <2>2, <3>2 DEF Resumable
    <2> QED BY <1>1, <1>4, <2>3, <2>4 DEF Steps, Forward, Undoing, ResourceSteps
  <1> QED BY <1>3, <1>4

(* prepare_mutation, record_step_success, record_step_failure, mark_absent:   *)
(* PendInv, along every step, loss and kill.                                  *)
THEOREM PendInvariant == Spec => []PendInv
  <1>1. RunInv /\ PendInv /\ [Next]_vars => PendInv' BY NextPends
  <1> QED BY <1>1, PendsAtFirst, RunInvariant, PTL DEF Spec

(* select_unique_pending_candidate, reconcile_pending: the operation that a   *)
(* killed run left in the slot is the only candidate its journal allows, so   *)
(* that a recovery can settle it, unless it is the undoing of a tenant whose  *)
(* reload the journal does not know.                                          *)
THEOREM PendingFound == Spec => []PendingMatched
  BY PendingKept, RunInvariant, PendInvariant, PTL
====
