-------------------------- MODULE Lifecycle_proofs --------------------------
(***************************************************************************)
(* Proofs about Lifecycle for every number of controllers, orders,         *)
(* artifacts and configurations, and every number of kills and faults.     *)
(*                                                                         *)
(* The first part is the type invariant and what the documents promise.    *)
(* The second is about what an order leaves behind: EInv follows an order  *)
(* through its first execution, what it has performed and how that relates *)
(* to the mark taken when it was accepted.  Each action has a lemma        *)
(* <Action>E, and FirstFailureRestores follows.                            *)
(*                                                                         *)
(* The third part is about one controller, hence one saved intent at a     *)
(* time.  Alone relates the document, the object, the configuration, the   *)
(* fence and the saved intent across kills, faults and repetitions of      *)
(* orders.  Each action has a lemma <Action>A.  With a second controller   *)
(* the conclusions are false: its order may commit between two executions  *)
(* of an interrupted one.                                                  *)
(***************************************************************************)
EXTENDS Lifecycle, TLAPS

Documents == [current : Artifacts, previous : Artifacts \cup {None},
              snapshot : Ops \cup {None}, rev : Nat \ {0}, schema : Schemas,
              fence : [op : Ops, artifact : Artifacts] \cup {None},
              active : Ops \cup {None}]

Performed == [op : Ops \cup {None}, by : Controllers \cup {None}, at : Steps,
              live : Artifacts \cup {None}, up : BOOLEAN, wrote : BOOLEAN,
              replaced : BOOLEAN, applied : BOOLEAN, unknown : BOOLEAN,
              result : BOOLEAN, undo : {"clean", "refused", "fault"},
              code : Codes \cup {None}]

Objects == [art : Artifacts \cup {None}, loaded : Configs \cup {None}]

Orders == Updates \cup Rollbacks

Types ==
    /\ kind \in {"host", "container"}
    /\ store \in Documents
    /\ runtime \in Objects
    /\ config \in Configs
    /\ snaps \in [Ops -> Copies \cup {None}]
    /\ oper \in [Ops -> {None, "applied", "unchanged", "failed"}]
    /\ db \in SUBSET Artifacts
    /\ order \in [Ops -> Orders \cup {None}]
    /\ status \in [Ops -> {"absent", "pending", "completed", "failed"}]
    /\ intent \in [Controllers -> Ops \cup {None}]
    /\ x \in Performed

(* Where the executor has something in hand it knows the order and the     *)
(* saved intent it belongs to.                                             *)
Ordered ==
    /\ \A c \in Controllers : intent[c] # None => order[intent[c]] \in Orders
    /\ (x.at = "idle") <=> (x = Idle)
    /\ x.at # "idle" => x.op \in Ops /\ order[x.op] \in Orders

Working == {"snapshot", "stage", "migrate", "receive", "takedown", "putup",
            "start", "check", "commit"}

(* What the preflight established stays so until the answer.               *)
Prepared ==
    /\ x.at \in Working => x.live \in Artifacts
    /\ x.replaced => x.live \in Artifacts
    /\ x.at \in Working \ {"snapshot"} \/ x.wrote => snaps[x.op] \in Copies
    /\ x.at \in Working /\ order[x.op].kind = "rollback" =>
         /\ store.previous \in Artifacts
         /\ store.snapshot \in Ops /\ snaps[store.snapshot] \in Copies
    /\ x.at \in {"migrate", "receive"} => order[x.op].kind = "update"
    /\ x.at = "receive" => oper[x.op] \in {"applied", "unchanged", "failed"}

(* A process runs from an object that exists.                              *)
Runnable ==
    /\ runtime.loaded # None => runtime.art # None
    /\ x.at = "start" => runtime.art # None

Coded == x.at \in {"failed", "undo", "answer"} => x.code \in Codes

(* An executor that still acts is not excluded by the fence.               *)
Fenced ==
    x.at \notin {"idle", "answer"} /\ store.fence # None => store.fence.op = x.op

IInv == Types /\ Ordered /\ Prepared /\ Runnable /\ Coded /\ Fenced

-----------------------------------------------------------------------------
(* Moves of the executor.                                                  *)

USE LifecycleConstants

(* The three ways an executor goes on change its position and code only.   *)
LEMMA GotoMoves ==
  ASSUME x \in Performed, NEW step \in Steps, Goto(step)
  PROVE  /\ x' \in Performed /\ x'.at = step /\ x'.op = x.op /\ x'.live = x.live
         /\ x'.replaced = x.replaced /\ x'.wrote = x.wrote /\ x'.code = x.code
  BY DEF Goto, Performed

LEMMA FailMoves ==
  ASSUME x \in Performed, NEW code \in Codes, Fail(code)
  PROVE  /\ x' \in Performed /\ x'.at = "failed" /\ x'.op = x.op /\ x'.live = x.live
         /\ x'.replaced = x.replaced /\ x'.wrote = x.wrote /\ x'.code = code
  BY DEF Fail, Performed, Steps

LEMMA FinishMoves ==
  ASSUME x \in Performed, NEW code \in Codes, Finish(code)
  PROVE  /\ x' \in Performed /\ x'.at = "answer" /\ x'.op = x.op /\ x'.live = x.live
         /\ x'.replaced = x.replaced /\ x'.wrote = x.wrote /\ x'.code = code
  BY DEF Finish, Performed, Steps

LEMMA SomeCodes ==
  /\ {"FAILED", "PRIVILEGE_REQUIRED", "NOOP", "APPLIED", "MIGRATION_FAILED",
      "CONTROL_EXECUTION_UNAVAILABLE", "CONTROL_OUTCOME_UNKNOWN",
      "ROLLBACK_RECOVERY_REQUIRED", "RECOVERY_REQUIRED"} \subseteq Codes
  /\ Working \cup {"idle", "preflight", "failed", "undo", "answer"} \subseteq Steps
  BY DEF Codes, Pending, Completed, Failed, Working, Steps

(* An executor at work has an order in hand.                               *)
LEMMA InHand ==
  ASSUME IInv, x.at # "idle"
  PROVE  x \in Performed /\ x.op \in Ops /\ order[x.op] \in Orders
  BY DEF IInv, Types, Ordered

(* A step towards a failure or an answer keeps the invariant if it leaves  *)
(* the document and the journal alone and a runnable object behind.        *)
LEMMA Ends ==
  ASSUME IInv, x.at \notin {"idle", "answer"},
         x' \in Performed, x'.at \in {"failed", "undo", "answer"}, x'.op = x.op,
         x'.code \in Codes,
         x'.replaced => x'.live \in Artifacts,
         x'.wrote => snaps[x.op] \in Copies,
         UNCHANGED <<kind, store, snaps, oper, db, order, status, intent>>,
         config' \in Configs, runtime' \in Objects,
         runtime'.loaded # None => runtime'.art # None
  PROVE  IInv'
  <1>1. Types'
    BY DEF IInv, Types
  <1>2. Ordered'
    BY DEF IInv, Ordered, Idle
  <1>3. Prepared'
    BY DEF IInv, Prepared, Working
  <1>4. Runnable' /\ Coded'
    BY DEF Runnable, Coded
  <1>5. Fenced'
    BY DEF IInv, Fenced
  <1> QED
    BY <1>1, <1>2, <1>3, <1>4, <1>5 DEF IInv

(* The same for a failure that has changed nothing.                        *)
LEMMA Refuses ==
  ASSUME IInv, x.at \notin {"idle", "answer"},
         NEW code \in Codes, Fail(code) \/ Finish(code),
         UNCHANGED <<kind, store, snaps, oper, db, order, status, intent, config, runtime>>
  PROVE  IInv'
  <1>1. x \in Performed
    BY InHand
  <1>2. /\ x' \in Performed /\ x'.at \in {"failed", "answer"} /\ x'.op = x.op
        /\ x'.live = x.live /\ x'.replaced = x.replaced /\ x'.wrote = x.wrote
        /\ x'.code \in Codes
    BY <1>1, FailMoves, FinishMoves
  <1>3. /\ config' \in Configs /\ runtime' \in Objects
        /\ runtime'.loaded # None => runtime'.art # None
    BY DEF IInv, Types, Runnable
  <1>4. /\ x'.replaced => x'.live \in Artifacts
        /\ x'.wrote => snaps[x.op] \in Copies
    BY <1>2 DEF IInv, Prepared
  <1> QED
    BY <1>2, <1>3, <1>4, Ends

(* A step on to the next effect.                                           *)
LEMMA Advances ==
  ASSUME IInv, x.at \in Working \cup {"preflight"},
         x' \in Performed, x'.at \in Working, x'.op = x.op, x'.live \in Artifacts,
         order[x.op].kind = "rollback" =>
            /\ store.previous \in Artifacts
            /\ store.snapshot \in Ops /\ snaps[store.snapshot] \in Copies,
         snaps' \in [Ops -> Copies \cup {None}],
         \A i \in Ops : snaps[i] \in Copies => snaps'[i] \in Copies,
         x'.at # "snapshot" \/ x'.wrote => snaps'[x.op] \in Copies,
         x'.at \in {"migrate", "receive"} => order[x.op].kind = "update",
         x'.at = "receive" => oper'[x.op] \in {"applied", "unchanged", "failed"},
         x'.at = "start" => runtime'.art # None,
         store' \in Documents,
         store'.previous = store.previous, store'.snapshot = store.snapshot,
         store'.fence # None => store'.fence.op = x.op,
         UNCHANGED <<kind, order, status, intent>>,
         db' \in SUBSET Artifacts,
         oper' \in [Ops -> {None, "applied", "unchanged", "failed"}],
         config' \in Configs, runtime' \in Objects,
         runtime'.loaded # None => runtime'.art # None
  PROVE  IInv'
  <1>1. Types'
    BY DEF IInv, Types
  <1>2. Ordered'
    BY DEF IInv, Ordered, Idle, Working
  <1>3. Prepared'
    <2>1. order'[x'.op].kind = "rollback" =>
            /\ store'.previous \in Artifacts
            /\ store'.snapshot \in Ops /\ snaps'[store'.snapshot] \in Copies
      OBVIOUS
    <2>2. x'.at # "snapshot" \/ x'.wrote => snaps'[x'.op] \in Copies
      OBVIOUS
    <2> QED
      BY <2>1, <2>2 DEF Prepared, Working
  <1>4. Runnable' /\ Coded'
    BY DEF Runnable, Coded, Working
  <1>5. Fenced'
    BY DEF Fenced
  <1> QED
    BY <1>1, <1>2, <1>3, <1>4, <1>5 DEF IInv

-----------------------------------------------------------------------------
(* One lemma per action.                                                   *)

LEMMA InitIInv == Init => IInv
  BY SomeCodes DEF Init, IInv, Types, Ordered, Prepared, Runnable, Coded, Fenced,
     Documents, Objects, Schemas, Performed, Idle, Working

(* What the invariant says of an executor at work on its effects.          *)
LEMMA AtWork ==
  ASSUME IInv, x.at \in Working
  PROVE  /\ x.live \in Artifacts
         /\ x.at # "snapshot" => snaps[x.op] \in Copies
         /\ order[x.op].kind = "rollback" =>
              /\ store.previous \in Artifacts
              /\ store.snapshot \in Ops /\ snaps[store.snapshot] \in Copies
         /\ store \in Documents
         /\ store.fence # None => store.fence.op = x.op
         /\ x \in Performed /\ x.op \in Ops /\ order[x.op] \in Orders
  BY InHand DEF IInv, Types, Prepared, Fenced, Working

LEMMA PreflightStep == ASSUME IInv, Preflight PROVE IInv'
  <1>1. x.at = "preflight" /\ x \in Performed /\ x.op \in Ops /\ order[x.op] \in Orders
    BY InHand DEF Preflight, At
  <1>2. UNCHANGED <<kind, store, snaps, oper, db, order, status, intent, config, runtime>>
    BY DEF Preflight, At
  <1>3. CASE Fail("FAILED") \/ Finish("NOOP")
    BY <1>1, <1>2, <1>3, SomeCodes, Refuses
  <1>4. CASE ~(Fail("FAILED") \/ Finish("NOOP"))
    <2>1. /\ runtime.art # None
          /\ ~IsUpdate => store.previous # None /\ store.snapshot # None
                            /\ snaps[store.snapshot] # None
          /\ x' = [x EXCEPT !.at = "snapshot", !.live = runtime.art, !.up = Running]
      BY <1>4 DEF Preflight, Owned, SavedGeneration
    <2>2. runtime.art \in Artifacts /\ Running \in BOOLEAN
      BY <2>1 DEF IInv, Types, Objects, Running
    <2>3. /\ x' \in Performed /\ x'.at = "snapshot" /\ x'.op = x.op
          /\ x'.live = runtime.art /\ x'.wrote = x.wrote
      <3>1. \A u \in BOOLEAN : \A a \in Artifacts :
              LET y == [x EXCEPT !.at = "snapshot", !.live = a, !.up = u]
              IN  /\ y \in Performed /\ y.at = "snapshot" /\ y.op = x.op
                  /\ y.live = a /\ y.wrote = x.wrote
        BY <1>1, SomeCodes DEF Performed, Working
      <3> QED
        BY ZenonT(30), <3>1, <2>1, <2>2
    <2>4. order[x.op].kind = "rollback" =>
            /\ store.previous \in Artifacts
            /\ store.snapshot \in Ops /\ snaps[store.snapshot] \in Copies
      BY <2>1 DEF IInv, Types, Documents, IsUpdate, Op
    <2> QED
      BY <1>1, <1>2, <2>2, <2>3, <2>4, Advances
         DEF IInv, Types, Prepared, Runnable, Fenced, Working
  <1> QED
    BY <1>3, <1>4

LEMMA PreflightFaultStep == ASSUME IInv, PreflightFault PROVE IInv'
  BY SomeCodes, Refuses DEF PreflightFault, At

LEMMA SnapshotType ==
  ASSUME IInv, x.at = "snapshot"
  PROVE  [bytes |-> config, schema |-> store.schema, by |-> NewSchema] \in Copies
  <1>1. NewSchema \in Schemas \cup {None}
    BY AtWork DEF NewSchema, IsUpdate, Op, Schemas, Copies, Orders, Updates, Rollbacks,
       Working
  <1>2. config \in Configs /\ store.schema \in Schemas
    BY DEF IInv, Types, Documents
  <1> QED
    BY <1>1, <1>2 DEF Copies

LEMMA SnapshotStep == ASSUME IInv, Snapshot PROVE IInv'
  <1>1. x.at = "snapshot" /\ x.at \in Working
    BY DEF Snapshot, At, Working
  <1>2. /\ UNCHANGED <<kind, store, oper, db, order, status, intent, config, runtime>>
        /\ IF snaps[x.op] = None
           THEN /\ snaps' = [snaps EXCEPT ![x.op] = [bytes |-> config,
                               schema |-> store.schema, by |-> NewSchema]]
                /\ Goto("stage")
           ELSE snaps' = snaps /\ (Goto("stage") \/ Fail("FAILED"))
    BY DEF Snapshot, At, Op
  <1>3. [bytes |-> config, schema |-> store.schema, by |-> NewSchema] \in Copies
    BY <1>1, SnapshotType
  <1>4. CASE snaps' = snaps /\ Fail("FAILED")
    BY <1>1, <1>2, <1>4, SomeCodes, Refuses DEF Working
  <1>5. CASE Goto("stage")
    <2>1. /\ x' \in Performed /\ x'.at = "stage" /\ x'.op = x.op /\ x'.live = x.live
      BY <1>1, <1>5, AtWork, GotoMoves, SomeCodes DEF Working
    <2>2. /\ snaps' \in [Ops -> Copies \cup {None}]
          /\ \A i \in Ops : snaps[i] \in Copies => snaps'[i] \in Copies
          /\ snaps'[x.op] \in Copies
      BY <1>1, <1>2, <1>3, AtWork DEF IInv, Types
    <2> QED
      BY <1>1, <1>2, <2>1, <2>2, AtWork, Advances DEF IInv, Types, Runnable, Working
  <1> QED
    BY <1>2, <1>4, <1>5

LEMMA SnapshotFaultStep == ASSUME IInv, SnapshotFault PROVE IInv'
  <1>1. x.at = "snapshot" /\ x.at \in Working
    BY DEF SnapshotFault, At, Working
  <1>2. UNCHANGED <<kind, store, oper, db, order, status, intent, config, runtime>>
    BY DEF SnapshotFault, At
  <1>3. CASE snaps' = snaps
    BY <1>1, <1>2, <1>3, SomeCodes, Refuses DEF SnapshotFault
  <1>4. CASE /\ snaps[x.op] = None
             /\ snaps' = [snaps EXCEPT ![x.op] = [bytes |-> config,
                               schema |-> store.schema, by |-> NewSchema]]
    <2>1. /\ x' \in Performed /\ x'.at = "failed" /\ x'.op = x.op /\ x'.live = x.live
          /\ x'.replaced = x.replaced /\ x'.wrote = x.wrote /\ x'.code \in Codes
      BY <1>1, AtWork, FailMoves, SomeCodes DEF SnapshotFault
    <2>2. [bytes |-> config, schema |-> store.schema, by |-> NewSchema] \in Copies
      BY <1>1, SnapshotType
    <2>3. Types'
      BY <1>1, <1>2, <1>4, <2>1, <2>2, AtWork DEF IInv, Types
    <2>4. Ordered' /\ Runnable' /\ Coded' /\ Fenced'
      BY <1>1, <1>2, <2>1 DEF IInv, Ordered, Idle, Runnable, Coded, Fenced
    <2>5. Prepared'
      BY <1>1, <1>2, <1>4, <2>1, <2>2, AtWork DEF IInv, Types, Prepared, Working
    <2> QED
      BY <2>3, <2>4, <2>5 DEF IInv
  <1> QED
    BY <1>3, <1>4 DEF SnapshotFault, Op

(* Stage and the fault after its write leave a known configuration.        *)
LEMMA NewConfigType ==
  ASSUME IInv, x.at \in Working
  PROVE  NewConfig \in Configs \cup {None}
  BY AtWork DEF NewConfig, IsUpdate, Op, Copies, Orders, Updates, Rollbacks

LEMMA StageStep == ASSUME IInv, Stage PROVE IInv'
  <1>1. x.at = "stage" /\ x.at \in Working
    BY DEF Stage, At, Working
  <1>2. UNCHANGED <<kind, store, runtime, snaps, oper, db, order, status, intent>>
    BY DEF Stage, At
  <1>3. config' \in Configs
    BY <1>1, NewConfigType DEF Stage, IInv, Types
  <1>4. /\ x' \in Performed /\ x'.op = x.op /\ x'.live = x.live
        /\ x'.at = IF order[x.op].kind = "update" THEN "migrate" ELSE "takedown"
    <2>1. \A w \in BOOLEAN : \A s \in Steps :
            LET y == [x EXCEPT !.at = s, !.wrote = w]
            IN  y \in Performed /\ y.op = x.op /\ y.live = x.live /\ y.at = s
      BY <1>1, AtWork DEF Performed
    <2>2. (IF IsUpdate THEN "migrate" ELSE "takedown") \in Steps
      BY SomeCodes DEF Working
    <2>3. (NewConfig # None) \in BOOLEAN
      OBVIOUS
    <2>4. x' = [x EXCEPT !.at = IF IsUpdate THEN "migrate" ELSE "takedown",
                         !.wrote = NewConfig # None]
      BY DEF Stage
    <2> QED
      BY <2>1, <2>2, <2>3, <2>4 DEF IsUpdate, Op
  <1> QED
    BY <1>1, <1>2, <1>3, <1>4, AtWork, Advances DEF IInv, Types, Runnable, Working

LEMMA StageFaultStep == ASSUME IInv, StageFault PROVE IInv'
  <1>1. x.at = "stage" /\ x.at \in Working
    BY DEF StageFault, At, Working
  <1>2. UNCHANGED <<kind, store, runtime, snaps, oper, db, order, status, intent>>
    BY DEF StageFault, At
  <1>3. CASE UNCHANGED config /\ Fail("FAILED")
    BY <1>1, <1>2, <1>3, SomeCodes, Refuses
  <1>4. CASE /\ config' = NewConfig
             /\ x' = [x EXCEPT !.at = "failed", !.code = "FAILED", !.wrote = TRUE]
    <2>1. config' \in Configs
      BY <1>1, <1>4, NewConfigType DEF StageFault
    <2>2. /\ x' \in Performed /\ x'.at = "failed" /\ x'.op = x.op /\ x'.live = x.live
          /\ x'.code = "FAILED" /\ x'.replaced = x.replaced
      BY <1>1, <1>4, AtWork, SomeCodes DEF Performed
    <2> QED
      BY <1>1, <1>2, <2>1, <2>2, AtWork, SomeCodes, Ends DEF IInv, Types, Runnable
  <1> QED
    BY <1>3, <1>4 DEF StageFault

LEMMA StageMisreportedStep == ASSUME IInv, StageMisreported PROVE IInv'
  <1>1. x.at = "stage" /\ x.at \in Working /\ Fail("FAILED")
    BY DEF StageMisreported, Working
  <1>2. UNCHANGED <<kind, store, runtime, snaps, oper, db, order, status, intent>>
    BY DEF StageMisreported
  <1>3. config' \in Configs
    BY <1>1, NewConfigType DEF StageMisreported
  <1>4. /\ x' \in Performed /\ x'.at = "failed" /\ x'.op = x.op /\ x'.live = x.live
        /\ x'.code = "FAILED" /\ x'.replaced = x.replaced
    BY <1>1, AtWork, FailMoves, SomeCodes
  <1> QED
    BY <1>1, <1>2, <1>3, <1>4, AtWork, SomeCodes, Ends DEF IInv, Types, Runnable

LEMMA SelectedType ==
  ASSUME IInv, x.at \in Working
  PROVE  Selected \in Artifacts
  BY AtWork DEF Selected, IsUpdate, Op, Orders, Updates, Rollbacks

LEMMA MigrateStep == ASSUME IInv, Migrate PROVE IInv'
  <1>1. x.at = "migrate" /\ x.at \in Working
    BY DEF Migrate, At, Working
  <1>2. UNCHANGED <<kind, store, runtime, config, snaps, order, status, intent>>
    BY DEF Migrate, At
  <1>3. /\ x' \in Performed /\ x'.at = "receive" /\ x'.op = x.op /\ x'.live = x.live
    BY <1>1, AtWork, SomeCodes DEF Migrate, Performed, Working
  <1>4. /\ oper' \in [Ops -> {None, "applied", "unchanged", "failed"}]
        /\ db' \in SUBSET Artifacts
        /\ oper'[x.op] \in {"applied", "unchanged", "failed"}
    <2>0. x.op \in Ops /\ Selected \in Artifacts
      BY <1>1, AtWork, SelectedType
    <2>1. CASE oper[x.op] # None
      BY <2>0, <2>1 DEF Migrate, Op, IInv, Types
    <2>2. CASE oper[x.op] = None
      <3>1. PICK r \in {"applied", "unchanged", "failed"} :
              /\ oper' = [oper EXCEPT ![x.op] = r]
              /\ db' = CASE r = "applied"   -> {Selected}
                         [] r = "unchanged" -> db \cup {Selected}
                         [] r = "failed"    -> db
        BY <2>2 DEF Migrate, Op
      <3>2. db' \in SUBSET Artifacts
        BY <3>1, <2>0 DEF IInv, Types
      <3> QED
        BY <3>1, <3>2, <2>0 DEF IInv, Types
    <2> QED
      BY <2>1, <2>2
  <1>5. order[x.op].kind = "update"
    BY <1>1 DEF IInv, Prepared
  <1> QED
    BY <1>1, <1>2, <1>3, <1>4, <1>5, AtWork, Advances DEF IInv, Types, Runnable, Working

LEMMA DispatchFaultStep == ASSUME IInv, DispatchFault PROVE IInv'
  <1>1. x.at = "migrate" /\ x.at \in Working
    BY DEF DispatchFault, At, Working
  <1>2. UNCHANGED <<kind, store, runtime, config, snaps, oper, db, order, status, intent>>
    BY DEF DispatchFault, At
  <1>3. CASE \E code \in {"CONTROL_EXECUTION_UNAVAILABLE", "FAILED"} : Fail(code)
    BY <1>1, <1>2, <1>3, SomeCodes, Refuses
  <1>4. CASE x' = [x EXCEPT !.at = "failed", !.code = "CONTROL_OUTCOME_UNKNOWN",
                            !.unknown = TRUE]
    <2>1. /\ x' \in Performed /\ x'.at = "failed" /\ x'.op = x.op /\ x'.live = x.live
          /\ x'.code = "CONTROL_OUTCOME_UNKNOWN"
      BY <1>1, <1>4, AtWork, SomeCodes DEF Performed
    <2> QED
      BY <1>1, <1>2, <2>1, AtWork, SomeCodes, Ends DEF IInv, Types, Runnable
  <1> QED
    BY <1>3, <1>4 DEF DispatchFault

(* The record of the executor after the operator task's answer.            *)
LEMMA ResultMoves ==
  ASSUME x \in Performed, NEW step \in Steps, NEW code \in Codes \cup {None},
         NEW ok \in BOOLEAN,
         x' = [x EXCEPT !.at = step, !.code = code, !.unknown = FALSE,
                        !.applied = ok, !.result = TRUE]
  PROVE  /\ x' \in Performed /\ x'.at = step /\ x'.op = x.op /\ x'.live = x.live
         /\ x'.replaced = x.replaced /\ x'.wrote = x.wrote /\ x'.code = code
  BY DEF Performed

LEMMA ReceiveStep == ASSUME IInv, Receive PROVE IInv'
  <1> DEFINE fence == [op |-> x.op, artifact |-> Selected]
             good == [x EXCEPT !.at = "takedown", !.code = None, !.unknown = FALSE,
                               !.applied = (oper[x.op] = "applied"), !.result = TRUE]
             bad == [x EXCEPT !.at = "failed", !.code = "FAILED", !.unknown = FALSE,
                              !.applied = (oper[x.op] = "applied"), !.result = TRUE]
             broken == [x EXCEPT !.at = "failed", !.code = "MIGRATION_FAILED",
                                 !.unknown = FALSE]
  <1>1. x.at = "receive" /\ x.at \in Working
    BY DEF Receive, At, Working
  <1>2. UNCHANGED <<kind, runtime, config, snaps, oper, db, order, status, intent>>
    BY DEF Receive, At
  <1>3. \/ x' = broken /\ store' = store
        \/ x' = good /\ store' = store
        \/ x' = good /\ store' = [store EXCEPT !.fence = fence]
        \/ x' = bad /\ store' = store
    <2>1. oper[x.op] \in {"applied", "unchanged", "failed"}
      BY <1>1 DEF IInv, Prepared
    <2>2. CASE oper[x.op] = "failed"
      BY <2>2 DEF Receive, Op
    <2>3. CASE oper[x.op] = "unchanged"
      BY <2>3 DEF Receive, Op
    <2>4. CASE oper[x.op] = "applied"
      BY <2>4 DEF Receive, Fence, MigrationRecordable, Op
    <2> QED
      BY <2>1, <2>2, <2>3, <2>4
  <1>4. CASE x' = broken /\ store' = store
    <2>1. /\ x' \in Performed /\ x'.at = "failed" /\ x'.op = x.op /\ x'.live = x.live
          /\ x'.code = "MIGRATION_FAILED"
      BY <1>1, <1>4, AtWork, SomeCodes DEF Performed
    <2> QED
      BY <1>1, <1>2, <1>4, <2>1, AtWork, SomeCodes, Ends DEF IInv, Types, Runnable
  <1>5. CASE x' = bad /\ store' = store
    <2>1. /\ x' \in Performed /\ x'.at = "failed" /\ x'.op = x.op /\ x'.live = x.live
          /\ x'.code = "FAILED"
      BY <1>1, <1>5, AtWork, SomeCodes, ResultMoves
    <2> QED
      BY <1>1, <1>2, <1>5, <2>1, AtWork, SomeCodes, Ends DEF IInv, Types, Runnable
  <1>6. CASE x' = good /\ store' \in {store, [store EXCEPT !.fence = fence]}
    <2>1. /\ x' \in Performed /\ x'.at = "takedown" /\ x'.op = x.op /\ x'.live = x.live
      BY <1>1, <1>6, AtWork, SomeCodes, ResultMoves DEF Working
    <2>2. fence \in [op : Ops, artifact : Artifacts] /\ fence.op = x.op
      BY <1>1, AtWork, SelectedType
    <2>3. /\ store' \in Documents
          /\ store'.previous = store.previous /\ store'.snapshot = store.snapshot
          /\ store'.fence # None => store'.fence.op = x.op
      BY <1>1, <1>6, <2>2, AtWork DEF Documents
    <2> QED
      BY <1>1, <1>2, <2>1, <2>3, AtWork, Advances DEF IInv, Types, Runnable, Working
  <1> QED
    BY <1>3, <1>4, <1>5, <1>6

LEMMA ReceiveFaultStep == ASSUME IInv, ReceiveFault PROVE IInv'
  <1>1. x.at = "receive" /\ x.at \in Working
    BY DEF ReceiveFault, At, Working
  <1>2. UNCHANGED <<kind, runtime, config, snaps, oper, db, order, status, intent>>
    BY DEF ReceiveFault, At
  <1>3. CASE Fail("CONTROL_OUTCOME_UNKNOWN") /\ UNCHANGED store
    BY <1>1, <1>2, <1>3, SomeCodes, Refuses
  <1>4. CASE /\ store' \in {store, [store EXCEPT !.fence = Fence]}
             /\ x' = [x EXCEPT !.at = "failed", !.code = "FAILED", !.unknown = FALSE,
                               !.applied = TRUE, !.result = TRUE]
    <2>1. /\ x' \in Performed /\ x'.at = "failed" /\ x'.op = x.op /\ x'.live = x.live
          /\ x'.replaced = x.replaced /\ x'.wrote = x.wrote /\ x'.code = "FAILED"
      BY <1>1, <1>4, AtWork, SomeCodes, ResultMoves
    <2>2. Fence \in [op : Ops, artifact : Artifacts] /\ Fence.op = x.op
      BY <1>1, AtWork, SelectedType DEF Fence, Op
    <2>3. store' \in Documents /\ (store'.fence # None => store'.fence.op = x.op)
      BY <1>1, <1>4, <2>2, AtWork DEF Documents
    <2>4. Types'
      BY <1>2, <2>1, <2>3 DEF IInv, Types
    <2>5. Ordered' /\ Runnable' /\ Coded' /\ Fenced'
      BY <1>1, <1>2, <2>1, <2>3, SomeCodes
         DEF IInv, Ordered, Idle, Runnable, Coded, Fenced
    <2>6. Prepared'
      BY <1>1, <1>2, <2>1, AtWork DEF IInv, Prepared, Working
    <2> QED
      BY <2>4, <2>5, <2>6 DEF IInv
  <1> QED
    BY <1>3, <1>4 DEF ReceiveFault

(* The record of the executor once it began to replace the object.         *)
LEMMA ReplaceMoves ==
  ASSUME x \in Performed
  PROVE  /\ LET y == [x EXCEPT !.at = "putup", !.replaced = TRUE]
            IN  y \in Performed /\ y.at = "putup" /\ y.op = x.op /\ y.live = x.live
         /\ LET y == [x EXCEPT !.at = "failed", !.code = "FAILED", !.replaced = TRUE]
            IN  /\ y \in Performed /\ y.at = "failed" /\ y.op = x.op /\ y.live = x.live
                /\ y.code = "FAILED" /\ y.wrote = x.wrote
  BY SomeCodes DEF Performed, Working

LEMMA TakeDownStep == ASSUME IInv, TakeDown PROVE IInv'
  <1> DEFINE gone == [runtime EXCEPT !.loaded = None,
                         !.art = IF kind = "host" THEN runtime.art ELSE None]
             on == [x EXCEPT !.at = "putup", !.replaced = TRUE]
             off == [x EXCEPT !.at = "failed", !.code = "FAILED", !.replaced = TRUE]
  <1>1. x.at = "takedown" /\ x.at \in Working
    BY DEF TakeDown, At, Working
  <1>2. UNCHANGED <<kind, store, config, snaps, oper, db, order, status, intent>>
    BY DEF TakeDown, At
  <1>3. \/ runtime' = runtime /\ Goto("check")
        \/ runtime' = gone /\ x' = on
        \/ runtime' = runtime /\ x' = off
    BY DEF TakeDown
  <1>4. CASE runtime' = runtime /\ Goto("check")
    <2>1. x' \in Performed /\ x'.at = "check" /\ x'.op = x.op /\ x'.live = x.live
      BY <1>1, <1>4, AtWork, GotoMoves, SomeCodes DEF Working
    <2> QED
      BY <1>1, <1>2, <1>4, <2>1, AtWork, Advances DEF IInv, Types, Runnable, Working
  <1>5. CASE runtime' = gone /\ x' = on
    <2>1. x' \in Performed /\ x'.at = "putup" /\ x'.op = x.op /\ x'.live = x.live
      BY <1>1, <1>5, AtWork, ReplaceMoves
    <2>2. runtime' \in Objects /\ runtime'.loaded = None
      BY <1>5 DEF IInv, Types, Objects
    <2> QED
      BY <1>1, <1>2, <2>1, <2>2, AtWork, Advances DEF IInv, Types, Working
  <1>6. CASE runtime' = runtime /\ x' = off
    <2>1. /\ x' \in Performed /\ x'.at = "failed" /\ x'.op = x.op /\ x'.live = x.live
          /\ x'.code = "FAILED"
      BY <1>1, <1>6, AtWork, ReplaceMoves
    <2> QED
      BY <1>1, <1>2, <1>6, <2>1, AtWork, SomeCodes, Ends DEF IInv, Types, Runnable
  <1> QED
    BY <1>3, <1>4, <1>5, <1>6

LEMMA TakeDownFaultStep == ASSUME IInv, TakeDownFault PROVE IInv'
  <1> DEFINE off == [x EXCEPT !.at = "failed", !.code = "FAILED", !.replaced = TRUE]
  <1>1. x.at = "takedown" /\ x.at \in Working
    BY DEF TakeDownFault, At, Working
  <1>2. UNCHANGED <<kind, store, config, snaps, oper, db, order, status, intent>>
    BY DEF TakeDownFault, At
  <1>3. CASE UNCHANGED runtime /\ Fail("FAILED")
    BY <1>1, <1>2, <1>3, SomeCodes, Refuses
  <1>4. CASE runtime' \in {runtime, [runtime EXCEPT !.loaded = None]} /\ x' = off
    <2>1. /\ x' \in Performed /\ x'.at = "failed" /\ x'.op = x.op /\ x'.live = x.live
          /\ x'.code = "FAILED"
      BY <1>1, <1>4, AtWork, ReplaceMoves
    <2>2. runtime' \in Objects /\ (runtime'.loaded # None => runtime'.art # None)
      BY <1>4 DEF IInv, Types, Objects, Runnable
    <2> QED
      BY <1>1, <1>2, <2>1, <2>2, AtWork, SomeCodes, Ends DEF IInv, Types
  <1> QED
    BY <1>3, <1>4 DEF TakeDownFault

LEMMA PutUpStep == ASSUME IInv, PutUp PROVE IInv'
  <1>1. x.at = "putup" /\ x.at \in Working
    BY DEF PutUp, At, Working
  <1>2. UNCHANGED <<kind, store, config, snaps, oper, db, order, status, intent>>
    BY DEF PutUp, At
  <1>3. x' \in Performed /\ x'.at = "start" /\ x'.op = x.op /\ x'.live = x.live
    BY <1>1, AtWork, GotoMoves, SomeCodes DEF PutUp, Working
  <1>4. runtime' \in Objects /\ runtime'.art # None
    BY <1>1, SelectedType DEF PutUp, IInv, Types, Objects
  <1> QED
    BY <1>1, <1>2, <1>3, <1>4, AtWork, Advances DEF IInv, Types, Working

LEMMA StartStep == ASSUME IInv, Start PROVE IInv'
  <1>1. x.at = "start" /\ x.at \in Working
    BY DEF Start, At, Working
  <1>2. UNCHANGED <<kind, store, config, snaps, oper, db, order, status, intent>>
    BY DEF Start, At
  <1>3. x' \in Performed /\ x'.at = "check" /\ x'.op = x.op /\ x'.live = x.live
    BY <1>1, AtWork, GotoMoves, SomeCodes DEF Start, Working
  <1>4. runtime' \in Objects /\ runtime'.art # None
    BY <1>1 DEF Start, IInv, Types, Objects, Runnable
  <1> QED
    BY <1>1, <1>2, <1>3, <1>4, AtWork, Advances DEF IInv, Types, Working

LEMMA ActivationFaultStep == ASSUME IInv, ActivationFault PROVE IInv'
  BY SomeCodes, Refuses DEF ActivationFault, At

LEMMA CheckStep == ASSUME IInv, Check PROVE IInv'
  <1>1. x.at = "check" /\ x.at \in Working
    BY DEF Check, At, Working
  <1>2. UNCHANGED <<kind, store, runtime, config, snaps, oper, db, order, status, intent>>
    BY DEF Check, At
  <1>3. CASE Fail("FAILED")
    BY <1>1, <1>2, <1>3, SomeCodes, Refuses
  <1>4. CASE Goto("commit")
    <2>1. x' \in Performed /\ x'.at = "commit" /\ x'.op = x.op /\ x'.live = x.live
      BY <1>1, <1>4, AtWork, GotoMoves, SomeCodes DEF Working
    <2> QED
      BY <1>1, <1>2, <2>1, AtWork, Advances DEF IInv, Types, Runnable, Working
  <1> QED
    BY <1>3, <1>4 DEF Check

LEMMA NotReadyStep == ASSUME IInv, NotReady PROVE IInv'
  <1>1. x.at = "check" /\ x.at \in Working
    BY DEF NotReady, At, Working
  <1>2. UNCHANGED <<kind, store, config, snaps, oper, db, order, status, intent>>
    BY DEF NotReady, At
  <1>3. /\ x' \in Performed /\ x'.at = "failed" /\ x'.op = x.op /\ x'.live = x.live
        /\ x'.code = "FAILED"
    BY <1>1, AtWork, FailMoves, SomeCodes DEF NotReady
  <1>4. runtime' \in Objects /\ (runtime'.loaded # None => runtime'.art # None)
    <2>1. PICK l \in {runtime.loaded, None} : runtime' = [runtime EXCEPT !.loaded = l]
      BY DEF NotReady
    <2> QED
      BY <2>1 DEF IInv, Types, Objects, Runnable
  <1> QED
    BY <1>1, <1>2, <1>3, <1>4, AtWork, SomeCodes, Ends DEF IInv, Types

LEMMA CommitStep == ASSUME IInv, Commit \/ CommitFault PROVE IInv'
  <1>1. x.at = "commit" /\ x.at \in Working
    BY DEF Commit, CommitFault, AtCommit, Working
  <1>2. UNCHANGED <<kind, runtime, config, snaps, oper, db, order, status, intent>>
    BY DEF Commit, CommitFault, AtCommit
  <1>3. CASE store' = store
    <2>1. Finish("APPLIED") \/ Fail("FAILED")
      BY DEF Commit, CommitFault
    <2> QED
      BY <1>1, <1>2, <1>3, <2>1, SomeCodes, Refuses
  <1>4. CASE /\ Finish("APPLIED") \/ Fail("FAILED")
             /\ store' = IF IsUpdate THEN UpdatedStore ELSE RolledBackStore
    <2>1. /\ x' \in Performed /\ x'.at \in {"answer", "failed"}
          /\ x'.op = x.op /\ x'.live = x.live /\ x'.wrote = x.wrote
          /\ x'.code \in Codes
      BY <1>1, <1>4, AtWork, FinishMoves, FailMoves, SomeCodes
    <2>2. store' \in Documents
      <3>1. CASE IsUpdate
        <4>1. /\ order[x.op].artifact \in Artifacts
              /\ order[x.op].config \in Configs \cup {None}
          BY <1>1, <3>1, AtWork DEF IsUpdate, Op, Orders, Updates, Rollbacks
        <4>2. \E p \in Artifacts \cup {None}, s \in Ops \cup {None} :
                store' = [store EXCEPT
                  !.current  = order[x.op].artifact,
                  !.previous = p,
                  !.snapshot = s,
                  !.fence    = None,
                  !.rev      = IF order[x.op].config = None THEN @ ELSE @ + 1,
                  !.schema   = IF order[x.op].config = None THEN @
                               ELSE SchemaOf[order[x.op].config],
                  !.active   = x.op]
          <5> DEFINE changed == order[x.op].artifact # store.current
                                  \/ order[x.op].config # None
                     keeps == x.live = store.current /\ store.fence = None
                     lineage == CASE changed /\ keeps  -> <<store.current, x.op>>
                       [] changed /\ ~keeps -> <<None, None>>
                       [] ~changed /\ store.fence # None -> <<None, None>>
                       [] OTHER -> <<store.previous, store.snapshot>>
          <5>1. lineage[1] \in Artifacts \cup {None} /\ lineage[2] \in Ops \cup {None}
            BY <1>1, AtWork DEF Documents
          <5>2. store' = [store EXCEPT
                  !.current  = order[x.op].artifact,
                  !.previous = lineage[1],
                  !.snapshot = lineage[2],
                  !.fence    = None,
                  !.rev      = IF order[x.op].config = None THEN @ ELSE @ + 1,
                  !.schema   = IF order[x.op].config = None THEN @
                               ELSE SchemaOf[order[x.op].config],
                  !.active   = x.op]
            BY <1>4, <3>1 DEF UpdatedStore, Op
          <5> QED
            BY <5>1, <5>2
        <4>3. (IF order[x.op].config = None THEN store.rev ELSE store.rev + 1) \in Nat \ {0}
          BY <1>1, AtWork DEF Documents
        <4>4. (IF order[x.op].config = None THEN store.schema
               ELSE SchemaOf[order[x.op].config]) \in Schemas
          BY <1>1, <4>1, AtWork DEF Documents, Schemas
        <4> QED
          BY ZenonT(30), <1>1, <4>1, <4>2, <4>3, <4>4, AtWork DEF Documents
      <3>2. CASE ~IsUpdate
        <4>1. store' = RolledBackStore /\ order[x.op].kind = "rollback"
          BY <1>1, <1>4, <3>2, AtWork DEF IsUpdate, Op, Orders, Updates, Rollbacks
        <4>2. store.previous \in Artifacts /\ snaps[store.snapshot].schema \in Schemas
          BY <1>1, <4>1, AtWork DEF Copies
        <4>3. store.rev + 1 \in Nat \ {0} /\ store.current \in Artifacts
          BY <1>1, AtWork DEF Documents
        <4> QED
          BY <1>1, <4>1, <4>2, <4>3, AtWork DEF RolledBackStore, Op, Documents
      <3> QED
        BY <3>1, <3>2
    <2>3. Types'
      BY <1>2, <2>1, <2>2 DEF IInv, Types
    <2>4. Ordered'
      BY <1>1, <1>2, <2>1 DEF IInv, Ordered, Idle
    <2>5. Prepared'
      BY <1>1, <1>2, <2>1, AtWork DEF Prepared, Working
    <2>6. Runnable' /\ Coded'
      BY <1>2, <2>1 DEF IInv, Runnable, Coded
    <2>7. Fenced'
      <3>1. store'.fence = None \/ store'.fence = store.fence
        BY <1>1, <1>4, <2>2, AtWork DEF UpdatedStore, RolledBackStore, Documents
      <3> QED
        BY <1>1, <2>1, <3>1, AtWork DEF Fenced
    <2> QED
      BY <2>3, <2>4, <2>5, <2>6, <2>7 DEF IInv
  <1> QED
    BY <1>3, <1>4 DEF Commit, CommitFault, CommitGeneration

LEMMA KeepWriterStoppedStep == ASSUME IInv, KeepWriterStopped PROVE IInv'
  <1>1. x.at = "failed" /\ x \in Performed
    BY InHand DEF KeepWriterStopped, At
  <1>2. UNCHANGED <<kind, store, config, snaps, oper, db, order, status, intent>>
    BY DEF KeepWriterStopped, At
  <1>3. /\ x' \in Performed /\ x'.at = "answer" /\ x'.op = x.op /\ x'.live = x.live
        /\ x'.replaced = x.replaced /\ x'.wrote = x.wrote /\ x'.code \in Codes
    <2>1. PICK code \in {"CONTROL_OUTCOME_UNKNOWN", "RECOVERY_REQUIRED",
                         "ROLLBACK_RECOVERY_REQUIRED"} : Finish(code)
      BY DEF KeepWriterStopped
    <2> QED
      BY <1>1, <2>1, FinishMoves, SomeCodes
  <1>4. runtime' \in Objects /\ (runtime'.loaded # None => runtime'.art # None)
    BY DEF KeepWriterStopped, IInv, Types, Objects, Runnable
  <1>5. /\ x'.replaced => x'.live \in Artifacts
        /\ x'.wrote => snaps[x.op] \in Copies
    BY <1>3 DEF IInv, Prepared
  <1> QED
    BY <1>1, <1>2, <1>3, <1>4, <1>5, Ends DEF IInv, Types

LEMMA UndoConfigStep == ASSUME IInv, UndoConfig PROVE IInv'
  <1>1. x.at = "failed" /\ x \in Performed
    BY InHand DEF UndoConfig, At
  <1>2. UNCHANGED <<kind, store, runtime, snaps, oper, db, order, status, intent>>
    BY DEF UndoConfig, At
  <1>3. /\ x' \in Performed /\ x'.at = "undo" /\ x'.op = x.op /\ x'.live = x.live
        /\ x'.replaced = x.replaced /\ x'.wrote = x.wrote /\ x'.code = x.code
    <2>1. CASE Goto("undo")
      BY <1>1, <2>1, GotoMoves, SomeCodes
    <2>2. CASE x' = [x EXCEPT !.at = "undo", !.undo = "fault"]
      BY <1>1, <2>2, SomeCodes DEF Performed
    <2> QED
      BY <2>1, <2>2 DEF UndoConfig
  <1>4. config' \in Configs
    <2>1. x.wrote => snaps[x.op].bytes \in Configs
      BY DEF IInv, Prepared, Copies
    <2> QED
      BY <2>1 DEF UndoConfig, Op, IInv, Types
  <1>5. x'.code \in Codes
    BY <1>1, <1>3 DEF IInv, Coded
  <1>6. /\ x'.replaced => x'.live \in Artifacts
        /\ x'.wrote => snaps[x.op] \in Copies
    BY <1>3 DEF IInv, Prepared
  <1> QED
    BY <1>1, <1>2, <1>3, <1>4, <1>5, <1>6, Ends DEF IInv, Types, Runnable

(* The record of the executor after its undo.                              *)
LEMMA UndoneMoves ==
  ASSUME x \in Performed, NEW u \in {"clean", "refused", "fault"}, NEW k \in Codes,
         x' = [x EXCEPT !.at = "answer", !.undo = u, !.code = k]
  PROVE  /\ x' \in Performed /\ x'.at = "answer" /\ x'.op = x.op /\ x'.live = x.live
         /\ x'.replaced = x.replaced /\ x'.wrote = x.wrote /\ x'.code = k
  BY SomeCodes DEF Performed

LEMMA UndoRuntimeStep == ASSUME IInv, UndoRuntime PROVE IInv'
  <1>1. x.at = "undo" /\ x \in Performed /\ x.code \in Codes
    BY InHand DEF UndoRuntime, At, IInv, Coded
  <1>2. UNCHANGED <<kind, store, config, snaps, oper, db, order, status, intent>>
    BY DEF UndoRuntime, At
  <1>3. /\ x' \in Performed /\ x'.at = "answer" /\ x'.op = x.op /\ x'.live = x.live
        /\ x'.replaced = x.replaced /\ x'.wrote = x.wrote /\ x'.code \in Codes
    <2>1. PICK how \in {"clean", "refused", "fault"} : Undone(how)
      BY DEF UndoRuntime
    <2>2. \E u \in {"clean", "refused", "fault"}, k \in Codes :
            x' = [x EXCEPT !.at = "answer", !.undo = u, !.code = k]
      <3> DEFINE u == IF x.undo = "clean" THEN how ELSE x.undo
                 k == IF x.code = "MIGRATION_FAILED" /\ u # "clean" THEN "FAILED" ELSE x.code
      <3>1. u \in {"clean", "refused", "fault"} /\ k \in Codes
        BY <1>1, SomeCodes DEF Performed
      <3>2. x' = [x EXCEPT !.at = "answer", !.undo = u, !.code = k]
        BY <2>1 DEF Undone
      <3> QED
        BY <3>1, <3>2
    <2> QED
      BY <1>1, <2>2, UndoneMoves
  <1>4. /\ x.replaced => x.live \in Artifacts
        /\ x.wrote => snaps[x.op] \in Copies
    BY DEF IInv, Prepared
  <1>5. runtime' \in Objects /\ (runtime'.loaded # None => runtime'.art # None)
    <2>1. /\ runtime \in Objects /\ (runtime.loaded # None => runtime.art # None)
          /\ config \in Configs /\ store.current \in Artifacts
      BY DEF IInv, Types, Documents, Runnable
    <2>2. \/ runtime' = runtime
          \/ x.replaced /\ runtime' = [art |-> x.live, loaded |-> config]
          \/ /\ x.replaced
             /\ runtime' = [art |-> x.live, loaded |-> IF x.up THEN config ELSE None]
          \/ x.replaced /\ runtime' \in HalfUndone
      BY DEF UndoRuntime
    <2>3. CASE x.replaced /\ runtime' \in HalfUndone
      <3>1. PICK a \in Artifacts \cup {None} : runtime' = [art |-> a, loaded |-> None]
        BY <1>4, <2>1, <2>3 DEF HalfUndone, Objects
      <3> QED
        BY <3>1 DEF Objects
    <2>4. CASE /\ x.replaced
               /\ \E l \in {config, None} : runtime' = [art |-> x.live, loaded |-> l]
      BY <1>4, <2>1, <2>4 DEF Objects
    <2> QED
      BY <2>1, <2>2, <2>3, <2>4 DEF Objects
  <1> QED
    BY <1>1, <1>2, <1>3, <1>4, <1>5, Ends DEF IInv, Types

LEMMA ConcludeStep == ASSUME IInv, Answer \/ AnswerLost PROVE IInv'
  <1>1. /\ x.at = "answer" /\ x' = Idle
        /\ UNCHANGED <<kind, store, runtime, config, snaps, oper, db, order>>
        /\ status' = [status EXCEPT ![x.op] = StatusAfter(x.code)]
    BY DEF Answer, AnswerLost, Conclude, Op
  <1>2. intent' = intent \/ intent' = [intent EXCEPT ![x.by] = None]
    BY DEF Answer, AnswerLost, Hear
  <1>3. StatusAfter(x.code) \in {"absent", "pending", "completed", "failed"}
    BY <1>1 DEF IInv, Coded, Codes, StatusAfter
  <1>4. /\ x' \in Performed /\ x'.at = "idle" /\ x'.replaced = FALSE /\ x'.wrote = FALSE
    BY <1>1, SomeCodes DEF Idle, Performed
  <1>5. Types'
    BY <1>1, <1>2, <1>3, <1>4 DEF IInv, Types
  <1>6. Ordered'
    BY <1>1, <1>2, <1>4 DEF IInv, Types, Ordered
  <1>7. Prepared' /\ Coded' /\ Fenced'
    BY <1>4 DEF Prepared, Coded, Fenced, Working
  <1>8. Runnable'
    BY <1>1, <1>4 DEF IInv, Runnable
  <1> QED
    BY <1>5, <1>6, <1>7, <1>8 DEF IInv

LEMMA CrashStep == ASSUME IInv, Crash PROVE IInv'
  <1>1. x' = Idle /\ UNCHANGED <<kind, store, runtime, config, snaps, oper, db, order,
                                 status, intent>>
    BY DEF Crash
  <1>2. /\ x' \in Performed /\ x'.at = "idle" /\ x'.replaced = FALSE /\ x'.wrote = FALSE
    BY <1>1, SomeCodes DEF Idle, Performed
  <1>3. Types' /\ Ordered'
    BY <1>1, <1>2 DEF IInv, Types, Ordered
  <1>4. Prepared' /\ Coded' /\ Fenced'
    BY <1>2 DEF Prepared, Coded, Fenced, Working
  <1>5. Runnable'
    BY <1>1, <1>2 DEF IInv, Runnable
  <1> QED
    BY <1>3, <1>4, <1>5 DEF IInv

LEMMA RequestStep ==
  ASSUME IInv, NEW c \in Controllers, Request(c)
  PROVE  IInv'
  <1>1. PICK id \in Ops, ord \in Orders : NewOrder(c, id, ord)
    BY DEF Request, Orders, Updates, Rollbacks, IInv, Types, Documents
  <1>2. /\ order' = [order EXCEPT ![id] = ord] /\ order[id] = None
        /\ intent' = [intent EXCEPT ![c] = id]
        /\ UNCHANGED <<kind, store, runtime, config, snaps, oper, db, status, x>>
    BY <1>1 DEF NewOrder
  <1>3. Types'
    BY <1>2 DEF IInv, Types
  <1>4. Ordered'
    BY <1>2 DEF IInv, Types, Ordered
  <1>5. x.at # "idle" => order'[x.op] \in Orders /\ order'[x.op] = order[x.op]
    BY <1>2, NoneIsAbsent DEF IInv, Types, Ordered, Orders
  <1>6. Prepared' /\ Runnable' /\ Coded' /\ Fenced'
    BY <1>2, <1>5 DEF IInv, Types, Ordered, Prepared, Runnable, Coded, Fenced, Working
  <1> QED
    BY <1>3, <1>4, <1>6 DEF IInv

LEMMA ReplayStep ==
  ASSUME IInv, NEW c \in Controllers, Replay(c)
  PROVE  IInv'
  <1>1. /\ intent' = [intent EXCEPT ![c] = None]
        /\ UNCHANGED <<kind, store, runtime, config, snaps, oper, db, order, status, x>>
    BY DEF Replay
  <1>2. Types' /\ Ordered'
    BY <1>1 DEF IInv, Types, Ordered
  <1>3. Prepared' /\ Runnable' /\ Coded' /\ Fenced'
    BY <1>1 DEF IInv, Prepared, Runnable, Coded, Fenced
  <1> QED
    BY <1>2, <1>3 DEF IInv

(* Every acceptance starts an executor that has performed nothing, either  *)
(* with its answer or in the preflight, which the fence must allow.        *)
LEMMA AcceptStep ==
  ASSUME IInv, NEW c \in Controllers,
         AcceptUpdate(c) \/ RefuseAtEntry(c) \/ AcceptRollback(c)
  PROVE  IInv'
  <1>1. /\ intent[c] # None /\ intent[c] \in Ops /\ order[intent[c]] \in Orders
        /\ status' = [status EXCEPT ![intent[c]] = "pending"]
        /\ UNCHANGED <<kind, store, runtime, config, snaps, oper, db, order, intent>>
    BY DEF AcceptUpdate, RefuseAtEntry, AcceptRollback, Accept, IInv, Types, Ordered
  <1>2. \/ \E code \in Codes : x' = [Entered(c) EXCEPT !.at = "answer", !.code = code]
        \/ /\ store.fence # None => store.fence.op = intent[c]
           /\ \E b \in BOOLEAN : x' = [Entered(c) EXCEPT !.at = "preflight", !.applied = b]
        \/ /\ store.fence = None
           /\ x' = [Entered(c) EXCEPT !.at = "preflight"]
    BY SomeCodes DEF AcceptUpdate, RefuseAtEntry, AcceptRollback
  <1> DEFINE Fresh ==
          /\ x' \in Performed /\ x'.at \in {"answer", "preflight"} /\ x'.op = intent[c]
          /\ x'.replaced = FALSE /\ x'.wrote = FALSE
          /\ x'.at = "answer" => x'.code \in Codes
          /\ x'.at = "preflight" /\ store.fence # None => store.fence.op = intent[c]
  <1>3. Fresh
    <2>1. ASSUME NEW code \in Codes, x' = [Entered(c) EXCEPT !.at = "answer", !.code = code]
          PROVE  Fresh
      BY <1>1, <2>1, SomeCodes DEF Entered, Idle, Performed
    <2>2. ASSUME NEW b \in BOOLEAN, store.fence # None => store.fence.op = intent[c],
                 x' = [Entered(c) EXCEPT !.at = "preflight", !.applied = b]
          PROVE  Fresh
      BY <1>1, <2>2, SomeCodes DEF Entered, Idle, Performed
    <2>3. ASSUME store.fence = None, x' = [Entered(c) EXCEPT !.at = "preflight"]
          PROVE  Fresh
      BY <1>1, <2>3, SomeCodes DEF Entered, Idle, Performed
    <2> QED
      BY <1>2, <2>1, <2>2, <2>3
  <1>4. Types'
    BY <1>1, <1>3 DEF IInv, Types
  <1>5. Ordered'
    BY <1>1, <1>3 DEF IInv, Ordered, Idle
  <1>6. Prepared' /\ Runnable' /\ Coded' /\ Fenced'
    BY <1>1, <1>3 DEF IInv, Prepared, Runnable, Coded, Fenced, Working
  <1> QED
    BY <1>4, <1>5, <1>6 DEF IInv

LEMMA StepIInv == IInv /\ [Next]_vars => IInv'
  <1> SUFFICES ASSUME IInv, [Next]_vars PROVE IInv'
    OBVIOUS
  <1>1. CASE UNCHANGED vars
    BY <1>1 DEF vars, IInv, Types, Ordered, Prepared, Runnable, Coded, Fenced
  <1>2. CASE \E c \in Controllers : Request(c) \/ Deliver(c) \/ RefuseAtEntry(c)
    BY <1>2, RequestStep, ReplayStep, AcceptStep DEF Deliver
  <1>3. CASE Execute
    BY <1>3, PreflightStep, SnapshotStep, StageStep, MigrateStep, ReceiveStep,
       TakeDownStep, PutUpStep, StartStep, CheckStep, CommitStep, KeepWriterStoppedStep,
       UndoConfigStep, UndoRuntimeStep, ConcludeStep DEF Execute
  <1>4. CASE Trouble
    BY <1>4, PreflightFaultStep, SnapshotFaultStep, StageFaultStep, StageMisreportedStep,
       DispatchFaultStep, ReceiveFaultStep, TakeDownFaultStep, ActivationFaultStep,
       NotReadyStep, CommitStep, ConcludeStep, CrashStep
       DEF Trouble
  <1> QED
    BY <1>1, <1>2, <1>3, <1>4 DEF Next

-----------------------------------------------------------------------------
(* Theorems.                                                               *)

LEMMA Inductive == Spec => []IInv
  BY InitIInv, StepIInv, PTL DEF Spec

(* Type correctness of update and rollback.  Beyond the types it says that *)
(* a process only ever runs from an object that exists (no backend starts  *)
(* what it has removed) and that an order's artifact, configuration and    *)
(* snapshot are there when the executor uses them.                         *)
THEOREM TypeCorrect == Spec => []TypeOK
  <1>1. IInv => TypeOK
    BY DEF IInv, Types, Ordered, Runnable, TypeOK, Documents, Objects, Copies, Performed,
       Orders, Running
  <1> QED
    BY <1>1, Inductive, PTL

(* The acceptance checks of execute_update and answer_rollback are enough: *)
(* while a migration fences the deployment, no order but the one that      *)
(* applied it changes the configuration file or the live object, in any    *)
(* interleaving of controllers, kills and faults.                          *)
THEOREM FenceIsExclusive == Spec => FenceExcludes
  <1> DEFINE Excludes == store.fence # None /\ store.fence' # None
                           /\ <<runtime, config>>' # <<runtime, config>>
                         => Op = store.fence.op
  <1>1. IInv /\ [Next]_vars => [Excludes]_vars
    <2> SUFFICES ASSUME IInv, Next, <<runtime, config>>' # <<runtime, config>>
                 PROVE  x.at \notin {"idle", "answer"}
      BY DEF IInv, Fenced, Op
    <2>1. CASE Execute
      BY <2>1 DEF Execute, Preflight, Snapshot, Stage, Migrate, Receive, TakeDown, PutUp,
         Start, Check, Commit, AtCommit, KeepWriterStopped, UndoConfig, UndoRuntime, Answer,
         Conclude, At
    <2>2. CASE Trouble
      BY <2>2 DEF Trouble, PreflightFault, SnapshotFault, StageFault, StageMisreported,
         DispatchFault, ReceiveFault, TakeDownFault, ActivationFault, NotReady,
         CommitFault, AtCommit, AnswerLost, Crash, Conclude, At
    <2>3. CASE \E c \in Controllers : Request(c) \/ Deliver(c) \/ RefuseAtEntry(c)
      BY <2>3 DEF Request, NewOrder, Deliver, Replay, AcceptUpdate, AcceptRollback,
         RefuseAtEntry, Accept
    <2> QED
      BY <2>1, <2>2, <2>3 DEF Next
  <1> QED
    BY <1>1, Inductive, PTL DEF Spec, FenceExcludes

-----------------------------------------------------------------------------
(***************************************************************************)
(* Executions, for any number of controllers.                              *)
(***************************************************************************)
Marks == [art : Artifacts \cup {None}, cfg : Configs, loaded : Configs \cup {None}]
Pairs == [art : Artifacts \cup {None}, cfg : Configs]

Histories ==
    /\ before \in [Ops -> Marks \cup {None}] /\ resumed \subseteq Ops
    /\ committed \subseteq Ops /\ misreported \subseteq Ops
    /\ gen \in Pairs /\ leftover \in BOOLEAN

(* An order without a configuration of its own, which alone may be a no-op. *)
Plain(i) == order[i].kind = "update" /\ order[i].config = None

(* The executor works for a controller that still holds its intent.        *)
Held == x.at # "idle" =>
            x.by \in Controllers /\ intent[x.by] = x.op /\ status[x.op] = "pending"

(* What has happened to an id before.                                      *)
Begun ==
    \A i \in Ops :
       /\ order[i] = None => /\ status[i] = "absent" /\ snaps[i] = None
                             /\ oper[i] = None /\ i \notin committed
       /\ status[i] = "absent" /\ (snaps[i] # None \/ i \in committed) => Plain(i)
       /\ i \in resumed => status[i] = "pending"
       /\ status[i] = "pending" => before[i] \in Marks

(* What the performed steps say of the position.                           *)
Flags ==
    /\ x.at \in Working \cup {"preflight", "failed"} => x.undo = "clean"
    /\ x.at \in {"preflight", "snapshot", "stage"} => ~x.wrote
    /\ x.at \in {"preflight", "snapshot", "stage", "migrate", "receive", "takedown"} => ~x.replaced
    /\ x.at \in {"putup", "start"} => x.replaced
    /\ x.at \in {"check", "commit"} /\ ~x.replaced => Plain(x.op)
    /\ x.at \notin {"idle", "answer"} /\ x.wrote => ~Plain(x.op)
    /\ x.at \in {"failed", "undo"} => x.code # "NOOP"
    /\ x.at = "answer" /\ x.code = "NOOP" => Plain(x.op)
    /\ /\ x.at \in Working \/ (x.replaced /\ x.at # "answer" /\ x.op \notin committed)
       /\ kind = "host" \/ order[x.op].kind = "rollback"
       => x.live = store.current

(* The first execution of an order.                                        *)
FirstRun ==
    x.at \notin {"idle", "answer"} /\ x.op \notin resumed =>
       /\ x.at \in Working \cup {"preflight"} /\ x.op \in committed => Plain(x.op)
       /\ x.at \in Working \cup {"preflight"} \/ x.op \notin misreported \ committed =>
            (~x.wrote \/ (x.at = "undo" /\ x.undo = "clean") => config = before[x.op].cfg)
       /\ x.at \in {"preflight", "snapshot"} /\ snaps[x.op] # None => Plain(x.op)
       /\ x.wrote \/ (x.at = "stage" /\ ~Plain(x.op)) => snaps[x.op].bytes = before[x.op].cfg
       /\ ~x.replaced => /\ runtime.art = before[x.op].art
                         /\ runtime.loaded \in {before[x.op].loaded, None}
       /\ x.at \in Working \/ x.replaced => x.live = before[x.op].art

EInv == Histories /\ Held /\ Begun /\ Flags /\ FirstRun /\ FirstFailureRestores

-----------------------------------------------------------------------------
(***************************************************************************)
(* One controller.                                                         *)
(***************************************************************************)
OneController == \A c, d \in Controllers : c = d

Migrated == {"applied", "unchanged"}
Mine(i) == store.fence = None \/ store.fence.op = i

(* The operator task and the fence.                                        *)
Operator ==
    /\ \A i \in Ops : order[i] # None /\ order[i].kind = "rollback" => oper[i] = None
    /\ \A i \in committed : order[i].kind = "update" => oper[i] \in Migrated
    /\ store.fence # None =>
         /\ order[store.fence.op] # None /\ order[store.fence.op].kind = "update"
         /\ store.fence.artifact = order[store.fence.op].artifact
         /\ status[store.fence.op] # "absent"
    /\ x.at \in {"takedown", "putup", "start", "check", "commit"} /\ order[x.op].kind = "update" =>
         oper[x.op] \in Migrated /\ (oper[x.op] = "applied" => store.fence # None /\ x.applied)
    /\ x.at # "idle" /\ order[x.op].kind = "rollback" =>
         /\ ~x.applied /\ ~x.unknown
         /\ x.at \in {"failed", "undo", "answer"} => x.code \in Failed \cup {"APPLIED", "PRIVILEGE_REQUIRED"}

(* The document and the commit it names.                                   *)
Document ==
    /\ gen.art = store.current /\ gen \in healthy
    /\ store.active # None => store.active \in committed

(* The order a controller holds is the last committed one or a current one. *)
Last ==
    \A c \in Controllers : intent[c] # None =>
       LET i == intent[c] IN
       IF i \in committed
       THEN /\ store.active = i
            /\ order[i].kind = "update" =>
                 /\ order[i].artifact = store.current
                 /\ Plain(i) => store.rev = order[i].rev
                 /\ ~Plain(i) => gen.cfg = order[i].config /\ store.rev # order[i].rev
            /\ order[i].kind = "rollback" =>
                 /\ x.at \notin Working \cup {"preflight"}
                 /\ i \notin misreported =>
                      /\ status[i] # "failed"
                      /\ x.at # "idle" => x.at = "answer" /\ x.code = "APPLIED"
       ELSE order[i].rev = store.rev

Agrees ==
    /\ runtime.art = store.current /\ config = gen.cfg
    /\ runtime.loaded \in {config, None}

(* Between orders.                                                         *)
Quiet ==
    ~leftover /\ store.fence = None /\ x.at = "idle"
      /\ (\A c \in Controllers : intent[c] # None => status[intent[c]] # "pending")
    => Agrees

(* Where the executor is, of any order.                                    *)
Position ==
    /\ x.at = "commit" => runtime.art = Selected
    /\ x.at \in Working \ {"snapshot", "stage"} /\ order[x.op].kind = "update" /\ ~Plain(x.op) =>
         config = order[x.op].config
    /\ x.at \in {"failed", "undo"} => x.code \notin {"APPLIED", "RECOVERY_REQUIRED"}
    /\ x.at = "preflight" /\ order[x.op].kind = "update" => (x.applied <=> store.fence # None)
    /\ x.at = "answer" /\ x.code = "NOOP" => store.fence = None

(* A rollback that was told what became of its commit.                     *)
Reported(i) == order[i].kind = "rollback" /\ i \notin misreported

(* What an accepted order found, and what a committed one left.            *)
Accepted ==
    \A c \in Controllers :
       LET i == intent[c] IN
       i # None /\ ~leftover /\ Mine(i) =>
         /\ i \notin committed /\ snaps[i] # None => snaps[i].bytes = gen.cfg
         /\ status[i] = "pending" =>
              /\ Plain(i) => config = gen.cfg /\ runtime.loaded \in {gen.cfg, None}
              /\ i \notin committed =>
                   /\ before[i].art = store.current /\ before[i].cfg = gen.cfg
                   /\ before[i].loaded \in {gen.cfg, None}
                   /\ snaps[i] = None => config = gen.cfg
              /\ i \in committed /\ (Reported(i) \/ oper[i] = "applied") =>
                   runtime.art = store.current /\ runtime.loaded \in {gen.cfg, None}
              /\ i \in committed /\ oper[i] = "applied" /\ Plain(i) => store.fence = None
              /\ i \in committed /\ Reported(i) => config = gen.cfg

(* The executor of such an order.                                          *)
Executing ==
    x.at # "idle" /\ ~leftover /\ Mine(x.op) =>
       /\ x.at \in {"check", "commit"} => runtime.loaded \in {config, None}
       /\ x.op \in committed /\ oper[x.op] = "applied" /\ x.at # "answer" =>
            /\ x.at \notin {"takedown", "putup", "start", "check", "commit"}
            /\ Plain(x.op) => x.at \notin Working
            /\ x.replaced => x.at = "failed" /\ x.applied
       /\ x.applied /\ store.fence = None /\ x.at # "answer" =>
            /\ x.at = "failed"
            /\ x.op \in committed => Agrees
       /\ x.at = "answer" /\ store.fence = None =>
            /\ x.code = "APPLIED" /\ (order[x.op].kind = "update" \/ Reported(x.op)) => Agrees
            /\ x.code = "NOOP" => Agrees
            /\ x.code = "RECOVERY_REQUIRED" /\ x.op \in committed => Agrees

(* The saved pair, and the database it would run on.                       *)
Compatible ==
    /\ Settled => store.current \in db /\ (store.previous # None => store.previous \in db)
    /\ \A c \in Controllers :
         LET i == intent[c] IN
         i # None /\ i \notin committed /\ oper[i] \in Migrated => order[i].artifact \in db

Alone == /\ Operator /\ Document /\ Position /\ Last /\ Quiet /\ Accepted /\ Executing
         /\ RollbackPairWasHealthy /\ Compatible /\ CommittedRollbackCompletes

-----------------------------------------------------------------------------
(***************************************************************************)
(* Proofs for any number of controllers.                                   *)
(***************************************************************************)
USE LifecycleConstants

Kept == /\ x'.op = x.op /\ x'.by = x.by /\ x'.live = x.live /\ x'.up = x.up
        /\ x'.wrote = x.wrote /\ x'.replaced = x.replaced /\ x'.applied = x.applied
        /\ x'.unknown = x.unknown /\ x'.result = x.result /\ x'.undo = x.undo

LEMMA GotoKeeps ==
  ASSUME x \in Performed, NEW step \in Steps, Goto(step)
  PROVE  x'.at = step /\ x'.code = x.code /\ Kept
  BY DEF Goto, Performed, Kept

LEMMA FailKeeps ==
  ASSUME x \in Performed, NEW code \in Codes, Fail(code)
  PROVE  x'.at = "failed" /\ x'.code = code /\ Kept
  BY DEF Fail, Performed, Kept

LEMMA FinishKeeps ==
  ASSUME x \in Performed, NEW code \in Codes, Finish(code)
  PROVE  x'.at = "answer" /\ x'.code = code /\ Kept
  BY DEF Finish, Performed, Kept

(* An order is not an absent one.                                          *)
LEMMA SomeOrder ==
  ASSUME IInv, x.at # "idle"
  PROVE  /\ order[x.op] # None /\ order[x.op].kind \in {"update", "rollback"}
         /\ order[x.op].kind = "update" => order[x.op].artifact \in Artifacts
         /\ order[x.op].kind = "update" /\ ~Plain(x.op) => order[x.op].config \in Configs
         /\ x.op \in Ops /\ x \in Performed /\ x.op # None
  BY InHand, NoneIsAbsent DEF Orders, Updates, Rollbacks, Plain

(* A step of the executor touches no other order.                          *)
LEMMA OthersKept ==
  ASSUME IInv, EInv, x.at # "idle",
         UNCHANGED <<order, status, intent, before, resumed, leftover>>,
         committed' \in {committed, committed \cup {x.op}}, gen' \in Pairs,
         misreported' \subseteq Ops, x'.op = x.op, x'.by = x.by,
         \A i \in Ops : i # x.op => snaps'[i] = snaps[i] /\ oper'[i] = oper[i]
  PROVE  Histories' /\ Held' /\ Begun'
  <1>1. x.op \in Ops /\ order[x.op] # None /\ status[x.op] = "pending"
    BY SomeOrder DEF EInv, Held
  <1>2. Histories'
    BY <1>1 DEF EInv, Histories
  <1>3. Held'
    BY DEF EInv, Held
  <1>4. Begun'
    BY <1>1 DEF EInv, Begun, Plain
  <1> QED
    BY <1>2, <1>3, <1>4

(* Steps before the answer that leave the object and the configuration     *)
(* alone.                                                                  *)
LEMMA StillFirst ==
  ASSUME IInv, EInv, x.at \in Working \cup {"preflight"}, x'.at = "failed",
         UNCHANGED <<kind, order, status, intent, hist, config, snaps, oper>>,
         store'.current = store.current,
         x'.code # "NOOP", x'.op = x.op, x'.by = x.by, x'.live = x.live,
         x'.wrote = x.wrote, x'.undo = x.undo,
         \/ x'.replaced = x.replaced /\ (runtime' = runtime \/ x.replaced \/
               (runtime'.art = runtime.art /\ runtime'.loaded = None))
         \/ x.at \in Working /\ x'.replaced
  PROVE  EInv'
  <1>1. Histories' /\ Held' /\ Begun'
    BY OthersKept DEF EInv, Histories, hist, Working
  <1>2. Flags'
    BY DEF EInv, Flags, Working, Plain
  <1>3. FirstRun'
    BY DEF EInv, FirstRun, Flags, Working, Plain, hist
  <1>4. FirstFailureRestores'
    BY DEF FirstFailureRestores
  <1> QED
    BY <1>1, <1>2, <1>3, <1>4 DEF EInv

LEMMA FailsE ==
  ASSUME IInv, EInv, x.at \in Working \cup {"preflight"},
         NEW code \in Codes, code # "NOOP", Fail(code),
         UNCHANGED <<kind, order, status, intent, hist, config, snaps, oper, runtime>>,
         store'.current = store.current
  PROVE  EInv'
  <1>1. x'.at = "failed" /\ x'.code = code /\ Kept
    BY FailKeeps, InHand DEF Working
  <1> QED
    BY <1>1, StillFirst DEF Kept

LEMMA PreflightE == ASSUME IInv, EInv, Preflight PROVE EInv'
  <1>1. /\ x.at = "preflight" /\ x \in Performed
        /\ UNCHANGED <<kind, store, snaps, oper, db, order, status, intent, hist, config, runtime>>
    BY InHand DEF Preflight, At
  <1>2. CASE Fail("FAILED")
    BY <1>1, <1>2, SomeCodes, FailsE
  <1>3. CASE UpdateIsNoop /\ Finish("NOOP")
    <2>1. x'.at = "answer" /\ x'.code = "NOOP" /\ Kept
      BY <1>1, <1>3, FinishKeeps, SomeCodes
    <2>2. Plain(x.op)
      BY <1>3 DEF UpdateIsNoop, IsUpdate, Plain, Op
    <2>3. Histories' /\ Held' /\ Begun'
      BY <1>1, <2>1, OthersKept DEF EInv, Histories, hist, Kept
    <2>4. Flags'
      BY <1>1, <2>1, <2>2 DEF Flags, Working, Plain, Kept
    <2>5. FirstRun' /\ FirstFailureRestores'
      BY <2>1 DEF FirstRun, FirstFailureRestores
    <2> QED
      BY <2>3, <2>4, <2>5 DEF EInv
  <1>4. CASE /\ Owned /\ LiveServes
             /\ x' = [x EXCEPT !.at = "snapshot", !.live = runtime.art, !.up = Running]
    <2>1. /\ x'.at = "snapshot" /\ x'.live = runtime.art /\ x'.op = x.op /\ x'.by = x.by
          /\ x'.wrote = x.wrote /\ x'.replaced = x.replaced /\ x'.undo = x.undo
      BY <1>1, <1>4 DEF Performed
    <2>2. Histories' /\ Held' /\ Begun'
      BY <1>1, <2>1, OthersKept DEF EInv, Histories, hist
    <2>3. kind = "host" \/ order[x.op].kind = "rollback" => runtime.art = store.current
      BY <1>4 DEF LiveServes, IsUpdate, Op, IInv, Types
    <2>4. Flags'
      BY <1>1, <2>1, <2>3 DEF EInv, Flags, Working, Plain
    <2>5. FirstRun'
      BY <1>1, <2>1 DEF EInv, FirstRun, Flags, Working, Plain, hist
    <2>6. FirstFailureRestores'
      BY <2>1 DEF FirstFailureRestores
    <2> QED
      BY <2>2, <2>4, <2>5, <2>6 DEF EInv
  <1> QED
    BY <1>2, <1>3, <1>4 DEF Preflight

LEMMA PreflightFaultE == ASSUME IInv, EInv, PreflightFault PROVE EInv'
  BY FailsE, SomeCodes DEF PreflightFault, At

LEMMA SnapshotE == ASSUME IInv, EInv, Snapshot PROVE EInv'
  <1>1. /\ x.at = "snapshot" /\ x \in Performed /\ x.op \in Ops /\ x.at \in Working
        /\ UNCHANGED <<kind, store, oper, db, order, status, intent, hist, config, runtime>>
    BY InHand DEF Snapshot, At, Working
  <1>2. CASE Fail("FAILED") /\ UNCHANGED snaps
    BY <1>1, <1>2, SomeCodes, FailsE
  <1>3. CASE Goto("stage")
    <2>1. x'.at = "stage" /\ Kept
      BY <1>1, <1>3, GotoKeeps, SomeCodes DEF Working
    <2>2. /\ \A i \in Ops : i # x.op => snaps'[i] = snaps[i]
          /\ snaps[x.op] = None => snaps'[x.op].bytes = config
          /\ snaps[x.op] # None => snaps' = snaps
      BY <1>1 DEF Snapshot, Op, IInv, Types
    <2>3. Histories' /\ Held' /\ Begun'
      BY <1>1, <2>1, <2>2, OthersKept DEF EInv, Histories, hist, Kept
    <2>4. Flags'
      BY <1>1, <2>1 DEF EInv, Flags, Working, Plain, Kept
    <2>5. FirstRun'
      BY <1>1, <2>1, <2>2 DEF EInv, FirstRun, Flags, Working, Plain, hist, Kept
    <2>6. FirstFailureRestores'
      BY <2>1 DEF FirstFailureRestores
    <2> QED
      BY <2>3, <2>4, <2>5, <2>6 DEF EInv
  <1> QED
    BY <1>1, <1>2, <1>3 DEF Snapshot

LEMMA SnapshotFaultE == ASSUME IInv, EInv, SnapshotFault PROVE EInv'
  <1>1. /\ x.at = "snapshot" /\ x \in Performed /\ x.op \in Ops /\ x.at \in Working
        /\ UNCHANGED <<kind, store, oper, db, order, status, intent, hist, config, runtime>>
    BY InHand DEF SnapshotFault, At, Working
  <1>2. x'.at = "failed" /\ x'.code = "FAILED" /\ Kept
    BY <1>1, FailKeeps, SomeCodes DEF SnapshotFault
  <1>3. ~x.wrote /\ ~x.replaced
    BY <1>1 DEF EInv, Flags
  <1>4. \A i \in Ops : i # x.op => snaps'[i] = snaps[i]
    BY <1>1 DEF SnapshotFault, Op, IInv, Types
  <1>5. Histories' /\ Held' /\ Begun'
    BY <1>1, <1>2, <1>4, OthersKept DEF EInv, Histories, hist, Kept
  <1>6. Flags'
    BY <1>1, <1>2, <1>3 DEF EInv, Flags, Working, Plain, Kept
  <1>7. FirstRun'
    BY <1>1, <1>2, <1>3 DEF EInv, FirstRun, Working, Plain, hist, Kept
  <1>8. FirstFailureRestores'
    BY <1>2 DEF FirstFailureRestores
  <1> QED
    BY <1>5, <1>6, <1>7, <1>8 DEF EInv

LEMMA StageE == ASSUME IInv, EInv, Stage PROVE EInv'
  <1>1. /\ x.at = "stage" /\ x \in Performed /\ x.op \in Ops /\ x.at \in Working
        /\ UNCHANGED <<kind, store, snaps, oper, db, order, status, intent, hist, runtime>>
    BY InHand DEF Stage, At, Working
  <1>2. /\ x'.at \in {"migrate", "takedown"} /\ x'.op = x.op /\ x'.by = x.by /\ x'.live = x.live
        /\ x'.replaced = x.replaced /\ x'.undo = x.undo /\ x'.wrote = (NewConfig # None)
        /\ config' = IF NewConfig = None THEN config ELSE NewConfig
    BY <1>1 DEF Stage, Performed
  <1>3. x'.wrote => ~Plain(x.op)
    BY <1>2 DEF NewConfig, Plain, IsUpdate, Op
  <1>4. Histories' /\ Held' /\ Begun'
    BY <1>1, <1>2, OthersKept DEF EInv, Histories, hist
  <1>5. Flags'
    BY <1>1, <1>2, <1>3 DEF EInv, Flags, Working, Plain
  <1>6. FirstRun'
    <2>1. ~x'.wrote => config' = config
      BY <1>2
    <2> QED
      BY <1>1, <1>2, <1>3, <2>1 DEF EInv, FirstRun, Flags, Working, Plain, hist
  <1>7. FirstFailureRestores'
    BY <1>2 DEF FirstFailureRestores
  <1> QED
    BY <1>4, <1>5, <1>6, <1>7 DEF EInv

LEMMA StageFaultE == ASSUME IInv, EInv, StageFault PROVE EInv'
  <1>1. /\ x.at = "stage" /\ x \in Performed /\ x.op \in Ops /\ x.at \in Working
        /\ UNCHANGED <<kind, store, snaps, oper, db, order, status, intent, hist, runtime>>
    BY InHand DEF StageFault, At, Working
  <1>2. CASE UNCHANGED config /\ Fail("FAILED")
    BY <1>1, <1>2, SomeCodes, FailsE
  <1>3. CASE x' = [x EXCEPT !.at = "failed", !.code = "FAILED", !.wrote = TRUE]
    <2>1. /\ x'.at = "failed" /\ x'.op = x.op /\ x'.by = x.by /\ x'.live = x.live
          /\ x'.replaced = x.replaced /\ x'.undo = x.undo /\ x'.wrote /\ x'.code = "FAILED"
      BY <1>1, <1>3 DEF Performed
    <2>2. ~Plain(x.op)
      BY DEF StageFault, NewConfig, Plain, IsUpdate, Op
    <2>3. Histories' /\ Held' /\ Begun'
      BY <1>1, <2>1, OthersKept DEF EInv, Histories, hist
    <2>4. Flags'
      BY <1>1, <2>1, <2>2 DEF EInv, Flags, Working, Plain
    <2>5. FirstRun'
      BY <1>1, <2>1, <2>2 DEF EInv, FirstRun, Flags, Working, Plain, hist
    <2>6. FirstFailureRestores'
      BY <2>1 DEF FirstFailureRestores
    <2> QED
      BY <2>3, <2>4, <2>5, <2>6 DEF EInv
  <1> QED
    BY <1>2, <1>3 DEF StageFault

LEMMA StageMisreportedE == ASSUME IInv, EInv, StageMisreported PROVE EInv'
  <1>1. /\ x.at = "stage" /\ x \in Performed /\ x.op \in Ops
        /\ misreported' = misreported \cup {x.op} /\ NewConfig # None
        /\ UNCHANGED <<kind, store, snaps, oper, order, status, intent, runtime,
                       before, resumed, committed, gen, leftover>>
    BY InHand DEF StageMisreported, Op
  <1>2. x'.at = "failed" /\ x'.code = "FAILED" /\ Kept
    BY <1>1, FailKeeps, SomeCodes DEF StageMisreported
  <1>3. ~x.wrote /\ ~x.replaced /\ ~Plain(x.op)
    BY <1>1 DEF EInv, Flags, NewConfig, Plain, IsUpdate, Op
  <1>4. Histories' /\ Held' /\ Begun'
    BY <1>1, <1>2, OthersKept DEF EInv, Histories, Kept
  <1>5. Flags'
    BY <1>1, <1>2, <1>3 DEF EInv, Flags, Working, Plain, Kept
  <1>6. FirstRun'
    <2>1. x.op \notin resumed => x.op \notin committed
      BY <1>1, <1>3 DEF EInv, FirstRun, Working
    <2> QED
      BY <1>1, <1>2, <1>3, <2>1 DEF EInv, FirstRun, Working, Plain, Kept
  <1>7. FirstFailureRestores'
    BY <1>2 DEF FirstFailureRestores
  <1> QED
    BY <1>4, <1>5, <1>6, <1>7 DEF EInv

(* Steps of an executor at work that go on without touching the object or  *)
(* the configuration.                                                      *)
LEMMA GoesOnE ==
  ASSUME IInv, EInv, x.at \in {"migrate", "receive"}, x'.at \in {"receive", "takedown"},
         UNCHANGED <<kind, order, status, intent, hist, config, snaps, runtime>>,
         \A i \in Ops : i # x.op => oper'[i] = oper[i],
         store'.current = store.current,
         x'.op = x.op, x'.by = x.by, x'.live = x.live, x'.wrote = x.wrote,
         x'.replaced = x.replaced, x'.undo = x.undo
  PROVE  EInv'
  <1>1. Histories' /\ Held' /\ Begun'
    BY OthersKept DEF EInv, Histories, hist
  <1>2. Flags'
    BY DEF EInv, Flags, Working, Plain
  <1>3. FirstRun'
    BY DEF EInv, FirstRun, Flags, Working, Plain, hist
  <1>4. FirstFailureRestores'
    BY DEF FirstFailureRestores
  <1> QED
    BY <1>1, <1>2, <1>3, <1>4 DEF EInv

LEMMA MigrateE == ASSUME IInv, EInv, Migrate PROVE EInv'
  <1>1. /\ x.at = "migrate" /\ x \in Performed
        /\ UNCHANGED <<kind, store, snaps, order, status, intent, hist, config, runtime>>
    BY InHand DEF Migrate, At
  <1>2. /\ x'.at = "receive" /\ x'.op = x.op /\ x'.by = x.by /\ x'.live = x.live
        /\ x'.wrote = x.wrote /\ x'.replaced = x.replaced /\ x'.undo = x.undo
    BY <1>1 DEF Migrate, Performed
  <1>3. \A i \in Ops : i # x.op => oper'[i] = oper[i]
    BY DEF Migrate, Op, IInv, Types
  <1> QED
    BY <1>1, <1>2, <1>3, GoesOnE

LEMMA DispatchFaultE == ASSUME IInv, EInv, DispatchFault PROVE EInv'
  <1>1. /\ x.at = "migrate" /\ x \in Performed /\ x.at \in Working
        /\ UNCHANGED <<kind, store, snaps, oper, order, status, intent, hist, config, runtime>>
    BY InHand DEF DispatchFault, At, Working
  <1>2. CASE x' = [x EXCEPT !.at = "failed", !.code = "CONTROL_OUTCOME_UNKNOWN", !.unknown = TRUE]
    <2>1. /\ x'.at = "failed" /\ x'.op = x.op /\ x'.by = x.by /\ x'.live = x.live
          /\ x'.wrote = x.wrote /\ x'.replaced = x.replaced /\ x'.undo = x.undo /\ x'.code # "NOOP"
      BY <1>1, <1>2 DEF Performed
    <2> QED
      BY <1>1, <2>1, StillFirst
  <1>3. CASE \E code \in {"CONTROL_EXECUTION_UNAVAILABLE", "FAILED"} : Fail(code)
    BY <1>1, <1>3, SomeCodes, FailsE
  <1> QED
    BY <1>2, <1>3 DEF DispatchFault

(* What the executor makes of the operator's result.                       *)
LEMMA Received ==
  ASSUME IInv, Receive
  PROVE  /\ x'.op = x.op /\ x'.by = x.by /\ x'.live = x.live /\ x'.wrote = x.wrote
         /\ x'.replaced = x.replaced /\ x'.undo = x.undo /\ ~x'.unknown
         /\ \/ /\ oper[x.op] = "failed" /\ x'.applied = x.applied /\ store' = store
               /\ x'.at = "failed" /\ x'.code = "MIGRATION_FAILED"
            \/ /\ oper[x.op] = "unchanged" /\ ~x'.applied /\ store' = store
               /\ x'.at = "takedown"
            \/ /\ oper[x.op] = "applied" /\ x'.applied /\ MigrationRecordable
               /\ store' = [store EXCEPT !.fence = Fence] /\ x'.at = "takedown"
            \/ /\ oper[x.op] = "applied" /\ x'.applied /\ ~MigrationRecordable
               /\ store' = store /\ x'.at = "failed" /\ x'.code = "FAILED"
  <1> DEFINE got(ok, code) ==
               [x EXCEPT !.at = IF ok THEN "takedown" ELSE "failed", !.code = code,
                         !.unknown = FALSE, !.applied = (oper[x.op] = "applied"),
                         !.result = TRUE]
             broken == [x EXCEPT !.at = "failed", !.code = "MIGRATION_FAILED",
                                 !.unknown = FALSE]
  <1>1. x \in Performed /\ oper[x.op] \in {"applied", "unchanged", "failed"}
    BY InHand DEF Receive, At, IInv, Prepared
  <1>2. CASE oper[x.op] = "failed"
    <2>1. x' = broken /\ store' = store
      BY <1>2 DEF Receive, Op
    <2> QED
      BY <1>1, <1>2, <2>1 DEF Performed
  <1>3. CASE oper[x.op] = "unchanged"
    <2>1. x' = got(TRUE, None) /\ store' = store
      BY <1>3 DEF Receive, Op
    <2> QED
      BY <1>1, <1>3, <2>1 DEF Performed
  <1>4. CASE oper[x.op] = "applied" /\ MigrationRecordable
    <2>1. x' = got(TRUE, None) /\ store' = [store EXCEPT !.fence = Fence]
      BY <1>4 DEF Receive, Op
    <2> QED
      BY <1>1, <1>4, <2>1 DEF Performed
  <1>5. CASE oper[x.op] = "applied" /\ ~MigrationRecordable
    <2>1. x' = got(FALSE, "FAILED") /\ store' = store
      BY <1>5 DEF Receive, Op
    <2> QED
      BY <1>1, <1>5, <2>1 DEF Performed
  <1> QED
    BY <1>1, <1>2, <1>3, <1>4, <1>5

LEMMA ReceiveE == ASSUME IInv, EInv, Receive PROVE EInv'
  <1>1. /\ x.at = "receive" /\ x.at \in Working
        /\ UNCHANGED <<kind, snaps, oper, order, status, intent, hist, config, runtime>>
    BY DEF Receive, At, Working
  <1>2. store'.current = store.current
    BY Received DEF IInv, Types, Documents
  <1>3. CASE x'.at = "takedown"
    BY <1>1, <1>2, <1>3, Received, GoesOnE
  <1>4. CASE x'.at = "failed"
    BY <1>1, <1>2, <1>4, Received, StillFirst
  <1> QED
    BY <1>3, <1>4, Received

LEMMA ReceiveFaultE == ASSUME IInv, EInv, ReceiveFault PROVE EInv'
  <1>1. /\ x.at = "receive" /\ x \in Performed /\ x.at \in Working
        /\ UNCHANGED <<kind, snaps, oper, order, status, intent, hist, config, runtime>>
    BY InHand DEF ReceiveFault, At, Working
  <1>2. CASE Fail("CONTROL_OUTCOME_UNKNOWN") /\ UNCHANGED store
    BY <1>1, <1>2, SomeCodes, FailsE
  <1>3. CASE /\ store' \in {store, [store EXCEPT !.fence = Fence]}
             /\ x' = [x EXCEPT !.at = "failed", !.code = "FAILED", !.unknown = FALSE,
                               !.applied = TRUE, !.result = TRUE]
    <2>1. store'.current = store.current
      BY <1>3 DEF IInv, Types, Documents
    <2>2. /\ x'.at = "failed" /\ x'.code # "NOOP" /\ x'.op = x.op /\ x'.by = x.by
          /\ x'.live = x.live /\ x'.wrote = x.wrote /\ x'.replaced = x.replaced
          /\ x'.undo = x.undo
      BY <1>1, <1>3 DEF Performed
    <2> QED
      BY <1>1, <2>1, <2>2, StillFirst
  <1> QED
    BY <1>2, <1>3 DEF ReceiveFault

(* Steps that replace the object.                                          *)
LEMMA ReplacingE ==
  ASSUME IInv, EInv, x.at \in Working, x'.at \in {"putup", "start", "check", "commit"},
         UNCHANGED <<kind, store, order, status, intent, hist, config, snaps, oper>>,
         x'.op = x.op, x'.by = x.by, x'.live = x.live, x'.wrote = x.wrote, x'.undo = x.undo,
         x'.replaced \/ (~x.replaced /\ Plain(x.op) /\ runtime' = runtime
                          /\ x'.at \in {"check", "commit"})
  PROVE  EInv'
  <1>1. Histories' /\ Held' /\ Begun'
    BY OthersKept DEF EInv, Histories, hist, Working
  <1>2. Flags'
    BY DEF EInv, Flags, Working, Plain
  <1>3. FirstRun'
    BY DEF EInv, FirstRun, Flags, Working, Plain, hist
  <1>4. FirstFailureRestores'
    BY DEF FirstFailureRestores
  <1> QED
    BY <1>1, <1>2, <1>3, <1>4 DEF EInv

(* An update that keeps its object has no configuration of its own.        *)
LEMMA KeepsObject ==
  ASSUME IInv, x.at # "idle", ~ReplacementRequired
  PROVE  Plain(x.op) /\ x.live = order[x.op].artifact /\ Selected = x.live
  BY DEF ReplacementRequired, IsUpdate, Plain, Op, Selected

LEMMA TakeDownE == ASSUME IInv, EInv, TakeDown PROVE EInv'
  <1>1. /\ x.at = "takedown" /\ x \in Performed /\ x.at \in Working
        /\ UNCHANGED <<kind, store, snaps, oper, order, status, intent, hist, config>>
    BY InHand DEF TakeDown, At, Working
  <1>2. CASE ~ReplacementRequired /\ UNCHANGED runtime /\ Goto("check")
    <2>1. x'.at = "check" /\ Kept
      BY <1>1, <1>2, GotoKeeps, SomeCodes DEF Working
    <2>2. ~x.replaced
      BY <1>1 DEF EInv, Flags
    <2> QED
      BY <1>1, <1>2, <2>1, <2>2, KeepsObject, ReplacingE DEF Kept
  <1>3. CASE x' = [x EXCEPT !.at = "putup", !.replaced = TRUE]
    <2>1. /\ x'.at = "putup" /\ x'.op = x.op /\ x'.by = x.by /\ x'.live = x.live
          /\ x'.wrote = x.wrote /\ x'.replaced /\ x'.undo = x.undo
      BY <1>1, <1>3 DEF Performed
    <2> QED
      BY <1>1, <2>1, ReplacingE
  <1>4. CASE x' = [x EXCEPT !.at = "failed", !.code = "FAILED", !.replaced = TRUE]
    <2>1. /\ x'.at = "failed" /\ x'.op = x.op /\ x'.by = x.by /\ x'.live = x.live
          /\ x'.wrote = x.wrote /\ x'.replaced /\ x'.undo = x.undo /\ x'.code # "NOOP"
      BY <1>1, <1>4 DEF Performed
    <2> QED
      BY <1>1, <2>1, StillFirst
  <1> QED
    BY <1>2, <1>3, <1>4 DEF TakeDown

LEMMA TakeDownFaultE == ASSUME IInv, EInv, TakeDownFault PROVE EInv'
  <1>1. /\ x.at = "takedown" /\ x \in Performed /\ x.at \in Working
        /\ UNCHANGED <<kind, store, snaps, oper, order, status, intent, hist, config>>
    BY InHand DEF TakeDownFault, At, Working
  <1>2. CASE UNCHANGED runtime /\ Fail("FAILED")
    BY <1>1, <1>2, SomeCodes, FailsE
  <1>3. CASE x' = [x EXCEPT !.at = "failed", !.code = "FAILED", !.replaced = TRUE]
    <2>1. /\ x'.at = "failed" /\ x'.op = x.op /\ x'.by = x.by /\ x'.live = x.live
          /\ x'.wrote = x.wrote /\ x'.replaced /\ x'.undo = x.undo /\ x'.code # "NOOP"
      BY <1>1, <1>3 DEF Performed
    <2> QED
      BY <1>1, <2>1, StillFirst
  <1> QED
    BY <1>2, <1>3 DEF TakeDownFault

LEMMA PutUpE == ASSUME IInv, EInv, PutUp PROVE EInv'
  <1>1. /\ x.at = "putup" /\ x \in Performed /\ x.at \in Working
        /\ UNCHANGED <<kind, store, snaps, oper, order, status, intent, hist, config>>
    BY InHand DEF PutUp, At, Working
  <1>2. x'.at = "start" /\ Kept /\ x.replaced
    BY <1>1, GotoKeeps, SomeCodes DEF PutUp, Working, EInv, Flags
  <1> QED
    BY <1>1, <1>2, ReplacingE DEF Kept

LEMMA StartE == ASSUME IInv, EInv, Start PROVE EInv'
  <1>1. /\ x.at = "start" /\ x \in Performed /\ x.at \in Working
        /\ UNCHANGED <<kind, store, snaps, oper, order, status, intent, hist, config>>
    BY InHand DEF Start, At, Working
  <1>2. x'.at = "check" /\ Kept /\ x.replaced
    BY <1>1, GotoKeeps, SomeCodes DEF Start, Working, EInv, Flags
  <1> QED
    BY <1>1, <1>2, ReplacingE DEF Kept

LEMMA ActivationFaultE == ASSUME IInv, EInv, ActivationFault PROVE EInv'
  BY FailsE, SomeCodes DEF ActivationFault, At, Working

LEMMA CheckE == ASSUME IInv, EInv, Check PROVE EInv'
  <1>1. /\ x.at = "check" /\ x \in Performed /\ x.at \in Working
        /\ UNCHANGED <<kind, store, snaps, oper, order, status, intent, hist, config, runtime>>
    BY InHand DEF Check, At, Working
  <1>2. CASE Fail("FAILED")
    BY <1>1, <1>2, SomeCodes, FailsE
  <1>3. CASE Goto("commit")
    <2>1. x'.at = "commit" /\ Kept /\ (x.replaced \/ Plain(x.op))
      BY <1>1, <1>3, GotoKeeps, SomeCodes DEF Working, EInv, Flags
    <2>2. x.replaced \in BOOLEAN
      BY <1>1 DEF Performed
    <2> QED
      BY <1>1, <2>1, <2>2, ReplacingE DEF Kept
  <1> QED
    BY <1>2, <1>3 DEF Check

LEMMA NotReadyE == ASSUME IInv, EInv, NotReady PROVE EInv'
  <1>1. /\ x.at = "check" /\ x \in Performed /\ x.at \in Working
        /\ UNCHANGED <<kind, store, snaps, oper, order, status, intent, hist, config>>
    BY InHand DEF NotReady, At, Working
  <1>2. x'.at = "failed" /\ x'.code = "FAILED" /\ Kept
    BY <1>1, FailKeeps, SomeCodes DEF NotReady
  <1>3. runtime' = runtime \/ (runtime'.art = runtime.art /\ runtime'.loaded = None)
    <2>1. PICK l \in {runtime.loaded, None} : runtime' = [runtime EXCEPT !.loaded = l]
      BY DEF NotReady
    <2> QED
      BY <2>1 DEF IInv, Types, Objects
  <1> QED
    BY <1>1, <1>2, <1>3, StillFirst DEF Kept

(* Answers that promise no restoration.                                    *)
LEMMA AnswersE ==
  ASSUME IInv, EInv, x.at # "idle", x'.at = "answer",
         x'.code \notin {"FAILED", "MIGRATION_FAILED", "PRIVILEGE_REQUIRED", "NOOP"},
         UNCHANGED <<order, status, intent, before, resumed, leftover, snaps, oper>>,
         committed' \in {committed, committed \cup {x.op}}, gen' \in Pairs,
         misreported' \subseteq Ops, x'.op = x.op, x'.by = x.by
  PROVE  EInv'
  <1>1. Histories' /\ Held' /\ Begun'
    BY OthersKept
  <1>2. Flags' /\ FirstRun' /\ FirstFailureRestores'
    BY DEF Flags, FirstRun, FirstFailureRestores, Working
  <1> QED
    BY <1>1, <1>2 DEF EInv

LEMMA CommitE == ASSUME IInv, EInv, Commit PROVE EInv'
  <1>1. /\ x.at = "commit" /\ x \in Performed /\ x.at \in Working
        /\ UNCHANGED <<kind, snaps, oper, order, status, intent, config, runtime,
                       before, resumed, leftover>>
    BY InHand DEF Commit, AtCommit, Working
  <1>2. CASE Fail("FAILED") /\ UNCHANGED <<store, committed, misreported, gen, healthy>>
    <2>1. UNCHANGED hist
      BY <1>1, <1>2 DEF hist
    <2> QED
      BY <1>1, <1>2, <2>1, SomeCodes, FailsE
  <1>3. CASE /\ Finish("APPLIED")
             /\ committed' \in {committed, committed \cup {x.op}}
             /\ misreported' \in {misreported, misreported \ {x.op}}
             /\ gen' \in {gen, [art |-> runtime.art, cfg |-> config]}
    <2>1. x'.at = "answer" /\ x'.code = "APPLIED" /\ Kept
      BY <1>1, <1>3, FinishKeeps, SomeCodes
    <2>2. gen' \in Pairs /\ misreported' \subseteq Ops
      BY <1>3 DEF EInv, Histories, Pairs, IInv, Types, Objects
    <2> QED
      BY <1>1, <1>3, <2>1, <2>2, AnswersE DEF Kept
  <1> QED
    BY <1>2, <1>3 DEF Commit, CommitGeneration, Op

LEMMA CommitFaultE == ASSUME IInv, EInv, CommitFault PROVE EInv'
  <1>1. /\ x.at = "commit" /\ x \in Performed /\ x.at \in Working /\ x.op \in Ops
        /\ Fail("FAILED")
        /\ UNCHANGED <<kind, snaps, oper, order, status, intent, config, runtime,
                       before, resumed, leftover>>
    BY InHand DEF CommitFault, AtCommit, Working
  <1>2. CASE UNCHANGED <<store, committed, misreported, gen, healthy>>
    <2>1. UNCHANGED hist
      BY <1>1, <1>2 DEF hist
    <2> QED
      BY <1>1, <1>2, <2>1, SomeCodes, FailsE
  <1>3. CASE CommitGeneration /\ misreported' = misreported \cup {Op}
    <2>1. /\ committed' = committed \cup {x.op} /\ misreported' = misreported \cup {x.op}
          /\ gen' = [art |-> runtime.art, cfg |-> config]
      BY <1>3 DEF CommitGeneration, Op
    <2>2. x'.at = "failed" /\ x'.code = "FAILED" /\ Kept
      BY <1>1, FailKeeps, SomeCodes
    <2>3. gen' \in Pairs /\ misreported' \subseteq Ops
      BY <1>1, <2>1 DEF EInv, Histories, Pairs, IInv, Types, Objects
    <2>4. Histories' /\ Held' /\ Begun'
      BY <1>1, <2>1, <2>2, <2>3, OthersKept DEF Kept
    <2>5. Flags'
      BY <1>1, <2>1, <2>2 DEF EInv, Flags, Working, Plain, Kept
    <2>6. FirstRun'
      BY <1>1, <2>1, <2>2 DEF EInv, FirstRun, Working, Plain, Kept
    <2>7. FirstFailureRestores'
      BY <2>2 DEF FirstFailureRestores
    <2> QED
      BY <2>4, <2>5, <2>6, <2>7 DEF EInv
  <1> QED
    BY <1>2, <1>3 DEF CommitFault

LEMMA KeepWriterStoppedE == ASSUME IInv, EInv, KeepWriterStopped PROVE EInv'
  <1>1. /\ x.at = "failed" /\ x \in Performed
        /\ UNCHANGED <<snaps, oper, order, status, intent, hist>>
    BY InHand DEF KeepWriterStopped, At
  <1>2. PICK code \in {"CONTROL_OUTCOME_UNKNOWN", "RECOVERY_REQUIRED",
                       "ROLLBACK_RECOVERY_REQUIRED"} : Finish(code)
    BY DEF KeepWriterStopped
  <1>3. x'.at = "answer" /\ x'.code = code /\ Kept
    BY <1>1, <1>2, FinishKeeps, SomeCodes
  <1> QED
    BY <1>1, <1>3, AnswersE DEF EInv, Histories, hist, Kept

LEMMA UndoConfigE == ASSUME IInv, EInv, UndoConfig PROVE EInv'
  <1>1. /\ x.at = "failed" /\ x \in Performed
        /\ UNCHANGED <<kind, store, runtime, snaps, oper, order, status, intent, hist>>
    BY InHand DEF UndoConfig, At
  <1>2. /\ x'.at = "undo" /\ x'.op = x.op /\ x'.by = x.by /\ x'.live = x.live
        /\ x'.wrote = x.wrote /\ x'.replaced = x.replaced /\ x'.code = x.code
        /\ \/ config' = (IF x.wrote THEN snaps[x.op].bytes ELSE config)
           \/ x.wrote /\ x'.undo = "fault"
    <2>1. CASE NoFault
      <3>1. CASE Goto("undo") /\ config' = (IF x.wrote THEN snaps[x.op].bytes ELSE config)
        BY <1>1, <3>1, GotoKeeps, SomeCodes DEF Kept
      <3>2. CASE x.wrote /\ x' = [x EXCEPT !.at = "undo", !.undo = "fault"]
        BY <1>1, <3>2 DEF Performed
      <3> QED
        BY <3>1, <3>2 DEF UndoConfig, Op
    <2>2. CASE Goto("undo") /\ config' = (IF x.wrote THEN snaps[x.op].bytes ELSE config)
      BY <1>1, <2>2, GotoKeeps, SomeCodes DEF Kept
    <2>3. CASE x.wrote /\ x' = [x EXCEPT !.at = "undo", !.undo = "fault"]
      BY <1>1, <2>3 DEF Performed
    <2> QED
      BY <2>1, <2>2, <2>3 DEF UndoConfig, Op
  <1>3. Histories' /\ Held' /\ Begun'
    BY <1>1, <1>2, OthersKept DEF EInv, Histories, hist
  <1>4. Flags'
    BY <1>1, <1>2 DEF EInv, Flags, Working, Plain, hist
  <1>5. FirstRun'
    <2>1. SUFFICES ASSUME x.op \notin resumed PROVE FirstRun'
      BY <1>1, <1>2 DEF FirstRun, hist
    <2>2. /\ x.wrote => snaps[x.op].bytes = before[x.op].cfg
          /\ ~x.wrote /\ x.op \notin misreported \ committed => config = before[x.op].cfg
          /\ ~x.replaced => /\ runtime.art = before[x.op].art
                            /\ runtime.loaded \in {before[x.op].loaded, None}
          /\ x.replaced => x.live = before[x.op].art
      BY <1>1, <2>1 DEF EInv, FirstRun
    <2>3. x.op \notin misreported \ committed =>
            (~x.wrote \/ x'.undo = "clean" => config' = before[x.op].cfg)
      BY <1>1, <1>2, <2>2
    <2> QED
      BY <1>1, <1>2, <2>2, <2>3 DEF FirstRun, Working, Plain, hist
  <1>6. FirstFailureRestores'
    BY <1>2 DEF FirstFailureRestores
  <1> QED
    BY <1>3, <1>4, <1>5, <1>6 DEF EInv

(* What the second half of an undo leaves.                                 *)
LEMMA UndoneRuntime ==
  ASSUME IInv, UndoRuntime
  PROVE  /\ x'.at = "answer" /\ x'.op = x.op /\ x'.by = x.by
         /\ x'.code \in {x.code, "FAILED"}
         /\ x'.undo = "clean" =>
              /\ x.undo = "clean" /\ x'.code = x.code
              /\ ~x.replaced => runtime' = runtime
              /\ x.replaced /\ kind = "host" =>
                   runtime' = [art |-> x.live, loaded |-> config]
              /\ x.replaced /\ kind = "container" =>
                   runtime' = [art |-> x.live, loaded |-> IF x.up THEN config ELSE None]
  <1>1. x \in Performed /\ kind \in {"host", "container"}
    BY InHand DEF UndoRuntime, At, IInv, Types
  <1>2. ASSUME NEW how \in {"clean", "refused", "fault"}, Undone(how)
        PROVE  /\ x'.at = "answer" /\ x'.op = x.op /\ x'.by = x.by
               /\ x'.code \in {x.code, "FAILED"}
               /\ x'.undo = "clean" => x.undo = "clean" /\ how = "clean" /\ x'.code = x.code
    <2> DEFINE u == IF x.undo = "clean" THEN how ELSE x.undo
               k == IF x.code = "MIGRATION_FAILED" /\ u # "clean" THEN "FAILED" ELSE x.code
    <2>1. x' = [x EXCEPT !.at = "answer", !.undo = u, !.code = k]
      BY <1>2 DEF Undone
    <2> QED
      BY <1>1, <2>1 DEF Performed
  <1>3. CASE Undone("fault")
    BY <1>2, <1>3
  <1>4. CASE x.replaced /\ kind = "container" /\ Running /\ Undone("refused")
    BY <1>2, <1>4
  <1>5. CASE /\ ~(x.replaced /\ kind = "container" /\ Running) /\ Undone("clean")
             /\ runtime' = IF ~x.replaced \/ (kind = "container" /\ Running) THEN runtime
                           ELSE IF kind = "host"
                           THEN [art |-> x.live, loaded |-> config]
                           ELSE [art |-> x.live, loaded |-> IF x.up THEN config ELSE None]
    BY <1>1, <1>2, <1>5
  <1> QED
    BY <1>1, <1>3, <1>4, <1>5 DEF UndoRuntime

LEMMA UndoRuntimeE == ASSUME IInv, EInv, UndoRuntime PROVE EInv'
  <1>1. /\ x.at = "undo" /\ x \in Performed /\ kind \in {"host", "container"}
        /\ UNCHANGED <<kind, store, config, snaps, oper, order, status, intent, hist>>
    BY InHand DEF UndoRuntime, At, IInv, Types
  <1>2. Histories' /\ Held' /\ Begun'
    BY <1>1, UndoneRuntime, OthersKept DEF EInv, Histories, hist
  <1>3. Flags' /\ FirstRun'
    BY <1>1, UndoneRuntime DEF EInv, Flags, FirstRun, Working
  <1>4. FirstFailureRestores'
    <2>1. SUFFICES ASSUME x.op \notin resumed, x.op \notin misreported \ committed,
                          x'.undo = "clean"
          PROVE  Restored'
      BY <1>1, UndoneRuntime DEF FirstFailureRestores, Op, hist
    <2>2. config' = before'[x'.op].cfg
      BY <1>1, <2>1, UndoneRuntime DEF EInv, FirstRun, hist
    <2>3. CASE ~x.replaced
      BY <1>1, <2>1, <2>2, <2>3, UndoneRuntime DEF EInv, FirstRun, hist, Restored, Running, Op
    <2>4. CASE x.replaced
      <3>1. x.live = before[x.op].art
        BY <1>1, <2>1, <2>4 DEF EInv, FirstRun
      <3> QED
        BY <1>1, <2>1, <2>2, <2>4, <3>1, UndoneRuntime DEF hist, Restored, Running, Op
    <2> QED
      BY <1>1, <2>3, <2>4
  <1> QED
    BY <1>2, <1>3, <1>4 DEF EInv

(* A position at rest promises nothing.                                    *)
LEMMA IdleE ==
  ASSUME x' = Idle
  PROVE  Held' /\ Flags' /\ FirstRun' /\ FirstFailureRestores'
  <1>1. x'.at = "idle" /\ ~x'.replaced /\ x'.undo = "clean"
    BY DEF Idle
  <1> QED
    BY <1>1 DEF Held, Flags, FirstRun, FirstFailureRestores, Working

LEMMA ConcludeE == ASSUME IInv, EInv, Answer \/ AnswerLost PROVE EInv'
  <1>1. /\ x.at = "answer" /\ x.op \in Ops /\ x.code \in Codes /\ order[x.op] # None
        /\ x' = Idle /\ status' = [status EXCEPT ![x.op] = StatusAfter(x.code)]
        /\ leftover' = (leftover \/ LeavesEffects)
        /\ IF StatusAfter(x.code) = "pending" THEN UNCHANGED <<before, resumed>>
           ELSE before' = [before EXCEPT ![x.op] = None] /\ resumed' = resumed \ {x.op}
        /\ UNCHANGED <<snaps, oper, order, committed, misreported, gen>>
    BY SomeOrder DEF Answer, AnswerLost, Conclude, Op, IInv, Coded
  <1>2. leftover' \in BOOLEAN
    BY <1>1
  <1>3. Histories'
    BY <1>1, <1>2 DEF EInv, Histories
  <1>4. Begun'
    <2>1. status[x.op] = "pending"
      BY <1>1 DEF EInv, Held
    <2>2. StatusAfter(x.code) = "absent" => Plain(x.op)
      BY <1>1 DEF StatusAfter, Codes, Pending, Completed, Failed, EInv, Flags
    <2>3. status \in [Ops -> {"absent", "pending", "completed", "failed"}]
          /\ before \in [Ops -> Marks \cup {None}]
      BY DEF IInv, Types, EInv, Histories
    <2> QED
      BY <1>1, <2>1, <2>2, <2>3 DEF EInv, Begun, Plain
  <1> QED
    BY <1>1, <1>3, <1>4, IdleE DEF EInv

LEMMA CrashE == ASSUME IInv, EInv, Crash PROVE EInv'
  <1>1. x' = Idle /\ UNCHANGED <<snaps, oper, order, status, hist>>
    BY DEF Crash
  <1>2. Histories' /\ Begun'
    BY <1>1 DEF EInv, Histories, Begun, Plain, hist
  <1> QED
    BY <1>1, <1>2, IdleE DEF EInv

LEMMA ReplayE ==
  ASSUME IInv, EInv, NEW c \in Controllers, Replay(c)
  PROVE  EInv'
  <1>1. x = Idle /\ x' = Idle /\ UNCHANGED <<snaps, oper, order, status, hist>>
    BY DEF Replay
  <1>2. Histories' /\ Begun'
    BY <1>1 DEF EInv, Histories, Begun, Plain, hist
  <1> QED
    BY <1>1, <1>2, IdleE DEF EInv

LEMMA RequestE ==
  ASSUME IInv, EInv, NEW c \in Controllers, Request(c)
  PROVE  EInv'
  <1>1. PICK id \in Ops, ord \in Orders : NewOrder(c, id, ord)
    BY DEF Request, Orders, Updates, Rollbacks, IInv, Types, Documents
  <1>2. /\ order' = [order EXCEPT ![id] = ord] /\ order[id] = None /\ intent[c] = None
        /\ intent' = [intent EXCEPT ![c] = id] /\ ord # None
        /\ UNCHANGED <<kind, store, runtime, config, snaps, oper, status, x, hist>>
    BY <1>1, NoneIsAbsent DEF NewOrder, Orders
  <1>3. x.at # "idle" => x.op \in Ops /\ order'[x.op] = order[x.op] /\ x.op # None
    BY <1>2, SomeOrder DEF IInv, Types
  <1>4. Histories'
    BY <1>2 DEF EInv, Histories, hist
  <1>5. Held'
    BY <1>2, <1>3 DEF EInv, Held, IInv, Types
  <1>6. Begun'
    BY <1>2 DEF EInv, Begun, Plain, IInv, Types, hist
  <1>7. Flags'
    <2>1. x.at = "idle" => ~x.replaced
      BY DEF IInv, Ordered, Idle
    <2> QED
      BY <1>2, <1>3, <2>1 DEF EInv, Flags, Plain, Working, hist
  <1>8. FirstRun'
    BY <1>2, <1>3 DEF EInv, FirstRun, Plain, hist
  <1>9. FirstFailureRestores'
    BY <1>2 DEF EInv, FirstFailureRestores, Restored, Running, Op, hist
  <1> QED
    BY <1>4, <1>5, <1>6, <1>7, <1>8, <1>9 DEF EInv

(* Every acceptance starts an executor that has performed nothing.         *)
LEMMA Accepts ==
  ASSUME IInv, NEW c \in Controllers,
         AcceptUpdate(c) \/ RefuseAtEntry(c) \/ AcceptRollback(c)
  PROVE  /\ x = Idle /\ intent[c] \in Ops /\ order[intent[c]] \in Orders /\ Accept(c)
         /\ x'.op = intent[c] /\ x'.by = c /\ ~x'.wrote /\ ~x'.replaced /\ ~x'.unknown
         /\ x'.undo = "clean"
         /\ \/ misreported' = misreported
            \/ /\ misreported' = misreported \cup ({intent[c]} \cap committed)
               /\ x'.at = "answer" /\ x'.code = "FAILED"
         /\ \/ /\ x'.at = "preflight" /\ misreported' = misreported
               /\ order[intent[c]].kind = "update" =>
                    /\ x'.applied = (store.fence # None)
                    /\ store.fence # None => store.fence.op = intent[c]
               /\ order[intent[c]].kind = "rollback" =>
                    /\ ~x'.applied /\ store.active # intent[c] /\ store.fence = None
                    /\ store.rev = order[intent[c]].rev
            \/ /\ x'.at = "answer" /\ ~x'.applied
               /\ order[intent[c]].kind = "update" =>
                    \/ x'.code = "FAILED"
                    \/ /\ x'.code = "ROLLBACK_RECOVERY_REQUIRED"
                       /\ store.fence # None /\ store.fence.op # intent[c]
               /\ order[intent[c]].kind = "rollback" =>
                    \/ x'.code = "APPLIED" /\ store.active = intent[c]
                    \/ /\ x'.code = "FAILED"
                       /\ misreported' = misreported \cup ({intent[c]} \cap committed)
                    \/ /\ x'.code \in {"FAILED", "ROLLBACK_RECOVERY_REQUIRED"}
                       /\ store.active # intent[c]
                       /\ store.rev # order[intent[c]].rev \/ store.fence # None
  <1>1. /\ x = Idle /\ intent[c] \in Ops /\ order[intent[c]] \in Orders /\ Accept(c)
    BY DEF AcceptUpdate, RefuseAtEntry, AcceptRollback, Accept, IInv, Types, Ordered
  <1> DEFINE started(b) == [Entered(c) EXCEPT !.at = "preflight", !.applied = b]
             answered(code) == [Entered(c) EXCEPT !.at = "answer", !.code = code]
             Fresh == /\ x'.op = intent[c] /\ x'.by = c /\ ~x'.wrote /\ ~x'.replaced
                      /\ ~x'.unknown /\ x'.undo = "clean"
  <1>2. ASSUME NEW b \in BOOLEAN, x' = started(b)
        PROVE  Fresh /\ x'.at = "preflight" /\ x'.applied = b
    BY <1>2 DEF Entered, Idle
  <1>3. ASSUME x' = [Entered(c) EXCEPT !.at = "preflight"]
        PROVE  Fresh /\ x'.at = "preflight" /\ ~x'.applied
    BY <1>3 DEF Entered, Idle
  <1>4. ASSUME NEW code \in {"FAILED", "APPLIED", "ROLLBACK_RECOVERY_REQUIRED"},
               x' = answered(code)
        PROVE  Fresh /\ x'.at = "answer" /\ ~x'.applied /\ x'.code = code
    BY <1>4 DEF Entered, Idle
  <1>5. CASE AcceptUpdate(c)
    <2>0. misreported' = misreported
      BY <1>5 DEF AcceptUpdate
    <2>1. CASE store.fence # None /\ store.fence.op # intent[c]
      <3>1. x' = answered("ROLLBACK_RECOVERY_REQUIRED") /\ order[intent[c]].kind = "update"
        BY <1>5, <2>1 DEF AcceptUpdate
      <3> QED
        BY <1>1, <1>4, <2>0, <2>1, <3>1
    <2>2. CASE ~(store.fence # None /\ store.fence.op # intent[c])
      <3>1. x' = started(store.fence # None) /\ order[intent[c]].kind = "update"
        BY <1>5, <2>2 DEF AcceptUpdate
      <3>2. Fresh /\ x'.at = "preflight" /\ x'.applied = (store.fence # None)
        BY <1>2, <3>1
      <3> QED
        BY <1>1, <2>0, <2>2, <3>1, <3>2
    <2> QED
      BY <2>1, <2>2
  <1>6. CASE RefuseAtEntry(c)
    <2>1. x' = answered("FAILED") /\ misreported' = misreported \cup ({intent[c]} \cap committed)
      BY <1>6 DEF RefuseAtEntry
    <2> QED
      BY <1>1, <1>4, <2>1
  <1>7. CASE AcceptRollback(c)
    <2>1. order[intent[c]].kind = "rollback" /\ misreported' = misreported
      BY <1>7 DEF AcceptRollback
    <2>2. CASE store.active = intent[c]
      <3>1. x' = answered("APPLIED")
        BY <1>7, <2>2 DEF AcceptRollback
      <3> QED
        BY <1>1, <1>4, <2>1, <2>2, <3>1
    <2>3. CASE store.active # intent[c] /\ store.rev # order[intent[c]].rev
      <3>1. x' = answered("FAILED")
        BY <1>7, <2>3 DEF AcceptRollback
      <3> QED
        BY <1>1, <1>4, <2>1, <2>3, <3>1
    <2>4. CASE store.active # intent[c] /\ store.rev = order[intent[c]].rev /\ store.fence # None
      <3>1. x' = answered("ROLLBACK_RECOVERY_REQUIRED")
        BY <1>7, <2>4 DEF AcceptRollback
      <3> QED
        BY <1>1, <1>4, <2>1, <2>4, <3>1
    <2>5. CASE store.active # intent[c] /\ store.rev = order[intent[c]].rev /\ store.fence = None
      <3>1. x' = [Entered(c) EXCEPT !.at = "preflight"]
        BY <1>7, <2>5 DEF AcceptRollback
      <3> QED
        BY <1>1, <1>3, <2>1, <2>5, <3>1
    <2> QED
      BY <2>2, <2>3, <2>4, <2>5
  <1> QED
    BY <1>5, <1>6, <1>7

LEMMA AcceptE ==
  ASSUME IInv, EInv, NEW c \in Controllers,
         AcceptUpdate(c) \/ RefuseAtEntry(c) \/ AcceptRollback(c)
  PROVE  EInv'
  <1> DEFINE i == intent[c]
  <1>1. /\ x = Idle /\ i \in Ops /\ order[i] \in Orders /\ order[i] # None /\ i # None
        /\ x'.op = i /\ x'.by = c /\ ~x'.wrote /\ ~x'.replaced /\ x'.undo = "clean"
        /\ x'.at \in {"preflight", "answer"} /\ (x'.at = "answer" => x'.code # "NOOP")
    BY Accepts, NoneIsAbsent DEF Orders, Updates, Rollbacks
  <1>2. /\ status[i] \in {"absent", "pending"}
        /\ status' = [status EXCEPT ![i] = "pending"]
        /\ status[i] = "absent" =>
              /\ before' = [before EXCEPT ![i] = [art |-> runtime.art, cfg |-> config,
                                                  loaded |-> runtime.loaded]]
              /\ resumed' = resumed
        /\ status[i] = "pending" => before' = before /\ resumed' = resumed \cup {i}
        /\ UNCHANGED <<kind, store, runtime, config, snaps, oper, order, intent,
                       committed, gen, leftover>>
        /\ \/ misreported' = misreported
           \/ misreported' = misreported \cup ({i} \cap committed)
    BY Accepts DEF Accept
  <1>3. [art |-> runtime.art, cfg |-> config, loaded |-> runtime.loaded] \in Marks
    BY DEF IInv, Types, Objects, Marks
  <1> HIDE DEF i
  <1>4. before \in [Ops -> Marks \cup {None}] /\ resumed \subseteq Ops
        /\ status \in [Ops -> {"absent", "pending", "completed", "failed"}]
    BY DEF EInv, Histories, IInv, Types
  <1>5. Histories'
    BY <1>1, <1>2, <1>3, <1>4 DEF EInv, Histories
  <1>6. Held'
    BY <1>1, <1>2, <1>4 DEF Held, i
  <1>7. Begun'
    BY <1>1, <1>2, <1>3, <1>4 DEF EInv, Begun, Plain
  <1>8. Flags'
    BY <1>1 DEF Flags, Working
  <1>9. i \notin resumed' => status[i] = "absent"
    BY <1>1, <1>2
  <1>10. FirstRun'
    <2>1. SUFFICES ASSUME x'.at = "preflight", i \notin resumed' PROVE FirstRun'
      BY <1>1 DEF FirstRun
    <2>2. before'[i] = [art |-> runtime.art, cfg |-> config, loaded |-> runtime.loaded]
      BY <1>1, <1>2, <1>4, <1>9, <2>1
    <2>3. snaps[i] # None \/ i \in committed => Plain(i)
      BY <1>1, <1>9, <2>1 DEF EInv, Begun
    <2> QED
      BY <1>1, <1>2, <2>1, <2>2, <2>3 DEF FirstRun, Working, Plain
  <1>11. FirstFailureRestores'
    <2>1. SUFFICES ASSUME i \notin resumed' PROVE Restored'
      BY <1>1 DEF FirstFailureRestores, Op
    <2>2. before'[i] = [art |-> runtime.art, cfg |-> config, loaded |-> runtime.loaded]
      BY <1>1, <1>2, <1>4, <1>9, <2>1
    <2> QED
      BY <1>1, <1>2, <2>2 DEF Restored, Running, Op
  <1> QED
    BY <1>5, <1>6, <1>7, <1>8, <1>10, <1>11 DEF EInv

LEMMA InitE == Init => EInv
  <1> SUFFICES ASSUME Init PROVE EInv
    OBVIOUS
  <1>1. x.at = "idle" /\ ~x.replaced
    BY DEF Init, Idle
  <1>2. Histories /\ Begun
    BY DEF Init, Histories, Begun, Pairs, Marks
  <1> QED
    BY <1>1, <1>2 DEF EInv, Held, Flags, FirstRun, FirstFailureRestores, Working

LEMMA StepE == IInv /\ EInv /\ [Next]_vars => EInv'
  <1> SUFFICES ASSUME IInv, EInv, [Next]_vars PROVE EInv'
    OBVIOUS
  <1>1. CASE UNCHANGED vars
    BY <1>1 DEF vars, hist, EInv, Histories, Held, Begun, Flags, FirstRun,
       FirstFailureRestores, Restored, Running, Op, Plain
  <1>2. CASE \E c \in Controllers : Request(c) \/ Deliver(c) \/ RefuseAtEntry(c)
    BY <1>2, RequestE, ReplayE, AcceptE DEF Deliver
  <1>3. CASE Execute
    BY <1>3, PreflightE, SnapshotE, StageE, MigrateE, ReceiveE, TakeDownE, PutUpE, StartE,
       CheckE, CommitE, KeepWriterStoppedE, UndoConfigE, UndoRuntimeE, ConcludeE DEF Execute
  <1>4. CASE Trouble
    BY <1>4, PreflightFaultE, SnapshotFaultE, StageFaultE, StageMisreportedE, DispatchFaultE,
       ReceiveFaultE, TakeDownFaultE, ActivationFaultE, NotReadyE, CommitFaultE, ConcludeE,
       CrashE DEF Trouble
  <1> QED
    BY <1>1, <1>2, <1>3, <1>4 DEF Next

LEMMA InductiveE == Spec => [](IInv /\ EInv)
  BY InitIInv, StepIInv, InitE, StepE, PTL DEF Spec

(* rollback_update, restore_current_after_failed_rollback.  The snapshot    *)
(* and the notes of what was performed are enough: an order that failed in *)
(* its first execution and whose undo reported no problem leaves the       *)
(* artifact and the configuration of the moment it was accepted, whatever  *)
(* other controllers had begun and however earlier orders were killed,     *)
(* unless the configuration was replaced by a write that reported failure. *)
THEOREM FirstFailure == Spec => []FirstFailureRestores
  <1>1. IInv /\ EInv => FirstFailureRestores
    BY DEF EInv
  <1> QED
    BY <1>1, InductiveE, PTL

-----------------------------------------------------------------------------
(***************************************************************************)
(* Proofs for one controller.                                              *)
(***************************************************************************)

(* An executor at work works for the one controller there is.              *)
LEMMA Sole ==
  ASSUME IInv, EInv, OneController, x.at # "idle"
  PROVE  /\ x.op \in Ops /\ x.op # None /\ order[x.op] # None /\ status[x.op] = "pending"
         /\ x.by \in Controllers /\ intent[x.by] = x.op
         /\ \A c \in Controllers : intent[c] = x.op
  BY SomeOrder DEF EInv, Held, OneController

(* What the invariants say of an order being executed.                     *)
LEMMA InCourse ==
  ASSUME IInv, EInv, Alone, OneController, x.at \notin {"idle", "answer"}
  PROVE  /\ Mine(x.op) /\ order[x.op].kind \in {"update", "rollback"}
         /\ x.op \in committed =>
              /\ store.active = x.op
              /\ order[x.op].kind = "update" =>
                   /\ order[x.op].artifact = store.current
                   /\ Plain(x.op) => store.rev = order[x.op].rev
                   /\ ~Plain(x.op) => gen.cfg = order[x.op].config /\ store.rev # order[x.op].rev
              /\ order[x.op].kind = "rollback" =>
                   x.op \in misreported /\ x.at \notin Working \cup {"preflight"}
         /\ x.op \notin committed => order[x.op].rev = store.rev
         /\ ~leftover =>
              /\ x.op \notin committed /\ snaps[x.op] # None => snaps[x.op].bytes = gen.cfg
              /\ Plain(x.op) => config = gen.cfg /\ runtime.loaded \in {gen.cfg, None}
              /\ x.op \notin committed =>
                   /\ before[x.op].art = store.current /\ before[x.op].cfg = gen.cfg
                   /\ before[x.op].loaded \in {gen.cfg, None}
                   /\ snaps[x.op] = None => config = gen.cfg
              /\ x.op \in committed /\ oper[x.op] = "applied" =>
                   /\ runtime.art = store.current /\ runtime.loaded \in {gen.cfg, None}
                   /\ Plain(x.op) => store.fence = None
  <1>1. Mine(x.op)
    BY DEF IInv, Fenced, Mine
  <1>2. order[x.op].kind \in {"update", "rollback"}
    BY SomeOrder
  <1>3. PICK c \in Controllers : intent[c] = x.op /\ x.op # None /\ status[x.op] = "pending"
    BY Sole
  <1>4. x.op \in committed =>
              /\ store.active = x.op
              /\ order[x.op].kind = "update" =>
                   /\ order[x.op].artifact = store.current
                   /\ Plain(x.op) => store.rev = order[x.op].rev
                   /\ ~Plain(x.op) => gen.cfg = order[x.op].config /\ store.rev # order[x.op].rev
              /\ order[x.op].kind = "rollback" =>
                   x.op \in misreported /\ x.at \notin Working \cup {"preflight"}
    BY <1>2, <1>3 DEF Alone, Last
  <1>5. x.op \notin committed => order[x.op].rev = store.rev
    BY <1>3 DEF Alone, Last
  <1>6. ~leftover =>
              /\ x.op \notin committed /\ snaps[x.op] # None => snaps[x.op].bytes = gen.cfg
              /\ Plain(x.op) => config = gen.cfg /\ runtime.loaded \in {gen.cfg, None}
              /\ x.op \notin committed =>
                   /\ before[x.op].art = store.current /\ before[x.op].cfg = gen.cfg
                   /\ before[x.op].loaded \in {gen.cfg, None}
                   /\ snaps[x.op] = None => config = gen.cfg
              /\ x.op \in committed /\ oper[x.op] = "applied" =>
                   /\ runtime.art = store.current /\ runtime.loaded \in {gen.cfg, None}
                   /\ Plain(x.op) => store.fence = None
    BY <1>1, <1>3 DEF Alone, Accepted
  <1> QED
    BY <1>1, <1>2, <1>4, <1>5, <1>6

(* A step of the executor short of the commit.                             *)
LEMMA OnwardA ==
  ASSUME IInv, EInv, Alone, OneController, x.at \notin {"idle", "answer"}, x'.at # "idle",
         x'.at \in Working \cup {"preflight"} => x.at \in Working \cup {"preflight"},
         UNCHANGED <<order, status, intent, before, resumed, committed, gen, healthy, leftover>>,
         misreported \subseteq misreported', x'.op = x.op,
         store'.current = store.current, store'.previous = store.previous,
         store'.snapshot = store.snapshot, store'.rev = store.rev, store'.active = store.active,
         snaps' = snaps \/ snaps[x.op] = None,
         snaps \in [Ops -> Copies \cup {None}], \A i \in Ops : i # x.op => snaps'[i] = snaps[i]
  PROVE  /\ Document' /\ Last' /\ Quiet' /\ RollbackPairWasHealthy' /\ CommittedRollbackCompletes'
  <1>1. Document' /\ CommittedRollbackCompletes'
    BY DEF Alone, Document, CommittedRollbackCompletes
  <1>2. Last'
    <2>1. x.op \in committed /\ order[x.op].kind = "rollback" =>
            x.op \in misreported /\ x.at \notin Working \cup {"preflight"}
      BY InCourse
    <2>2. \A c \in Controllers : intent[c] = x.op
      BY Sole
    <2> QED
      BY <2>1, <2>2 DEF Alone, Last, Plain
  <1>3. Quiet'
    BY DEF Quiet
  <1>4. RollbackPairWasHealthy'
    <2>1. store.snapshot # None => store.snapshot \in Ops
      BY DEF IInv, Types, Documents
    <2> QED
      BY <2>1 DEF Alone, RollbackPairWasHealthy
  <1> QED
    BY <1>1, <1>2, <1>3, <1>4

(* The histories in full.                                                  *)
LEMMA SameHist ==
  ASSUME UNCHANGED hist
  PROVE  /\ UNCHANGED <<before, resumed, committed, gen, healthy, leftover>>
         /\ misreported' = misreported
  BY DEF hist

(* A step that leaves the database alone.                                  *)
LEMMA SameData ==
  ASSUME IInv, Alone, UNCHANGED <<order, intent, committed, oper, db>>,
         store'.current = store.current, store'.previous = store.previous
  PROVE  Compatible'
  BY DEF Alone, Compatible, Settled

(* A step that touches neither the fence nor the operator.                 *)
LEMMA SameOperator ==
  ASSUME IInv, Alone, x.at \notin {"idle", "answer"},
         UNCHANGED <<order, status, committed, oper>>, store'.fence = store.fence,
         x'.op = x.op, x'.applied = x.applied,
         order[x.op].kind = "update" \/ x'.unknown = x.unknown,
         x'.at \in {"takedown", "putup", "start", "check", "commit"} /\ order[x.op].kind = "update"
           => x.at \in {"takedown", "putup", "start", "check", "commit"},
         x'.at \in {"failed", "undo", "answer"} /\ order[x.op].kind = "rollback"
           => x'.code \in Failed \cup {"APPLIED", "PRIVILEGE_REQUIRED"}
  PROVE  Operator'
  BY DEF Alone, Operator

(* A step after which the order's entry, its snapshot and the configuration *)
(* still say what they said.                                               *)
LEMMA SameConfig ==
  ASSUME IInv, EInv, Alone, OneController, x.at \notin {"idle", "answer"},
         UNCHANGED <<order, status, intent, before, resumed, committed, gen, healthy, leftover,
                    config, snaps, oper>>,
         misreported \subseteq misreported',
         store'.current = store.current,
         ~leftover => \/ store'.fence = store.fence
                      \/ ~(x.op \in committed /\ oper[x.op] = "applied" /\ Plain(x.op)),
         ~leftover => \/ runtime' = runtime
                      \/ /\ Plain(x.op) => runtime'.loaded \in {config, None}
                         /\ ~(x.op \in committed /\ oper[x.op] = "applied")
  PROVE  Accepted'
  <1>1. SUFFICES ASSUME ~leftover PROVE Accepted'
    BY DEF Accepted
  <1>2. \A c \in Controllers : intent[c] = x.op
    BY Sole
  <1>3. x.op \in committed => ~Reported(x.op)
    BY InCourse DEF Reported
  <1> QED
    BY <1>1, <1>2, <1>3, InCourse DEF Accepted, Plain, Reported

(* Steps between the preflight and the commit that leave the configuration *)
(* and the document alone.                                                 *)
LEMMA WorkA ==
  ASSUME IInv, EInv, Alone, OneController,
         x.at \in Working \cup {"preflight"}, x'.at \in Working \cup {"failed"},
         UNCHANGED <<store, order, status, intent, hist, config, snaps, oper, db>>,
         x'.op = x.op, x'.applied = x.applied,
         order[x.op].kind = "update" \/ x'.unknown = x.unknown,
         x'.at = "failed" =>
            /\ x'.code \notin {"APPLIED", "RECOVERY_REQUIRED"}
            /\ order[x.op].kind = "rollback" => x'.code \in Failed \cup {"PRIVILEGE_REQUIRED"},
         x'.at \in {"takedown", "putup", "start", "check", "commit"} /\ order[x.op].kind = "update"
           => x.at \in {"takedown", "putup", "start", "check", "commit"},
         x'.at \notin {"migrate", "receive", "stage"},
         x'.at = "commit" => runtime'.art = Selected,
         ~leftover => \/ runtime' = runtime
                      \/ /\ Plain(x.op) => runtime'.loaded \in {config, None}
                         /\ ~(x.op \in committed /\ oper[x.op] = "applied"),
         ~leftover /\ x'.at \in {"check", "commit"} => runtime'.loaded \in {config, None},
         ~leftover /\ x.op \in committed /\ oper[x.op] = "applied" =>
            /\ ~x'.replaced /\ x'.at \in {"snapshot", "failed"}
            /\ Plain(x.op) => x'.at = "failed"
  PROVE  Alone'
  <1>1. Document' /\ Last' /\ Quiet' /\ RollbackPairWasHealthy' /\ CommittedRollbackCompletes'
    BY OnwardA, SameHist DEF Working, IInv, Types
  <1>2. Compatible'
    BY SameData, SameHist
  <1>3. Operator'
    BY SameOperator, SameHist DEF Working
  <1>4. Accepted'
    BY SameConfig, SameHist DEF Working
  <1>5. Position'
    <2>1. Selected' = Selected
      BY DEF Selected, IsUpdate, Op
    <2> QED
      BY <2>1 DEF Alone, Position, Working, Plain
  <1>6. Executing'
    <2>1. SUFFICES ASSUME ~leftover PROVE Executing'
      BY DEF Executing, hist
    <2>2. ~(x.applied /\ store.fence = None)
      BY <2>1, InCourse DEF Alone, Executing, Working
    <2> QED
      BY <2>1, <2>2 DEF Executing, Working, Plain, hist
  <1> QED
    BY <1>1, <1>2, <1>3, <1>4, <1>5, <1>6 DEF Alone

(* What Executing says of a migrated update that had committed before.     *)
LEMMA Repeated ==
  ASSUME IInv, EInv, Alone, OneController, x.at \notin {"idle", "answer"},
         ~leftover, x.op \in committed, oper[x.op] = "applied"
  PROVE  /\ x.at \notin {"takedown", "putup", "start", "check", "commit"}
         /\ Plain(x.op) => x.at \notin Working
         /\ x.replaced => x.at = "failed" /\ x.applied
  BY InCourse DEF Alone, Executing

LEMMA FailsA ==
  ASSUME IInv, EInv, Alone, OneController, x.at \in Working \cup {"preflight"},
         NEW code \in Codes \ {"APPLIED", "RECOVERY_REQUIRED"}, Fail(code),
         order[x.op].kind = "rollback" => code \in Failed \cup {"PRIVILEGE_REQUIRED"},
         UNCHANGED <<store, order, status, intent, hist, config, snaps, oper, db>>,
         runtime' = runtime \/ (x.at = "check" /\ runtime'.loaded \in {runtime.loaded, None})
  PROVE  Alone'
  <1>1. x'.at = "failed" /\ x'.code = code /\ Kept
    BY FailKeeps, InHand DEF Working
  <1>2. ~leftover /\ x.op \in committed /\ oper[x.op] = "applied" =>
            ~x.replaced /\ x.at # "check"
    BY Repeated DEF Working
  <1>3. ~leftover /\ Plain(x.op) => runtime.loaded \in {config, None}
    BY InCourse DEF Working
  <1> QED
    BY <1>1, <1>2, <1>3, WorkA DEF Kept

LEMMA PreflightA == ASSUME IInv, EInv, Alone, OneController, Preflight PROVE Alone'
  <1>1. /\ x.at = "preflight" /\ x \in Performed
        /\ UNCHANGED <<kind, store, snaps, oper, db, order, status, intent, hist, config, runtime>>
    BY InHand DEF Preflight, At
  <1>2. CASE Fail("FAILED")
    BY <1>1, <1>2, SomeCodes, FailsA DEF Failed
  <1>3. CASE UpdateIsNoop /\ Finish("NOOP")
    <2>1. x'.at = "answer" /\ x'.code = "NOOP" /\ Kept
      BY <1>1, <1>3, FinishKeeps, SomeCodes
    <2>2. /\ order[x.op].kind = "update" /\ Plain(x.op) /\ ~x.applied
          /\ runtime.art = store.current
      BY <1>3 DEF UpdateIsNoop, IsUpdate, Plain, Op
    <2>3. Document' /\ Last' /\ Quiet' /\ RollbackPairWasHealthy' /\ CommittedRollbackCompletes'
      BY <1>1, <2>1, OnwardA, SameHist DEF IInv, Types, Kept, Working
    <2>4. Compatible' /\ Accepted' /\ Operator'
      BY <1>1, <2>1, <2>2, SameData, SameConfig, SameOperator, SameHist DEF Kept
    <2>5. store.fence = None
      BY <1>1, <2>2 DEF Alone, Position
    <2>6. Position'
      BY <1>1, <2>1, <2>5 DEF Position, Working
    <2>7. Executing'
      BY <1>1, <2>1, <2>2, InCourse DEF Executing, Agrees, Reported, hist, Kept
    <2> QED
      BY <2>3, <2>4, <2>6, <2>7 DEF Alone
  <1>4. CASE ~UpdateIsNoop
             /\ x' = [x EXCEPT !.at = "snapshot", !.live = runtime.art, !.up = Running]
    <2>1. /\ x'.at = "snapshot" /\ x'.op = x.op /\ x'.applied = x.applied
          /\ x'.unknown = x.unknown /\ x'.replaced = x.replaced
      BY <1>1, <1>4 DEF Performed
    <2>2. ~x.replaced
      BY <1>1 DEF EInv, Flags
    <2>3. ~leftover /\ x.op \in committed /\ oper[x.op] = "applied" => ~Plain(x.op)
      <3>1. SUFFICES ASSUME ~leftover, x.op \in committed, oper[x.op] = "applied", Plain(x.op)
            PROVE  UpdateIsNoop
        BY <1>4
      <3>2. /\ runtime.art = store.current /\ store.fence = None
            /\ order[x.op].artifact = store.current
        BY <1>1, <3>1, InCourse DEF Plain
      <3>3. ~x.applied
        BY <1>1, <3>1, <3>2 DEF Alone, Position, Plain
      <3> QED
        BY <3>1, <3>2, <3>3 DEF UpdateIsNoop, IsUpdate, Op, Plain
    <2> QED
      BY <1>1, <2>1, <2>2, <2>3, WorkA DEF Working
  <1> QED
    BY <1>2, <1>3, <1>4 DEF Preflight

LEMMA PreflightFaultA == ASSUME IInv, EInv, Alone, OneController, PreflightFault PROVE Alone'
  BY FailsA, SomeCodes DEF PreflightFault, At, Failed

(* The snapshot, of the configuration if there is none yet.                *)
LEMMA SnappedA ==
  ASSUME IInv, EInv, Alone, OneController, x.at = "snapshot", x.op \in Ops,
         UNCHANGED <<store, oper, db, order, status, intent, hist, config, runtime>>,
         \/ snaps' = snaps
         \/ /\ snaps[x.op] = None
            /\ snaps' = [snaps EXCEPT ![x.op] = [bytes |-> config, schema |-> store.schema,
                                                 by |-> NewSchema]],
         x'.at = "stage" \/ (x'.at = "failed" /\ x'.code = "FAILED"), Kept
  PROVE  Alone'
  <1>2. snaps \in [Ops -> Copies \cup {None}]
    BY DEF IInv, Types
  <1>3. /\ \A i \in Ops : i # x.op => snaps'[i] = snaps[i]
        /\ snaps' = snaps \/ (snaps[x.op] = None /\ snaps'[x.op].bytes = config)
    BY <1>2
  <1>4. Document' /\ Last' /\ Quiet' /\ RollbackPairWasHealthy' /\ CommittedRollbackCompletes'
    BY <1>2, <1>3, OnwardA, SameHist DEF Kept, Working
  <1>5. Compatible' /\ Operator'
    BY SameData, SameOperator, SameHist DEF Kept, Failed
  <1>6. Position'
    BY DEF Position, Working, Kept
  <1>7. Executing'
    <2>1. ~leftover => ~(x.applied /\ store.fence = None) /\ ~x.replaced
      BY InCourse DEF Alone, Executing, EInv, Flags
    <2>2. ~leftover /\ x.op \in committed /\ oper[x.op] = "applied" => ~Plain(x.op)
      BY Repeated DEF Working
    <2> QED
      BY <2>1, <2>2 DEF Executing, Kept, hist, Plain
  <1>8. Accepted'
    <2>1. SUFFICES ASSUME ~leftover PROVE Accepted'
      BY DEF Accepted, hist
    <2>2. \A c \in Controllers : intent[c] = x.op
      BY Sole
    <2>3. x.op \in committed => order[x.op].kind = "update"
      BY InCourse DEF Working
    <2> QED
      BY <1>3, <2>1, <2>2, <2>3, InCourse DEF Accepted, Reported, hist, Plain
  <1> QED
    BY <1>4, <1>5, <1>6, <1>7, <1>8 DEF Alone

LEMMA SnapshotA == ASSUME IInv, EInv, Alone, OneController, Snapshot PROVE Alone'
  <1>1. /\ x.at = "snapshot" /\ x \in Performed /\ x.at \in Working /\ x.op \in Ops
        /\ UNCHANGED <<kind, store, oper, db, order, status, intent, hist, config, runtime>>
    BY InHand DEF Snapshot, At, Working
  <1>2. CASE Fail("FAILED") /\ UNCHANGED snaps
    BY <1>1, <1>2, SomeCodes, FailsA DEF Failed
  <1>3. CASE Goto("stage")
    <2>1. x'.at = "stage" /\ Kept
      BY <1>1, <1>3, GotoKeeps, SomeCodes DEF Working
    <2> QED
      BY <1>1, <2>1, SnappedA DEF Snapshot, Op
  <1> QED
    BY <1>1, <1>2, <1>3 DEF Snapshot

LEMMA SnapshotFaultA == ASSUME IInv, EInv, Alone, OneController, SnapshotFault PROVE Alone'
  <1>1. /\ x.at = "snapshot" /\ x \in Performed /\ x.op \in Ops
        /\ UNCHANGED <<kind, store, oper, db, order, status, intent, hist, config, runtime>>
    BY InHand DEF SnapshotFault, At
  <1>2. x'.at = "failed" /\ x'.code = "FAILED" /\ Kept
    BY <1>1, FailKeeps, SomeCodes DEF SnapshotFault
  <1> QED
    BY <1>1, <1>2, SnappedA DEF SnapshotFault, Op

(* A step that writes the configuration only after it was saved.           *)
LEMMA Reconfigures ==
  ASSUME IInv, EInv, Alone, OneController, x.at \notin {"idle", "answer"},
         UNCHANGED <<order, status, intent, before, resumed, committed, gen, healthy, leftover,
                    snaps, oper, runtime>>,
         misreported \subseteq misreported',
         store'.current = store.current, store'.fence = store.fence,
         config' = config \/ (~Plain(x.op) /\ snaps[x.op] \in Copies)
  PROVE  Accepted'
  <1>1. SUFFICES ASSUME ~leftover PROVE Accepted'
    BY DEF Accepted
  <1>2. \A c \in Controllers : intent[c] = x.op
    BY Sole
  <1>3. x.op \in committed => ~Reported(x.op)
    BY InCourse DEF Reported
  <1> QED
    BY <1>1, <1>2, <1>3, InCourse, NoneIsAbsent DEF Accepted, Plain, Reported

(* Stage, and the faults after its write.                                  *)
LEMMA StagedA ==
  ASSUME IInv, EInv, Alone, OneController, x.at = "stage", x \in Performed,
         UNCHANGED <<store, runtime, snaps, oper, db, order, status, intent,
                    before, resumed, committed, gen, healthy, leftover>>,
         misreported \subseteq misreported',
         config' = IF NewConfig = None THEN config ELSE NewConfig,
         x'.op = x.op, x'.applied = x.applied, x'.unknown = x.unknown, x'.replaced = x.replaced,
         \/ x'.at = IF IsUpdate THEN "migrate" ELSE "takedown"
         \/ x'.at = "failed" /\ x'.code = "FAILED"
  PROVE  Alone'
  <1>1. Document' /\ Last' /\ Quiet' /\ RollbackPairWasHealthy' /\ CommittedRollbackCompletes'
    BY OnwardA DEF IInv, Types, Working
  <1>2. Compatible'
    BY SameData
  <1>3. Operator'
    BY SameOperator DEF IsUpdate, Op, Failed
  <1>4. Accepted'
    <2>1. NewConfig # None => ~Plain(x.op)
      BY DEF NewConfig, Plain, IsUpdate, Op
    <2>2. snaps[x.op] \in Copies
      BY AtWork DEF Working
    <2> QED
      BY <2>1, <2>2, Reconfigures
  <1>5. Position'
    <2>1. order[x.op].kind = "update" /\ ~Plain(x.op) =>
            order[x.op].config # None /\ NewConfig = order[x.op].config
      BY SomeOrder DEF NewConfig, Plain, IsUpdate, Op
    <2> QED
      BY <2>1 DEF Position, Working, Plain, IsUpdate, Op
  <1>6. Executing'
    <2>1. SUFFICES ASSUME ~leftover PROVE Executing'
      BY DEF Executing
    <2>2. ~(x.applied /\ store.fence = None) /\ ~x.replaced
      BY <2>1, InCourse DEF Alone, Executing, EInv, Flags
    <2>3. x.op \in committed => IsUpdate
      BY InCourse DEF IsUpdate, Op, Working
    <2>4. x.op \in committed /\ oper[x.op] = "applied" => ~Plain(x.op)
      BY <2>1, Repeated DEF Working
    <2> QED
      BY <2>1, <2>2, <2>3, <2>4 DEF Executing, Plain
  <1> QED
    BY <1>1, <1>2, <1>3, <1>4, <1>5, <1>6 DEF Alone

LEMMA StageA == ASSUME IInv, EInv, Alone, OneController, Stage PROVE Alone'
  <1>1. /\ x.at = "stage" /\ x \in Performed
        /\ UNCHANGED <<store, runtime, snaps, oper, db, order, status, intent, hist>>
    BY InHand DEF Stage, At
  <1>2. /\ x'.at = (IF IsUpdate THEN "migrate" ELSE "takedown") /\ x'.op = x.op
        /\ x'.applied = x.applied /\ x'.unknown = x.unknown /\ x'.replaced = x.replaced
    BY <1>1 DEF Stage, Performed
  <1> QED
    BY <1>1, <1>2, StagedA, SameHist DEF Stage

LEMMA StageFaultA == ASSUME IInv, EInv, Alone, OneController, StageFault PROVE Alone'
  <1>1. /\ x.at = "stage" /\ x \in Performed /\ x.at \in Working
        /\ UNCHANGED <<store, runtime, snaps, oper, db, order, status, intent, hist>>
    BY InHand DEF StageFault, At, Working
  <1>2. CASE UNCHANGED config /\ Fail("FAILED")
    BY <1>1, <1>2, SomeCodes, FailsA DEF Failed
  <1>3. CASE /\ config' = NewConfig /\ NewConfig # None
             /\ x' = [x EXCEPT !.at = "failed", !.code = "FAILED", !.wrote = TRUE]
    <2>1. /\ x'.at = "failed" /\ x'.code = "FAILED" /\ x'.op = x.op
          /\ x'.applied = x.applied /\ x'.unknown = x.unknown /\ x'.replaced = x.replaced
      BY <1>1, <1>3 DEF Performed
    <2> QED
      BY <1>1, <1>3, <2>1, StagedA, SameHist
  <1> QED
    BY <1>2, <1>3 DEF StageFault

LEMMA StageMisreportedA ==
  ASSUME IInv, EInv, Alone, OneController, StageMisreported
  PROVE  Alone'
  <1>1. /\ x.at = "stage" /\ x \in Performed /\ misreported \subseteq misreported'
        /\ config' = NewConfig /\ NewConfig # None
        /\ UNCHANGED <<store, runtime, snaps, oper, db, order, status, intent,
                       before, resumed, committed, gen, healthy, leftover>>
    BY InHand DEF StageMisreported
  <1>2. x'.at = "failed" /\ x'.code = "FAILED" /\ Kept
    BY <1>1, FailKeeps, SomeCodes DEF StageMisreported
  <1> QED
    BY <1>1, <1>2, StagedA DEF Kept

LEMMA MigrateA == ASSUME IInv, EInv, Alone, OneController, Migrate PROVE Alone'
  <1>1. /\ x.at = "migrate" /\ x \in Performed /\ x.op \in Ops
        /\ order[x.op].kind = "update"
        /\ UNCHANGED <<store, runtime, config, snaps, order, status, intent, hist>>
    BY InHand DEF Migrate, At, IInv, Prepared
  <1>2. /\ x'.at = "receive" /\ x'.op = x.op /\ x'.applied = x.applied
        /\ x'.replaced = x.replaced
    BY <1>1 DEF Migrate, Performed
  <1>3. /\ \A i \in Ops : i # x.op => oper'[i] = oper[i]
        /\ oper[x.op] # None => oper' = oper /\ db' = db
        /\ oper[x.op] = None =>
             /\ oper'[x.op] \in {"applied", "unchanged", "failed"}
             /\ oper'[x.op] = "unchanged" => db' = db \cup {Selected}
             /\ oper'[x.op] = "failed" => db' = db
             /\ oper'[x.op] = "applied" => db' = {Selected}
    <2>1. CASE oper[x.op] # None
      BY <2>1 DEF Migrate, Op
    <2>2. CASE oper[x.op] = None
      <3>1. PICK r \in {"applied", "unchanged", "failed"} :
              /\ oper' = [oper EXCEPT ![x.op] = r]
              /\ db' = CASE r = "applied"   -> {Selected}
                         [] r = "unchanged" -> db \cup {Selected}
                         [] r = "failed"    -> db
        BY <2>2 DEF Migrate, Op
      <3>2. oper \in [Ops -> {None, "applied", "unchanged", "failed"}]
        BY DEF IInv, Types
      <3>3. /\ oper'[x.op] = r /\ \A i \in Ops : i # x.op => oper'[i] = oper[i]
        BY <1>1, <3>1, <3>2
      <3>4. CASE r = "applied"
        BY <2>2, <3>1, <3>3, <3>4
      <3>5. CASE r = "unchanged"
        BY <2>2, <3>1, <3>3, <3>5
      <3>6. CASE r = "failed"
        BY <2>2, <3>1, <3>3, <3>6
      <3> QED
        BY <3>4, <3>5, <3>6
    <2> QED
      BY <2>1, <2>2
  <1>4. Selected = order[x.op].artifact
    BY <1>1 DEF Selected, IsUpdate, Op
  <1>5. x.op \in committed => oper' = oper /\ db' = db
    <2>1. x.op \in committed => oper[x.op] \in Migrated
      BY <1>1 DEF Alone, Operator
    <2>2. oper[x.op] = None => oper[x.op] \notin Migrated
      BY NoneIsAbsent DEF Migrated
    <2> QED
      BY <1>3, <2>1, <2>2
  <1>6. Document' /\ Last' /\ Quiet' /\ RollbackPairWasHealthy' /\ CommittedRollbackCompletes'
    BY <1>1, <1>2, OnwardA, SameHist DEF IInv, Types, Working
  <1>7. Operator'
    <2>1. committed \subseteq Ops
      BY DEF EInv, Histories
    <2>2. \A i \in Ops : order[i] # None /\ order[i].kind = "rollback" => oper'[i] = None
      BY <1>1, <1>3 DEF Alone, Operator
    <2>3. \A i \in committed : order[i].kind = "update" => oper'[i] \in Migrated
      BY <1>3, <1>5, <2>1 DEF Alone, Operator
    <2> QED
      BY <1>1, <1>2, <2>2, <2>3 DEF Alone, Operator, hist
  <1>8. Compatible'
    <2>1. Settled' => oper'[x.op] # "applied" \/ x.op \in committed
      BY <1>1 DEF Settled, hist
    <2>2. Settled' => Settled /\ db \subseteq db'
      BY <1>1, <1>3, <1>5, <2>1, NoneIsAbsent DEF Settled, hist
    <2>3. Settled' => store'.current \in db' /\ (store'.previous # None => store'.previous \in db')
      BY <1>1, <2>2 DEF Alone, Compatible
    <2>4. ASSUME NEW c \in Controllers, intent'[c] # None, intent'[c] \notin committed',
                 oper'[intent'[c]] \in Migrated
          PROVE  order'[intent'[c]].artifact \in db'
      <3>1. intent'[c] = x.op
        BY <1>1, Sole
      <3>2. CASE oper[x.op] # None
        BY <1>1, <1>3, <2>4, <3>1, <3>2 DEF Alone, Compatible, hist
      <3>3. CASE oper[x.op] = None
        BY <1>1, <1>3, <1>4, <2>4, <3>1, <3>3 DEF Migrated
      <3> QED
        BY <3>2, <3>3
    <2> QED
      BY <2>3, <2>4 DEF Compatible
  <1>9. Position'
    BY <1>1, <1>2 DEF Alone, Position, Working, Plain
  <1>10. Executing'
    <2>1. SUFFICES ASSUME ~leftover PROVE Executing'
      BY <1>1 DEF Executing, hist
    <2>2. ~(x.applied /\ store.fence = None) /\ ~x.replaced
      BY <1>1, <2>1, InCourse DEF Alone, Executing, EInv, Flags
    <2>3. x.op \in committed /\ oper'[x.op] = "applied" => ~Plain(x.op)
      BY <1>1, <1>5, <2>1, Repeated DEF Working
    <2> QED
      BY <1>1, <1>2, <2>2, <2>3 DEF Executing, hist, Plain
  <1>11. Accepted'
    <2>1. SUFFICES ASSUME ~leftover PROVE Accepted'
      BY <1>1 DEF Accepted, hist
    <2>2. \A c \in Controllers : intent[c] = x.op
      BY <1>1, Sole
    <2>3. x.op \in committed => order[x.op].kind = "update"
      BY <1>1
    <2> QED
      BY <1>1, <1>2, <1>5, <2>1, <2>2, <2>3, InCourse DEF Accepted, hist, Plain, Reported
  <1> QED
    BY <1>6, <1>7, <1>8, <1>9, <1>10, <1>11 DEF Alone

LEMMA DispatchFaultA == ASSUME IInv, EInv, Alone, OneController, DispatchFault PROVE Alone'
  <1>1. /\ x.at = "migrate" /\ x \in Performed /\ x.at \in Working
        /\ order[x.op].kind = "update"
        /\ UNCHANGED <<store, runtime, config, snaps, oper, db, order, status, intent, hist>>
    BY InHand DEF DispatchFault, At, Working, IInv, Prepared
  <1>2. CASE x' = [x EXCEPT !.at = "failed", !.code = "CONTROL_OUTCOME_UNKNOWN", !.unknown = TRUE]
    <2>1. /\ x'.at = "failed" /\ x'.code = "CONTROL_OUTCOME_UNKNOWN" /\ x'.op = x.op
          /\ x'.applied = x.applied /\ x'.replaced = x.replaced
      BY <1>1, <1>2 DEF Performed
    <2>2. ~x.replaced
      BY <1>1 DEF EInv, Flags
    <2> QED
      BY <1>1, <2>1, <2>2, WorkA
  <1>3. CASE \E code \in {"CONTROL_EXECUTION_UNAVAILABLE", "FAILED"} : Fail(code)
    BY <1>1, <1>3, SomeCodes, FailsA
  <1> QED
    BY <1>2, <1>3 DEF DispatchFault

(* The result of the operator, and what is written of it.                  *)
LEMMA ReceivedA ==
  ASSUME IInv, EInv, Alone, OneController, x.at = "receive",
         UNCHANGED <<runtime, config, snaps, oper, db, order, status, intent, hist>>,
         store' = store \/ store' = [store EXCEPT !.fence = Fence],
         x'.op = x.op, x'.replaced = x.replaced,
         x'.applied => x.applied \/ oper[x.op] = "applied",
         \/ x'.at = "failed" /\ x'.code \notin {"APPLIED", "RECOVERY_REQUIRED"}
         \/ /\ x'.at = "takedown" /\ oper[x.op] \in Migrated
            /\ x'.applied <=> oper[x.op] = "applied"
            /\ x'.applied => MigrationRecordable /\ store' = [store EXCEPT !.fence = Fence]
  PROVE  Alone'
  <1>1. /\ x.at \in Working /\ x.op \in Ops
        /\ order[x.op].kind = "update" /\ order[x.op] # None
    BY SomeOrder DEF Working, IInv, Prepared
  <1>2. /\ store'.current = store.current /\ store'.previous = store.previous
        /\ store'.snapshot = store.snapshot /\ store'.rev = store.rev
        /\ store'.active = store.active
        /\ store'.fence \in {store.fence, Fence}
        /\ store' = [store EXCEPT !.fence = Fence] => store'.fence = Fence
    BY DEF IInv, Types, Documents
  <1>3. /\ Fence.op = x.op /\ Fence.artifact = order[x.op].artifact
        /\ store'.fence # None => store'.fence.op = x.op
    <2>1. Fence.op = x.op /\ Fence.artifact = order[x.op].artifact
      BY <1>1 DEF Fence, Selected, IsUpdate, Op
    <2> QED
      BY <1>1, <1>2, <2>1 DEF IInv, Fenced
  <1>4. Fence # None
    BY <1>1, AtWork, SelectedType, NoneIsAbsent DEF Fence, Op
  <1>5. Document' /\ Last' /\ Quiet' /\ RollbackPairWasHealthy' /\ CommittedRollbackCompletes'
    BY <1>1, <1>2, OnwardA, SameHist DEF IInv, Types, Working
  <1>6. Compatible'
    BY <1>1, <1>2, SameData, SameHist
  <1>7. Accepted'
    <2>1. ~leftover /\ x.op \in committed /\ oper[x.op] = "applied" => ~Plain(x.op)
      BY <1>1, Repeated
    <2> QED
      BY <1>1, <1>2, <2>1, SameConfig, SameHist
  <1>8. Operator'
    <2>1. status[x.op] = "pending"
      BY <1>1, Sole
    <2>2. x'.at = "takedown" /\ oper[x.op] = "applied" => store'.fence # None
      BY <1>2, <1>4
    <2> QED
      BY <1>1, <1>2, <1>3, <2>1, <2>2 DEF Alone, Operator, hist
  <1>9. Position'
    BY <1>1 DEF Alone, Position, Working, Plain
  <1>10. Executing'
    <2>1. SUFFICES ASSUME ~leftover PROVE Executing'
      BY <1>1 DEF Executing, hist
    <2>2. ~(x.applied /\ store.fence = None) /\ ~x.replaced
      BY <1>1, <2>1, InCourse DEF Alone, Executing, EInv, Flags
    <2>3. x'.at = "takedown" /\ oper[x.op] = "applied" =>
            ~(x.op \in committed /\ ~Plain(x.op))
      BY <1>1, InCourse DEF MigrationRecordable, Op
    <2>4. x.op \in committed /\ oper[x.op] = "applied" => ~Plain(x.op)
      BY <1>1, <2>1, Repeated
    <2>5. x'.applied /\ store'.fence = None => x'.at = "failed" /\ oper[x.op] = "applied"
      BY <1>2, <1>4, <2>2
    <2>6. x'.applied /\ store'.fence = None /\ x.op \in committed => Agrees'
      BY <1>1, <1>2, <2>1, <2>4, <2>5, InCourse DEF Alone, Position, Working, Agrees, hist
    <2> QED
      BY <1>1, <2>1, <2>2, <2>3, <2>4, <2>5, <2>6 DEF Executing, hist, Plain
  <1> QED
    BY <1>5, <1>6, <1>7, <1>8, <1>9, <1>10 DEF Alone

LEMMA ReceiveA == ASSUME IInv, EInv, Alone, OneController, Receive PROVE Alone'
  <1>1. /\ x.at = "receive"
        /\ UNCHANGED <<runtime, config, snaps, oper, db, order, status, intent, hist>>
    BY DEF Receive, At
  <1> QED
    BY <1>1, Received, ReceivedA DEF Migrated

LEMMA ReceiveFaultA == ASSUME IInv, EInv, Alone, OneController, ReceiveFault PROVE Alone'
  <1>1. /\ x.at = "receive" /\ x.at \in Working /\ x \in Performed
        /\ order[x.op].kind = "update"
        /\ UNCHANGED <<runtime, config, snaps, oper, db, order, status, intent, hist>>
    BY InHand DEF ReceiveFault, At, Working, IInv, Prepared
  <1>2. CASE Fail("CONTROL_OUTCOME_UNKNOWN") /\ UNCHANGED store
    BY <1>1, <1>2, SomeCodes, FailsA
  <1>3. CASE /\ oper[Op] = "applied"
             /\ store' \in {store, [store EXCEPT !.fence = Fence]}
             /\ x' = [x EXCEPT !.at = "failed", !.code = "FAILED", !.unknown = FALSE,
                               !.applied = TRUE, !.result = TRUE]
    <2>1. /\ x'.at = "failed" /\ x'.code = "FAILED" /\ x'.op = x.op
          /\ x'.replaced = x.replaced
      BY <1>1, <1>3 DEF Performed
    <2> QED
      BY <1>1, <1>3, <2>1, ReceivedA DEF Op
  <1> QED
    BY <1>2, <1>3 DEF ReceiveFault

(* Steps that replace the object.                                          *)
LEMMA TakeDownA == ASSUME IInv, EInv, Alone, OneController, TakeDown PROVE Alone'
  <1>1. /\ x.at = "takedown" /\ x \in Performed /\ x.at \in Working
        /\ UNCHANGED <<store, snaps, oper, db, order, status, intent, hist, config>>
    BY InHand DEF TakeDown, At, Working
  <1>2. ~leftover => ~(x.op \in committed /\ oper[x.op] = "applied")
    BY <1>1, Repeated
  <1>3. CASE ~ReplacementRequired /\ UNCHANGED runtime /\ Goto("check")
    <2>1. x'.at = "check" /\ Kept
      BY <1>1, <1>3, GotoKeeps, SomeCodes DEF Working
    <2>2. Plain(x.op)
      BY <1>1, <1>3, KeepsObject
    <2>3. ~leftover => runtime.loaded \in {config, None}
      BY <1>1, <2>2, InCourse
    <2> QED
      BY <1>1, <1>2, <1>3, <2>1, <2>3, WorkA DEF Kept, Working
  <1>4. CASE /\ runtime'.loaded = None
             /\ x' = [x EXCEPT !.at = "putup", !.replaced = TRUE]
    <2>1. /\ x'.at = "putup" /\ x'.op = x.op /\ x'.applied = x.applied
          /\ x'.unknown = x.unknown
      BY <1>1, <1>4 DEF Performed
    <2> QED
      BY <1>1, <1>2, <1>4, <2>1, WorkA DEF Working
  <1>5. CASE /\ UNCHANGED runtime
             /\ x' = [x EXCEPT !.at = "failed", !.code = "FAILED", !.replaced = TRUE]
    <2>1. /\ x'.at = "failed" /\ x'.code = "FAILED" /\ x'.op = x.op /\ x'.applied = x.applied
          /\ x'.unknown = x.unknown
      BY <1>1, <1>5 DEF Performed
    <2> QED
      BY <1>1, <1>2, <1>5, <2>1, WorkA DEF Failed
  <1>6. \A a : runtime' = [runtime EXCEPT !.loaded = None, !.art = a] => runtime'.loaded = None
    BY DEF IInv, Types, Objects
  <1> QED
    BY <1>3, <1>4, <1>5, <1>6 DEF TakeDown

LEMMA TakeDownFaultA == ASSUME IInv, EInv, Alone, OneController, TakeDownFault PROVE Alone'
  <1>1. /\ x.at = "takedown" /\ x \in Performed /\ x.at \in Working
        /\ UNCHANGED <<store, snaps, oper, db, order, status, intent, hist, config>>
    BY InHand DEF TakeDownFault, At, Working
  <1>2. ~leftover => ~(x.op \in committed /\ oper[x.op] = "applied")
    BY <1>1, Repeated
  <1>3. CASE UNCHANGED runtime /\ Fail("FAILED")
    BY <1>1, <1>3, SomeCodes, FailsA DEF Failed
  <1>4. CASE /\ runtime' = runtime \/ runtime'.loaded = None
             /\ x' = [x EXCEPT !.at = "failed", !.code = "FAILED", !.replaced = TRUE]
    <2>1. /\ x'.at = "failed" /\ x'.code = "FAILED" /\ x'.op = x.op /\ x'.applied = x.applied
          /\ x'.unknown = x.unknown
      BY <1>1, <1>4 DEF Performed
    <2> QED
      BY <1>1, <1>2, <1>4, <2>1, WorkA DEF Failed
  <1>5. runtime' = [runtime EXCEPT !.loaded = None] => runtime'.loaded = None
    BY DEF IInv, Types, Objects
  <1> QED
    BY <1>3, <1>4, <1>5 DEF TakeDownFault

LEMMA PutUpA == ASSUME IInv, EInv, Alone, OneController, PutUp PROVE Alone'
  <1>1. /\ x.at = "putup" /\ x \in Performed /\ x.at \in Working
        /\ UNCHANGED <<store, snaps, oper, db, order, status, intent, hist, config>>
    BY InHand DEF PutUp, At, Working
  <1>2. ~leftover => ~(x.op \in committed /\ oper[x.op] = "applied")
    BY <1>1, Repeated
  <1>3. x'.at = "start" /\ Kept
    BY <1>1, GotoKeeps, SomeCodes DEF PutUp, Working
  <1>4. runtime'.loaded = runtime.loaded
    BY DEF PutUp, IInv, Types, Objects
  <1>5. ~leftover /\ Plain(x.op) => runtime.loaded \in {config, None}
    BY <1>1, InCourse
  <1> QED
    BY <1>1, <1>2, <1>3, <1>4, <1>5, WorkA DEF Kept, Working

LEMMA StartA == ASSUME IInv, EInv, Alone, OneController, Start PROVE Alone'
  <1>1. /\ x.at = "start" /\ x \in Performed /\ x.at \in Working
        /\ UNCHANGED <<store, snaps, oper, db, order, status, intent, hist, config>>
    BY InHand DEF Start, At, Working
  <1>2. ~leftover => ~(x.op \in committed /\ oper[x.op] = "applied")
    BY <1>1, Repeated
  <1>3. x'.at = "check" /\ Kept
    BY <1>1, GotoKeeps, SomeCodes DEF Start, Working
  <1>4. runtime'.loaded = config
    BY DEF Start, IInv, Types, Objects
  <1> QED
    BY <1>1, <1>2, <1>3, <1>4, WorkA DEF Kept, Working

LEMMA ActivationFaultA == ASSUME IInv, EInv, Alone, OneController, ActivationFault PROVE Alone'
  BY FailsA, SomeCodes DEF ActivationFault, At, Working, Failed

LEMMA CheckA == ASSUME IInv, EInv, Alone, OneController, Check PROVE Alone'
  <1>1. /\ x.at = "check" /\ x \in Performed /\ x.at \in Working
        /\ UNCHANGED <<store, snaps, oper, db, order, status, intent, hist, config, runtime>>
    BY InHand DEF Check, At, Working
  <1>2. CASE Fail("FAILED")
    BY <1>1, <1>2, SomeCodes, FailsA DEF Failed
  <1>3. CASE runtime.art = Selected /\ Goto("commit")
    <2>1. x'.at = "commit" /\ Kept
      BY <1>1, <1>3, GotoKeeps, SomeCodes DEF Working
    <2>2. ~leftover => /\ runtime.loaded \in {config, None}
                       /\ ~(x.op \in committed /\ oper[x.op] = "applied")
      BY <1>1, InCourse, Repeated DEF Alone, Executing
    <2> QED
      BY <1>1, <1>3, <2>1, <2>2, WorkA DEF Kept, Working
  <1> QED
    BY <1>2, <1>3 DEF Check

LEMMA NotReadyA == ASSUME IInv, EInv, Alone, OneController, NotReady PROVE Alone'
  <1>1. /\ x.at = "check" /\ x.at \in Working
        /\ UNCHANGED <<store, snaps, oper, db, order, status, intent, hist, config>>
    BY DEF NotReady, At, Working
  <1>2. runtime'.loaded \in {runtime.loaded, None}
    <2>1. PICK l \in {runtime.loaded, None} : runtime' = [runtime EXCEPT !.loaded = l]
      BY DEF NotReady
    <2> QED
      BY <2>1 DEF IInv, Types, Objects
  <1> QED
    BY <1>1, <1>2, SomeCodes, FailsA DEF NotReady, Failed

(* What a commit writes into the document.                                 *)
LEMMA Commits ==
  ASSUME IInv, x.at = "commit", ~CommitRefused,
         store' = IF IsUpdate THEN UpdatedStore ELSE RolledBackStore
  PROVE  /\ store.rev = order[x.op].rev
         /\ store'.active = x.op /\ store'.current = Selected /\ store'.fence = None
         /\ Plain(x.op) => store'.rev = store.rev
         /\ ~Plain(x.op) => store'.rev # store.rev
         /\ \/ store'.previous = None
            \/ /\ store'.previous = store.current /\ store'.snapshot = x.op
               /\ store.fence = None
            \/ /\ store'.previous = store.previous /\ store'.snapshot = store.snapshot
               /\ store.fence = None /\ IsUpdate
  <1>1. /\ store \in Documents /\ order[x.op].kind \in {"update", "rollback"}
        /\ store.rev = order[x.op].rev /\ store.rev \in Nat
    BY SomeOrder DEF CommitRefused, Op, IInv, Types, Documents
  <1>2. CASE IsUpdate
    <2> DEFINE changed == order[x.op].artifact # store.current
                            \/ order[x.op].config # None
               keeps == x.live = store.current /\ store.fence = None
               lineage == CASE changed /\ keeps  -> <<store.current, x.op>>
                 [] changed /\ ~keeps -> <<None, None>>
                 [] ~changed /\ store.fence # None -> <<None, None>>
                 [] OTHER -> <<store.previous, store.snapshot>>
    <2>1. store' = [store EXCEPT
                  !.current  = order[x.op].artifact,
                  !.previous = lineage[1],
                  !.snapshot = lineage[2],
                  !.fence    = None,
                  !.rev      = IF order[x.op].config = None THEN @ ELSE @ + 1,
                  !.schema   = IF order[x.op].config = None THEN @
                               ELSE SchemaOf[order[x.op].config],
                  !.active   = x.op]
      BY <1>2 DEF UpdatedStore, Op
    <2>2. \/ lineage[1] = None
          \/ lineage[1] = store.current /\ lineage[2] = x.op /\ store.fence = None
          \/ /\ lineage[1] = store.previous /\ lineage[2] = store.snapshot
             /\ store.fence = None
      <3>1. CASE changed /\ keeps
        BY <3>1
      <3>2. CASE changed /\ ~keeps
        BY <3>2
      <3>3. CASE ~changed /\ store.fence # None
        BY <3>3
      <3>4. CASE ~changed /\ store.fence = None
        BY <3>4
      <3> QED
        BY <3>1, <3>2, <3>3, <3>4
    <2> HIDE DEF lineage
    <2>3. /\ store'.active = x.op /\ store'.current = order[x.op].artifact /\ store'.fence = None
          /\ store'.previous = lineage[1] /\ store'.snapshot = lineage[2]
          /\ store'.rev = IF order[x.op].config = None THEN store.rev ELSE store.rev + 1
      BY <1>1, <2>1 DEF Documents
    <2>4. Selected = order[x.op].artifact /\ (Plain(x.op) <=> order[x.op].config = None)
      BY <1>2 DEF Selected, IsUpdate, Plain, Op
    <2> QED
      BY <1>1, <1>2, <2>2, <2>3, <2>4
  <1>3. CASE ~IsUpdate
    <2>1. /\ store'.active = x.op /\ store'.current = store.previous
          /\ store'.fence = store.fence /\ store'.rev = store.rev + 1
          /\ store'.previous = store.current /\ store'.snapshot = x.op
      BY <1>1, <1>3 DEF RolledBackStore, Documents, Op
    <2>2. Selected = store.previous /\ ~Plain(x.op) /\ store.fence = None
      BY <1>3 DEF Selected, IsUpdate, Plain, Op, CommitRefused
    <2> QED
      BY <1>1, <2>1, <2>2
  <1> QED
    BY <1>2, <1>3

(* The commit proper, whether it is acknowledged or reported as failed.    *)
LEMMA CommittedA ==
  ASSUME IInv, EInv, Alone, OneController, x.at = "commit", x.op \in Ops,
         store.active # x.op, ~CommitRefused,
         store' = IF IsUpdate THEN UpdatedStore ELSE RolledBackStore, Kept,
         \/ x'.at = "answer" /\ x'.code = "APPLIED"
         \/ x'.at = "failed" /\ x'.code = "FAILED" /\ x.op \in misreported',
         UNCHANGED <<kind, runtime, config, snaps, oper, db, order, status, intent,
                     before, resumed, leftover>>,
         committed' = committed \cup {x.op}, misreported \ {x.op} \subseteq misreported',
         gen' = [art |-> runtime.art, cfg |-> config], healthy' = healthy \cup {gen'}
  PROVE  Alone'
  <1>1. /\ x.op \notin committed /\ status[x.op] = "pending" /\ x'.op = x.op
        /\ \A c \in Controllers : intent[c] = x.op
        /\ order[x.op] # None /\ order[x.op].kind \in {"update", "rollback"}
        /\ committed \subseteq Ops
    BY SomeOrder, Sole, InCourse DEF Kept, EInv, Histories
  <1>2. runtime.art = Selected /\ store'.current = runtime.art /\ store'.fence = None
        /\ store'.active = x.op
    BY Commits DEF Alone, Position
  <1>3. /\ order[x.op].kind = "update" =>
             /\ oper[x.op] \in Migrated
             /\ oper[x.op] = "applied" => store.fence # None /\ x.applied
        /\ order[x.op].kind = "rollback" =>
             oper[x.op] = None /\ ~x.applied /\ ~x.unknown
    BY <1>1 DEF Alone, Operator
  <1>4. Operator'
    <2>1. \A i \in committed' : order[i].kind = "update" => oper[i] \in Migrated
      BY <1>3 DEF Alone, Operator
    <2> QED
      BY <1>1, <1>2, <1>3, <2>1 DEF Alone, Operator, Kept, Failed
  <1>5. Document' /\ Position' /\ Quiet'
    BY <1>2 DEF Document, Position, Quiet, Working
  <1>6. Last'
    <2>1. order[x.op].kind = "update" => Selected = order[x.op].artifact
      BY DEF Selected, IsUpdate, Op
    <2>2. order[x.op].kind = "update" /\ ~Plain(x.op) => config = order[x.op].config
      BY DEF Alone, Position, Working
    <2>3. (Plain(x.op) => store'.rev = order[x.op].rev) /\ (~Plain(x.op) => store'.rev # order[x.op].rev)
      BY Commits
    <2>4. gen'.cfg = config /\ (Plain(x.op)' <=> Plain(x.op))
      BY <1>1 DEF Plain
    <2> QED
      BY <1>1, <1>2, <2>1, <2>2, <2>3, <2>4 DEF Last, Working
  <1>7. ~leftover => runtime.loaded \in {config, None}
    BY InCourse DEF Alone, Executing
  <1>8. Accepted' /\ Executing'
    <2>1. ~leftover => Agrees'
      BY <1>2, <1>7 DEF Agrees
    <2>2. Accepted'
      BY <1>1, <1>2, <1>7 DEF Accepted
    <2>3. Executing'
      <3>1. oper[x.op] = "applied" => x.applied
        BY <1>1, <1>3, NoneIsAbsent
      <3> QED
        BY <1>1, <1>2, <1>7, <2>1, <3>1 DEF Executing, Kept, Working
    <2> QED
      BY <2>2, <2>3
  <1>9. RollbackPairWasHealthy'
    <2>1. SUFFICES ASSUME ~leftover, store'.previous # None
          PROVE  /\ store'.snapshot # None /\ snaps[store'.snapshot] # None
                 /\ [art |-> store'.previous, cfg |-> snaps[store'.snapshot].bytes] \in healthy'
      BY DEF RollbackPairWasHealthy
    <2>2. CASE store'.previous = store.current /\ store'.snapshot = x.op
      <3>1. snaps[x.op] # None /\ x.op # None
        BY <1>1, AtWork, NoneIsAbsent DEF Working
      <3>2. snaps[x.op].bytes = gen.cfg
        BY <1>1, <2>1, <3>1, InCourse
      <3>3. gen = [art |-> store.current, cfg |-> gen.cfg] /\ gen \in healthy
        BY DEF EInv, Histories, Pairs, Alone, Document
      <3> QED
        BY <2>2, <3>1, <3>2, <3>3
    <2>3. CASE store'.previous = store.previous /\ store'.snapshot = store.snapshot
      BY <2>1, <2>3 DEF Alone, RollbackPairWasHealthy
    <2> QED
      BY <2>1, <2>2, <2>3, Commits
  <1>10. Compatible'
    <2>1. SUFFICES ASSUME Settled'
          PROVE  store'.current \in db /\ (store'.previous # None => store'.previous \in db)
      BY <1>1 DEF Compatible
    <2>2. store.fence = None => Settled
      BY <1>1, <1>3, <2>1, NoneIsAbsent DEF Settled
    <2>3. order[x.op].kind = "rollback" => store.fence = None
      BY DEF CommitRefused, IsUpdate, Op
    <2>4. order[x.op].kind = "update" => store'.current \in db
      BY <1>1, <1>2, <1>3, SomeOrder, Sole DEF Alone, Compatible, Selected, IsUpdate, Op
    <2>5. order[x.op].kind = "rollback" => store'.current = store.previous /\ store.previous # None
      BY <1>2 DEF Selected, IsUpdate, Op, CommitRefused
    <2>6. store.fence = None => store.current \in db /\ (store.previous # None => store.previous \in db)
      BY <2>2 DEF Alone, Compatible
    <2> QED
      BY <1>1, <2>3, <2>4, <2>5, <2>6, Commits
  <1>11. CommittedRollbackCompletes'
    BY <1>1 DEF Alone, CommittedRollbackCompletes
  <1> QED
    BY <1>4, <1>5, <1>6, <1>8, <1>9, <1>10, <1>11 DEF Alone

LEMMA CommitA == ASSUME IInv, EInv, Alone, OneController, Commit PROVE Alone'
  <1>1. /\ x.at = "commit" /\ x \in Performed /\ x.at \in Working /\ x.op \in Ops
        /\ UNCHANGED <<kind, runtime, config, snaps, oper, db, order, status, intent,
                       before, resumed, leftover>>
    BY InHand DEF Commit, AtCommit, Working
  <1>2. CASE Fail("FAILED") /\ UNCHANGED <<store, committed, misreported, gen, healthy>>
    <2>1. UNCHANGED hist
      BY <1>1, <1>2 DEF hist
    <2> QED
      BY <1>1, <1>2, <2>1, SomeCodes, FailsA DEF Failed
  <1>3. CASE /\ store.active = Op /\ Finish("APPLIED")
             /\ UNCHANGED <<store, committed, misreported, gen, healthy>>
    <2>1. x'.at = "answer" /\ x'.code = "APPLIED" /\ Kept /\ UNCHANGED hist
      BY <1>1, <1>3, FinishKeeps, SomeCodes DEF hist
    <2>2. Document' /\ Last' /\ Quiet' /\ RollbackPairWasHealthy' /\ CommittedRollbackCompletes'
      BY <1>1, <1>3, <2>1, OnwardA, SameHist DEF IInv, Types, Kept, Working
    <2>3. Compatible' /\ Accepted' /\ Operator'
      BY <1>1, <1>3, <2>1, SameData, SameConfig, SameOperator, SameHist DEF Kept
    <2>4. Position'
      BY <2>1 DEF Position, Working
    <2>5. x.op \in committed /\ x.op # None
      BY <1>1, <1>3, Sole DEF Op, Alone, Document
    <2>6. Executing'
      <3>1. SUFFICES ASSUME ~leftover PROVE Agrees
        BY <1>1, <1>3, <2>1 DEF Executing, Agrees
      <3>2. order[x.op].kind = "update" /\ order[x.op].artifact = store.current
        BY <1>1, <2>5, InCourse, SomeOrder
      <3>3. runtime.art = store.current
        BY <1>1, <3>2 DEF Alone, Position, Selected, IsUpdate, Op
      <3>4. config = gen.cfg
        BY <1>1, <2>5, <3>1, <3>2, InCourse DEF Alone, Position, Working
      <3>5. runtime.loaded \in {config, None}
        BY <1>1, <3>1, InCourse DEF Alone, Executing
      <3> QED
        BY <3>3, <3>4, <3>5 DEF Agrees
    <2> QED
      BY <2>2, <2>3, <2>4, <2>6 DEF Alone
  <1>4. CASE /\ store.active # Op /\ ~CommitRefused /\ Finish("APPLIED")
             /\ CommitGeneration /\ misreported' = misreported \ {Op}
    <2>1. x'.at = "answer" /\ x'.code = "APPLIED" /\ Kept
      BY <1>1, <1>4, FinishKeeps, SomeCodes
    <2> QED
      BY <1>1, <1>4, <2>1, CommittedA DEF CommitGeneration, Op
  <1> QED
    BY <1>2, <1>3, <1>4 DEF Commit

LEMMA CommitFaultA == ASSUME IInv, EInv, Alone, OneController, CommitFault PROVE Alone'
  <1>1. /\ x.at = "commit" /\ x \in Performed /\ x.at \in Working /\ x.op \in Ops
        /\ Fail("FAILED")
        /\ UNCHANGED <<kind, runtime, config, snaps, oper, db, order, status, intent,
                       before, resumed, leftover>>
    BY InHand DEF CommitFault, AtCommit, Working
  <1>2. CASE UNCHANGED <<store, committed, misreported, gen, healthy>>
    <2>1. UNCHANGED hist
      BY <1>1, <1>2 DEF hist
    <2> QED
      BY <1>1, <1>2, <2>1, SomeCodes, FailsA DEF Failed
  <1>3. CASE /\ store.active # Op /\ ~CommitRefused
             /\ CommitGeneration /\ misreported' = misreported \cup {Op}
    <2>1. x'.at = "failed" /\ x'.code = "FAILED" /\ Kept
      BY <1>1, FailKeeps, SomeCodes
    <2> QED
      BY <1>1, <1>3, <2>1, CommittedA DEF CommitGeneration, Op
  <1> QED
    BY <1>2, <1>3 DEF CommitFault

(* The two ways to fail.                                                   *)
LEMMA KeepWriterStoppedA ==
  ASSUME IInv, EInv, Alone, OneController, KeepWriterStopped PROVE Alone'
  <1>1. /\ x.at = "failed" /\ x \in Performed
        /\ UNCHANGED <<store, config, snaps, oper, db, order, status, intent, hist>>
    BY InHand DEF KeepWriterStopped, At
  <1>2. /\ x'.at = "answer" /\ Kept
        /\ x'.code \in {"CONTROL_OUTCOME_UNKNOWN", "RECOVERY_REQUIRED",
                        "ROLLBACK_RECOVERY_REQUIRED"}
        /\ x'.code = "RECOVERY_REQUIRED" => x.applied
    <2> DEFINE code == IF ~x.applied THEN "CONTROL_OUTCOME_UNKNOWN"
                       ELSE IF x.result THEN "RECOVERY_REQUIRED"
                       ELSE "ROLLBACK_RECOVERY_REQUIRED"
    <2>1. Finish(code) /\ code \in Codes
      BY SomeCodes DEF KeepWriterStopped
    <2> QED
      BY <1>1, <2>1, FinishKeeps
  <1>3. order[x.op].kind = "update"
    BY <1>1, SomeOrder DEF KeepWriterStopped, Alone, Operator
  <1>4. runtime' = runtime \/ (runtime'.art = runtime.art /\ runtime'.loaded = None)
    BY DEF KeepWriterStopped, IInv, Types, Objects
  <1>5. Document' /\ Last' /\ Quiet' /\ RollbackPairWasHealthy' /\ CommittedRollbackCompletes'
    BY <1>1, <1>2, OnwardA, SameHist DEF IInv, Types, Kept, Working
  <1>6. Compatible' /\ Operator'
    BY <1>1, <1>2, <1>3, SameData, SameOperator, SameHist DEF Kept
  <1>7. Position'
    BY <1>2 DEF Position, Working
  <1>8. Accepted'
    <2>1. SUFFICES ASSUME ~leftover PROVE Accepted'
      BY <1>1 DEF Accepted, hist
    <2>2. \A c \in Controllers : intent[c] = x.op
      BY <1>1, Sole
    <2> QED
      BY <1>1, <1>3, <1>4, <2>1, <2>2, InCourse DEF Accepted, hist, Plain, Reported
  <1>9. Executing'
    <2>1. SUFFICES ASSUME ~leftover, store.fence = None, x.applied, x.op \in committed
                   PROVE  Agrees'
      BY <1>1, <1>2 DEF Executing, hist, Kept
    <2>2. Agrees
      BY <1>1, <2>1, InCourse DEF Alone, Executing
    <2> QED
      BY <1>1, <1>4, <2>2 DEF Agrees, hist
  <1> QED
    BY <1>5, <1>6, <1>7, <1>8, <1>9 DEF Alone

LEMMA UndoConfigA == ASSUME IInv, EInv, Alone, OneController, UndoConfig PROVE Alone'
  <1>1. /\ x.at = "failed" /\ x \in Performed /\ ~x.applied /\ ~x.unknown
        /\ UNCHANGED <<store, runtime, snaps, oper, db, order, status, intent, hist>>
    BY InHand DEF UndoConfig, At
  <1>2. /\ x'.at = "undo" /\ x'.op = x.op /\ x'.applied = x.applied /\ x'.unknown = x.unknown
        /\ x'.replaced = x.replaced /\ x'.code = x.code
        /\ config' = config \/ x.wrote
    <2>1. CASE Goto("undo") /\ config' = (IF x.wrote THEN snaps[x.op].bytes ELSE config)
      BY <1>1, <2>1, GotoKeeps, SomeCodes DEF Kept
    <2>2. CASE x.wrote /\ x' = [x EXCEPT !.at = "undo", !.undo = "fault"]
      BY <1>1, <2>2 DEF Performed
    <2> QED
      BY <2>1, <2>2 DEF UndoConfig, Op
  <1>3. Document' /\ Last' /\ Quiet' /\ RollbackPairWasHealthy' /\ CommittedRollbackCompletes'
    BY <1>1, <1>2, OnwardA, SameHist DEF IInv, Types, Working
  <1>4. Compatible'
    BY <1>1, SameData, SameHist
  <1>5. Operator'
    <2>1. order[x.op].kind = "rollback" => x.code \in Failed \cup {"APPLIED", "PRIVILEGE_REQUIRED"}
      BY <1>1 DEF Alone, Operator
    <2> QED
      BY <1>1, <1>2, <2>1, SameOperator, SameHist
  <1>6. Position'
    BY <1>1, <1>2 DEF Alone, Position, Working
  <1>7. Accepted'
    <2>1. x.wrote => ~Plain(x.op) /\ snaps[x.op] \in Copies
      BY <1>1 DEF EInv, Flags, IInv, Prepared
    <2> QED
      BY <1>1, <1>2, <2>1, Reconfigures, SameHist
  <1>8. Executing'
    <2>1. SUFFICES ASSUME ~leftover PROVE Executing'
      BY <1>1 DEF Executing, hist
    <2>2. x.op \in committed /\ oper[x.op] = "applied" => ~x.replaced
      BY <1>1, <2>1, Repeated
    <2> QED
      BY <1>1, <1>2, <2>1, <2>2 DEF Executing, hist, Plain, Working
  <1> QED
    BY <1>3, <1>4, <1>5, <1>6, <1>7, <1>8 DEF Alone

LEMMA UndoRuntimeA == ASSUME IInv, EInv, Alone, OneController, UndoRuntime PROVE Alone'
  <1>1. /\ x.at = "undo" /\ x \in Performed
        /\ UNCHANGED <<kind, store, config, snaps, oper, db, order, status, intent, hist>>
    BY InHand DEF UndoRuntime, At
  <1>2. /\ x'.at = "answer" /\ x'.op = x.op /\ x'.code \in {x.code, "FAILED"}
        /\ x'.applied = x.applied /\ x'.unknown = x.unknown
    <2>1. PICK how \in {"clean", "refused", "fault"} : Undone(how)
      BY DEF UndoRuntime
    <2> DEFINE u == IF x.undo = "clean" THEN how ELSE x.undo
               k == IF x.code = "MIGRATION_FAILED" /\ u # "clean" THEN "FAILED" ELSE x.code
    <2>2. x' = [x EXCEPT !.at = "answer", !.undo = u, !.code = k]
      BY <2>1 DEF Undone
    <2> QED
      BY <1>1, <2>2 DEF Performed
  <1>3. runtime' = runtime \/ (x.replaced /\ runtime'.loaded \in {runtime.loaded, config, None})
    BY DEF UndoRuntime, HalfUndone
  <1>4. Document' /\ Last' /\ Quiet' /\ RollbackPairWasHealthy' /\ CommittedRollbackCompletes'
    BY <1>1, <1>2, OnwardA, SameHist DEF IInv, Types, Working
  <1>5. Compatible'
    BY <1>1, SameData, SameHist
  <1>6. Operator'
    <2>1. order[x.op].kind = "rollback" => x.code \in Failed \cup {"APPLIED", "PRIVILEGE_REQUIRED"}
      BY <1>1 DEF Alone, Operator
    <2> QED
      BY <1>1, <1>2, <2>1, SameOperator, SameHist DEF Failed
  <1>7. x'.code \notin {"APPLIED", "NOOP", "RECOVERY_REQUIRED"}
    BY <1>1, <1>2 DEF Alone, Position, EInv, Flags
  <1>8. Position' /\ Executing'
    BY <1>2, <1>7 DEF Position, Executing, Working
  <1>9. Accepted'
    <2>1. ~leftover => ~(x.op \in committed /\ oper[x.op] = "applied" /\ x.replaced)
      BY <1>1, Repeated
    <2>2. ~leftover /\ Plain(x.op) => config = gen.cfg /\ runtime.loaded \in {gen.cfg, None}
      BY <1>1, InCourse
    <2> QED
      BY <1>1, <1>3, <2>1, <2>2, SameConfig, SameHist
  <1> QED
    BY <1>4, <1>5, <1>6, <1>8, <1>9 DEF Alone

(* Between two executions.                                                 *)
LEMMA IdleA ==
  ASSUME x' = Idle
  PROVE  Position' /\ Executing'
  BY DEF Idle, Position, Executing, Working

(* The codes of an answer.                                                 *)
LEMMA Answers ==
  ASSUME x.code \in Codes
  PROVE  \/ /\ x.code \in {"APPLIED", "RECOVERY_REQUIRED"} /\ StatusAfter(x.code) = "completed"
         \/ x.code = "NOOP" /\ StatusAfter(x.code) = "absent"
         \/ x.code \in Failed /\ StatusAfter(x.code) = "failed"
         \/ x.code = "MIGRATION_FAILED" /\ StatusAfter(x.code) = "completed"
         \/ x.code = "PRIVILEGE_REQUIRED" /\ StatusAfter(x.code) = "pending"
         \/ /\ x.code \in {"CONTROL_EXECUTION_UNAVAILABLE", "CONTROL_OUTCOME_UNKNOWN"}
            /\ StatusAfter(x.code) = "pending"
  BY DEF Codes, Pending, Completed, Failed, StatusAfter

LEMMA ConcludeA ==
  ASSUME IInv, EInv, Alone, OneController, Answer \/ AnswerLost
  PROVE  Alone'
  <1>1. /\ x.at = "answer" /\ x.code \in Codes /\ x' = Idle /\ x'.at = "idle"
        /\ status' = [status EXCEPT ![x.op] = StatusAfter(x.code)]
        /\ leftover' = (leftover \/ LeavesEffects)
        /\ IF StatusAfter(x.code) = "pending" THEN UNCHANGED <<before, resumed>>
           ELSE before' = [before EXCEPT ![x.op] = None] /\ resumed' = resumed \ {x.op}
        /\ UNCHANGED <<store, runtime, config, snaps, oper, db, order, committed, misreported,
                       gen, healthy>>
    BY DEF Answer, AnswerLost, Conclude, Op, IInv, Coded, Idle
  <1>2. /\ x.op \in Ops /\ x.op # None /\ order[x.op] # None /\ status[x.op] = "pending"
        /\ order[x.op].kind \in {"update", "rollback"}
        /\ x.by \in Controllers /\ \A c \in Controllers : intent[c] = x.op
    BY <1>1, Sole, SomeOrder
  <1>3. \A c \in Controllers : intent'[c] \in {x.op, None}
    BY <1>2 DEF Answer, AnswerLost, Hear, IInv, Types
  <1>4. order[x.op].kind = "update"
           /\ x.code \in {"CONTROL_EXECUTION_UNAVAILABLE", "CONTROL_OUTCOME_UNKNOWN"}
        => intent' = intent
    BY DEF Answer, AnswerLost, Hear, ClearsIntent, Op
  <1>5. /\ status'[x.op] = StatusAfter(x.code) /\ \A i \in Ops : i # x.op => status'[i] = status[i]
    BY <1>1, <1>2 DEF IInv, Types
  <1>6. x.op \in committed /\ Reported(x.op) => status'[x.op] = "completed"
    <2>1. x.op \in committed /\ Reported(x.op) => x.code = "APPLIED"
      BY <1>1, <1>2 DEF Alone, Last, Reported
    <2> QED
      BY <1>1, <1>5, <2>1, Answers DEF Failed
  <1>7. Operator'
    <2>1. store.fence # None => status'[store.fence.op] # "absent"
      <3>1. SUFFICES ASSUME store.fence # None PROVE status'[store.fence.op] # "absent"
        OBVIOUS
      <3>2. store.fence.op \in Ops /\ status[store.fence.op] # "absent"
        BY <3>1 DEF IInv, Types, Documents, Alone, Operator
      <3>3. StatusAfter(x.code) # "absent"
        BY <1>1, <3>1, Answers DEF Alone, Position
      <3> QED
        BY <1>5, <3>2, <3>3
    <2> QED
      BY <1>1, <2>1 DEF Alone, Operator
  <1>8. Document'
    BY <1>1 DEF Alone, Document
  <1>9. Last'
    BY <1>1, <1>2, <1>3, <1>6 DEF Alone, Last, Plain, Reported, Working
  <1>10. Quiet'
    <2>1. SUFFICES ASSUME ~leftover, ~LeavesEffects, store.fence = None,
                          \A c \in Controllers : intent'[c] # None => status'[intent'[c]] # "pending"
          PROVE  Agrees
      BY <1>1 DEF Quiet, Agrees
    <2>2. Mine(x.op)
      BY <2>1 DEF Mine
    <2>3. CASE x.code \in {"APPLIED", "NOOP", "RECOVERY_REQUIRED"}
      <3>1. x.code = "APPLIED" => order[x.op].kind = "update" \/ Reported(x.op)
        BY <1>2, <2>1 DEF LeavesEffects, IsUpdate, Op, Reported
      <3>2. x.code = "RECOVERY_REQUIRED" => x.op \in committed
        <4>1. SUFFICES ASSUME x.code = "RECOVERY_REQUIRED", x.op \notin committed
              PROVE  store.fence # Fence
          BY <2>1 DEF LeavesEffects, Op
        <4>2. order[x.op].kind = "update"
          BY <1>1, <1>2, <4>1 DEF Alone, Operator, Failed
        <4>3. Fence \in [op : Ops, artifact : Artifacts]
          BY <1>2, <4>2, SomeOrder, <1>1 DEF Fence, Selected, IsUpdate, Op
        <4> QED
          BY <2>1, <4>3, NoneIsAbsent
      <3> QED
        BY <1>1, <2>1, <2>2, <2>3, <3>1, <3>2 DEF Alone, Executing
    <2>4. CASE x.code \in Failed \cup {"MIGRATION_FAILED", "PRIVILEGE_REQUIRED"}
      <3>1. Restored /\ x.op \notin committed
        BY <2>1, <2>4 DEF LeavesEffects, Op
      <3>2. /\ before[x.op].art = store.current /\ before[x.op].cfg = gen.cfg
            /\ before[x.op].loaded \in {gen.cfg, None}
        BY <1>2, <2>1, <2>2, <3>1 DEF Alone, Accepted
      <3> QED
        BY <3>1, <3>2 DEF Restored, Running, Agrees, Op
    <2>5. CASE x.code \in {"CONTROL_EXECUTION_UNAVAILABLE", "CONTROL_OUTCOME_UNKNOWN"}
      <3>1. order[x.op].kind = "update"
        BY <1>1, <1>2, <2>5 DEF Alone, Operator, Failed
      <3>2. intent'[x.by] = x.op /\ status'[x.op] = "pending"
        BY <1>1, <1>2, <1>4, <1>5, <2>5, <3>1, Answers DEF Failed
      <3> QED
        BY <1>2, <2>1, <3>2
    <2> QED
      BY <1>1, <2>3, <2>4, <2>5, Answers
  <1>11. Accepted'
    <2>1. SUFFICES ASSUME NEW c \in Controllers, intent'[c] = x.op, ~leftover, Mine(x.op)
          PROVE  /\ x.op \notin committed /\ snaps[x.op] # None => snaps[x.op].bytes = gen.cfg
                 /\ status'[x.op] = "pending" =>
                      /\ Plain(x.op) => config = gen.cfg /\ runtime.loaded \in {gen.cfg, None}
                      /\ x.op \notin committed =>
                           /\ before'[x.op].art = store.current /\ before'[x.op].cfg = gen.cfg
                           /\ before'[x.op].loaded \in {gen.cfg, None}
                           /\ snaps[x.op] = None => config = gen.cfg
                      /\ x.op \in committed /\ (Reported(x.op) \/ oper[x.op] = "applied") =>
                           runtime.art = store.current /\ runtime.loaded \in {gen.cfg, None}
                      /\ x.op \in committed /\ oper[x.op] = "applied" /\ Plain(x.op) =>
                           store.fence = None
                      /\ x.op \in committed /\ Reported(x.op) => config = gen.cfg
      BY ZenonT(60), <1>1, <1>3 DEF Accepted, Mine, Plain, Reported
    <2>2. status'[x.op] = "pending" => before' = before
      BY <1>1, <1>5
    <2> QED
      BY <1>2, <2>1, <2>2 DEF Alone, Accepted
  <1>12. RollbackPairWasHealthy' /\ Compatible'
    <2>1. Compatible'
      BY <1>1, <1>2, <1>3 DEF Alone, Compatible, Settled
    <2> QED
      BY <1>1, <2>1 DEF Alone, RollbackPairWasHealthy
  <1>13. CommittedRollbackCompletes'
    <2>1. committed \subseteq Ops
      BY DEF EInv, Histories
    <2> QED
      BY <1>1, <1>5, <1>6, <2>1 DEF Alone, CommittedRollbackCompletes, Reported
  <1> QED
    BY <1>1, <1>7, <1>8, <1>9, <1>10, <1>11, <1>12, <1>13, IdleA DEF Alone

LEMMA CrashA == ASSUME IInv, EInv, Alone, OneController, Crash PROVE Alone'
  <1>1. /\ x.at # "idle" /\ x' = Idle /\ x'.at = "idle"
        /\ UNCHANGED <<store, runtime, config, snaps, oper, db, order, status, intent, hist>>
    BY DEF Crash, IInv, Ordered, Idle
  <1>2. Operator' /\ Document' /\ Last'
    BY <1>1 DEF Alone, Operator, Document, Last, hist, Plain, Working
  <1>3. Quiet'
    <2>1. x.by \in Controllers /\ intent[x.by] = x.op /\ x.op # None /\ status[x.op] = "pending"
      BY <1>1, Sole
    <2> QED
      BY <1>1, <2>1 DEF Quiet
  <1>4. Accepted'
    BY <1>1 DEF Alone, Accepted, Mine, Plain, Reported, hist
  <1>5. RollbackPairWasHealthy' /\ Compatible' /\ CommittedRollbackCompletes'
    BY <1>1 DEF Alone, RollbackPairWasHealthy, Compatible, Settled, CommittedRollbackCompletes, hist
  <1> QED
    BY <1>1, <1>2, <1>3, <1>4, <1>5, IdleA DEF Alone

LEMMA RequestA ==
  ASSUME IInv, EInv, Alone, OneController, NEW c \in Controllers, Request(c)
  PROVE  Alone'
  <1>1. PICK id \in Ops, ord \in Orders : NewOrder(c, id, ord)
    BY DEF Request, Orders, Updates, Rollbacks, IInv, Types, Documents
  <1>2. /\ order' = [order EXCEPT ![id] = ord] /\ order[id] = None /\ intent[c] = None
        /\ intent' = [intent EXCEPT ![c] = id] /\ ord.rev = store.rev
        /\ UNCHANGED <<kind, store, runtime, config, snaps, oper, db, status, x, hist>>
    BY <1>1 DEF NewOrder
  <1>3. x.at = "idle" /\ x' = Idle
    <2>1. x.at # "idle" => intent[c] = x.op /\ x.op # None
      BY Sole
    <2> QED
      BY <1>2, <2>1 DEF IInv, Ordered
  <1>4. /\ \A d \in Controllers : intent[d] = None
        /\ \A d \in Controllers : intent'[d] = id
    BY <1>2 DEF OneController, IInv, Types
  <1>5. /\ order'[id] = ord /\ \A i \in Ops : i # id => order'[i] = order[i]
        /\ status[id] = "absent" /\ oper[id] = None /\ id \notin committed /\ snaps[id] = None
        /\ committed \subseteq Ops
    BY <1>2 DEF IInv, Types, EInv, Begun, Histories
  <1>6. Operator'
    <2>1. store.fence # None => store.fence.op \in Ops /\ store.fence.op # id
      BY <1>2 DEF IInv, Types, Documents, Alone, Operator
    <2> QED
      BY <1>2, <1>3, <1>5, <2>1 DEF Alone, Operator, hist
  <1>7. Document' /\ RollbackPairWasHealthy'
    BY <1>2 DEF Alone, Document, RollbackPairWasHealthy, hist
  <1>8. Last'
    BY <1>2, <1>4, <1>5 DEF Last, Plain, hist, Working
  <1>9. Quiet'
    BY <1>2, <1>3, <1>4 DEF Alone, Quiet, Agrees, hist
  <1>10. Accepted'
    BY <1>2, <1>4, <1>5 DEF Accepted, hist
  <1>11. Compatible'
    <2>1. oper[id] \notin Migrated
      BY <1>5, NoneIsAbsent DEF Migrated
    <2> QED
      BY <1>2, <1>4, <2>1 DEF Alone, Compatible, Settled, hist
  <1>12. CommittedRollbackCompletes'
    BY <1>2, <1>5 DEF Alone, CommittedRollbackCompletes, hist
  <1> QED
    BY <1>3, <1>6, <1>7, <1>8, <1>9, <1>10, <1>11, <1>12, IdleA DEF Alone

LEMMA ReplayA ==
  ASSUME IInv, EInv, Alone, OneController, NEW c \in Controllers, Replay(c)
  PROVE  Alone'
  <1>1. /\ intent' = [intent EXCEPT ![c] = None] /\ x = Idle /\ x' = Idle /\ x.at = "idle"
        /\ intent[c] # None /\ status[intent[c]] \in {"completed", "failed"}
        /\ UNCHANGED <<store, runtime, config, snaps, oper, db, order, status, hist>>
    BY DEF Replay, Idle
  <1>2. /\ \A d \in Controllers : intent'[d] = None
        /\ \A d \in Controllers : d = c
    BY <1>1 DEF OneController, IInv, Types
  <1>3. Operator' /\ Document' /\ Last' /\ Accepted'
    BY <1>1, <1>2 DEF Alone, Operator, Document, Last, Accepted, Plain, hist
  <1>4. Quiet'
    BY <1>1, <1>2 DEF Alone, Quiet, Agrees, hist
  <1>5. RollbackPairWasHealthy' /\ Compatible' /\ CommittedRollbackCompletes'
    BY <1>1, <1>2 DEF Alone, RollbackPairWasHealthy, Compatible, Settled,
       CommittedRollbackCompletes, hist
  <1> QED
    BY <1>1, <1>3, <1>4, <1>5, IdleA DEF Alone

LEMMA AcceptA ==
  ASSUME IInv, EInv, Alone, OneController, NEW c \in Controllers,
         AcceptUpdate(c) \/ RefuseAtEntry(c) \/ AcceptRollback(c)
  PROVE  Alone'
  <1> DEFINE i == intent[c]
  <1>1. /\ x = Idle /\ x.at = "idle" /\ i \in Ops /\ order[i] \in Orders /\ order[i] # None
        /\ i # None /\ x'.op = i /\ ~x'.replaced /\ ~x'.unknown
        /\ \/ /\ x'.at = "preflight"
              /\ order[i].kind = "update" =>
                   /\ x'.applied = (store.fence # None)
                   /\ store.fence # None => store.fence.op = i
              /\ order[i].kind = "rollback" => ~x'.applied /\ store.active # i
           \/ /\ x'.at = "answer" /\ ~x'.applied
              /\ order[i].kind = "update" =>
                   x'.code \in {"FAILED", "ROLLBACK_RECOVERY_REQUIRED"}
              /\ order[i].kind = "rollback" =>
                   \/ x'.code = "APPLIED" /\ store.active = i
                   \/ x'.code = "FAILED" /\ misreported' = misreported \cup ({i} \cap committed)
                   \/ x'.code \in {"FAILED", "ROLLBACK_RECOVERY_REQUIRED"} /\ store.active # i
    BY Accepts, NoneIsAbsent DEF Orders, Updates, Rollbacks, Idle
  <1>2. /\ status[i] \in {"absent", "pending"}
        /\ status' = [status EXCEPT ![i] = "pending"]
        /\ status[i] = "absent" =>
              before' = [before EXCEPT ![i] = [art |-> runtime.art, cfg |-> config,
                                              loaded |-> runtime.loaded]]
        /\ status[i] = "pending" => before' = before
        /\ UNCHANGED <<kind, store, runtime, config, snaps, oper, db, order, intent,
                       committed, gen, healthy, leftover>>
        /\ misreported \subseteq misreported'
    BY Accepts DEF Accept
  <1>3. /\ \A d \in Controllers : intent[d] = i /\ d = c
        /\ order[i].kind \in {"update", "rollback"}
        /\ status'[i] = "pending" /\ \A j \in Ops : j # i => status'[j] = status[j]
        /\ status[i] = "absent" =>
              before'[i] = [art |-> runtime.art, cfg |-> config, loaded |-> runtime.loaded]
    BY <1>1, <1>2 DEF OneController, IInv, Types, EInv, Histories, Orders, Updates, Rollbacks
  <1> HIDE DEF i
  <1>4. i \in committed => store.active = i
    BY <1>1, <1>3 DEF Alone, Last
  <1>5. Operator'
    <2>1. store.fence # None => store.fence.op \in Ops
      BY DEF IInv, Types, Documents
    <2> QED
      BY <1>1, <1>2, <1>3, <2>1 DEF Alone, Operator, Failed
  <1>6. Document' /\ RollbackPairWasHealthy' /\ Compatible'
    BY <1>2 DEF Alone, Document, RollbackPairWasHealthy, Compatible, Settled
  <1>7. Position'
    BY <1>1, <1>2, <1>3 DEF Position, Working
  <1>8. Last'
    BY <1>1, <1>2, <1>3, <1>4 DEF Alone, Last, Plain, Reported, Working
  <1>9. Quiet'
    BY <1>1 DEF Quiet
  <1>10. ~leftover /\ Mine(i) /\ status[i] = "absent" => Agrees /\ store.fence = None
    <2>1. SUFFICES ASSUME ~leftover, Mine(i), status[i] = "absent"
                   PROVE  Agrees /\ store.fence = None
      OBVIOUS
    <2>2. store.fence = None
      BY <1>1, <2>1 DEF Mine, Alone, Operator
    <2> QED
      BY <1>1, <1>3, <2>1, <2>2 DEF Alone, Quiet
  <1>11. Accepted'
    <2>1. SUFFICES ASSUME ~leftover, Mine(i)
          PROVE  /\ i \notin committed /\ snaps[i] # None => snaps[i].bytes = gen.cfg
                 /\ Plain(i) => config = gen.cfg /\ runtime.loaded \in {gen.cfg, None}
                 /\ i \notin committed =>
                      /\ before'[i].art = store.current /\ before'[i].cfg = gen.cfg
                      /\ before'[i].loaded \in {gen.cfg, None}
                      /\ snaps[i] = None => config = gen.cfg
                 /\ i \in committed /\ (Reported(i) \/ oper[i] = "applied") =>
                      runtime.art = store.current /\ runtime.loaded \in {gen.cfg, None}
                 /\ i \in committed /\ oper[i] = "applied" /\ Plain(i) => store.fence = None
                 /\ i \in committed /\ Reported(i) => config = gen.cfg
      BY <1>2, <1>3 DEF Accepted, Mine, Plain, Reported
    <2>2. i \notin committed /\ snaps[i] # None => snaps[i].bytes = gen.cfg
      BY <1>1, <1>3, <2>1 DEF Alone, Accepted
    <2>3. CASE status[i] = "absent"
      BY <1>3, <1>10, <2>1, <2>2, <2>3 DEF Agrees
    <2>4. CASE status[i] = "pending"
      BY <1>1, <1>2, <1>3, <2>1, <2>4 DEF Alone, Accepted
    <2> QED
      BY <1>2, <2>3, <2>4
  <1>12. Executing'
    <2>1. x'.applied => store.fence # None /\ x'.at = "preflight"
      BY <1>1, <1>3
    <2>2. ASSUME ~leftover, store.fence = None, x'.at = "answer",
                 x'.code \in {"APPLIED", "NOOP", "RECOVERY_REQUIRED"},
                 order[i].kind = "update" \/ i \notin misreported'
          PROVE  Agrees'
      <3>1. order[i].kind = "rollback" /\ store.active = i
        BY <1>1, <1>3, <2>2
      <3>2. i \in committed
        BY <1>1, <3>1 DEF Alone, Document
      <3> QED
        BY <1>1, <1>2, <1>3, <1>11, <2>2, <3>1, <3>2 DEF Accepted, Agrees, Mine, Reported
    <2> QED
      BY <1>1, <1>2, <1>3, <2>1, <2>2 DEF Executing, Reported, Working
  <1>13. CommittedRollbackCompletes'
    <2>1. committed \subseteq Ops
      BY DEF EInv, Histories
    <2> QED
      BY <1>2, <1>3, <2>1 DEF Alone, CommittedRollbackCompletes
  <1> QED
    BY <1>5, <1>6, <1>7, <1>8, <1>9, <1>11, <1>12, <1>13 DEF Alone

LEMMA InitA == Init => Alone
  <1> SUFFICES ASSUME Init PROVE Alone
    OBVIOUS
  <1>1. /\ x.at = "idle" /\ \A i \in Ops : order[i] = None /\ oper[i] = None
        /\ \A c \in Controllers : intent[c] = None
        /\ committed = {} /\ store.fence = None /\ store.active = None /\ store.previous = None
        /\ store.current = FirstArtifact /\ db = {FirstArtifact}
    BY DEF Init, Idle
  <1>0. /\ gen.art = FirstArtifact /\ gen.cfg = FirstConfig /\ gen \in healthy
        /\ runtime.art = FirstArtifact /\ runtime.loaded = FirstConfig /\ config = FirstConfig
    BY DEF Init
  <1>2. Operator /\ Document
    BY <1>1, <1>0 DEF Operator, Document
  <1>3. Position /\ Executing
    BY <1>1 DEF Position, Executing, Working
  <1>4. Last /\ Quiet /\ Accepted
    BY <1>1, <1>0 DEF Last, Quiet, Accepted, Agrees
  <1>5. RollbackPairWasHealthy /\ Compatible /\ CommittedRollbackCompletes
    BY <1>1 DEF RollbackPairWasHealthy, Compatible, CommittedRollbackCompletes
  <1> QED
    BY <1>2, <1>3, <1>4, <1>5 DEF Alone

LEMMA StepA ==
  ASSUME OneController
  PROVE  IInv /\ EInv /\ Alone /\ [Next]_vars => Alone'
  <1> SUFFICES ASSUME IInv, EInv, Alone, [Next]_vars PROVE Alone'
    OBVIOUS
  <1>1. CASE UNCHANGED vars
    <2>1. Operator' /\ Document' /\ Position' /\ Last' /\ Quiet'
      BY <1>1 DEF Alone, vars, hist, Operator, Document, Position, Last, Quiet, Agrees,
         Selected, IsUpdate, Op, Plain
    <2>2. Accepted' /\ Executing'
      BY <1>1 DEF Alone, vars, hist, Accepted, Executing, Agrees, Plain, Mine, Reported
    <2>3. RollbackPairWasHealthy' /\ Compatible' /\ CommittedRollbackCompletes'
      BY <1>1 DEF Alone, vars, hist, RollbackPairWasHealthy, Compatible, Settled,
         CommittedRollbackCompletes
    <2> QED
      BY <2>1, <2>2, <2>3 DEF Alone
  <1>2. CASE \E c \in Controllers : Request(c) \/ Deliver(c) \/ RefuseAtEntry(c)
    BY <1>2, RequestA, ReplayA, AcceptA DEF Deliver
  <1>3. CASE Execute
    BY <1>3, PreflightA, SnapshotA, StageA, MigrateA, ReceiveA, TakeDownA, PutUpA, StartA,
       CheckA, CommitA, KeepWriterStoppedA, UndoConfigA, UndoRuntimeA, ConcludeA DEF Execute
  <1>4. CASE Trouble
    BY <1>4, PreflightFaultA, SnapshotFaultA, StageFaultA, StageMisreportedA, DispatchFaultA,
       ReceiveFaultA, TakeDownFaultA, ActivationFaultA, NotReadyA, CommitFaultA, ConcludeA,
       CrashA DEF Trouble
  <1> QED
    BY <1>1, <1>2, <1>3, <1>4 DEF Next

LEMMA InductiveA ==
  ASSUME OneController
  PROVE  Spec => [](IInv /\ EInv /\ Alone)
  <1>1. Init => IInv /\ EInv /\ Alone
    BY InitIInv, InitE, InitA
  <1>2. (IInv /\ EInv /\ Alone) /\ [Next]_vars => (IInv /\ EInv /\ Alone)'
    BY StepIInv, StepE, StepA
  <1> QED
    BY <1>1, <1>2, PTL DEF Spec

(* update_exec.rs, deployment_state.rs.  With one controller (one saved    *)
(* intent at a time), whenever nothing is under way and no order was ended *)
(* with its effects left behind (a failed write of the fence, or a commit  *)
(* reported as failed, is enough), the document, the object, the           *)
(* configuration file and the loaded configuration agree, however orders   *)
(* were killed, faulted and sent again.                                    *)
THEOREM RestAgrees ==
  ASSUME OneController
  PROVE  Spec => []AtRestAgrees
  <1>1. IInv /\ EInv /\ Alone => AtRestAgrees
    <2> SUFFICES ASSUME IInv, EInv, Alone, AtRest, ~leftover, store.fence = None
                 PROVE  /\ runtime.art = store.current
                        /\ gen = [art |-> store.current, cfg |-> config]
                        /\ Running => runtime.loaded = config
      BY DEF AtRestAgrees
    <2>1. x.at = "idle"
      BY DEF AtRest, Idle
    <2>2. Agrees
      BY <2>1 DEF AtRest, Alone, Quiet
    <2>3. gen = [art |-> gen.art, cfg |-> gen.cfg] /\ gen.art = store.current
      BY DEF EInv, Histories, Pairs, Alone, Document
    <2> QED
      BY <2>2, <2>3 DEF Agrees, Running
  <1> QED
    BY <1>1, InductiveA, PTL

(* snapshot_config, apply_update_healthy, apply_rollback_healthy: with one *)
(* controller, the artifact and the snapshot the document keeps for a      *)
(* rollback were committed together as a healthy generation, although the  *)
(* snapshot is written long before the commit that refers to it.           *)
THEOREM RollbackPair ==
  ASSUME OneController
  PROVE  Spec => []RollbackPairWasHealthy
  <1>1. IInv /\ EInv /\ Alone => RollbackPairWasHealthy
    BY DEF Alone
  <1> QED
    BY <1>1, InductiveA, PTL

(* apply_update_healthy_from_live, record_migration_applied: with one      *)
(* controller, once every applied migration belongs to a committed order,  *)
(* the artifact kept for rollback can run on the database as it is.        *)
THEOREM RollbackTarget ==
  ASSUME OneController
  PROVE  Spec => []RollbackTargetCompatible
  <1>1. IInv /\ EInv /\ Alone => RollbackTargetCompatible
    BY DEF Alone, Compatible, RollbackTargetCompatible
  <1> QED
    BY <1>1, InductiveA, PTL

(* answer_rollback: with one controller, a rollback whose commit was        *)
(* acknowledged to the executor is never answered as a failure, however    *)
(* often the target is killed and the order sent again; unless the         *)
(* document cannot be read when it is.                                     *)
THEOREM CommittedRollback ==
  ASSUME OneController
  PROVE  Spec => []CommittedRollbackCompletes
  <1>1. IInv /\ EInv /\ Alone => CommittedRollbackCompletes
    BY DEF Alone
  <1> QED
    BY <1>1, InductiveA, PTL
=============================================================================
