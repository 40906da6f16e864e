--------------------------- MODULE Recovery_proofs ---------------------------
(***************************************************************************)
(* Proofs about Recovery for every set of releases and every bound on ids, *)
(* snapshots, revisions, version changes and faults.                       *)
(***************************************************************************)
EXTENDS Recovery, TLAPS

(***************************************************************************)
(* The inductive invariant.                                                *)
(***************************************************************************)
(* The three paths of a part, and what the records of the operation say.   *)
Unmoved(x) == x.live = "old" /\ ~x.back
Aside(x)   == x.live = "none" /\ x.back /\ x.staged = "new"
InPlace(x) == x.live = "new" /\ x.back /\ x.staged = "none"

Paths ==
    \A p \in Parts :
       /\ Unmoved(parts[p]) \/ Aside(parts[p]) \/ InPlace(parts[p])
       /\ parts[p].staged = "raw" => p = "secrets"
       /\ parts[p].back => files.marker
       /\ files.completed => InPlace(parts[p])

Records ==
    /\ files.completed => db = "restored" /\ files.marker
    /\ files.marker /\ runtime.run => files.completed

(* A restore under way.                                                    *)
RestoreAt(steps) == job # None /\ job.req.op.role = "recover" /\ job.at \in steps

Switching == {"switch data", "switch secrets", "switch config", "completed"}
Copying   == {"data", "secrets", "urls", "config", "mark"}
Moved(p) == InPlace(parts[p])

Restoring ==
    /\ job # None /\ job.req.op.role = "recover" /\ job.at # "enter" => ~runtime.run
    /\ RestoreAt({"dbplan", "database", "load"} \cup Copying \cup Switching) => ~files.completed
    /\ RestoreAt(Copying \cup Switching) => db = "restored"
    /\ RestoreAt({"config", "mark"} \cup Switching) => parts["secrets"].staged # "raw"
    /\ RestoreAt(Switching) => files.marker
    /\ RestoreAt({"switch secrets", "switch config", "completed"}) => Moved("data")
    /\ RestoreAt({"switch config", "completed"}) => Moved("secrets")
    /\ RestoreAt({"completed"}) => Moved("config")
    /\ RestoreAt({"commit", "answer"}) => files.completed

(* An activation under way, and the runtime it leaves.                     *)
ActivateAt(steps) == job # None /\ job.req.op.role = "activate" /\ job.at \in steps
Active == runtime.run /\ runtime.ver # None

Activating ==
    /\ ActivateAt({"replace", "start", "ready", "answer"}) =>
          files.completed /\ files.release # None /\ passed # {}
    /\ ActivateAt({"replace", "start"}) => ~runtime.run
    /\ ActivateAt({"start"}) => runtime.ver # None
    /\ ActivateAt({"ready", "answer"}) => Active
    /\ files.completed /\ runtime.run => runtime.ver # None /\ passed # {}

Deadlines == \A i \in passed : server[i] = "done"

(* Requests, the journal and the answer.                                   *)
Asked == sess \cup (IF job = None THEN {} ELSE {job.req})
Done(op) == jrn[op].at = "done"
ControlOp(n) == [role |-> "control", n |-> n]

Requested ==
    \A r \in Asked :
       /\ r.op.role = "recover" => r.op.n = 1
       /\ r.op.role # "recover" => Done(RecoverOp)
       /\ r.op.role = "control" => r.inv # 0 /\ r.op.n <= minted["control"]

Journalled ==
    /\ job # None => jrn[job.req.op].at = "pending"
    /\ Done(RecoverOp) => files.completed
    /\ \A o \in Ops : o.role = "activate" /\ Done(o) => Active /\ Done(RecoverOp)
    /\ \A o \in Ops : o.role = "control" /\ jrn[o].at # "none" => o.n <= minted["control"]
    /\ answer # None /\ answer.res = "done" => Done(answer.op)
    /\ jrn[RecoverOp].at = "none" => state.rev <= MaxRevision

(* The plan and the command.                                               *)
Planned ==
    plan # None =>
       /\ plan.restored => Done(RecoverOp)
       /\ plan.phase # "restoring" => plan.restored
       /\ plan.cand # 0 => plan.restored
       /\ plan.phase \in {"waiting", "cleanup"} => plan.deadline # 0 /\ server[plan.deadline] = "done"
       /\ plan.phase = "cleanup" => Active
       /\ plan.inv # 0 /\ slot # 0 => plan.inv = slot

Pointed ==
    plan # None /\ plan.wrap # 0 =>
       /\ plan.inv # 0 /\ plan.wrap <= minted["control"]
       /\ Done(ControlOp(plan.wrap)) => server[plan.inv] = "done"
       /\ \A r \in Asked : r.op = ControlOp(plan.wrap) => r.inv = plan.inv

Commanded ==
    /\ ctl.at # "idle" => plan # None
    /\ ctl.at = "await" => ctl.op # None /\ ctl.op.role = NextRole(plan)
    /\ ctl.at = "reset" => ctl.op # None /\ ctl.op.role = "cleanup"
    /\ ctl.at = "await" /\ ctl.op.role = "recover" => ctl.op = RecoverOp
    /\ ctl.at = "await" /\ ctl.op.role = "control" => ctl.op.n = plan.wrap
    /\ ctl.at \in {"signed", "prepared"} => NextRole(plan) = "control" /\ slot # 0
    /\ ctl.at = "prepared" => plan.inv = slot

IInv == TypeOK /\ Paths /\ Records /\ Restoring /\ Activating /\ Deadlines
        /\ Requested /\ Journalled /\ Planned /\ Pointed /\ Commanded

-----------------------------------------------------------------------------
(***************************************************************************)
(* Types, by the component that changes.                                   *)
(***************************************************************************)
JobSteps == {"enter", "verify", "dbplan", "database", "load", "data", "secrets",
             "urls", "config", "mark", "switch data", "switch secrets",
             "switch config", "completed", "commit", "answer", "facts", "run",
             "collect", "replace", "start", "ready"}

CtlSteps == {"idle", "ready", "await", "reset", "signed", "prepared", "settle",
             "drop", "ceremony", "recoverkey"}
Commands == [at : CtlSteps, op : Ops \cup {None}, ver : Releases \cup {None}]

CtlTypes ==
    /\ plan \in Plans \cup {None} /\ ctl \in Commands
    /\ slot \in Nums /\ minted \in [Roles \cup {"inv"} -> Nums]
    /\ resets \in 0..MaxResets

MsgTypes ==
    /\ sess \subseteq Requests /\ job \in Jobs \cup {None}
    /\ answer \in Answers \cup {None}
    /\ jrn \in [Ops -> [at : Terminal \cup {"none", "pending", "failed"}, obj : Nums]]

PathTypes == [live : {"old", "raw", "new", "none"}, staged : {"none", "raw", "new"},
              back : BOOLEAN]

TgtTypes ==
    /\ state \in [rev : 1..MaxRevision + 1, active : Ops \cup {None}]
    /\ parts \in [Parts -> PathTypes]
    /\ db \in {"none", "partial", "restored"}
    /\ files \in [dbplan : BOOLEAN, marker : BOOLEAN, completed : BOOLEAN,
                  release : Releases \cup {None}]
    /\ runtime \in [run : BOOLEAN, ver : Releases \cup {None}]
    /\ cand \in [obj : Nums, ver : Releases \cup {None}, last : Nums]

ExtTypes ==
    /\ server \in [1..MaxIds -> {"none", "accepted", "done", "unsuccessful"}]
    /\ passed \subseteq 1..MaxIds /\ auth \in BOOLEAN
    /\ snap \in [n : 1..MaxSnaps, tested : BOOLEAN]
    /\ faults \in 0..MaxFaults

LEMMA TypesSplit == TypeOK <=> CtlTypes /\ MsgTypes /\ TgtTypes /\ ExtTypes
  BY DEF TypeOK, CtlTypes, MsgTypes, TgtTypes, ExtTypes, Commands, CtlSteps, PathTypes

LEMMA TypesSplitNext == TypeOK' <=> CtlTypes' /\ MsgTypes' /\ TgtTypes' /\ ExtTypes'
  BY DEF TypeOK, CtlTypes, MsgTypes, TgtTypes, ExtTypes, Commands, CtlSteps, PathTypes

USE RecoveryConstants, NoneIsNoRecord

LEMMA RecoverOpTyped == RecoverOp \in Ops
  BY DEF RecoverOp, Ops, Roles

LEMMA ToMoves ==
  ASSUME MsgTypes, job # None, NEW step \in JobSteps, To(step)
  PROVE  /\ job' \in Jobs /\ job' # None /\ job'.at = step
         /\ job'.req = job.req /\ job'.was = job.was /\ job'.own = job.own
  BY ZenonT(30) DEF MsgTypes, To, Jobs, JobSteps

LEMMA JobTyped ==
  ASSUME MsgTypes, job # None
  PROVE  job \in Jobs /\ job.req \in Requests /\ job.req.op \in Ops
  BY DEF MsgTypes, Jobs, Requests

-----------------------------------------------------------------------------
(***************************************************************************)
(* Frames.                                                                 *)
(***************************************************************************)
(* The restore and the activation look at the job and the target's files.  *)
LEMMA TargetFrame ==
  ASSUME IInv, UNCHANGED <<parts, files, db, runtime, passed>>,
         \/ job' = None
         \/ job' # None /\ job'.at = "enter"
         \/ job # None /\ job' # None /\ job'.req = job.req /\ job'.at = job.at
  PROVE  Paths' /\ Records' /\ Restoring' /\ Activating'
  <1>1. Paths' /\ Records'
    BY DEF IInv, Paths, Records, Unmoved, Aside, InPlace
  <1>2. Restoring'
    BY DEF IInv, Restoring, RestoreAt, Moved, InPlace, Copying, Switching
  <1>3. Activating'
    BY DEF IInv, Activating, ActivateAt, Active
  <1> QED
    BY <1>1, <1>2, <1>3

(* What the server invalidated stays so; a deadline passes only after it.  *)
LEMMA ServerFrame ==
  ASSUME IInv, UNCHANGED <<server, passed>>
  PROVE  Deadlines'
  BY DEF IInv, Deadlines

(* Steps of the target that write no journal line.                         *)
LEMMA JournalFrame ==
  ASSUME IInv, UNCHANGED <<plan, slot, minted, sess, answer, jrn>>,
         \A i \in 1..MaxIds : server[i] = "done" => server'[i] = "done",
         job' = None \/ (job # None /\ job' # None /\ job'.req = job.req),
         files.completed => files'.completed,
         Done(RecoverOp) /\ Active => Active',
         jrn[RecoverOp].at = "none" => state'.rev <= MaxRevision
  PROVE  Requested' /\ Journalled' /\ Planned' /\ Pointed'
  <1>1. Asked' \subseteq Asked
    BY DEF Asked
  <1>2. \A o : Done(o)' <=> Done(o)
    BY DEF Done
  <1>3. Requested'
    BY <1>1, <1>2 DEF IInv, Requested
  <1>4. Journalled'
    BY <1>2 DEF IInv, Journalled
  <1>5. plan # None =>
           /\ plan.deadline # 0 => plan.deadline \in 1..MaxIds
           /\ plan.inv # 0 => plan.inv \in 1..MaxIds
    <2>1. plan # None => plan.deadline \in Nums /\ plan.inv \in Nums
      BY DEF IInv, TypeOK, Plans
    <2> QED
      BY <2>1 DEF Nums
  <1>6. Planned'
    <2> SUFFICES ASSUME plan # None PROVE Planned'
      BY DEF Planned
    <2>1. plan.phase \in {"waiting", "cleanup"} => plan.deadline # 0 /\ server'[plan.deadline] = "done"
      BY <1>5 DEF IInv, Planned
    <2>2. plan.phase = "cleanup" => Active'
      BY DEF IInv, Planned
    <2> QED
      BY <1>2, <2>1, <2>2 DEF IInv, Planned
  <1>7. Pointed'
    <2> SUFFICES ASSUME plan # None, plan.wrap # 0 PROVE Pointed'
      BY DEF Pointed
    <2>1. Done(ControlOp(plan.wrap)) => server[plan.inv] = "done" /\ plan.inv \in 1..MaxIds
      BY <1>5 DEF IInv, Pointed
    <2>2. Done(ControlOp(plan.wrap))' => server'[plan.inv] = "done"
      BY <1>2, <2>1
    <2> QED
      BY <1>1, <2>2 DEF IInv, Pointed
  <1> QED
    BY <1>3, <1>4, <1>6, <1>7

(* A step of the job in hand that goes on.                                 *)
LEMMA GoesOn ==
  ASSUME IInv, job # None, job' \in Jobs, job'.req = job.req, Keeps,
         TgtTypes', UNCHANGED state,
         files.completed => files'.completed,
         Done(RecoverOp) /\ Active => Active',
         Paths', Records', Restoring', Activating'
  PROVE  IInv'
  <1>1. /\ UNCHANGED <<plan, slot, minted, resets, ctl, sess, answer, jrn, server, passed, auth, snap, faults>>
        /\ job' # None
    BY DEF Keeps, ctlVars, extVars
  <1>2. TypeOK'
    BY <1>1, TypesSplit, TypesSplitNext DEF IInv, CtlTypes, MsgTypes, ExtTypes
  <1>3. jrn[RecoverOp].at = "none" => state'.rev <= MaxRevision
    BY DEF IInv, Journalled
  <1>4. Requested' /\ Journalled' /\ Planned' /\ Pointed'
    BY <1>1, <1>3, JournalFrame
  <1>5. Commanded' /\ Deadlines'
    BY <1>1 DEF IInv, Commanded, Deadlines
  <1> QED
    BY <1>2, <1>4, <1>5 DEF IInv

(* The terminal line of the job: a success is backed by the files, the     *)
(* runtime or the server.                                                  *)
Results == Terminal \cup {"failed", "unauthorized", "rejected"}

Closes(res, obj) ==
    /\ jrn' = [jrn EXCEPT ![job.req.op] =
                 [at |-> IF res \in Terminal THEN res ELSE "failed", obj |-> obj]]
    /\ Answer(job.req.op, job.own, res, obj)
    /\ job' = None
    /\ UNCHANGED <<ctlVars, sess, state, files>>

LEMMA SomeResults ==
  /\ {"failed", "done", "unsuccessful", "inprogress", "unauthorized", "rejected"} \subseteq Results
  /\ 0 \in Nums
  BY DEF Results, Terminal, Nums

LEMMA FinishCloses ==
  ASSUME NEW res, NEW obj, Finish(res, obj)
  PROVE  Closes(res, obj)
  BY DEF Finish, Closes

LEMMA FinishFrame ==
  ASSUME IInv, job # None, NEW res \in Results, NEW obj \in Nums, Closes(res, obj),
         server' = server,
         res = "done" =>
            /\ job.req.op.role = "recover" => files.completed
            /\ job.req.op.role = "activate" => Active
            /\ job.req.op.role = "control" => server[job.req.inv] = "done",
         Done(RecoverOp) /\ Active => Active'
  PROVE  /\ CtlTypes' /\ MsgTypes' /\ Commanded'
         /\ Requested' /\ Journalled' /\ Planned' /\ Pointed'
  <1> DEFINE op == job.req.op
  <1>1. CtlTypes /\ MsgTypes
    BY TypesSplit DEF IInv
  <1>2. job \in Jobs /\ job.req \in Requests /\ op \in Ops
    BY <1>1, JobTyped
  <1>3. /\ jrn' = [jrn EXCEPT ![op] = [at |-> IF res \in Terminal THEN res ELSE "failed", obj |-> obj]]
        /\ answer' = IF job.own THEN [op |-> op, res |-> res, obj |-> obj] ELSE answer
        /\ job' = None
        /\ UNCHANGED <<plan, ctl, slot, minted, resets, sess, state, files>>
    BY DEF Closes, Answer, ctlVars
  <1>4. jrn[op].at = "pending"
    BY DEF IInv, Journalled
  <1> HIDE DEF op
  <1>5. MsgTypes'
    <2>1. [at |-> IF res \in Terminal THEN res ELSE "failed", obj |-> obj]
            \in [at : Terminal \cup {"none", "pending", "failed"}, obj : Nums]
      BY DEF Terminal
    <2>2. jrn' \in [Ops -> [at : Terminal \cup {"none", "pending", "failed"}, obj : Nums]]
      BY <1>1, <1>3, <2>1 DEF MsgTypes
    <2>3. answer' \in Answers \cup {None}
      BY <1>1, <1>2, <1>3 DEF MsgTypes, Answers, Results
    <2> QED
      BY <1>1, <1>3, <2>2, <2>3 DEF MsgTypes
  <1>6. CtlTypes' /\ Commanded'
    BY <1>1, <1>3 DEF CtlTypes, IInv, Commanded
  <1>7. /\ \A o \in Ops : o # op => jrn'[o] = jrn[o]
        /\ jrn'[op].at = IF res \in Terminal THEN res ELSE "failed"
    BY <1>1, <1>2, <1>3 DEF MsgTypes
  <1>8. \A o \in Ops : Done(o) => Done(o)'
    BY <1>4, <1>7 DEF Done
  <1>9. \A o \in Ops : Done(o)' => Done(o) \/ (o = op /\ res = "done")
    BY <1>7 DEF Done
  <1>10. Asked' \subseteq Asked /\ job.req \in Asked
    BY <1>3 DEF Asked
  <1>11. Requested'
    BY <1>3, <1>8, <1>10, RecoverOpTyped DEF IInv, Requested
  <1>12. op.role = "recover" => op = RecoverOp
    BY <1>2, <1>10 DEF IInv, Requested, Ops, RecoverOp, op
  <1>13. op.role # "recover" => Done(RecoverOp)
    BY <1>10 DEF IInv, Requested, op
  <1>14. Journalled'
    <2>1. Done(RecoverOp)' => files'.completed
      <3>1. RecoverOp = op => op.role = "recover"
        BY DEF RecoverOp
      <3> QED
        BY <1>3, <1>9, <3>1, RecoverOpTyped DEF IInv, Journalled, op
    <2>2. \A o \in Ops : o.role = "activate" /\ Done(o)' => Active' /\ Done(RecoverOp)'
      BY <1>8, <1>9, <1>13, RecoverOpTyped DEF IInv, Journalled, op
    <2>3. \A o \in Ops : o.role = "control" /\ jrn'[o].at # "none" => o.n <= minted'["control"]
      BY <1>3, <1>4, <1>7 DEF IInv, Journalled
    <2>4. (answer # None /\ answer.res = "done" => Done(answer.op))'
      <3>1. CASE job.own
        BY <3>1, <1>3, <1>7 DEF Done, Terminal, Answers
      <3>2. CASE ~job.own
        <4>1. answer # None => answer.op \in Ops
          BY <1>1 DEF MsgTypes, Answers
        <4> QED
          BY <3>2, <4>1, <1>3, <1>8 DEF IInv, Journalled
      <3> QED
        BY <3>1, <3>2
    <2>5. jrn'[RecoverOp].at = "none" => state'.rev <= MaxRevision
      BY <1>3, <1>7, RecoverOpTyped DEF IInv, Journalled, Terminal
    <2> QED
      BY <1>3, <2>1, <2>2, <2>3, <2>4, <2>5 DEF Journalled
  <1>15. Planned'
    BY <1>3, <1>8, RecoverOpTyped DEF IInv, Planned
  <1>16. Pointed'
    <2> SUFFICES ASSUME plan # None, plan.wrap # 0 PROVE Pointed'
      BY <1>3 DEF Pointed
    <2>1. ControlOp(plan.wrap) \in Ops
      BY <1>1 DEF CtlTypes, Plans, Nums, Ops, ControlOp, Roles
    <2>2. op = ControlOp(plan.wrap) => op.role = "control" /\ job.req.inv = plan.inv
      BY <1>10 DEF ControlOp, op, IInv, Pointed
    <2>3. Done(ControlOp(plan.wrap))' => server[plan.inv] = "done"
      BY <1>3, <1>9, <2>1, <2>2 DEF IInv, Pointed, op
    <2> QED
      BY <1>3, <1>10, <2>3 DEF IInv, Pointed
  <1> QED
    BY <1>5, <1>6, <1>11, <1>14, <1>15, <1>16

(* A job that ends without changing the target or its surroundings.        *)
LEMMA EndsKeeps ==
  ASSUME IInv, job # None, NEW res \in Results, NEW obj \in Nums, Finish(res, obj),
         UNCHANGED <<runtime, cand, extVars>>, faults' \in 0..MaxFaults,
         res = "done" =>
            /\ job.req.op.role = "recover" => files.completed
            /\ job.req.op.role = "activate" => Active
            /\ job.req.op.role = "control" => server[job.req.inv] = "done"
  PROVE  IInv'
  <1>1. /\ UNCHANGED <<runtime, cand, server, passed, auth, snap, state, parts, db, files>>
        /\ job' = None
    BY DEF extVars, Finish
  <1>2. /\ CtlTypes' /\ MsgTypes' /\ Commanded'
        /\ Requested' /\ Journalled' /\ Planned' /\ Pointed'
    BY <1>1, FinishCloses, FinishFrame DEF Active
  <1>3. TypeOK'
    BY <1>1, <1>2, TypesSplit, TypesSplitNext DEF IInv, TgtTypes, ExtTypes
  <1>4. Paths' /\ Records' /\ Restoring' /\ Activating' /\ Deadlines'
    BY <1>1, TargetFrame, ServerFrame
  <1> QED
    BY <1>2, <1>3, <1>4 DEF IInv

-----------------------------------------------------------------------------
(***************************************************************************)
(* The restore.                                                            *)
(***************************************************************************)
(* A restore past its entry keeps the runtime stopped, so that the         *)
(* activation has nothing to say about it.                                 *)
LEMMA RestoreGoesOn ==
  ASSUME IInv, job # None, job.req.op.role = "recover",
         job' \in Jobs, job'.req = job.req, Keeps,
         TgtTypes', UNCHANGED state, runtime'.run = FALSE,
         Done(RecoverOp) => FALSE,
         files.completed => files'.completed,
         Paths', files'.completed => db' = "restored" /\ files'.marker,
         Restoring'
  PROVE  IInv'
  <1>1. Activating' /\ Records'
    BY DEF Activating, ActivateAt, Records
  <1> QED
    BY <1>1, GoesOn

(* What holds of the restore in hand.                                      *)
LEMMA RestoreInHand ==
  ASSUME IInv, job # None, job.req.op.role = "recover"
  PROVE  /\ job \in Jobs /\ job.req.op = RecoverOp
         /\ MsgTypes /\ TgtTypes /\ ~Done(RecoverOp)
         /\ job.at # "enter" => runtime.run = FALSE
  <1>1. MsgTypes /\ TgtTypes
    BY TypesSplit DEF IInv
  <1>2. job \in Jobs /\ job.req.op \in Ops
    BY <1>1, JobTyped
  <1>3. job.req.op = RecoverOp
    BY <1>1, <1>2 DEF IInv, Requested, Asked, Ops, RecoverOp
  <1>4. ~Done(RecoverOp)
    BY <1>1, <1>3 DEF IInv, Journalled, Done
  <1>5. job.at # "enter" => runtime.run = FALSE
    BY <1>1 DEF IInv, Restoring, TgtTypes
  <1> QED
    BY <1>1, <1>2, <1>3, <1>4, <1>5

LEMMA QuiesceKeeps ==
  ASSUME IInv, Quiesce
  PROVE  IInv'
  <1>1. /\ job # None /\ job \in Jobs /\ job.req.op.role = "recover" /\ ~Done(RecoverOp)
        /\ TgtTypes /\ ExtTypes
    BY RestoreInHand, TypesSplit DEF Quiesce, IInv, On
  <1>2. CASE job' = [job EXCEPT !.at = "verify", !.was = runtime.run]
             /\ runtime' = [runtime EXCEPT !.run = FALSE]
             /\ Keeps /\ UNCHANGED <<state, parts, db, files, cand>>
    <2>1. job' \in Jobs /\ job'.req = job.req /\ job'.at = "verify" /\ runtime'.run = FALSE /\ TgtTypes'
      BY <1>1, <1>2 DEF Jobs, TgtTypes
    <2>2. Paths' /\ (files'.completed => db' = "restored" /\ files'.marker)
      BY <1>2 DEF IInv, Paths, Records, Unmoved, Aside, InPlace
    <2>3. Restoring'
      BY <2>1 DEF Restoring, RestoreAt, Copying, Switching
    <2> QED
      BY <1>1, <1>2, <2>1, <2>2, <2>3, RestoreGoesOn
  <1>3. CASE Ends("failed", 0)
    BY <1>1, <1>3, EndsKeeps, SomeResults DEF Ends, ExtTypes
  <1> QED
    BY <1>2, <1>3 DEF Quiesce

(* A restore that fails restarts what it stopped, if nothing was switched. *)
LEMMA RestoreAborts ==
  ASSUME IInv, job # None, job.req.op.role = "recover", job.at # "enter",
         jrn' = [jrn EXCEPT ![job.req.op] = [at |-> "failed", obj |-> 0]],
         Answer(job.req.op, job.own, "failed", 0), job' = None,
         runtime' = [runtime EXCEPT !.run = @ \/ (job.was /\ ~files.marker)],
         db' \in {"none", "partial", "restored"}, files.completed => db' = db,
         UNCHANGED <<ctlVars, sess, state, parts, files, cand, extVars>>,
         faults' \in 0..MaxFaults
  PROVE  IInv'
  <1>1. /\ job \in Jobs /\ ~Done(RecoverOp) /\ TgtTypes /\ ExtTypes /\ runtime.run = FALSE
    BY RestoreInHand, TypesSplit DEF IInv
  <1>2. Closes("failed", 0)
    BY DEF Closes, Terminal
  <1>3. /\ CtlTypes' /\ MsgTypes' /\ Commanded'
        /\ Requested' /\ Journalled' /\ Planned' /\ Pointed'
    BY <1>1, <1>2, FinishFrame, SomeResults DEF extVars
  <1>4. TgtTypes' /\ ExtTypes'
    BY ZenonT(30), <1>1 DEF TgtTypes, ExtTypes, Jobs, extVars
  <1>5. Paths' /\ Records' /\ Deadlines'
    BY <1>1 DEF IInv, Paths, Records, Deadlines, Unmoved, Aside, InPlace, TgtTypes, extVars
  <1>6. Restoring' /\ Activating'
    BY <1>1, <1>5 DEF Restoring, Activating, RestoreAt, ActivateAt, Records, TgtTypes, IInv
  <1> QED
    BY <1>3, <1>4, <1>5, <1>6, TypesSplitNext DEF IInv

LEMMA VerifyKeeps ==
  ASSUME IInv, Verify
  PROVE  IInv'
  <1>1. /\ job # None /\ job \in Jobs /\ job.req.op.role = "recover" /\ ~Done(RecoverOp)
        /\ job.at = "verify" /\ MsgTypes /\ TgtTypes /\ ExtTypes /\ runtime.run = FALSE
    BY RestoreInHand, TypesSplit DEF Verify, IInv, On
  <1>2. CASE Aborts /\ UNCHANGED faults
    <2>1. jrn' = [jrn EXCEPT ![job.req.op] = [at |-> "failed", obj |-> 0]]
      BY <1>2 DEF Aborts, Finish, Terminal
    <2> QED
      BY <1>1, <1>2, <2>1, RestoreAborts DEF Aborts, Finish, TgtTypes, ExtTypes
  <1>3. CASE To(IF files.completed THEN "commit" ELSE "dbplan")
             /\ Keeps /\ UNCHANGED <<state, parts, db, files, runtime, cand>>
    <2>1. /\ job' \in Jobs /\ job'.req = job.req
          /\ job'.at = IF files.completed THEN "commit" ELSE "dbplan"
      BY <1>1, <1>3, ToMoves DEF JobSteps
    <2>2. TgtTypes' /\ runtime'.run = FALSE
      BY <1>1, <1>3 DEF TgtTypes
    <2>3. Paths' /\ (files'.completed => db' = "restored" /\ files'.marker)
      BY <1>3 DEF IInv, Paths, Records, Unmoved, Aside, InPlace
    <2>4. Restoring'
      BY <1>3, <2>1, <2>2 DEF Restoring, RestoreAt, Copying, Switching
    <2> QED
      BY <1>1, <1>3, <2>1, <2>2, <2>3, <2>4, RestoreGoesOn
  <1> QED
    BY <1>2, <1>3 DEF Verify

LEMMA PlanDatabaseKeeps ==
  ASSUME IInv, PlanDatabase
  PROVE  IInv'
  <1>1. /\ job # None /\ job.req.op.role = "recover" /\ ~Done(RecoverOp)
        /\ job.at = "dbplan" /\ MsgTypes /\ TgtTypes /\ runtime.run = FALSE
    BY RestoreInHand DEF PlanDatabase, On
  <1>2. ~files.completed
    BY <1>1 DEF IInv, Restoring, RestoreAt
  <1>3. job' \in Jobs /\ job'.req = job.req /\ job'.at = "database"
    BY <1>1, ToMoves DEF PlanDatabase, JobSteps
  <1>4. /\ files'.completed = files.completed /\ files'.marker = files.marker
        /\ UNCHANGED <<parts, db, runtime>> /\ TgtTypes'
    <2>1. files' = [files EXCEPT !.dbplan = TRUE] /\ UNCHANGED <<state, parts, db, runtime, cand>>
      BY DEF PlanDatabase
    <2> QED
      BY <1>1, <2>1 DEF TgtTypes
  <1>5. Paths'
    BY <1>4 DEF IInv, Paths, Unmoved, Aside, InPlace
  <1>6. Restoring'
    BY <1>1, <1>2, <1>3, <1>4 DEF Restoring, RestoreAt, Copying, Switching
  <1> QED
    BY <1>1, <1>2, <1>3, <1>4, <1>5, <1>6, RestoreGoesOn DEF PlanDatabase

LEMMA DatabaseKeeps ==
  ASSUME IInv, CreateDatabase \/ LoadDatabase
  PROVE  IInv'
  <1>1. /\ job # None /\ job.req.op.role = "recover" /\ ~Done(RecoverOp)
        /\ job.at \in {"database", "load"} /\ MsgTypes /\ TgtTypes /\ runtime.run = FALSE
    BY RestoreInHand DEF CreateDatabase, LoadDatabase, On
  <1>2. ~files.completed
    BY <1>1 DEF IInv, Restoring, RestoreAt
  <1>3. /\ job' \in Jobs /\ job'.req = job.req /\ job'.at \in {"load", "data"}
        /\ job'.at = "data" => db' = "restored"
        /\ db' \in {"none", "partial", "restored"}
    <2>1. CASE To("data") /\ db' = "restored"
      BY <1>1, <2>1, ToMoves DEF JobSteps
    <2>2. CASE To("load") /\ db' = "partial"
      BY <1>1, <2>2, ToMoves DEF JobSteps
    <2> QED
      BY <2>1, <2>2 DEF CreateDatabase, LoadDatabase
  <1>4. /\ UNCHANGED <<parts, files, runtime, state>> /\ TgtTypes' /\ Keeps
    BY <1>1, <1>3 DEF CreateDatabase, LoadDatabase, TgtTypes
  <1>5. Paths'
    BY <1>4 DEF IInv, Paths, Unmoved, Aside, InPlace
  <1>6. Restoring'
    BY <1>1, <1>2, <1>3, <1>4 DEF Restoring, RestoreAt, Copying, Switching
  <1> QED
    BY <1>1, <1>2, <1>3, <1>4, <1>5, <1>6, RestoreGoesOn

(* The copies of a part, and its two renames.                              *)
LEMMA StagePartKeeps ==
  ASSUME IInv, NEW p \in Parts, NEW next \in {"secrets", "urls", "mark"}, StagePart(p, next),
         p = "data" => next = "secrets",
         p = "secrets" => next = "urls",
         p = "config" => next = "mark"
  PROVE  IInv'
  <1>1. /\ job # None /\ job.req.op.role = "recover" /\ ~Done(RecoverOp)
        /\ job.at = p /\ MsgTypes /\ TgtTypes /\ runtime.run = FALSE
    BY RestoreInHand DEF StagePart, On, Parts
  <1>2. ~files.completed /\ db = "restored"
    BY <1>1 DEF IInv, Restoring, RestoreAt, Copying, Parts
  <1>3. job' \in Jobs /\ job'.req = job.req /\ job'.at = next
    BY <1>1, ToMoves DEF StagePart, JobSteps
  <1>4. UNCHANGED <<files, db, runtime, state, cand>> /\ Keeps
    BY DEF StagePart
  <1>5. PICK c \in {"none", "raw", "new"} :
          /\ parts' = [parts EXCEPT ![p].staged = c]
          /\ c # parts[p].staged => Unmoved(parts[p])
          /\ c = "raw" => p = "secrets"
    <2>1. CASE parts[p].staged = "none" /\ ~Switched(p)
      <3>1. Unmoved(parts[p])
        BY <2>1 DEF IInv, Paths, Unmoved, Aside, InPlace, Switched
      <3> QED
        BY <2>1, <3>1 DEF StagePart
    <2>2. CASE ~(parts[p].staged = "none" /\ ~Switched(p))
      <3>1. parts' = parts
        BY <2>2 DEF StagePart
      <3>2. parts' = [parts EXCEPT ![p].staged = parts[p].staged]
        BY <1>1, <3>1 DEF TgtTypes, PathTypes
      <3> QED
        BY <1>1, <3>2 DEF TgtTypes, PathTypes, IInv, Paths
    <2> QED
      BY <2>1, <2>2
  <1>6. /\ parts' \in [Parts -> PathTypes]
        /\ parts'[p].live = parts[p].live /\ parts'[p].back = parts[p].back
        /\ parts'[p].staged = c
        /\ \A q \in Parts : q # p => parts'[q] = parts[q]
    <2>1. parts[p] \in PathTypes
      BY <1>1 DEF TgtTypes
    <2>2. parts' = [parts EXCEPT ![p] = [parts[p] EXCEPT !.staged = c]]
      BY <1>1, <1>5 DEF TgtTypes
    <2>3. [parts[p] EXCEPT !.staged = c] \in PathTypes
      BY <2>1 DEF PathTypes
    <2> QED
      BY <1>1, <2>1, <2>2, <2>3 DEF TgtTypes, PathTypes
  <1>7. TgtTypes'
    BY <1>1, <1>4, <1>6 DEF TgtTypes
  <1>8. Paths'
    BY <1>2, <1>4, <1>5, <1>6 DEF IInv, Paths, Unmoved, Aside, InPlace
  <1>9. Restoring'
    BY <1>1, <1>2, <1>3, <1>4, <1>5, <1>6 DEF IInv, Restoring, RestoreAt, Copying, Switching, Parts
  <1> QED
    BY <1>1, <1>2, <1>3, <1>4, <1>7, <1>8, <1>9, RestoreGoesOn

LEMMA RewriteUrlsKeeps ==
  ASSUME IInv, RewriteUrls
  PROVE  IInv'
  <1>1. /\ job # None /\ job.req.op.role = "recover" /\ ~Done(RecoverOp)
        /\ job.at = "urls" /\ MsgTypes /\ TgtTypes /\ runtime.run = FALSE
    BY RestoreInHand DEF RewriteUrls, On
  <1>2. ~files.completed /\ db = "restored"
    BY <1>1 DEF IInv, Restoring, RestoreAt, Copying
  <1>3. job' \in Jobs /\ job'.req = job.req /\ job'.at = "config"
    BY <1>1, ToMoves DEF RewriteUrls, JobSteps
  <1>4. UNCHANGED <<files, db, runtime, state, cand>> /\ Keeps
    BY DEF RewriteUrls
  <1>5. /\ parts' \in [Parts -> PathTypes]
        /\ parts'["secrets"].live = parts["secrets"].live
        /\ parts'["secrets"].back = parts["secrets"].back
        /\ parts'["secrets"].staged = IF parts["secrets"].staged = "none" THEN "none" ELSE "new"
        /\ \A q \in Parts : q # "secrets" => parts'[q] = parts[q]
    <2> DEFINE x == parts["secrets"]
               c == IF x.staged = "none" THEN "none" ELSE "new"
    <2>1. x \in PathTypes /\ "secrets" \in Parts
      BY <1>1 DEF TgtTypes, Parts
    <2>2. parts' = [parts EXCEPT !["secrets"] = [x EXCEPT !.staged = c]]
      BY <1>1, <2>1 DEF TgtTypes, RewriteUrls
    <2>3. [x EXCEPT !.staged = c] \in PathTypes
      BY <2>1 DEF PathTypes
    <2> QED
      BY <1>1, <2>1, <2>2, <2>3 DEF TgtTypes, PathTypes
  <1>6. TgtTypes'
    BY <1>1, <1>4, <1>5 DEF TgtTypes
  <1>7. Paths'
    BY <1>2, <1>4, <1>5 DEF IInv, Paths, Unmoved, Aside, InPlace
  <1>8. Restoring'
    BY <1>1, <1>2, <1>3, <1>4, <1>5 DEF IInv, Restoring, RestoreAt, Copying, Switching, Parts
  <1> QED
    BY <1>1, <1>2, <1>3, <1>4, <1>6, <1>7, <1>8, RestoreGoesOn

LEMMA MarkSwitchingKeeps ==
  ASSUME IInv, MarkSwitching
  PROVE  IInv'
  <1>1. /\ job # None /\ job.req.op.role = "recover" /\ ~Done(RecoverOp)
        /\ job.at = "mark" /\ MsgTypes /\ TgtTypes /\ runtime.run = FALSE
    BY RestoreInHand DEF MarkSwitching, On
  <1>2. ~files.completed /\ db = "restored" /\ parts["secrets"].staged # "raw"
    BY <1>1 DEF IInv, Restoring, RestoreAt, Copying
  <1>3. job' \in Jobs /\ job'.req = job.req /\ job'.at = "switch data"
    BY <1>1, ToMoves DEF MarkSwitching, JobSteps
  <1>4. UNCHANGED <<parts, db, runtime, state, cand>> /\ Keeps
    BY DEF MarkSwitching
  <1>5. files' = [files EXCEPT !.marker = TRUE]
    BY DEF MarkSwitching
  <1>6. files'.marker /\ ~files'.completed /\ TgtTypes'
    BY <1>1, <1>2, <1>4, <1>5 DEF TgtTypes
  <1>7. Paths'
    BY <1>4, <1>6 DEF IInv, Paths, Unmoved, Aside, InPlace
  <1>8. Restoring'
    BY <1>1, <1>2, <1>3, <1>4, <1>6 DEF Restoring, RestoreAt, Copying, Switching
  <1> QED
    BY <1>1, <1>2, <1>3, <1>4, <1>6, <1>7, <1>8, RestoreGoesOn

LEMMA SwitchPartKeeps ==
  ASSUME IInv, NEW p \in Parts, NEW at \in Switching, NEW next \in Switching,
         SwitchPart(p, at, next),
         \/ p = "data" /\ at = "switch data" /\ next = "switch secrets"
         \/ p = "secrets" /\ at = "switch secrets" /\ next = "switch config"
         \/ p = "config" /\ at = "switch config" /\ next = "completed"
  PROVE  IInv'
  <1>1. /\ job # None /\ job \in Jobs /\ job.req.op.role = "recover" /\ ~Done(RecoverOp)
        /\ job.at = at /\ MsgTypes /\ TgtTypes /\ runtime.run = FALSE
    BY RestoreInHand DEF SwitchPart, On, Switching
  <1>2. ~files.completed /\ db = "restored" /\ parts["secrets"].staged # "raw" /\ files.marker
    BY <1>1 DEF IInv, Restoring, RestoreAt
  <1>3. UNCHANGED <<files, db, runtime, state, cand>> /\ Keeps
    BY DEF SwitchPart
  <1>4. parts[p] \in PathTypes /\ parts[p].staged # "raw"
    BY <1>1, <1>2 DEF TgtTypes, IInv, Paths
  <1>5. /\ parts' \in [Parts -> PathTypes] /\ \A q \in Parts : q # p => parts'[q] = parts[q]
        /\ \/ job' = job /\ Aside(parts'[p])
           \/ To(next) /\ InPlace(parts'[p])
    <2>1. CASE /\ parts[p].live # "none" /\ parts[p].staged # "none" /\ ~parts[p].back
               /\ parts' = [parts EXCEPT ![p] = [parts[p] EXCEPT !.live = "none", !.back = TRUE]]
               /\ UNCHANGED job
      <3>1. [parts[p] EXCEPT !.live = "none", !.back = TRUE] \in PathTypes
        BY <1>4 DEF PathTypes
      <3> QED
        BY <1>1, <1>4, <2>1, <3>1 DEF TgtTypes, PathTypes, Aside
    <2>2. CASE /\ parts[p].live = "none" /\ parts[p].staged # "none" /\ parts[p].back
               /\ parts' = [parts EXCEPT ![p] = [parts[p] EXCEPT !.live = parts[p].staged,
                                                                !.staged = "none"]]
               /\ To(next)
      <3>1. [parts[p] EXCEPT !.live = parts[p].staged, !.staged = "none"] \in PathTypes
        BY <1>4 DEF PathTypes
      <3> QED
        BY <1>1, <1>4, <2>2, <3>1 DEF TgtTypes, PathTypes, InPlace
    <2>3. CASE /\ parts[p].live # "none" /\ parts[p].staged = "none" /\ parts[p].back
               /\ UNCHANGED parts /\ To(next)
      BY <1>1, <2>3 DEF TgtTypes, IInv, Paths, Unmoved, Aside, InPlace
    <2> QED
      BY <2>1, <2>2, <2>3 DEF SwitchPart
  <1>6. /\ job' \in Jobs /\ job'.req = job.req
        /\ job'.at = at \/ (job'.at = next /\ InPlace(parts'[p]))
    <2>1. Switching \subseteq JobSteps
      BY DEF Switching, JobSteps
    <2> QED
      BY <1>1, <1>5, <2>1, ToMoves
  <1>7. TgtTypes'
    BY <1>1, <1>3, <1>5 DEF TgtTypes
  <1>8. Paths'
    BY ZenonT(30), <1>2, <1>3, <1>5 DEF IInv, Paths, Unmoved, Aside, InPlace
  <1>9. parts'["secrets"].staged # "raw"
    BY <1>2, <1>5 DEF Aside, InPlace, Parts
  <1>10. \A q \in Parts : q # p /\ Moved(q) => Moved(q)'
    BY <1>5 DEF Moved, InPlace
  <1>11. job'.at = next => Moved(p)'
    BY <1>6 DEF Moved, InPlace, Switching
  <1>12. Restoring'
    <2>1. RestoreAt({"switch secrets", "switch config", "completed"})' => Moved("data")'
      BY <1>1, <1>6, <1>10, <1>11 DEF IInv, Restoring, RestoreAt, Parts
    <2>2. RestoreAt({"switch config", "completed"})' => Moved("secrets")'
      BY <1>1, <1>6, <1>10, <1>11 DEF IInv, Restoring, RestoreAt, Parts
    <2>3. RestoreAt({"completed"})' => Moved("config")'
      BY <1>1, <1>6, <1>10, <1>11 DEF IInv, Restoring, RestoreAt, Parts
    <2>4. job'.at \notin {"commit", "answer"}
      BY <1>6 DEF Switching
    <2> QED
      BY <1>1, <1>2, <1>3, <1>9, <2>1, <2>2, <2>3, <2>4 DEF Restoring, RestoreAt
  <1> QED
    BY <1>1, <1>2, <1>3, <1>6, <1>7, <1>8, <1>12, RestoreGoesOn

LEMMA WriteCompletedKeeps ==
  ASSUME IInv, WriteCompleted
  PROVE  IInv'
  <1>1. /\ job # None /\ job.req.op.role = "recover" /\ ~Done(RecoverOp)
        /\ job.at = "completed" /\ MsgTypes /\ TgtTypes /\ runtime.run = FALSE
    BY RestoreInHand DEF WriteCompleted, On
  <1>2. db = "restored" /\ files.marker /\ Moved("data") /\ Moved("secrets") /\ Moved("config")
    BY <1>1 DEF IInv, Restoring, RestoreAt, Switching
  <1>3. job' \in Jobs /\ job'.req = job.req /\ job'.at = "commit"
    BY <1>1, ToMoves DEF WriteCompleted, JobSteps
  <1>4. UNCHANGED <<parts, db, runtime, state, cand>> /\ Keeps
    BY DEF WriteCompleted
  <1>5. files' = [files EXCEPT !.completed = TRUE]
    BY DEF WriteCompleted
  <1>6. files'.marker /\ files'.completed /\ TgtTypes'
    BY <1>1, <1>2, <1>4, <1>5 DEF TgtTypes
  <1>7. Paths'
    BY <1>2, <1>4, <1>6 DEF IInv, Paths, Unmoved, Aside, InPlace, Moved, Parts
  <1>8. Restoring'
    BY <1>1, <1>3, <1>4, <1>6 DEF Restoring, RestoreAt, Copying, Switching
  <1> QED
    BY <1>1, <1>2, <1>3, <1>4, <1>6, <1>7, <1>8, RestoreGoesOn

(* The commit advances the deployment's revision, and the journal has the  *)
(* operation already.                                                      *)
LEMMA CommitRecoveryKeeps ==
  ASSUME IInv, CommitRecovery
  PROVE  IInv'
  <1>1. /\ job # None /\ job \in Jobs /\ job.req.op = RecoverOp /\ ~Done(RecoverOp)
        /\ job.req.op.role = "recover"
        /\ job.at = "commit" /\ MsgTypes /\ TgtTypes /\ ExtTypes /\ CtlTypes /\ runtime.run = FALSE
    BY RestoreInHand, TypesSplit DEF CommitRecovery, On, IInv
  <1>2. CASE Ends("failed", 0)
    BY <1>1, <1>2, EndsKeeps, SomeResults DEF Ends, ExtTypes
  <1>3. CASE /\ state.active = RecoverOp \/ state.rev = job.req.rev
             /\ state' = IF state.active = RecoverOp THEN state
                          ELSE [rev |-> state.rev + 1, active |-> RecoverOp]
             /\ To("answer")
             /\ Keeps /\ UNCHANGED <<parts, db, files, runtime, cand>>
    <2>1. job' \in Jobs /\ job'.req = job.req /\ job'.at = "answer" /\ job' # None
      BY <1>1, <1>3, ToMoves DEF JobSteps
    <2>2. state' \in [rev : 1..MaxRevision + 1, active : Ops \cup {None}]
      <3>1. job.req.rev \in 1..MaxRevision
        BY <1>1 DEF Jobs, Requests
      <3> QED
        BY <1>1, <1>3, <3>1, RecoverOpTyped DEF TgtTypes
    <2>3. UNCHANGED <<plan, slot, minted, resets, ctl, sess, answer, jrn, server, passed, auth, snap, faults>>
      BY <1>3 DEF Keeps, ctlVars, extVars
    <2>4. TypeOK'
      BY <1>1, <1>3, <2>1, <2>2, <2>3, TypesSplitNext DEF CtlTypes, MsgTypes, TgtTypes, ExtTypes
    <2>5. jrn[RecoverOp].at # "none"
      BY <1>1 DEF IInv, Journalled
    <2>6. Requested' /\ Journalled' /\ Planned' /\ Pointed'
      BY <1>1, <1>3, <2>1, <2>3, <2>5, JournalFrame
    <2>7. Commanded' /\ Deadlines'
      BY <2>3 DEF IInv, Commanded, Deadlines
    <2>8. files.completed
      BY <1>1 DEF IInv, Restoring, RestoreAt
    <2>9. Paths' /\ Records' /\ Restoring' /\ Activating'
      BY <1>1, <1>3, <2>1, <2>8 DEF IInv, Paths, Records, Restoring, RestoreAt, Copying, Switching,
           Activating, ActivateAt, Unmoved, Aside, InPlace
    <2> QED
      BY <2>4, <2>6, <2>7, <2>9 DEF IInv
  <1> QED
    BY <1>2, <1>3 DEF CommitRecovery

LEMMA RecoverAnswerKeeps ==
  ASSUME IInv, RecoverAnswer
  PROVE  IInv'
  <1>1. job # None /\ job.req.op.role = "recover" /\ job.at = "answer" /\ ExtTypes
    BY TypesSplit DEF RecoverAnswer, On, IInv
  <1>2. files.completed
    BY <1>1 DEF IInv, Restoring, RestoreAt
  <1> QED
    BY <1>1, <1>2, EndsKeeps, SomeResults DEF RecoverAnswer, Ends, ExtTypes

LEMMA FaultTyped ==
  ASSUME IInv, Fault
  PROVE  faults' \in 0..MaxFaults
  BY DEF IInv, TypeOK, Fault

LEMMA RecoverFailsKeeps ==
  ASSUME IInv, RecoverFails
  PROVE  IInv'
  <1>1. job # None /\ job.req.op.role = "recover" /\ job.at # "enter" /\ TgtTypes
    BY TypesSplit DEF RecoverFails, IInv
  <1>2. job.at = "load" => ~files.completed
    BY <1>1 DEF IInv, Restoring, RestoreAt
  <1>3. db' \in {"none", "partial", "restored"} /\ (files.completed => db' = db)
    BY <1>1, <1>2 DEF RecoverFails, TgtTypes
  <1> QED
    BY <1>1, <1>3, RestoreAborts, FaultTyped DEF RecoverFails

-----------------------------------------------------------------------------
(***************************************************************************)
(* The operations that follow the restore.                                 *)
(***************************************************************************)
LEMMA OtherGoesOn ==
  ASSUME IInv, job # None, job.req.op.role \in {"stage", "control", "cleanup"},
         job' \in Jobs, job'.req = job.req, Keeps, TgtTypes',
         UNCHANGED <<state, parts, db, runtime>>,
         files'.completed = files.completed, files'.marker = files.marker
  PROVE  IInv'
  <1>1. Paths' /\ Records'
    BY DEF IInv, Paths, Records, Unmoved, Aside, InPlace
  <1>2. UNCHANGED passed
    BY DEF Keeps, extVars
  <1>3. Restoring' /\ Activating'
    BY <1>2 DEF IInv, Restoring, Activating, RestoreAt, ActivateAt
  <1> QED
    BY <1>1, <1>3, GoesOn DEF Active

LEMMA JobTypes ==
  ASSUME IInv, job # None
  PROVE  CtlTypes /\ MsgTypes /\ TgtTypes /\ ExtTypes /\ job \in Jobs /\ job.req \in Requests
  BY TypesSplit, JobTyped DEF IInv

LEMMA EndsFailed ==
  ASSUME IInv, job # None, Ends("failed", 0)
  PROVE  IInv'
  BY EndsKeeps, SomeResults, JobTypes DEF Ends, ExtTypes

LEMMA StageKeeps ==
  ASSUME IInv, StageEnter \/ StageFacts \/ StageRun \/ StageAnswer \/ StageUnready
  PROVE  IInv'
  <1>1. /\ job # None /\ job.req.op.role = "stage"
    BY DEF StageEnter, StageFacts, StageRun, StageAnswer, StageUnready, On
  <1>2. MsgTypes /\ TgtTypes /\ ExtTypes /\ job \in Jobs /\ job.req \in Requests
    BY <1>1, JobTypes
  <1>3. CASE StageEnter
    <2>1. CASE Ends("failed", 0)
      BY <1>1, <2>1, EndsFailed
    <2>2. CASE To("facts") /\ Keeps /\ UNCHANGED <<state, parts, db, files, runtime, cand>>
      <3>1. job' \in Jobs /\ job'.req = job.req
        BY <1>1, <1>2, <2>2, ToMoves DEF JobSteps
      <3>2. TgtTypes'
        BY <1>2, <2>2 DEF TgtTypes
      <3> QED
        BY <1>1, <2>2, <3>1, <3>2, OtherGoesOn
    <2> QED
      BY <1>3, <2>1, <2>2 DEF StageEnter
  <1>4. CASE StageFacts
    <2>1. job' \in Jobs /\ job'.req = job.req
      BY <1>1, <1>2, <1>4, ToMoves DEF JobSteps, StageFacts
    <2>2. PICK v \in Releases \cup {None} : files' = [files EXCEPT !.release = v]
      <3>1. job.req.ver \in Releases \cup {None} /\ files.release \in Releases \cup {None}
        BY <1>2 DEF Requests, TgtTypes
      <3>2. files = [files EXCEPT !.release = files.release]
        BY <1>2 DEF TgtTypes
      <3> QED
        BY <1>4, <3>1, <3>2 DEF StageFacts
    <2>3. UNCHANGED <<state, parts, db, runtime, cand>> /\ Keeps
      BY <1>4 DEF StageFacts
    <2>4. files'.completed = files.completed /\ files'.marker = files.marker /\ TgtTypes'
      BY <1>2, <2>2, <2>3 DEF TgtTypes
    <2> QED
      BY <1>1, <2>1, <2>3, <2>4, OtherGoesOn
  <1>5. CASE StageRun
    <2>1. CASE Ends("failed", 0)
      BY <1>1, <2>1, EndsFailed
    <2>2. CASE /\ cand.obj # 0 \/ cand.last < MaxIds
               /\ cand' = IF cand.obj = 0
                            THEN [obj |-> cand.last + 1, ver |-> files.release, last |-> cand.last + 1]
                            ELSE cand
               /\ To("answer")
               /\ Keeps /\ UNCHANGED <<state, parts, db, files, runtime>>
      <3>1. job' \in Jobs /\ job'.req = job.req
        BY <1>1, <1>2, <2>2, ToMoves DEF JobSteps
      <3>2. cand' \in [obj : Nums, ver : Releases \cup {None}, last : Nums]
        BY <1>2, <2>2 DEF TgtTypes, Nums
      <3>3. TgtTypes'
        BY <1>2, <2>2, <3>2 DEF TgtTypes
      <3> QED
        BY <1>1, <2>2, <3>1, <3>3, OtherGoesOn
    <2> QED
      BY <1>5, <2>1, <2>2 DEF StageRun
  <1>6. CASE StageAnswer
    <2>1. cand.obj \in Nums
      BY <1>2 DEF TgtTypes
    <2> QED
      BY <1>1, <1>2, <1>6, <2>1, EndsKeeps, SomeResults DEF StageAnswer, Ends, ExtTypes
  <1>7. CASE StageUnready
    <2>1. /\ CtlTypes' /\ MsgTypes' /\ Commanded'
          /\ Requested' /\ Journalled' /\ Planned' /\ Pointed'
      BY <1>1, <1>7, FinishFrame, FinishCloses, SomeResults DEF StageUnready, extVars, Active
    <2>2. /\ UNCHANGED <<state, parts, db, files, runtime, server, passed, auth, snap>> /\ job' = None
      BY <1>7 DEF StageUnready, Finish, extVars
    <2>3. cand' \in [obj : Nums, ver : Releases \cup {None}, last : Nums]
      BY <1>2, <1>7, SomeResults DEF StageUnready, TgtTypes
    <2>4. TgtTypes' /\ ExtTypes'
      BY <1>2, <1>7, <2>2, <2>3, FaultTyped DEF TgtTypes, ExtTypes, StageUnready
    <2>5. Paths' /\ Records' /\ Restoring' /\ Activating' /\ Deadlines'
      BY <2>2, TargetFrame, ServerFrame
    <2> QED
      BY <2>1, <2>4, <2>5, TypesSplitNext DEF IInv
  <1> QED
    BY <1>3, <1>4, <1>5, <1>6, <1>7

LEMMA CleanupKeeps ==
  ASSUME IInv, CleanupCandidate \/ CleanupAnswer
  PROVE  IInv'
  <1>1. /\ job # None /\ job.req.op.role = "cleanup"
    BY DEF CleanupCandidate, CleanupAnswer, On
  <1>2. MsgTypes /\ TgtTypes /\ ExtTypes /\ job \in Jobs /\ job.req \in Requests
    BY <1>1, JobTypes
  <1>3. CASE CleanupCandidate
    <2>1. job' \in Jobs /\ job'.req = job.req
      BY <1>1, <1>2, <1>3, ToMoves DEF JobSteps, CleanupCandidate
    <2>2. cand' \in [obj : Nums, ver : Releases \cup {None}, last : Nums]
      BY <1>2, <1>3, SomeResults DEF CleanupCandidate, TgtTypes
    <2>3. UNCHANGED <<state, parts, db, files, runtime>> /\ Keeps
      BY <1>3 DEF CleanupCandidate
    <2>4. TgtTypes'
      BY <1>2, <2>2, <2>3 DEF TgtTypes
    <2> QED
      BY <1>1, <2>1, <2>3, <2>4, OtherGoesOn
  <1>4. CASE CleanupAnswer
    BY <1>1, <1>2, <1>4, EndsKeeps, SomeResults DEF CleanupAnswer, Ends, ExtTypes
  <1> QED
    BY <1>3, <1>4

(* The server's record changes, and nothing but the job's step with it.    *)
LEMMA ServerMoves ==
  ASSUME IInv, UNCHANGED <<ctlVars, sess, answer, tgtVars, passed, auth, snap>>,
         faults' \in 0..MaxFaults,
         server' \in [1..MaxIds -> {"none", "accepted", "done", "unsuccessful"}],
         \A i \in 1..MaxIds : server[i] = "done" => server'[i] = "done",
         \/ UNCHANGED job
         \/ /\ job # None /\ job' \in Jobs /\ job'.req = job.req
            /\ job.req.op.role = "control"
  PROVE  IInv'
  <1>1. UNCHANGED <<plan, ctl, slot, minted, resets, jrn, state, parts, db, files, runtime, cand>>
    BY DEF ctlVars, tgtVars
  <1>2. CtlTypes /\ MsgTypes /\ TgtTypes /\ ExtTypes
    BY TypesSplit DEF IInv
  <1>3. TypeOK'
    BY <1>1, <1>2, TypesSplitNext DEF CtlTypes, MsgTypes, TgtTypes, ExtTypes
  <1>4. job' = None \/ (job # None /\ job' # None /\ job'.req = job.req)
    OBVIOUS
  <1>5. Requested' /\ Journalled' /\ Planned' /\ Pointed'
    BY <1>1, <1>4, JournalFrame DEF Active, IInv, Journalled
  <1>6. Commanded' /\ Paths' /\ Records'
    BY <1>1 DEF IInv, Commanded, Paths, Records, Unmoved, Aside, InPlace
  <1>7. Deadlines'
    BY <1>2 DEF IInv, Deadlines, ExtTypes
  <1>8. Restoring' /\ Activating'
    <2>1. CASE UNCHANGED job
      BY <1>1, <2>1, TargetFrame
    <2>2. CASE job # None /\ job' \in Jobs /\ job'.req = job.req /\ job.req.op.role = "control"
      BY <1>1, <2>2 DEF IInv, Restoring, Activating, RestoreAt, ActivateAt
    <2> QED
      BY <2>1, <2>2
  <1> QED
    BY <1>3, <1>5, <1>6, <1>7, <1>8 DEF IInv

LEMMA ControlKeeps ==
  ASSUME IInv, ControlEnter \/ ControlRun \/ ControlCollect
  PROVE  IInv'
  <1>1. /\ job # None /\ job.req.op.role = "control"
    BY DEF ControlEnter, ControlRun, ControlCollect, On
  <1>2. MsgTypes /\ TgtTypes /\ ExtTypes /\ job \in Jobs /\ job.req \in Requests
    BY <1>1, JobTypes
  <1>3. Signed \in 1..MaxIds
    <2>1. Signed # 0
      BY <1>1 DEF IInv, Requested, Asked, Signed
    <2> QED
      BY <1>2, <2>1 DEF Signed, Requests, Nums
  <1>4. CASE ControlEnter
    <2>1. CASE Ends("failed", 0)
      BY <1>1, <2>1, EndsFailed
    <2>2. CASE To("run") /\ Keeps /\ UNCHANGED <<state, parts, db, files, runtime, cand>>
      <3>1. job' \in Jobs /\ job'.req = job.req
        BY <1>1, <1>2, <2>2, ToMoves DEF JobSteps
      <3>2. TgtTypes'
        BY <1>2, <2>2 DEF TgtTypes
      <3> QED
        BY <1>1, <2>2, <3>1, <3>2, OtherGoesOn
    <2> QED
      BY <1>4, <2>1, <2>2 DEF ControlEnter
  <1>5. CASE ControlRun
    <2>1. CASE Ends("unauthorized", 0)
      BY <1>1, <1>2, <2>1, EndsKeeps, SomeResults DEF Ends, ExtTypes
    <2>2. CASE Fault /\ Finish("rejected", 0) /\ UNCHANGED <<runtime, cand, extVars>>
      BY <1>1, <2>2, EndsKeeps, SomeResults, FaultTyped
    <2>3. CASE /\ server' = [server EXCEPT ![Signed] = IF @ = "none" THEN "accepted" ELSE @]
               /\ To("collect")
               /\ UNCHANGED <<ctlVars, sess, answer, tgtVars, passed, auth, snap, faults>>
      <3>1. job' \in Jobs /\ job'.req = job.req
        BY <1>1, <1>2, <2>3, ToMoves DEF JobSteps
      <3>2. /\ server' \in [1..MaxIds -> {"none", "accepted", "done", "unsuccessful"}]
            /\ \A i \in 1..MaxIds : server[i] = "done" => server'[i] = "done"
        BY <1>2, <1>3, <2>3 DEF ExtTypes
      <3> QED
        BY <1>1, <1>2, <2>3, <3>1, <3>2, ServerMoves DEF ExtTypes
    <2> QED
      BY <1>5, <2>1, <2>2, <2>3 DEF ControlRun
  <1>6. CASE ControlCollect
    <2>1. CASE server[Signed] \in {"done", "unsuccessful"} /\ Ends(server[Signed], 0)
      BY <1>1, <1>2, <2>1, EndsKeeps, SomeResults DEF Ends, ExtTypes, Signed
    <2>2. CASE Fault /\ Finish("inprogress", 0) /\ UNCHANGED <<runtime, cand, extVars>>
      BY <1>1, <2>2, EndsKeeps, SomeResults, FaultTyped
    <2> QED
      BY <1>6, <2>1, <2>2 DEF ControlCollect
  <1> QED
    BY <1>4, <1>5, <1>6

(* The activation, whose entry checks that the restore is complete, that a *)
(* deadline passed, and that what runs is what it would start.             *)
LEMMA ActivateKeeps ==
  ASSUME IInv, ActivateEnter \/ ActivateReplace \/ ActivateStart
  PROVE  IInv'
  <1>1. /\ job # None /\ job.req.op.role = "activate"
    BY DEF ActivateEnter, ActivateReplace, ActivateStart, On
  <1>2. MsgTypes /\ TgtTypes /\ ExtTypes /\ job \in Jobs
    BY <1>1, JobTypes
  <1>3. CASE ActivateEnter
    <2>1. CASE Ends("failed", 0)
      BY <1>1, <2>1, EndsFailed
    <2>2. CASE /\ job.req.deadline \in passed /\ files.completed /\ files.release # None
               /\ runtime.run => runtime.ver = files.release
               /\ To(IF runtime.run THEN "ready" ELSE "replace")
               /\ Keeps /\ UNCHANGED <<state, parts, db, files, runtime, cand>>
      <3>1. /\ job' \in Jobs /\ job'.req = job.req
            /\ job'.at = IF runtime.run THEN "ready" ELSE "replace"
        BY <1>1, <1>2, <2>2, ToMoves DEF JobSteps
      <3>2. TgtTypes' /\ UNCHANGED passed
        BY <1>2, <2>2 DEF TgtTypes, Keeps, extVars
      <3>3. Paths' /\ Records' /\ Restoring'
        BY <1>1, <2>2, <3>1 DEF IInv, Paths, Records, Unmoved, Aside, InPlace, Restoring, RestoreAt
      <3>4. Activating'
        BY <1>1, <2>2, <3>1, <3>2 DEF IInv, Activating, ActivateAt, Active
      <3> QED
        BY <1>1, <2>2, <3>1, <3>2, <3>3, <3>4, GoesOn DEF Active
    <2> QED
      BY <1>3, <2>1, <2>2 DEF ActivateEnter
  <1>4. CASE ActivateReplace \/ ActivateStart
    <2>1. /\ job.at \in {"replace", "start"}
          /\ UNCHANGED <<state, parts, db, files, cand>> /\ Keeps
      BY <1>4 DEF ActivateReplace, ActivateStart, On
    <2>2. /\ files.completed /\ files.release # None /\ passed # {} /\ ~runtime.run
          /\ job.at = "start" => runtime.ver # None
      BY <1>1, <2>1 DEF IInv, Activating, ActivateAt
    <2>3. /\ job' \in Jobs /\ job'.req = job.req
          /\ job.at = "replace" => job'.at = "start"
          /\ job.at = "start" => job'.at = "ready"
      <3>1. (job.at = "replace" /\ To("start")) \/ (job.at = "start" /\ To("ready"))
        BY <1>4 DEF ActivateReplace, ActivateStart, On
      <3>2. CASE job.at = "replace" /\ To("start")
        BY <1>1, <1>2, <3>2, ToMoves DEF JobSteps
      <3>3. CASE job.at = "start" /\ To("ready")
        BY <1>1, <1>2, <3>3, ToMoves DEF JobSteps
      <3> QED
        BY <3>1, <3>2, <3>3
    <2>4. /\ runtime' \in [run : BOOLEAN, ver : Releases \cup {None}]
          /\ job.at = "replace" => ~runtime'.run /\ runtime'.ver # None
          /\ job.at = "start" => runtime'.run /\ runtime'.ver # None
      <3>1. CASE ActivateReplace
        <4>1. job.at = "replace" /\ runtime' = [run |-> FALSE, ver |-> files.release]
          BY <3>1 DEF ActivateReplace, On
        <4>2. files.release \in Releases
          BY <1>2, <2>2 DEF TgtTypes
        <4> QED
          BY <4>1, <4>2
      <3>2. CASE ActivateStart
        <4>1. job.at = "start" /\ runtime' = [runtime EXCEPT !.run = TRUE]
          BY <3>2 DEF ActivateStart, On
        <4> QED
          BY <4>1, <1>2, <2>2 DEF TgtTypes
      <3> QED
        BY <1>4, <3>1, <3>2
    <2>5. TgtTypes' /\ UNCHANGED passed
      BY <1>2, <2>1, <2>4 DEF TgtTypes, Keeps, extVars
    <2>6. Paths' /\ Records' /\ Restoring'
      BY <1>1, <2>1, <2>2, <2>3 DEF IInv, Paths, Records, Unmoved, Aside, InPlace, Restoring, RestoreAt
    <2>7. Activating'
      BY <1>1, <2>1, <2>2, <2>3, <2>4, <2>5 DEF Activating, ActivateAt, Active
    <2> QED
      BY <1>1, <2>1, <2>2, <2>3, <2>5, <2>6, <2>7, GoesOn DEF Active
  <1> QED
    BY <1>3, <1>4

(* It becomes the active operation of the deployment.                      *)
LEMMA ActivateCommitKeeps ==
  ASSUME IInv, ActivateCommit
  PROVE  IInv'
  <1>1. /\ job # None /\ job.req.op.role = "activate" /\ job.at = "ready" /\ Keeps
        /\ UNCHANGED <<parts, db, files, runtime, cand>>
    BY DEF ActivateCommit, On
  <1>2. /\ CtlTypes /\ MsgTypes /\ TgtTypes /\ ExtTypes /\ job \in Jobs /\ job.req.op \in Ops
    BY <1>1, JobTypes, JobTyped
  <1>3. job' \in Jobs /\ job'.req = job.req /\ job'.at = "answer" /\ job' # None
    BY <1>1, <1>2, ToMoves DEF JobSteps, ActivateCommit
  <1>4. /\ state' \in [rev : 1..MaxRevision + 1, active : Ops \cup {None}]
        /\ state'.rev = state.rev
    BY <1>2 DEF ActivateCommit, TgtTypes
  <1>5. UNCHANGED <<plan, slot, minted, resets, ctl, sess, answer, jrn, server, passed, auth, snap, faults>>
    BY <1>1 DEF Keeps, ctlVars, extVars
  <1>6. TypeOK'
    BY <1>1, <1>2, <1>3, <1>4, <1>5, TypesSplitNext DEF CtlTypes, MsgTypes, TgtTypes, ExtTypes
  <1>7. Requested' /\ Journalled' /\ Planned' /\ Pointed'
    BY <1>1, <1>3, <1>4, <1>5, JournalFrame DEF Active, IInv, Journalled
  <1>8. Commanded' /\ Deadlines'
    BY <1>5 DEF IInv, Commanded, Deadlines
  <1>9. Paths' /\ Records' /\ Restoring' /\ Activating'
    BY <1>1, <1>3, <1>5 DEF IInv, Paths, Records, Restoring, RestoreAt, Activating, ActivateAt,
         Active, Unmoved, Aside, InPlace
  <1> QED
    BY <1>6, <1>7, <1>8, <1>9 DEF IInv

LEMMA ActivateAnswerKeeps ==
  ASSUME IInv, ActivateAnswer
  PROVE  IInv'
  <1>1. /\ job # None /\ job.req.op.role = "activate" /\ job.at = "answer"
    BY DEF ActivateAnswer, On
  <1>2. Active
    BY <1>1 DEF IInv, Activating, ActivateAt
  <1> QED
    BY <1>1, <1>2, EndsKeeps, SomeResults, JobTypes DEF ActivateAnswer, Ends, ExtTypes

LEMMA StepFailsKeeps ==
  ASSUME IInv, StepFails
  PROVE  IInv'
  BY EndsKeeps, SomeResults, FaultTyped DEF StepFails

LEMMA RestTyped == Rest \in Commands /\ Rest.at = "idle"
  BY DEF Rest, Commands, CtlSteps

(* Killed, the target forgets the job and the command its connection.      *)
LEMMA KillTargetKeeps ==
  ASSUME IInv, KillTarget
  PROVE  IInv'
  <1>1. /\ job' = None /\ ctl' \in {Rest, ctl} /\ faults' \in 0..MaxFaults
        /\ UNCHANGED <<plan, slot, minted, resets, sess, answer, jrn, state, parts, db, files,
                       runtime, cand, server, passed, auth, snap>>
    BY FaultTyped DEF KillTarget, tgtVars, extVars
  <1>2. TypeOK'
    BY <1>1, TypesSplit, TypesSplitNext, RestTyped DEF IInv, CtlTypes, MsgTypes, TgtTypes, ExtTypes
  <1>3. Requested' /\ Journalled' /\ Planned' /\ Pointed'
    BY <1>1, JournalFrame DEF Active, IInv, Journalled
  <1>4. Commanded'
    <2>1. CASE ctl' = Rest
      BY <2>1, RestTyped DEF Commanded
    <2>2. CASE ctl' = ctl
      BY <1>1, <2>2 DEF IInv, Commanded
    <2> QED
      BY <1>1, <2>1, <2>2
  <1>5. Paths' /\ Records' /\ Restoring' /\ Activating' /\ Deadlines'
    BY <1>1, TargetFrame, ServerFrame
  <1> QED
    BY <1>2, <1>3, <1>4, <1>5 DEF IInv

-----------------------------------------------------------------------------
(***************************************************************************)
(* The surroundings.                                                       *)
(***************************************************************************)
LEMMA ServerFinishesKeeps ==
  ASSUME IInv, NEW i \in 1..MaxIds, ServerFinishes(i)
  PROVE  IInv'
  <1>1. ExtTypes
    BY TypesSplit DEF IInv
  <1>2. faults' \in 0..MaxFaults
    BY <1>1, FaultTyped DEF ServerFinishes, ExtTypes
  <1>3. PICK v \in {"done", "unsuccessful"} : server' = [server EXCEPT ![i] = v]
    BY DEF ServerFinishes
  <1>4. /\ server' \in [1..MaxIds -> {"none", "accepted", "done", "unsuccessful"}]
        /\ \A j \in 1..MaxIds : server[j] = "done" => server'[j] = "done"
    BY <1>1, <1>3 DEF ServerFinishes, ExtTypes
  <1> QED
    BY <1>2, <1>4, ServerMoves DEF ServerFinishes

LEMMA DeadlinePassesKeeps ==
  ASSUME IInv, NEW i \in 1..MaxIds, DeadlinePasses(i)
  PROVE  IInv'
  <1>1. /\ UNCHANGED <<plan, ctl, slot, minted, resets, sess, job, answer, jrn, state, parts, db,
                       files, runtime, cand, server, auth, snap, faults>>
        /\ passed' = passed \cup {i} /\ server[i] = "done"
    BY DEF DeadlinePasses, ctlVars, tgtVars
  <1>2. TypeOK'
    BY <1>1 DEF IInv, TypeOK
  <1>3. Requested' /\ Journalled' /\ Planned' /\ Pointed'
    BY <1>1, JournalFrame DEF Active, IInv, Journalled
  <1>4. Commanded' /\ Deadlines'
    BY <1>1 DEF IInv, Commanded, Deadlines
  <1>5. Paths' /\ Records'
    BY <1>1 DEF IInv, Paths, Records, Unmoved, Aside, InPlace
  <1>6. Restoring' /\ Activating'
    BY ZenonT(30), <1>1 DEF IInv, Restoring, Activating, RestoreAt, ActivateAt, Active, Moved, InPlace
  <1> QED
    BY <1>2, <1>3, <1>4, <1>5, <1>6 DEF IInv

(* Snapshots and updates by others leave the recovery alone.               *)
LEMMA ElsewhereKeeps ==
  ASSUME IInv, TakeSnapshot \/ TestRestore \/ UpdateElsewhere
  PROVE  IInv'
  <1>1. /\ UNCHANGED <<plan, ctl, slot, minted, resets, sess, job, answer, jrn, parts, db,
                       files, runtime, cand, server, passed, auth, faults>>
    BY DEF TakeSnapshot, TestRestore, UpdateElsewhere, ctlVars, tgtVars, extVars
  <1>2. CtlTypes /\ MsgTypes /\ TgtTypes /\ ExtTypes
    BY TypesSplit DEF IInv
  <1>3. /\ state' \in [rev : 1..MaxRevision + 1, active : Ops \cup {None}]
        /\ state'.rev = state.rev \/ state'.rev <= MaxRevision
    BY <1>2 DEF TakeSnapshot, TestRestore, UpdateElsewhere, TgtTypes, tgtVars
  <1>4. snap' \in [n : 1..MaxSnaps, tested : BOOLEAN]
    <2>1. CASE TakeSnapshot
      <3>1. snap' = [n |-> snap.n + 1, tested |-> FALSE] /\ snap.n < MaxSnaps /\ snap.n \in 1..MaxSnaps
        BY <1>2, <2>1 DEF TakeSnapshot, ExtTypes
      <3> QED
        BY <3>1
    <2>2. CASE TestRestore
      BY <1>2, <2>2 DEF TestRestore, ExtTypes
    <2>3. CASE UpdateElsewhere
      BY <1>2, <2>3 DEF UpdateElsewhere, ExtTypes, extVars
    <2> QED
      BY <2>1, <2>2, <2>3
  <1>5. TypeOK'
    BY <1>1, <1>2, <1>3, <1>4, TypesSplitNext DEF CtlTypes, MsgTypes, TgtTypes, ExtTypes
  <1>6. Requested' /\ Journalled' /\ Planned' /\ Pointed'
    BY <1>1, <1>3, JournalFrame DEF Active, IInv, Journalled
  <1>7. Commanded'
    BY <1>1 DEF IInv, Commanded
  <1>8. Paths' /\ Records' /\ Restoring' /\ Activating' /\ Deadlines'
    BY <1>1, TargetFrame, ServerFrame
  <1> QED
    BY <1>5, <1>6, <1>7, <1>8 DEF IInv

-----------------------------------------------------------------------------
(***************************************************************************)
(* The target's journal takes a request.                                   *)
(***************************************************************************)
LEMMA ReplayKeeps ==
  ASSUME IInv, Replay
  PROVE  IInv'
  <1>1. PICK r \in sess :
          /\ jrn[r.op].at \in Terminal /\ sess' = sess \ {r}
          /\ Answer(r.op, ctl.op = r.op, jrn[r.op].at, jrn[r.op].obj)
    BY DEF Replay
  <1>2. UNCHANGED <<plan, ctl, slot, minted, resets, job, jrn, state, parts, db, files,
                    runtime, cand, server, passed, auth, snap, faults>>
    BY DEF Replay, ctlVars, tgtVars, extVars
  <1>3. CtlTypes /\ MsgTypes /\ TgtTypes /\ ExtTypes
    BY TypesSplit DEF IInv
  <1>4. r.op \in Ops /\ jrn[r.op].obj \in Nums
    BY <1>3 DEF MsgTypes, Requests
  <1>5. answer' \in {answer, [op |-> r.op, res |-> jrn[r.op].at, obj |-> jrn[r.op].obj]}
    BY <1>1 DEF Answer
  <1>6. TypeOK'
    <2>1. answer' \in Answers \cup {None}
      BY <1>1, <1>3, <1>4, <1>5 DEF MsgTypes, Answers
    <2> QED
      BY <1>1, <1>2, <1>3, <2>1, TypesSplitNext DEF CtlTypes, MsgTypes, TgtTypes, ExtTypes
  <1>7. Asked' \subseteq Asked
    BY <1>1, <1>2 DEF Asked
  <1>8. \A o : Done(o)' <=> Done(o)
    BY <1>2 DEF Done
  <1>9. Requested' /\ Planned' /\ Commanded'
    BY <1>2, <1>7, <1>8 DEF IInv, Requested, Planned, Commanded, Active
  <1>10. Pointed'
    BY <1>2, <1>7, <1>8 DEF IInv, Pointed
  <1>11. (answer # None /\ answer.res = "done" => Done(answer.op))'
    BY <1>2, <1>5, <1>8 DEF IInv, Journalled, Done
  <1>12. Journalled'
    BY <1>2, <1>8, <1>11 DEF IInv, Journalled, Active
  <1>13. Paths' /\ Records' /\ Restoring' /\ Activating' /\ Deadlines'
    BY <1>2, TargetFrame, ServerFrame
  <1> QED
    BY <1>6, <1>9, <1>10, <1>12, <1>13 DEF IInv

LEMMA StartKeeps ==
  ASSUME IInv, Start
  PROVE  IInv'
  <1>1. PICK r \in sess :
          /\ jrn[r.op].at \notin Terminal /\ sess' = sess \ {r}
          /\ jrn' = [jrn EXCEPT ![r.op].at = "pending"]
          /\ job' = [req |-> r, at |-> "enter", was |-> FALSE, own |-> ctl.op = r.op]
    BY DEF Start
  <1>2. /\ UNCHANGED <<plan, ctl, slot, minted, resets, answer, state, parts, db, files,
                       runtime, cand, server, passed, auth, snap, faults>>
        /\ job = None
    BY DEF Start, ctlVars, extVars
  <1>3. CtlTypes /\ MsgTypes /\ TgtTypes /\ ExtTypes
    BY TypesSplit DEF IInv
  <1>4. r \in Requests /\ r.op \in Ops
    BY <1>3 DEF MsgTypes, Requests
  <1>5. job' \in Jobs /\ job' # None /\ job'.req = r /\ job'.at = "enter"
    <2>1. PICK own \in BOOLEAN :
            job' = [req |-> r, at |-> "enter", was |-> FALSE, own |-> own]
      BY <1>1
    <2>2. job' \in Jobs
      BY <1>4, <2>1 DEF Jobs
    <2> QED
      BY <2>1, <2>2
  <1>6. /\ jrn' \in [Ops -> [at : Terminal \cup {"none", "pending", "failed"}, obj : Nums]]
        /\ jrn'[r.op].at = "pending"
        /\ \A o \in Ops : o # r.op => jrn'[o] = jrn[o]
    BY <1>1, <1>3, <1>4 DEF MsgTypes
  <1>7. TypeOK'
    BY <1>1, <1>2, <1>3, <1>5, <1>6, TypesSplitNext DEF CtlTypes, MsgTypes, TgtTypes, ExtTypes
  <1>8. Asked' \subseteq Asked /\ r \in Asked
    BY <1>1, <1>2, <1>5 DEF Asked
  <1>9. \A o \in Ops : Done(o)' <=> Done(o)
    BY <1>1, <1>6 DEF Done, Terminal
  <1>10. Requested' /\ Planned' /\ Commanded'
    BY <1>2, <1>8, <1>9, RecoverOpTyped DEF IInv, Requested, Planned, Commanded, Active
  <1>11. Pointed'
    <2> SUFFICES ASSUME plan # None, plan.wrap # 0 PROVE Pointed'
      BY <1>2 DEF Pointed
    <2>1. ControlOp(plan.wrap) \in Ops
      BY <1>3 DEF CtlTypes, Plans, Nums, Ops, ControlOp, Roles
    <2> QED
      BY <1>2, <1>8, <1>9, <2>1 DEF IInv, Pointed
  <1>12. Journalled'
    <2>1. \A o \in Ops : o.role = "control" /\ jrn'[o].at # "none" => o.n <= minted["control"]
      BY <1>6, <1>8 DEF IInv, Journalled, Requested
    <2>2. jrn'[RecoverOp].at = "none" => state.rev <= MaxRevision
      BY <1>6, RecoverOpTyped DEF IInv, Journalled
    <2>3. answer # None => answer.op \in Ops
      BY <1>3 DEF MsgTypes, Answers
    <2> QED
      BY <1>2, <1>5, <1>6, <1>9, <2>1, <2>2, <2>3, RecoverOpTyped DEF IInv, Journalled, Active
  <1>13. Paths' /\ Records' /\ Restoring' /\ Activating' /\ Deadlines'
    BY <1>2, <1>5, TargetFrame, ServerFrame
  <1> QED
    BY <1>7, <1>10, <1>11, <1>12, <1>13 DEF IInv

-----------------------------------------------------------------------------
(***************************************************************************)
(* The controller.                                                         *)
(***************************************************************************)
Elsewhere == <<job, jrn, state, parts, db, files, runtime, cand, server, passed, snap>>

(* A step of the command that sends nothing and keeps or drops the         *)
(* pointers of the invalidation.                                           *)
LEMMA Quiet ==
  ASSUME IInv, UNCHANGED <<sess, Elsewhere>>, answer' \in {answer, None},
         auth' \in BOOLEAN, faults' \in 0..MaxFaults, CtlTypes',
         minted'["control"] = minted["control"],
         plan' # None => \/ plan'.wrap = 0
                         \/ plan # None /\ plan'.wrap = plan.wrap /\ plan'.inv = plan.inv,
         Planned', Commanded'
  PROVE  IInv'
  <1>1. UNCHANGED <<sess, job, jrn, state, parts, db, files, runtime, cand, server, passed, snap>>
    BY DEF Elsewhere
  <1>2. MsgTypes /\ TgtTypes /\ ExtTypes
    BY TypesSplit DEF IInv
  <1>3. TypeOK'
    BY <1>1, <1>2, TypesSplitNext DEF MsgTypes, TgtTypes, ExtTypes
  <1>4. Asked' = Asked /\ (\A o : Done(o)' <=> Done(o)) /\ (Active' <=> Active)
    BY <1>1 DEF Asked, Done, Active
  <1>5. Requested'
    BY <1>1, <1>4 DEF IInv, Requested
  <1>6. (answer # None /\ answer.res = "done" => Done(answer.op))'
    BY <1>1, <1>4 DEF IInv, Journalled
  <1>7. Journalled'
    BY <1>1, <1>4, <1>6 DEF IInv, Journalled
  <1>8. Pointed'
    <2>1. CASE plan' = None \/ plan'.wrap = 0
      BY <2>1 DEF Pointed
    <2>2. CASE plan' # None /\ plan # None /\ plan'.wrap = plan.wrap /\ plan'.inv = plan.inv
      BY <1>1, <1>4, <2>2 DEF IInv, Pointed
    <2> QED
      BY <2>1, <2>2
  <1>9. Paths' /\ Records' /\ Restoring' /\ Activating' /\ Deadlines'
    BY <1>1, TargetFrame, ServerFrame
  <1> QED
    BY <1>3, <1>5, <1>7, <1>8, <1>9 DEF IInv

(* What the plan says stays true while nothing else moves.                 *)
LEMMA PlanKept ==
  ASSUME IInv, UNCHANGED <<plan, Elsewhere>>, slot' \in {slot, 0}
  PROVE  Planned'
  BY DEF IInv, Planned, Done, Active, Elsewhere

LEMMA CtlTypesHold ==
  ASSUME IInv
  PROVE  /\ CtlTypes /\ auth \in BOOLEAN /\ faults \in 0..MaxFaults
         /\ ctl.at # "idle" => plan \in Plans /\ plan # None
         /\ minted["control"] \in Nums
  <1>1. CtlTypes /\ ExtTypes
    BY TypesSplit DEF IInv
  <1> QED
    BY <1>1 DEF CtlTypes, ExtTypes, IInv, Commanded, Roles

LEMMA GotoMoves ==
  ASSUME NEW at \in CtlSteps, NEW op \in Ops \cup {None}, Goto(at, op)
  PROVE  ctl' \in Commands /\ ctl'.at = at /\ ctl'.op = op
  BY DEF Goto, Commands

(* Steps that only move the command.                                       *)
LEMMA OnlyCommand ==
  ASSUME IInv, UNCHANGED <<plan, minted, resets, sess, Elsewhere>>, slot' \in {slot, 0},
         answer' \in {answer, None}, auth' \in BOOLEAN, faults' \in 0..MaxFaults,
         ctl' \in Commands, ctl'.at \in {"idle", "ready", "ceremony"},
         ctl'.at # "idle" => plan # None
  PROVE  IInv'
  <1>1. CtlTypes'
    BY CtlTypesHold DEF CtlTypes, Nums
  <1>2. Planned'
    BY PlanKept
  <1>3. Commanded'
    BY DEF Commanded
  <1> QED
    BY <1>1, <1>2, <1>3, Quiet

(* Steps that change the plan and go on.                                   *)
LEMMA OnlyPlan ==
  ASSUME IInv, UNCHANGED <<slot, minted, sess, Elsewhere, auth, faults>>,
         resets' \in 0..MaxResets, answer' \in {answer, None},
         plan' \in Plans, ctl' \in Commands,
         ctl'.at \in {"idle", "ready", "settle", "drop", "recoverkey"},
         \/ plan'.wrap = 0
         \/ plan # None /\ plan'.wrap = plan.wrap /\ plan'.inv = plan.inv,
         Planned'
  PROVE  IInv'
  <1>1. CtlTypes'
    BY CtlTypesHold DEF CtlTypes
  <1>2. Commanded'
    BY DEF Commanded
  <1> QED
    BY <1>1, <1>2, Quiet, CtlTypesHold

LEMMA PhasesTyped ==
  /\ {"idle", "ready", "ceremony", "settle", "drop", "recoverkey", "signed", "prepared",
      "await", "reset"} = CtlSteps
  /\ Phases = {"restoring", "invalidating", "waiting", "cleanup"}
  BY DEF CtlSteps, Phases

LEMMA BeginPlanKeeps ==
  ASSUME IInv, BeginPlan
  PROVE  IInv'
  <1>1. state.rev \in 1..MaxRevision
    <2>1. TgtTypes
      BY TypesSplit DEF IInv
    <2>2. state.rev \in 1..MaxRevision + 1 /\ state.rev <= MaxRevision
      BY <2>1 DEF BeginPlan, IInv, Journalled, TgtTypes
    <2> QED
      BY <2>2
  <1>2. snap.n \in 1..MaxSnaps
    BY TypesSplit DEF IInv, ExtTypes
  <1>3. /\ plan' \in Plans /\ plan'.wrap = 0 /\ plan'.restored = FALSE
        /\ plan'.phase = "restoring" /\ plan'.inv = 0 /\ plan'.cand = 0
    <2>1. plan' = NewPlan
      BY DEF BeginPlan
    <2> QED
      BY <1>1, <1>2, <2>1, SomeResults DEF NewPlan, Plans, Phases
  <1>4. ctl' \in Commands /\ ctl'.at = "ready"
    BY GotoMoves DEF BeginPlan, CtlSteps
  <1>5. Planned'
    BY <1>3 DEF Planned
  <1>6. UNCHANGED <<slot, minted, sess, Elsewhere, auth, faults, answer, resets>>
    BY DEF BeginPlan, Elsewhere, tgtVars, extVars
  <1> QED
    BY <1>3, <1>4, <1>5, <1>6, OnlyPlan, CtlTypesHold DEF CtlTypes

LEMMA ResumeKeeps ==
  ASSUME IInv, Resume
  PROVE  IInv'
  <1>1. ctl' \in Commands /\ ctl'.at = "ready" /\ plan # None
    BY GotoMoves DEF Resume, CtlSteps
  <1>2. UNCHANGED <<plan, slot, minted, sess, Elsewhere, auth, faults, answer, resets>>
    BY DEF Resume, Elsewhere, tgtVars, extVars
  <1> QED
    BY <1>1, <1>2, OnlyCommand, CtlTypesHold

(* A plan returned to the stage after its restore keeps what was restored. *)
LEMMA ResetPlan ==
  ASSUME IInv, plan \in Plans, NEW v \in Releases \cup {None}, plan' = Reset(plan, v),
         UNCHANGED Elsewhere
  PROVE  plan' \in Plans /\ plan'.wrap = 0 /\ Planned'
  <1>1. /\ plan' \in Plans /\ plan'.wrap = 0 /\ plan'.inv = 0 /\ plan'.phase = "restoring"
        /\ plan'.restored = plan.restored /\ plan'.cand = 0
    BY SomeResults DEF Reset, Plans, Phases
  <1> QED
    BY <1>1 DEF IInv, Planned, Done, Elsewhere

LEMMA ChangeVersionKeeps ==
  ASSUME IInv, NEW v \in Releases, ChangeVersion(v)
  PROVE  IInv'
  <1>1. plan \in Plans /\ resets \in 0..MaxResets
    BY CtlTypesHold DEF CtlTypes, ChangeVersion
  <1>2. ctl' \in Commands /\ ctl'.at = "ready"
    BY GotoMoves DEF ChangeVersion, CtlSteps
  <1>3. UNCHANGED <<slot, minted, sess, Elsewhere, auth, faults, answer>>
    BY DEF ChangeVersion, Elsewhere, tgtVars, extVars
  <1>4. plan' \in Plans /\ plan'.wrap = 0 /\ Planned'
    BY <1>1, <1>3, ResetPlan DEF ChangeVersion
  <1>5. resets' \in 0..MaxResets
    BY <1>1 DEF ChangeVersion
  <1> QED
    BY <1>2, <1>3, <1>4, <1>5, OnlyPlan

(* A stored id is used again, a fresh one is stored.                       *)
LEMMA IdMoves ==
  ASSUME IInv, plan \in Plans, NEW n \in 1..MaxIds,
         NEW role \in {"stage", "activate", "cleanup", "control"},
         \/ role = "stage" /\ WithId("stage", role, n)
         \/ role = "activate" /\ WithId("activate", role, n)
         \/ role = "cleanup" /\ WithId("clean", role, n)
         \/ role = "control" /\ WithId("wrap", role, n)
  PROVE  /\ plan' \in Plans /\ minted' \in [Roles \cup {"inv"} -> Nums]
         /\ plan'.phase = plan.phase /\ plan'.restored = plan.restored
         /\ plan'.inv = plan.inv /\ plan'.deadline = plan.deadline /\ plan'.cand = plan.cand
         /\ role # "control" => plan'.wrap = plan.wrap /\ minted'["control"] = minted["control"]
         /\ role = "control" =>
               /\ plan'.wrap = n
               /\ \/ plan' = plan /\ minted' = minted
                  \/ plan.wrap = 0 /\ n = minted["control"] + 1 /\ minted'["control"] = n
  <1>1. n \in Nums /\ minted \in [Roles \cup {"inv"} -> Nums]
    BY CtlTypesHold DEF Nums, CtlTypes
  <1>2. role \in Roles \cup {"inv"}
    BY DEF Roles
  <1>3. CASE UNCHANGED <<plan, minted>>
    <2>1. role = "control" => plan.wrap = n
      BY <1>3 DEF WithId, Plans
    <2> QED
      BY <1>1, <1>3, <2>1
  <1>4. CASE minted[role] < MaxIds /\ minted' = [minted EXCEPT ![role] = @ + 1] /\ n = minted[role] + 1
    <2>1. minted' = [minted EXCEPT ![role] = n]
      BY <1>1, <1>2, <1>4
    <2>2. minted' \in [Roles \cup {"inv"} -> Nums] /\ minted'[role] = n
      BY <1>1, <1>2, <2>1
    <2>3. role # "control" => minted'["control"] = minted["control"]
      BY <1>1, <1>2, <2>1 DEF Roles
    <2>4. CASE role = "stage" /\ WithId("stage", role, n)
      BY <1>1, <2>2, <2>3, <2>4 DEF WithId, Plans
    <2>5. CASE role = "activate" /\ WithId("activate", role, n)
      BY <1>1, <2>2, <2>3, <2>5 DEF WithId, Plans
    <2>6. CASE role = "cleanup" /\ WithId("clean", role, n)
      BY <1>1, <2>2, <2>3, <2>6 DEF WithId, Plans
    <2>7. CASE role = "control" /\ WithId("wrap", role, n)
      BY <1>1, <1>4, <2>2, <2>7 DEF WithId, Plans
    <2> QED
      BY <2>4, <2>5, <2>6, <2>7
  <1> QED
    BY <1>3, <1>4 DEF WithId, Fresh

(* A request joins the sessions, and the command awaits its answer.        *)
LEMMA Sends ==
  ASSUME IInv, plan \in Plans, NEW n \in 1..MaxIds, NEW role \in Roles,
         plan' \in Plans, minted' \in [Roles \cup {"inv"} -> Nums],
         plan'.phase = plan.phase, plan'.restored = plan.restored,
         plan'.inv = plan.inv, plan'.deadline = plan.deadline, plan'.cand = plan.cand,
         role # "control" => plan'.wrap = plan.wrap /\ minted'["control"] = minted["control"],
         role = "control" =>
            /\ plan'.wrap = n /\ plan.inv # 0
            /\ \/ plan' = plan /\ minted' = minted
               \/ plan.wrap = 0 /\ n = minted["control"] + 1 /\ minted'["control"] = n,
         role = "recover" => n = 1,
         role # "recover" => plan.restored \/ Done(RecoverOp),
         NEW r \in Requests, r.op = [role |-> role, n |-> n], r.inv = plan.inv,
         sess' = sess \cup {r}, answer' = None,
         UNCHANGED <<slot, Elsewhere, auth, faults>>, resets' \in 0..MaxResets,
         ctl' \in Commands, ctl'.op = r.op,
         \/ ctl'.at = "await" /\ role = NextRole(plan)
         \/ ctl'.at = "reset" /\ role = "cleanup"
  PROVE  IInv'
  <1>1. /\ UNCHANGED <<job, jrn, state, parts, db, files, runtime, cand, server, passed, snap>>
        /\ plan # None /\ plan' # None
    BY DEF Elsewhere
  <1>2. CtlTypes /\ MsgTypes /\ TgtTypes /\ ExtTypes
    BY TypesSplit DEF IInv
  <1>3. TypeOK'
    BY <1>1, <1>2, TypesSplitNext DEF CtlTypes, MsgTypes, TgtTypes, ExtTypes
  <1>4. /\ Asked' = Asked \cup {r} /\ (\A o : Done(o)' <=> Done(o)) /\ (Active' <=> Active)
    BY <1>1 DEF Asked, Done, Active
  <1>5. minted["control"] \in Nat /\ minted'["control"] \in Nat /\ minted["control"] <= minted'["control"]
    <2>1. minted["control"] \in Nums /\ minted'["control"] \in Nums
      BY <1>2 DEF CtlTypes, Roles
    <2> QED
      BY <2>1 DEF Nums
  <1>6. role # "recover" => Done(RecoverOp)
    BY <1>1 DEF IInv, Planned
  <1>7. role = "control" => n <= minted'["control"]
    <2>1. role = "control" /\ plan' = plan /\ minted' = minted => n <= minted'["control"]
      BY <1>1 DEF IInv, Pointed
    <2> QED
      BY <1>5, <2>1
  <1>8. Requested'
    <2>1. ASSUME NEW q \in Asked
          PROVE /\ q.op.role = "recover" => q.op.n = 1
                /\ q.op.role # "recover" => Done(RecoverOp)
                /\ q.op.role = "control" => q.inv # 0 /\ q.op.n <= minted'["control"]
      <3>1. q \in Requests
        BY <1>2, JobTyped DEF Asked, MsgTypes
      <3>2. q.op.n \in Nat
        BY <3>1 DEF Requests, Ops
      <3> QED
        BY <1>5, <3>2 DEF IInv, Requested
    <2> QED
      BY <1>4, <1>6, <1>7, <2>1 DEF Requested
  <1>9. Journalled'
    <2>1. \A o \in Ops : o.role = "control" /\ jrn[o].at # "none" => o.n <= minted'["control"]
      <3>1. \A o \in Ops : o.n \in Nat
        BY DEF Ops
      <3> QED
        BY <1>5, <3>1 DEF IInv, Journalled
    <2> QED
      BY <1>1, <1>4, <2>1 DEF IInv, Journalled
  <1>10. Planned'
    BY <1>1, <1>4 DEF IInv, Planned
  <1>11. Pointed'
    <2>1. CASE role # "control"
      <3>1. plan.wrap # 0 => r.op # ControlOp(plan.wrap)
        BY <2>1 DEF ControlOp
      <3> QED
        BY <1>1, <1>4, <1>5, <2>1, <3>1 DEF IInv, Pointed
    <2>2. CASE role = "control" /\ plan' = plan /\ minted' = minted
      BY <1>1, <1>4, <2>2 DEF IInv, Pointed
    <2>3. CASE role = "control" /\ n = minted["control"] + 1 /\ minted'["control"] = n
      <3>1. ControlOp(n) \in Ops /\ ControlOp(n).role = "control" /\ ControlOp(n).n = n
        BY DEF ControlOp, Ops, Roles
      <3>2. ~Done(ControlOp(n))
        BY <1>5, <2>3, <3>1 DEF IInv, Journalled, Done
      <3>3. \A q \in Asked : q.op # ControlOp(n)
        BY <1>5, <2>3, <3>1 DEF IInv, Requested
      <3> QED
        BY <1>1, <1>4, <1>5, <2>3, <3>2, <3>3 DEF Pointed
    <2> QED
      BY <2>1, <2>2, <2>3
  <1>12. NextRole(plan') = NextRole(plan)
    BY DEF NextRole
  <1>13. Commanded'
    BY <1>1, <1>12 DEF Commanded, Ops, RecoverOp
  <1>14. Paths' /\ Records' /\ Restoring' /\ Activating' /\ Deadlines'
    BY <1>1, TargetFrame, ServerFrame
  <1> QED
    BY <1>3, <1>8, <1>9, <1>10, <1>11, <1>13, <1>14 DEF IInv

-----------------------------------------------------------------------------
LEMMA RequestTyped ==
  ASSUME NEW role \in Roles, NEW n \in 1..MaxIds, NEW p \in Plans
  PROVE  /\ Request(role, n, p) \in Requests /\ Request(role, n, p).inv = p.inv
         /\ Request(role, n, p).op = [role |-> role, n |-> n]
         /\ [role |-> role, n |-> n] \in Ops
  BY DEF Request, Requests, Plans, Ops

LEMMA SendSends ==
  ASSUME NEW role \in Roles, NEW n \in 1..MaxIds, plan' \in Plans, Send(role, n)
  PROVE  /\ sess' = sess \cup {Request(role, n, plan')} /\ answer' = None
         /\ UNCHANGED <<slot, Elsewhere, auth, faults, resets>>
         /\ ctl' \in Commands /\ ctl'.at = "await" /\ ctl'.op = [role |-> role, n |-> n]
  <1>1. [role |-> role, n |-> n] \in Ops
    BY RequestTyped
  <1>2. ctl' \in Commands /\ ctl'.at = "await" /\ ctl'.op = [role |-> role, n |-> n]
    BY <1>1, GotoMoves DEF Send, CtlSteps
  <1> QED
    BY <1>2 DEF Send, Elsewhere, tgtVars, extVars

LEMMA Ready ==
  ASSUME IInv, NEW role, At(role)
  PROVE  /\ plan \in Plans /\ plan # None /\ ctl.at = "ready" /\ NextRole(plan) = role
         /\ role # "recover" => plan.restored
         /\ resets \in 0..MaxResets
  <1>1. plan \in Plans /\ plan # None /\ ctl.at = "ready" /\ NextRole(plan) = role
    BY CtlTypesHold DEF At
  <1>2. resets \in 0..MaxResets
    BY CtlTypesHold DEF CtlTypes
  <1>3. role # "recover" => plan.restored
    BY <1>1 DEF NextRole, Plans, Phases, IInv, Planned
  <1> QED
    BY <1>1, <1>2, <1>3

LEMMA SendRecoverKeeps ==
  ASSUME IInv, SendRecover
  PROVE  IInv'
  <1>1. plan \in Plans /\ NextRole(plan) = "recover" /\ resets \in 0..MaxResets
    BY Ready DEF SendRecover
  <1>2. UNCHANGED <<plan, minted>> /\ Send("recover", 1)
    BY DEF SendRecover
  <1>3. "recover" \in Roles /\ 1 \in 1..MaxIds
    BY DEF Roles
  <1>4. /\ Request("recover", 1, plan') \in Requests /\ Request("recover", 1, plan').inv = plan.inv
        /\ Request("recover", 1, plan').op = [role |-> "recover", n |-> 1]
    BY <1>1, <1>2, <1>3, RequestTyped
  <1>5. minted \in [Roles \cup {"inv"} -> Nums]
    BY CtlTypesHold DEF CtlTypes
  <1>6. /\ sess' = sess \cup {Request("recover", 1, plan')} /\ answer' = None
        /\ UNCHANGED <<slot, Elsewhere, auth, faults, resets>>
        /\ ctl' \in Commands /\ ctl'.at = "await" /\ ctl'.op = [role |-> "recover", n |-> 1]
    BY <1>1, <1>2, <1>3, SendSends
  <1> QED
    BY <1>1, <1>2, <1>3, <1>4, <1>5, <1>6, Sends

(* The other three phases send the operation whose id the plan stores.     *)
LEMMA SendsWithId ==
  ASSUME IInv, plan \in Plans, NEW n \in 1..MaxIds, resets \in 0..MaxResets,
         NEW role \in {"stage", "activate", "cleanup", "control"},
         \/ role = "stage" /\ WithId("stage", role, n)
         \/ role = "activate" /\ WithId("activate", role, n)
         \/ role = "cleanup" /\ WithId("clean", role, n)
         \/ role = "control" /\ WithId("wrap", role, n),
         role = "control" => plan.inv # 0,
         Send(role, n), NextRole(plan) = role, plan.restored
  PROVE  IInv'
  <1>1. role \in Roles /\ role # "recover"
    BY DEF Roles
  <1>2. /\ plan' \in Plans /\ minted' \in [Roles \cup {"inv"} -> Nums]
        /\ plan'.phase = plan.phase /\ plan'.restored = plan.restored
        /\ plan'.inv = plan.inv /\ plan'.deadline = plan.deadline /\ plan'.cand = plan.cand
        /\ role # "control" => plan'.wrap = plan.wrap /\ minted'["control"] = minted["control"]
        /\ role = "control" =>
              /\ plan'.wrap = n
              /\ \/ plan' = plan /\ minted' = minted
                 \/ plan.wrap = 0 /\ n = minted["control"] + 1 /\ minted'["control"] = n
    BY IdMoves
  <1>3. /\ Request(role, n, plan') \in Requests /\ Request(role, n, plan').inv = plan.inv
        /\ Request(role, n, plan').op = [role |-> role, n |-> n]
    BY <1>1, <1>2, RequestTyped
  <1>4. /\ sess' = sess \cup {Request(role, n, plan')} /\ answer' = None
        /\ UNCHANGED <<slot, Elsewhere, auth, faults, resets>>
        /\ ctl' \in Commands /\ ctl'.at = "await" /\ ctl'.op = [role |-> role, n |-> n]
    BY <1>1, <1>2, SendSends
  <1> QED
    BY <1>1, <1>2, <1>3, <1>4, Sends

LEMMA SendStageKeeps ==
  ASSUME IInv, SendStage
  PROVE  IInv'
  BY Ready, SendsWithId DEF SendStage

LEMMA SendActivateKeeps ==
  ASSUME IInv, SendActivate
  PROVE  IInv'
  BY Ready, SendsWithId DEF SendActivate

LEMMA SendCleanupKeeps ==
  ASSUME IInv, SendCleanup
  PROVE  IInv'
  BY Ready, SendsWithId DEF SendCleanup

LEMMA SendControlKeeps ==
  ASSUME IInv, SendControl
  PROVE  IInv'
  <1>1. plan \in Plans /\ plan # None /\ resets \in 0..MaxResets
    BY CtlTypesHold DEF SendControl, CtlTypes
  <1>2. NextRole(plan) = "control" /\ plan.inv # 0
    BY DEF SendControl, IInv, Commanded
  <1>3. plan.restored
    BY <1>1, <1>2 DEF NextRole, Plans, Phases, IInv, Planned
  <1> QED
    BY <1>1, <1>2, <1>3, SendsWithId DEF SendControl

LEMMA ChangeVersionCleansKeeps ==
  ASSUME IInv, NEW v \in Releases, ChangeVersionCleans(v)
  PROVE  IInv'
  <1>1. plan \in Plans /\ plan # None /\ resets \in 0..MaxResets
    BY CtlTypesHold DEF ChangeVersionCleans, CtlTypes
  <1>2. plan.restored
    BY <1>1 DEF ChangeVersionCleans, IInv, Planned
  <1>3. PICK n \in 1..MaxIds :
          /\ WithId("clean", "cleanup", n)
          /\ sess' = sess \cup {Request("cleanup", n, plan)}
          /\ ctl' = [at |-> "reset", op |-> [role |-> "cleanup", n |-> n], ver |-> v]
    BY DEF ChangeVersionCleans
  <1>4. "cleanup" \in Roles
    BY DEF Roles
  <1>5. /\ plan' \in Plans /\ minted' \in [Roles \cup {"inv"} -> Nums]
        /\ plan'.phase = plan.phase /\ plan'.restored = plan.restored
        /\ plan'.inv = plan.inv /\ plan'.deadline = plan.deadline /\ plan'.cand = plan.cand
        /\ plan'.wrap = plan.wrap /\ minted'["control"] = minted["control"]
    BY <1>1, <1>3, IdMoves
  <1>6. /\ Request("cleanup", n, plan) \in Requests /\ Request("cleanup", n, plan).inv = plan.inv
        /\ Request("cleanup", n, plan).op = [role |-> "cleanup", n |-> n]
        /\ [role |-> "cleanup", n |-> n] \in Ops
    BY <1>1, <1>4, RequestTyped
  <1>7. /\ ctl' \in Commands /\ ctl'.at = "reset" /\ ctl'.op = [role |-> "cleanup", n |-> n]
    BY <1>3, <1>6 DEF Commands, CtlSteps
  <1>8. /\ answer' = None /\ UNCHANGED <<slot, Elsewhere, auth, faults>>
        /\ resets' \in 0..MaxResets
    BY <1>1 DEF ChangeVersionCleans, Elsewhere, tgtVars, extVars
  <1> QED
    BY <1>1, <1>2, <1>3, <1>4, <1>5, <1>6, <1>7, <1>8, Sends

-----------------------------------------------------------------------------
(***************************************************************************)
(* The invalidation loop.                                                  *)
(***************************************************************************)
LEMMA NoPointersPlan ==
  ASSUME IInv, plan \in Plans, plan' = NoPointers, UNCHANGED Elsewhere
  PROVE  plan' \in Plans /\ plan'.wrap = 0 /\ Planned'
  <1>1. /\ plan' \in Plans /\ plan'.wrap = 0 /\ plan'.inv = 0 /\ plan'.phase = plan.phase
        /\ plan'.restored = plan.restored /\ plan'.cand = plan.cand /\ plan'.deadline = plan.deadline
    BY SomeResults DEF NoPointers, Plans
  <1>2. plan # None /\ (\A o : Done(o)' <=> Done(o)) /\ (Active' <=> Active) /\ server' = server
    BY DEF Done, Active, Elsewhere
  <1> QED
    BY <1>1, <1>2 DEF IInv, Planned

LEMMA DropPointersKeeps ==
  ASSUME IInv, DropPointers
  PROVE  IInv'
  <1>1. plan \in Plans /\ ctl.at = "ready" /\ resets \in 0..MaxResets
    BY Ready DEF DropPointers
  <1>2. /\ UNCHANGED <<ctl, slot, minted, resets, sess, answer, Elsewhere, auth, faults>>
        /\ plan' = NoPointers
    BY DEF DropPointers, NoPointers, Elsewhere, tgtVars, extVars
  <1>3. plan' \in Plans /\ plan'.wrap = 0 /\ Planned'
    BY <1>1, <1>2, NoPointersPlan
  <1>4. ctl \in Commands
    BY CtlTypesHold DEF CtlTypes
  <1> QED
    BY <1>1, <1>2, <1>3, <1>4, OnlyPlan

LEMMA ClearForCeremonyKeeps ==
  ASSUME IInv, ClearForCeremony
  PROVE  IInv'
  <1>1. plan \in Plans /\ resets \in 0..MaxResets
    BY CtlTypesHold DEF ClearForCeremony, CtlTypes
  <1>2. /\ UNCHANGED <<slot, minted, resets, sess, answer, Elsewhere, auth, faults>>
        /\ plan' = NoPointers
    BY DEF ClearForCeremony, Elsewhere, tgtVars, extVars
  <1>3. plan' \in Plans /\ plan'.wrap = 0 /\ Planned'
    BY <1>1, <1>2, NoPointersPlan
  <1>4. ctl' \in Commands /\ ctl'.at = "recoverkey"
    BY GotoMoves DEF ClearForCeremony, CtlSteps
  <1> QED
    BY <1>1, <1>2, <1>3, <1>4, OnlyPlan

LEMMA PrepareKeeps ==
  ASSUME IInv, Prepare
  PROVE  IInv'
  <1>1. plan \in Plans /\ plan # None /\ NextRole(plan) = "control" /\ resets \in 0..MaxResets
    BY Ready DEF Prepare
  <1>2. UNCHANGED <<plan, resets, sess, answer, Elsewhere, auth, faults>>
    BY DEF Prepare, Elsewhere, tgtVars, extVars
  <1>3. ctl' \in Commands /\ ctl'.at = "signed"
    BY GotoMoves DEF Prepare, CtlSteps
  <1>4. slot \in Nums /\ minted \in [Roles \cup {"inv"} -> Nums]
    BY CtlTypesHold DEF CtlTypes
  <1>5. /\ slot' \in Nums /\ slot' # 0 /\ minted' \in [Roles \cup {"inv"} -> Nums]
        /\ minted'["control"] = minted["control"]
        /\ slot' = slot \/ plan.inv = 0
    <2>1. CASE slot # 0 /\ UNCHANGED <<slot, minted>>
      BY <1>4, <2>1
    <2>2. CASE slot = 0 /\ plan.inv = 0 /\ Fresh("inv") /\ slot' = minted["inv"] + 1
      <3>1. minted["inv"] \in Nums /\ "control" \in Roles
        BY <1>4 DEF Roles
      <3>2. slot' \in Nums /\ slot' # 0
        BY <2>2, <3>1 DEF Nums, Fresh
      <3>3. minted' = [minted EXCEPT !["inv"] = slot']
        BY <1>4, <2>2 DEF Fresh
      <3> QED
        BY <1>4, <2>2, <3>1, <3>2, <3>3
    <2> QED
      BY <2>1, <2>2 DEF Prepare
  <1>6. CtlTypes'
    BY <1>1, <1>2, <1>3, <1>5 DEF CtlTypes
  <1>7. Planned'
    BY <1>1, <1>2, <1>5 DEF IInv, Planned, Done, Active, Elsewhere
  <1>8. Commanded'
    BY <1>1, <1>2, <1>3, <1>5 DEF Commanded
  <1> QED
    BY <1>1, <1>2, <1>5, <1>6, <1>7, <1>8, Quiet, CtlTypesHold

LEMMA RecordKeeps ==
  ASSUME IInv, Record
  PROVE  IInv'
  <1>1. plan \in Plans /\ plan # None /\ resets \in 0..MaxResets /\ CtlTypes
    BY CtlTypesHold DEF Record, CtlTypes
  <1>2. NextRole(plan) = "control" /\ slot # 0 /\ slot \in Nums
    BY <1>1 DEF Record, IInv, Commanded, CtlTypes
  <1>3. UNCHANGED <<slot, minted, resets, sess, answer, Elsewhere, auth, faults>>
    BY DEF Record, Elsewhere, tgtVars, extVars
  <1>4. ctl' \in Commands /\ ctl'.at = "prepared"
    BY GotoMoves DEF Record, CtlSteps
  <1>5. /\ plan' \in Plans /\ plan'.inv = slot /\ plan'.wrap = plan.wrap /\ plan'.phase = plan.phase
        /\ plan'.restored = plan.restored /\ plan'.cand = plan.cand /\ plan'.deadline = plan.deadline
    BY <1>1, <1>2 DEF Record, Plans
  <1>6. plan.wrap # 0 => plan.inv = slot
    BY <1>1 DEF Record, IInv, Pointed
  <1>7. (\A o : Done(o)' <=> Done(o)) /\ (Active' <=> Active) /\ server' = server
    BY <1>3 DEF Done, Active, Elsewhere
  <1>8. Planned'
    BY <1>1, <1>3, <1>5, <1>7 DEF IInv, Planned
  <1>9. CtlTypes'
    BY <1>1, <1>3, <1>4, <1>5 DEF CtlTypes
  <1>10. NextRole(plan') = NextRole(plan)
    BY <1>5 DEF NextRole
  <1>11. Commanded'
    BY <1>2, <1>3, <1>4, <1>5, <1>10 DEF Commanded
  <1> QED
    BY <1>1, <1>3, <1>5, <1>6, <1>8, <1>9, <1>11, Quiet, CtlTypesHold

LEMMA DisprovedKeeps ==
  ASSUME IInv, Disproved
  PROVE  IInv'
  <1>1. UNCHANGED <<plan, slot, minted, resets, sess, answer, Elsewhere, auth, faults>>
    BY DEF Disproved, Elsewhere, tgtVars, extVars
  <1> QED
    BY <1>1, RestTyped, OnlyCommand, CtlTypesHold DEF Disproved

LEMMA CeremonyKeeps ==
  ASSUME IInv, Ceremony
  PROVE  IInv'
  <1>1. /\ UNCHANGED <<plan, slot, minted, resets, sess, answer, Elsewhere, faults>>
        /\ auth' \in BOOLEAN
    BY DEF Ceremony, Elsewhere, tgtVars
  <1>2. ctl' \in Commands /\ ctl'.at = "ready"
    BY GotoMoves DEF Ceremony, CtlSteps
  <1>3. plan # None
    BY CtlTypesHold DEF Ceremony
  <1> QED
    BY <1>1, <1>2, <1>3, OnlyCommand, CtlTypesHold

LEMMA SettleKeeps ==
  ASSUME IInv, Settle
  PROVE  IInv'
  <1>1. /\ UNCHANGED <<plan, minted, resets, sess, answer, Elsewhere, auth, faults>> /\ slot' = 0
    BY DEF Settle, Elsewhere, tgtVars, extVars
  <1>2. plan # None
    BY CtlTypesHold DEF Settle
  <1>3. ctl' \in Commands /\ ctl'.at \in {"idle", "ready"}
    <2>1. CASE Goto("ready", None)
      BY <2>1, GotoMoves DEF CtlSteps
    <2>2. CASE ctl' = Rest
      BY <2>2, RestTyped
    <2> QED
      BY <2>1, <2>2 DEF Settle
  <1> QED
    BY <1>1, <1>2, <1>3, OnlyCommand, CtlTypesHold

-----------------------------------------------------------------------------
(***************************************************************************)
(* The answers.                                                            *)
(***************************************************************************)
LEMMA AnswerTaken ==
  ASSUME IInv, NEW role \in Roles, NEW res, Answered(role, res)
  PROVE  /\ plan \in Plans /\ plan # None /\ CtlTypes
         /\ ctl.op \in Ops /\ ctl.op.role = role
         /\ answer \in Answers /\ answer.op = ctl.op
         /\ answer.res = "done" => Done(ctl.op)
         /\ ctl.at \in {"await", "reset"}
         /\ role # "cleanup" => ctl.at = "await"
         /\ ctl.at = "await" => NextRole(plan) = role
         /\ UNCHANGED <<minted, resets, sess, Elsewhere, auth>> /\ answer' = None
  <1>1. CtlTypes /\ MsgTypes
    BY TypesSplit DEF IInv
  <1>2. plan \in Plans /\ plan # None
    BY CtlTypesHold DEF Answered
  <1>3. answer \in Answers /\ answer.op = ctl.op /\ ctl.op.role = role
    BY <1>1 DEF Answered, MsgTypes
  <1>4. answer.op \in Ops
    BY <1>3 DEF Answers
  <1>5. answer.res = "done" => Done(ctl.op)
    BY <1>3 DEF Answered, IInv, Journalled
  <1>6. /\ ctl.at \in {"await", "reset"} /\ (role # "cleanup" => ctl.at = "await")
        /\ ctl.at = "await" => NextRole(plan) = role
    BY <1>3 DEF Answered, IInv, Commanded
  <1>7. UNCHANGED <<minted, resets, sess, Elsewhere, auth>> /\ answer' = None
    BY DEF Answered, Elsewhere, tgtVars, extVars
  <1> QED
    BY <1>1, <1>2, <1>3, <1>4, <1>5, <1>6, <1>7

(* The role that the plan calls for tells its phase.                       *)
LEMMA RolePhase ==
  ASSUME plan \in Plans
  PROVE  /\ NextRole(plan) = "stage" => plan.restored
         /\ NextRole(plan) = "activate" => plan.phase = "waiting"
         /\ NextRole(plan) = "control" => plan.phase = "invalidating"
  BY DEF NextRole, Plans, Phases

LEMMA FailedKeeps ==
  ASSUME IInv, Failed
  PROVE  IInv'
  <1>1. PICK role \in Roles : Answered(role, {"failed"})
    BY DEF Failed
  <1>2. UNCHANGED <<minted, resets, sess, Elsewhere, auth>> /\ answer' = None
    BY <1>1, AnswerTaken
  <1> QED
    BY <1>2, RestTyped, OnlyCommand, CtlTypesHold DEF Failed

LEMMA UnknownKeeps ==
  ASSUME IInv, Unknown
  PROVE  IInv'
  <1>1. "control" \in Roles
    BY DEF Roles
  <1>2. UNCHANGED <<minted, resets, sess, Elsewhere, auth>> /\ answer' = None
    BY <1>1, AnswerTaken DEF Unknown
  <1> QED
    BY <1>2, RestTyped, OnlyCommand, CtlTypesHold DEF Unknown

LEMMA UnauthorizedKeeps ==
  ASSUME IInv, Unauthorized
  PROVE  IInv'
  <1>1. "control" \in Roles
    BY DEF Roles
  <1>2. UNCHANGED <<minted, resets, sess, Elsewhere, auth>> /\ answer' = None /\ plan # None
    BY <1>1, AnswerTaken DEF Unauthorized
  <1>3. ctl' \in Commands /\ ctl'.at \in {"idle", "ceremony"} /\ faults' \in 0..MaxFaults
    <2>1. CASE ctl' = Rest /\ Fault
      BY <2>1, RestTyped, FaultTyped
    <2>2. CASE Goto("ceremony", None) /\ UNCHANGED faults
      BY <2>2, GotoMoves, CtlTypesHold DEF CtlSteps
    <2> QED
      BY <2>1, <2>2 DEF Unauthorized
  <1> QED
    BY <1>2, <1>3, OnlyCommand, CtlTypesHold DEF Unauthorized

(* An answer that changes the plan; the pointers stay or go.               *)
LEMMA AnswerAdvances ==
  ASSUME IInv, NEW role \in Roles, NEW res, Answered(role, res), UNCHANGED <<slot, faults>>,
         plan' \in Plans, NEW at \in {"ready", "settle", "drop"}, Goto(at, None),
         plan'.wrap = 0 \/ (plan'.wrap = plan.wrap /\ plan'.inv = plan.inv),
         Planned'
  PROVE  IInv'
  <1>1. /\ UNCHANGED <<minted, resets, sess, Elsewhere, auth>> /\ answer' = None
        /\ plan # None /\ resets \in 0..MaxResets
    BY AnswerTaken DEF CtlTypes
  <1>2. ctl' \in Commands /\ ctl'.at = at
    BY GotoMoves DEF CtlSteps
  <1> QED
    BY <1>1, <1>2, OnlyPlan

LEMMA OnlyPlanMoves ==
  ASSUME UNCHANGED Elsewhere
  PROVE  (\A o : Done(o)' <=> Done(o)) /\ (Active' <=> Active) /\ server' = server
  BY DEF Done, Active, Elsewhere

LEMMA RestoredKeeps ==
  ASSUME IInv, Restored
  PROVE  IInv'
  <1>1. "recover" \in Roles
    BY DEF Roles
  <1>2. /\ plan \in Plans /\ plan # None /\ ctl.at = "await" /\ ctl.op.role = "recover"
        /\ answer.res = "done" => Done(ctl.op)
        /\ UNCHANGED Elsewhere
    BY <1>1, AnswerTaken DEF Restored
  <1>3. Done(RecoverOp)
    BY <1>2 DEF Restored, Answered, IInv, Commanded
  <1>4. /\ plan' \in Plans /\ plan'.restored /\ plan'.wrap = plan.wrap /\ plan'.inv = plan.inv
        /\ plan'.phase = plan.phase /\ plan'.deadline = plan.deadline
    BY <1>2 DEF Restored, Plans
  <1>5. slot' = slot
    BY DEF Restored
  <1>6. Planned'
    BY <1>2, <1>3, <1>4, <1>5, OnlyPlanMoves DEF IInv, Planned
  <1> QED
    BY <1>1, <1>4, <1>6, AnswerAdvances DEF Restored

LEMMA StagedKeeps ==
  ASSUME IInv, Staged
  PROVE  IInv'
  <1>1. "stage" \in Roles
    BY DEF Roles
  <1>2. /\ plan \in Plans /\ plan # None /\ NextRole(plan) = "stage" /\ answer \in Answers
        /\ UNCHANGED Elsewhere
    BY <1>1, AnswerTaken DEF Staged
  <1>3. plan.restored /\ answer.obj \in Nums
    BY <1>2, RolePhase DEF Answers
  <1>4. /\ plan' \in Plans /\ plan'.restored = plan.restored /\ plan'.wrap = plan.wrap
        /\ plan'.inv = plan.inv /\ plan'.phase = "invalidating"
    BY <1>2, <1>3 DEF Staged, Plans, Phases
  <1>5. slot' = slot
    BY DEF Staged
  <1>6. Planned'
    BY <1>2, <1>3, <1>4, <1>5, OnlyPlanMoves DEF IInv, Planned
  <1> QED
    BY <1>1, <1>4, <1>6, AnswerAdvances DEF Staged

LEMMA ActivatedKeeps ==
  ASSUME IInv, Activated
  PROVE  IInv'
  <1>1. "activate" \in Roles
    BY DEF Roles
  <1>2. /\ plan \in Plans /\ plan # None /\ NextRole(plan) = "activate"
        /\ ctl.op \in Ops /\ ctl.op.role = "activate"
        /\ answer.res = "done" => Done(ctl.op)
        /\ UNCHANGED Elsewhere
    BY <1>1, AnswerTaken DEF Activated
  <1>3. plan.phase = "waiting" /\ Active
    BY <1>2, RolePhase DEF Activated, Answered, IInv, Journalled
  <1>4. /\ plan' \in Plans /\ plan'.restored = plan.restored /\ plan'.wrap = plan.wrap
        /\ plan'.inv = plan.inv /\ plan'.phase = "cleanup" /\ plan'.deadline = plan.deadline
    BY <1>2 DEF Activated, Plans, Phases
  <1>5. slot' = slot
    BY DEF Activated
  <1>6. Planned'
    BY <1>2, <1>3, <1>4, <1>5, OnlyPlanMoves DEF IInv, Planned
  <1> QED
    BY <1>1, <1>4, <1>6, AnswerAdvances DEF Activated

LEMMA InvalidatedKeeps ==
  ASSUME IInv, Invalidated
  PROVE  IInv'
  <1>1. "control" \in Roles
    BY DEF Roles
  <1>2. /\ plan \in Plans /\ plan # None /\ NextRole(plan) = "control" /\ ctl.at = "await"
        /\ ctl.op \in Ops /\ ctl.op.role = "control"
        /\ answer.res = "done" => Done(ctl.op)
        /\ UNCHANGED Elsewhere
    BY <1>1, AnswerTaken DEF Invalidated
  <1>3. ctl.op = ControlOp(plan.wrap) /\ plan.wrap # 0
    BY <1>2 DEF IInv, Commanded, ControlOp, Ops
  <1>4. plan.phase = "invalidating" /\ plan.inv # 0 /\ server[plan.inv] = "done"
    BY <1>2, <1>3, RolePhase DEF Invalidated, Answered, IInv, Pointed
  <1>5. /\ plan' \in Plans /\ plan'.restored = plan.restored /\ plan'.wrap = plan.wrap
        /\ plan'.inv = plan.inv /\ plan'.phase = "waiting" /\ plan'.deadline = plan.inv
    BY <1>2 DEF Invalidated, Plans, Phases
  <1>6. slot' = slot
    BY DEF Invalidated
  <1>7. Planned'
    BY <1>2, <1>4, <1>5, <1>6, OnlyPlanMoves DEF IInv, Planned
  <1> QED
    BY <1>1, <1>5, <1>7, AnswerAdvances DEF Invalidated

LEMMA RefusedKeeps ==
  ASSUME IInv, Refused
  PROVE  IInv'
  <1>1. "control" \in Roles
    BY DEF Roles
  <1>2. plan \in Plans /\ UNCHANGED Elsewhere
    BY <1>1, AnswerTaken DEF Refused
  <1>3. plan' \in Plans /\ plan'.wrap = 0 /\ Planned'
    BY <1>2, NoPointersPlan DEF Refused
  <1> QED
    BY <1>1, <1>3, AnswerAdvances DEF Refused

LEMMA CleanedKeeps ==
  ASSUME IInv, Cleaned
  PROVE  IInv'
  <1>1. "cleanup" \in Roles
    BY DEF Roles
  <1>2. /\ plan \in Plans /\ CtlTypes
        /\ UNCHANGED <<minted, resets, sess, Elsewhere, auth>> /\ answer' = None
    BY <1>1, AnswerTaken DEF Cleaned
  <1>3. CASE plan' = None /\ ctl' = Rest
    <2>1. CtlTypes'
      BY <1>2, <1>3, RestTyped DEF CtlTypes, Cleaned
    <2>2. Planned' /\ Commanded'
      BY <1>3, RestTyped DEF Planned, Commanded
    <2> QED
      BY <1>2, <1>3, <2>1, <2>2, Quiet, CtlTypesHold DEF Cleaned
  <1>4. CASE plan' = Reset(plan, ctl.ver) /\ Goto("ready", None)
    <2>1. ctl.ver \in Releases \cup {None}
      BY <1>2 DEF CtlTypes, Commands
    <2>2. plan' \in Plans /\ plan'.wrap = 0 /\ Planned'
      BY <1>2, <1>4, <2>1, ResetPlan
    <2> QED
      BY <1>1, <1>4, <2>2, AnswerAdvances DEF Cleaned
  <1> QED
    BY <1>3, <1>4 DEF Cleaned

(* The command's end leaves the operation it started without a listener.   *)
LEMMA KillControllerKeeps ==
  ASSUME IInv, KillController
  PROVE  IInv'
  <1>1. /\ ctl' = Rest /\ answer' = None /\ faults' \in 0..MaxFaults
        /\ UNCHANGED <<plan, slot, minted, resets, sess, jrn, state, parts, db, files,
                       runtime, cand, server, passed, auth, snap>>
    BY FaultTyped DEF KillController, tgtVars, extVars
  <1>2. CtlTypes /\ MsgTypes /\ TgtTypes /\ ExtTypes
    BY TypesSplit DEF IInv
  <1>3. \/ job = None /\ job' = None
        \/ job # None /\ job' # None /\ job' \in Jobs /\ job'.req = job.req /\ job'.at = job.at
    BY <1>2 DEF KillController, MsgTypes, Jobs
  <1>4. TypeOK'
    BY <1>1, <1>2, <1>3, TypesSplitNext, RestTyped DEF CtlTypes, MsgTypes, TgtTypes, ExtTypes
  <1>5. Asked' = Asked /\ (\A o : Done(o)' <=> Done(o)) /\ (Active' <=> Active)
    BY <1>1, <1>3 DEF Asked, Done, Active
  <1>6. Requested' /\ Journalled' /\ Planned' /\ Pointed'
    BY <1>1, <1>3, <1>5 DEF IInv, Requested, Journalled, Planned, Pointed
  <1>7. Commanded'
    BY <1>1, RestTyped DEF Commanded
  <1>8. Paths' /\ Records' /\ Restoring' /\ Activating' /\ Deadlines'
    BY <1>1, <1>3, TargetFrame, ServerFrame
  <1> QED
    BY <1>4, <1>6, <1>7, <1>8 DEF IInv

-----------------------------------------------------------------------------
(***************************************************************************)
(* The theorems.                                                           *)
(***************************************************************************)
LEMMA InitHolds == Init => IInv
  <1> SUFFICES ASSUME Init PROVE IInv
    OBVIOUS
  <1>1. CtlTypes
    BY RestTyped, SomeResults DEF Init, CtlTypes
  <1>2. MsgTypes
    BY SomeResults DEF Init, MsgTypes
  <1>3. TgtTypes
    BY SomeResults DEF Init, TgtTypes, PathTypes
  <1>4. ExtTypes
    BY DEF Init, ExtTypes
  <1>5. Paths /\ Records
    BY DEF Init, Paths, Records, Unmoved
  <1>6. Restoring /\ Activating /\ Deadlines
    BY DEF Init, Restoring, RestoreAt, Activating, ActivateAt, Deadlines
  <1>7. Requested /\ Planned /\ Pointed /\ Commanded
    BY RestTyped DEF Init, Requested, Asked, Planned, Pointed, Commanded
  <1>8. \A o \in Ops : jrn[o].at = "none"
    BY DEF Init
  <1>9. Journalled
    BY <1>8, RecoverOpTyped DEF Init, Journalled, Done
  <1> QED
    BY <1>1, <1>2, <1>3, <1>4, <1>5, <1>6, <1>7, <1>9, TypesSplit DEF IInv

LEMMA ControllerKeeps ==
  ASSUME IInv, Controller
  PROVE  IInv'
  <1>1. ASSUME NEW v \in Releases, ChangeVersion(v) \/ ChangeVersionCleans(v)
        PROVE  IInv'
    BY <1>1, ChangeVersionKeeps, ChangeVersionCleansKeeps
  <1>2. CASE BeginPlan \/ Resume \/ SendRecover \/ SendStage \/ SendActivate \/ SendCleanup
    BY <1>2, BeginPlanKeeps, ResumeKeeps, SendRecoverKeeps, SendStageKeeps, SendActivateKeeps,
       SendCleanupKeeps
  <1>3. CASE DropPointers \/ Prepare \/ Record \/ SendControl \/ Disproved
    BY <1>3, DropPointersKeeps, PrepareKeeps, RecordKeeps, SendControlKeeps, DisprovedKeeps
  <1>4. CASE Failed \/ Restored \/ Staged \/ Activated \/ Cleaned
    BY <1>4, FailedKeeps, RestoredKeeps, StagedKeeps, ActivatedKeeps, CleanedKeeps
  <1>5. CASE Invalidated \/ Refused \/ Settle \/ Unknown \/ Unauthorized \/ ClearForCeremony \/ Ceremony
    BY <1>5, InvalidatedKeeps, RefusedKeeps, SettleKeeps, UnknownKeeps, UnauthorizedKeeps,
       ClearForCeremonyKeeps, CeremonyKeeps
  <1> QED
    BY <1>1, <1>2, <1>3, <1>4, <1>5 DEF Controller

LEMMA RecoverKeeps ==
  ASSUME IInv, Recover
  PROVE  IInv'
  <1>1. ASSUME StagePart("data", "secrets") \/ StagePart("secrets", "urls") \/ StagePart("config", "mark")
        PROVE  IInv'
    BY <1>1, StagePartKeeps DEF Parts
  <1>2. ASSUME \/ SwitchPart("data", "switch data", "switch secrets")
               \/ SwitchPart("secrets", "switch secrets", "switch config")
               \/ SwitchPart("config", "switch config", "completed")
        PROVE  IInv'
    BY <1>2, SwitchPartKeeps DEF Parts, Switching
  <1> QED
    BY <1>1, <1>2, QuiesceKeeps, VerifyKeeps, PlanDatabaseKeeps, DatabaseKeeps, RewriteUrlsKeeps,
       MarkSwitchingKeeps, WriteCompletedKeeps, CommitRecoveryKeeps, RecoverAnswerKeeps DEF Recover

LEMMA NextKeeps == IInv /\ [Next]_vars => IInv'
  <1> SUFFICES ASSUME IInv, [Next]_vars PROVE IInv'
    OBVIOUS
  <1>1. CASE UNCHANGED vars
    <2>1. /\ UNCHANGED <<plan, slot, minted, sess, answer, jrn, job, ctl, resets, state, parts, db,
                         files, runtime, cand, server, passed, auth, snap, faults>>
      BY <1>1 DEF vars, ctlVars, tgtVars, extVars
    <2>2. TypeOK' /\ Commanded' /\ Deadlines'
      BY <2>1 DEF IInv, TypeOK, Commanded, Deadlines
    <2>3. Requested' /\ Journalled' /\ Planned' /\ Pointed'
      BY <2>1 DEF IInv, Requested, Journalled, Planned, Pointed, Asked, Done, Active
    <2>4. Paths' /\ Records' /\ Restoring' /\ Activating'
      BY <2>1, TargetFrame
    <2> QED
      BY <2>2, <2>3, <2>4 DEF IInv
  <1>2. CASE Later
    BY <1>2, StageKeeps, ControlKeeps, ActivateKeeps, ActivateCommitKeeps, ActivateAnswerKeeps,
       CleanupKeeps DEF Later
  <1>3. CASE Surroundings
    BY <1>3, ServerFinishesKeeps, DeadlinePassesKeeps, ElsewhereKeeps DEF Surroundings
  <1> QED
    BY <1>1, <1>2, <1>3, ControllerKeeps, ReplayKeeps, StartKeeps, RecoverKeeps, RecoverFailsKeeps,
       StepFailsKeeps, KillControllerKeeps, KillTargetKeeps DEF Next

(* The inductive invariant holds in every state of every recovery, however *)
(* the command and the target's handlers interleave and are killed.        *)
THEOREM Inductive == Spec => []IInv
  <1> QED
    BY InitHolds, NextKeeps, PTL DEF Spec

(* Every variable keeps its type.                                          *)
THEOREM TypeCorrect == Spec => []TypeOK
  <1>1. IInv => TypeOK
    BY DEF IInv
  <1> QED
    BY <1>1, Inductive, PTL

(* A running deployment serves the data, secrets and configuration from    *)
(* before the recovery or all three from the snapshot: every switch of a   *)
(* path happens behind the durable marker with the runtime stopped, and    *)
(* only the completion record lets it start again (backup_exec.rs recover, *)
(* switch_recovery_path; mod.rs safe_to_restart).                          *)
THEOREM OneGeneration == Spec => []ServesOneGeneration
  <1>1. IInv => ServesOneGeneration
    <2> SUFFICES ASSUME IInv, runtime.run PROVE AllOld \/ AllNew
      BY DEF ServesOneGeneration
    <2>1. CASE files.completed
      BY <2>1 DEF IInv, Paths, Records, InPlace, AllNew
    <2>2. CASE ~files.completed
      BY <2>2 DEF IInv, Paths, Records, Unmoved, Aside, InPlace, AllOld
    <2> QED
      BY <2>1, <2>2
  <1> QED
    BY <1>1, Inductive, PTL

(* Restored data is served only by an activated release, and only after    *)
(* the deadline of a finished invalidation of the old sessions passed      *)
(* (surface_run.rs run_recover; backup_exec.rs activate_recovered_runtime). *)
THEOREM Invalidation == Spec => []ServesInvalidated
  <1>1. IInv => ServesInvalidated
    <2> SUFFICES ASSUME IInv, runtime.run, ~AllOld
                 PROVE  runtime.ver # None /\ \E i \in passed : server[i] = "done"
      BY DEF ServesInvalidated
    <2>1. files.completed
      BY DEF IInv, Paths, Records, Unmoved, Aside, InPlace, AllOld
    <2> QED
      BY <2>1 DEF IInv, Activating, Deadlines
  <1> QED
    BY <1>1, Inductive, PTL

(* The controller's durable plan never runs ahead of the target, of the    *)
(* server or of its own control journal, however results are replayed,     *)
(* delayed or lost (surface_run.rs run_recover, recovery_journal.rs).      *)
THEOREM PlanTruth == Spec => []PlanIsTrue
  <1>1. IInv => PlanIsTrue
    <2> SUFFICES ASSUME IInv, plan # None PROVE PlanIsTrue
      BY DEF PlanIsTrue
    <2>1. plan.restored => files.completed /\ AllNew
      BY DEF IInv, Planned, Journalled, Paths, Records, InPlace, AllNew
    <2> QED
      BY <2>1 DEF IInv, Planned, PlanIsTrue, Active
  <1> QED
    BY <1>1, Inductive, PTL
=============================================================================
