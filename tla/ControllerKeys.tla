--------------------------- MODULE ControllerKeys ---------------------------
(* The controller identity of one instance on one control machine: the key  *)
(* store (controller_identity/store.rs), the flows bind, rotate, add,        *)
(* revoke and list (controller_identity/lifecycle.rs), break-glass recovery  *)
(* and root rotation (controller_identity/recovery.rs).  Processes run the   *)
(* flows concurrently; only two runs of the same locked flow exclude each    *)
(* other.  Every durable write and every server call is a step of its own,   *)
(* so a process may be killed, or lose an answer, between any two of them.   *)
(* The server's slot registry is external: it is modelled by what the flows  *)
(* rely on (ControllerRegistryApi).                                          *)
(*                                                                           *)
(* Key ids and recovery secrets are numbered in order of generation.  Labels *)
(* are abstracted: a retry repeats its label.                                *)
EXTENDS Naturals, FiniteSets, FiniteSetsExt, Optional

CONSTANTS Procs,        \* concurrent nazoauthctl processes of one machine
          MaxSlots,     \* snapshot.max_active_slots
          MaxKeys,      \* bound on keys generated on this machine
          MaxSecrets,   \* bound on recovery secrets generated
          MaxIds,       \* bound on slots the server ever creates
          MaxFaults     \* bound on kills, lost answers and foreign changes

ASSUME KeysAssumption ==
    /\ None \notin Nat
    /\ {MaxSlots, MaxKeys, MaxSecrets, MaxIds, MaxFaults} \subseteq Nat

VARIABLES keys,       \* kids with a stored private key
          active,     \* the active pointer
          binding,    \* controller_id of the registry record
          pendBind,   \* bind-recovery-pending.json
          pendAdd,    \* add-pending.json
          pendRec,    \* recovery-pending.json
          slots,      \* the server's slots, revoked ones included
          root,       \* the secret of the recovery root the server accepts
          accepted,   \* the server's verdicts on recovery answers (None: rejected)
          delivered,  \* secrets the operator holds
          proc,       \* the running flows
          kids,       \* keys generated so far
          secrets,    \* secrets generated so far
          faults,
          shared,     \* history: kids one flow took or retired while the
                      \* pending file of another named them
          overlapped  \* history: two flows ran at the same time

machine == <<keys, active, binding, pendBind, pendAdd, pendRec>>
server == <<slots, root, accepted>>
hist == <<shared, overlapped>>
vars == <<machine, server, delivered, proc, kids, secrets, faults, hist>>

Kid == 1..MaxKeys
Secret == 1..MaxSecrets
Id == 1..MaxIds
Foreign == 0    \* the kid of a key that another machine generated
PendingBinds == [kid : Kid, secret : Secret]
PendingRecoveries == [kid : Kid, old : Secret, secret : Secret]

ASSUME NoneIsAbsent == None \notin PendingBinds \cup PendingRecoveries

Slot == [id : Id, kid : Kid \cup {Foreign}, live : BOOLEAN]
Flows == {"bind", "rotate", "add", "revoke", "list", "recover", "root"}
Locked == {"bind", "add", "recover"}

Live(S) == {s \in S : s.live}
Listed(S) == {s.kid : s \in S}

Idle == [pc |-> "idle", flow |-> "none", rec |-> None, snap |-> {},
         local |-> {}, kid |-> None, secret |-> None, id |-> None,
         changed |-> FALSE]

PCs == {"idle", "list", "pending", "reconcile", "point", "retire", "unpoint",
        "proceed", "save", "approve", "commit", "fields", "activate",
        "retireOld", "clear", "clearAdd", "revoked", "resume", "challenge",
        "saveRec", "submit", "rejected", "clearRec", "recPoint", "recFields",
        "root", "rootCommit"}

Init ==
    /\ keys = {} /\ active = None /\ binding = None
    /\ pendBind = None /\ pendAdd = None /\ pendRec = None
    /\ slots = {} /\ root = None /\ accepted = {}
    /\ delivered = {} /\ kids = 0 /\ secrets = 0 /\ faults = 0 /\ shared = {}
    /\ overlapped = FALSE
    /\ proc = [p \in Procs |-> Idle]

-----------------------------------------------------------------------------
(* Stepping helpers.                                                         *)

At(p, pc) == proc[p].pc = pc
Goto(p, pc) == proc' = [proc EXCEPT ![p].pc = pc]
Done(p) == proc' = [proc EXCEPT ![p] = Idle]

\* The try-lock of a locked flow: a process holds it once it is past the
\* first step, in which it takes it.
LockFree(p) ==
    proc[p].flow \in Locked =>
        \A q \in Procs \ {p} : \/ proc[q].flow # proc[p].flow
                               \/ proc[q].pc \in {"list", "resume"}

\* The keys that a pending file names.
PendingKids == ({pendAdd} \cup {r.kid : r \in {pendBind, pendRec} \ {None}}) \ {None}

-----------------------------------------------------------------------------
(* Start: the command resolves the instance record before anything else.     *)

\* Bound: a flow that will generate a key or a secret starts only while one
\* is left.
Bounded(f) ==
    /\ \/ f \in {"list", "revoke", "root"} \/ kids < MaxKeys
       \/ f = "bind" /\ pendBind # None
       \/ f = "add" /\ pendAdd # None
       \/ f = "recover" /\ pendRec # None
    /\ \/ f \in {"list", "revoke", "rotate", "add"} \/ secrets < MaxSecrets
       \/ f = "bind" /\ pendBind # None
       \/ f = "recover" /\ pendRec # None

Start(p, f) ==
    /\ At(p, "idle") /\ Bounded(f)
    /\ f \in {"rotate", "add"} => binding # None
    /\ f = "recover" => root # None
    /\ proc' = [proc EXCEPT ![p] =
                  [Idle EXCEPT !.pc = CASE f = "recover" -> "resume"
                                        [] f = "root" -> "root"
                                        [] OTHER -> "list",
                               !.flow = f, !.rec = binding]]
    /\ overlapped' = (overlapped \/ \E q \in Procs : ~At(q, "idle"))
    /\ UNCHANGED <<machine, server, delivered, kids, secrets, faults, shared>>

\* Take the flow's lock and read the authoritative slots.
ListSlots(p) ==
    /\ At(p, "list") /\ LockFree(p) /\ proc[p].flow # "revoke"
    /\ proc' = [proc EXCEPT ![p].snap = slots,
                            ![p].pc = IF proc[p].flow = "add" THEN "pending"
                                      ELSE "reconcile"]
    /\ UNCHANGED <<machine, server, delivered, kids, secrets, faults, hist>>

\* revoke: the target is a slot the server lists as active.
ListForRevoke(p) ==
    /\ At(p, "list") /\ proc[p].flow = "revoke"
    /\ IF Live(slots) = {}
       THEN Done(p)
       ELSE \E s \in Live(slots) :
              proc' = [proc EXCEPT ![p].snap = slots, ![p].id = s.id,
                                   ![p].pc = "commit"]
    /\ UNCHANGED <<machine, server, delivered, kids, secrets, faults, hist>>

\* add: a pending enrolment the server lists is finished, otherwise the flow
\* reconciles; a pending file whose key is gone is an error.
LoadPendingAdd(p) ==
    /\ At(p, "pending")
    /\ LET hits == {s \in proc[p].snap : s.kid = pendAdd} IN
       \/ /\ pendAdd # None /\ pendAdd \notin keys
          /\ Done(p)
       \/ /\ pendAdd \in keys /\ hits # {}
          /\ \E s \in hits :
               IF s.live
               THEN proc' = [proc EXCEPT ![p].pc = "fields", ![p].id = s.id,
                                         ![p].kid = s.kid]
               ELSE Done(p)
       \/ /\ pendAdd = None \/ (pendAdd \in keys /\ hits = {})
          /\ Goto(p, "reconcile")
    /\ UNCHANGED <<machine, server, delivered, kids, secrets, faults, hist>>

-----------------------------------------------------------------------------
(* reconcile_from_snapshot.                                                  *)

\* The active slots this machine owns a key for, restricted to the recorded
\* controller if there is one; an unbound machine needs exactly one.
Mine(p) == {s \in Live(proc[p].snap) :
              /\ s.kid \in keys
              /\ proc[p].rec \in {None, s.id}}

Adoptable(p) == Cardinality(Mine(p)) = 1

AdoptFields(p) ==
    /\ At(p, "reconcile") /\ Adoptable(p)
    /\ \E s \in Mine(p) :
         LET needsFields == proc[p].rec # s.id
             needsPointer == active # s.kid IN
         /\ binding' = IF needsFields THEN s.id ELSE binding
         /\ proc' = [proc EXCEPT ![p].pc = IF needsPointer THEN "point"
                                           ELSE "retire",
                                 ![p].kid = s.kid, ![p].local = keys,
                                 ![p].changed = needsFields \/ needsPointer]
    /\ UNCHANGED <<keys, active, pendBind, pendAdd, pendRec, server,
                   delivered, kids, secrets, faults, hist>>

\* set_active_kid refuses a key that is not stored.
AdoptPointer(p) ==
    /\ At(p, "point")
    /\ IF proc[p].kid \in keys
       THEN /\ active' = proc[p].kid
            /\ Goto(p, "retire")
       ELSE Done(p) /\ UNCHANGED active
    /\ UNCHANGED <<keys, binding, pendBind, pendAdd, pendRec, server,
                   delivered, kids, secrets, faults, hist>>

\* What retire_kid removes: a stored key that the pointer does not name.
Retirable(ks) == (ks \cap keys) \ {active}

\* Retire the keys read at the start that the snapshot does not list.
RetireUnlisted(p) ==
    /\ At(p, "retire")
    /\ LET gone == Retirable(proc[p].local \ Listed(proc[p].snap)) IN
       /\ keys' = keys \ gone
       /\ shared' = shared \cup (gone \cap PendingKids)
    /\ proc' = [proc EXCEPT ![p] =
                  IF ~proc[p].changed
                  THEN [proc[p] EXCEPT !.pc = "proceed", !.kid = None,
                                       !.local = {}]
                  ELSE IF proc[p].flow = "bind"
                       THEN [proc[p] EXCEPT !.pc = "clear"]
                       ELSE Idle]
    /\ UNCHANGED <<active, binding, pendBind, pendAdd, pendRec, server,
                   delivered, kids, secrets, faults, overlapped>>

Revoked(p) == /\ proc[p].rec # None
              /\ ~\E s \in Live(proc[p].snap) : s.id = proc[p].rec

\* The recorded controller is no longer active at the server.
ForgetFields(p) ==
    /\ At(p, "reconcile") /\ ~Adoptable(p) /\ Revoked(p)
    /\ binding' = None
    /\ Goto(p, "unpoint")
    /\ UNCHANGED <<keys, active, pendBind, pendAdd, pendRec, server,
                   delivered, kids, secrets, faults, hist>>

ForgetPointer(p) ==
    /\ At(p, "unpoint")
    /\ active' = None
    /\ IF proc[p].flow = "bind" THEN Goto(p, "clear") ELSE Done(p)
    /\ UNCHANGED <<keys, binding, pendBind, pendAdd, pendRec, server,
                   delivered, kids, secrets, faults, hist>>

NothingToReconcile(p) ==
    /\ At(p, "reconcile") /\ ~Adoptable(p) /\ ~Revoked(p)
    /\ Goto(p, "proceed")
    /\ UNCHANGED <<machine, server, delivered, kids, secrets, faults, hist>>

-----------------------------------------------------------------------------
(* Proposals.                                                                *)

\* What each flow refuses once reconciliation found nothing to do.
Refuses(p) ==
    LET q == proc[p] IN
    CASE q.flow = "list" -> TRUE
      [] q.flow = "bind" ->
           \/ Live(q.snap) # {} \/ q.rec # None
           \/ /\ pendBind # None
              /\ \/ pendBind.kid \in Listed(q.snap)
                 \/ pendBind.kid \notin keys
      [] q.flow = "rotate" -> ~\E s \in q.snap : s.id = q.rec
      [] q.flow = "add" -> \/ Cardinality(Live(q.snap)) >= MaxSlots
                           \/ pendAdd # None /\ pendAdd \notin keys

Refuse(p) ==
    /\ At(p, "proceed") /\ Refuses(p)
    /\ Done(p)
    /\ UNCHANGED <<machine, server, delivered, kids, secrets, faults, hist>>

\* The proposal of an interrupted bind or add is proposed again unchanged.
Repropose(p) ==
    /\ At(p, "proceed") /\ ~Refuses(p)
    /\ \/ /\ proc[p].flow = "bind" /\ pendBind # None
          /\ proc' = [proc EXCEPT ![p].pc = "approve", ![p].kid = pendBind.kid,
                                  ![p].secret = pendBind.secret]
       \/ /\ proc[p].flow = "add" /\ pendAdd # None
          /\ proc' = [proc EXCEPT ![p].pc = "approve", ![p].kid = pendAdd]
    /\ UNCHANGED <<machine, server, delivered, kids, secrets, faults, hist>>

Unproposed(p) == \/ proc[p].flow = "rotate"
                 \/ proc[p].flow = "bind" /\ pendBind = None
                 \/ proc[p].flow = "add" /\ pendAdd = None

\* select_pending_candidate: the newest stored key that is neither active nor
\* listed; without one, generate_candidate.
Candidates(p) == keys \ ({active} \cup Listed(proc[p].snap))

Propose(p) ==
    /\ At(p, "proceed") /\ ~Refuses(p) /\ Unproposed(p)
    /\ LET next == CASE proc[p].flow = "bind" -> "save"
                     [] proc[p].flow = "add" -> "approve"
                     [] proc[p].flow = "rotate" -> "commit" IN
       IF Candidates(p) # {}
       THEN /\ proc' = [proc EXCEPT ![p].pc = next,
                                    ![p].kid = Max(Candidates(p))]
            /\ shared' = shared \cup ({Max(Candidates(p))} \cap PendingKids)
            /\ UNCHANGED <<keys, kids>>
       ELSE /\ kids < MaxKeys /\ UNCHANGED shared
            /\ kids' = kids + 1
            /\ keys' = keys \cup {kids + 1}
            /\ proc' = [proc EXCEPT ![p].pc = next, ![p].kid = kids + 1]
    /\ UNCHANGED <<active, binding, pendBind, pendAdd, pendRec, server,
                   delivered, secrets, faults, overlapped>>

\* bind: the controller key and a new recovery secret become one proposal.
SaveBind(p) ==
    /\ At(p, "save") /\ secrets < MaxSecrets
    /\ secrets' = secrets + 1
    /\ pendBind' = [kid |-> proc[p].kid, secret |-> secrets + 1]
    /\ proc' = [proc EXCEPT ![p].pc = "approve", ![p].secret = secrets + 1]
    /\ UNCHANGED <<keys, active, binding, pendAdd, pendRec, server, delivered,
                   kids, faults, hist>>

\* Mutant: a bind commits although its secret was not delivered.
DeliverBindLater(p) ==
    /\ At(p, "approve") /\ proc[p].flow = "bind"
    /\ Goto(p, "commit")
    /\ UNCHANGED <<machine, server, delivered, kids, secrets, faults, hist>>

\* bind: the approved proposal's secret is delivered before the commit.
DeliverBind(p) ==
    /\ At(p, "approve") /\ proc[p].flow = "bind"
    /\ delivered' = delivered \cup {proc[p].secret}
    /\ Goto(p, "commit")
    /\ UNCHANGED <<machine, server, kids, secrets, faults, hist>>

\* add: the approved proposal is recorded before the commit.
SaveAdd(p) ==
    /\ At(p, "approve") /\ proc[p].flow = "add"
    /\ pendAdd' = proc[p].kid
    /\ Goto(p, "commit")
    /\ UNCHANGED <<keys, active, binding, pendBind, pendRec, server,
                   delivered, kids, secrets, faults, hist>>

-----------------------------------------------------------------------------
(* The server's answers.  An answer may be lost after the server committed.  *)

Fresh == Cardinality(slots) + 1

\* The slots after the server accepts the commit of p; {} if it refuses.
Accepts(p) ==
    LET q == proc[p] IN
    CASE q.flow = "bind" ->
           IF Live(slots) = {} /\ Fresh <= MaxIds
           THEN {[id |-> Fresh, kid |-> q.kid, live |-> TRUE]} ELSE {}
      [] q.flow = "add" ->
           IF Cardinality(Live(slots)) < MaxSlots /\ Fresh <= MaxIds
              /\ q.kid \notin Listed(slots)
           THEN {[id |-> Fresh, kid |-> q.kid, live |-> TRUE]} ELSE {}
      [] q.flow = "rotate" ->
           {[s EXCEPT !.kid = q.kid] :
              s \in {t \in Live(slots) : t.id = q.rec
                                         /\ q.kid \notin Listed(slots)}}
      [] q.flow = "revoke" ->
           {[s EXCEPT !.live = FALSE] : s \in {t \in Live(slots) : t.id = q.id}}

Commit(p) ==
    /\ At(p, "commit")
    /\ \E s \in Accepts(p) :
         /\ slots' = {t \in slots : t.id # s.id} \cup {s}
         /\ root' = IF proc[p].flow = "bind" THEN proc[p].secret ELSE root
         /\ \/ /\ proc' = [proc EXCEPT ![p].id = s.id, ![p].kid = s.kid,
                                       ![p].pc = IF proc[p].flow = "revoke"
                                                 THEN "revoked" ELSE "fields"]
               /\ UNCHANGED faults
            \/ /\ faults < MaxFaults /\ faults' = faults + 1
               /\ Done(p)
    /\ UNCHANGED <<machine, accepted, delivered, kids, secrets, hist>>

CommitRefused(p) ==
    /\ At(p, "commit") /\ Accepts(p) = {}
    /\ Done(p)
    /\ UNCHANGED <<machine, server, delivered, kids, secrets, faults, hist>>

-----------------------------------------------------------------------------
(* After the commit.                                                         *)

\* finish_activation writes the registry record, then the pointer.  rotate
\* notes the key it replaces.
ActivateFields(p) ==
    /\ At(p, "fields")
    /\ binding' = proc[p].id
    /\ proc' = [proc EXCEPT ![p].pc = "activate", ![p].local = {active} \ {None}]
    /\ UNCHANGED <<keys, active, pendBind, pendAdd, pendRec, server,
                   delivered, kids, secrets, faults, hist>>

ActivatePointer(p) ==
    /\ At(p, "activate")
    /\ IF proc[p].kid \in keys
       THEN /\ active' = proc[p].kid
            /\ Goto(p, CASE proc[p].flow = "bind" -> "clear"
                         [] proc[p].flow = "add" -> "clearAdd"
                         [] proc[p].flow = "rotate" -> "retireOld")
       ELSE Done(p) /\ UNCHANGED active
    /\ UNCHANGED <<keys, binding, pendBind, pendAdd, pendRec, server,
                   delivered, kids, secrets, faults, hist>>

RetireOld(p) ==
    /\ At(p, "retireOld")
    /\ keys' = keys \ Retirable(proc[p].local \ {proc[p].kid})
    /\ Done(p)
    /\ UNCHANGED <<active, binding, pendBind, pendAdd, pendRec, server,
                   delivered, kids, secrets, faults, hist>>

ClearBind(p) ==
    /\ At(p, "clear")
    /\ pendBind' = None
    /\ Done(p)
    /\ UNCHANGED <<keys, active, binding, pendAdd, pendRec, server,
                   delivered, kids, secrets, faults, hist>>

ClearAdd(p) ==
    /\ At(p, "clearAdd")
    /\ pendAdd' = None
    /\ Done(p)
    /\ UNCHANGED <<keys, active, binding, pendBind, pendRec, server,
                   delivered, kids, secrets, faults, hist>>

\* revoke: its own identity is forgotten, the key of another slot is retired.
AfterRevoke(p) ==
    /\ At(p, "revoked")
    /\ IF proc[p].rec = proc[p].id
       THEN /\ binding' = None
            /\ Goto(p, "unpoint")
            /\ UNCHANGED keys
       ELSE /\ keys' = keys \ Retirable({proc[p].kid})
            /\ Done(p)
            /\ UNCHANGED binding
    /\ UNCHANGED <<active, pendBind, pendAdd, pendRec, server,
                   delivered, kids, secrets, faults, hist>>

-----------------------------------------------------------------------------
(* recover_controller_identity and rotate_root_with_new_secret.              *)

\* A pending submission is resumed before anything new is generated.
ResumeRecovery(p) ==
    /\ At(p, "resume") /\ LockFree(p) /\ pendRec # None
    /\ proc' = [proc EXCEPT ![p].pc = "submit", ![p].kid = pendRec.kid]
    /\ UNCHANGED <<machine, server, delivered, kids, secrets, faults, hist>>

\* The candidate is stored before the challenge is requested.
StageRecovery(p) ==
    /\ At(p, "resume") /\ LockFree(p) /\ pendRec = None /\ kids < MaxKeys
    /\ kids' = kids + 1
    /\ keys' = keys \cup {kids + 1}
    /\ proc' = [proc EXCEPT ![p].pc = "challenge", ![p].kid = kids + 1]
    /\ UNCHANGED <<active, binding, pendBind, pendAdd, pendRec, server,
                   delivered, secrets, faults, hist>>

\* A challenge is issued for a secret of the current root; then the
\* replacement is delivered.
DeliverReplacement(p) ==
    /\ At(p, "challenge") /\ secrets < MaxSecrets
    /\ IF root \in delivered
       THEN /\ secrets' = secrets + 1
            /\ delivered' = delivered \cup {secrets + 1}
            /\ proc' = [proc EXCEPT ![p].pc = "saveRec", ![p].id = root,
                                    ![p].secret = secrets + 1]
       ELSE Done(p) /\ UNCHANGED <<secrets, delivered>>
    /\ UNCHANGED <<machine, server, kids, faults, hist>>

SaveRecovery(p) ==
    /\ At(p, "saveRec")
    /\ pendRec' = [kid |-> proc[p].kid, old |-> proc[p].id,
                   secret |-> proc[p].secret]
    /\ Goto(p, "submit")
    /\ UNCHANGED <<keys, active, binding, pendBind, pendAdd, server,
                   delivered, kids, secrets, faults, hist>>

Receipts == {a \in accepted : a.kid = pendRec.kid}

\* The server commits an answer signed with the current root: every slot is
\* revoked, one is installed and the root replaced.
CommitRecovery ==
    /\ Receipts = {} /\ root = pendRec.old /\ Fresh <= MaxIds
    /\ slots' = {[s EXCEPT !.live = FALSE] : s \in slots}
                \cup {[id |-> Fresh, kid |-> pendRec.kid, live |-> TRUE]}
    /\ root' = pendRec.secret
    /\ accepted' = accepted \cup {[kid |-> pendRec.kid, id |-> Fresh]}

\* The answer it committed before gets its receipt again.
AnswerAgain == (\E a \in Receipts : a.id # None) /\ UNCHANGED server

\* The root changed meanwhile, or the challenge expired: rejected for good.
RejectRecovery ==
    /\ \A a \in Receipts : a.id = None
    /\ slots' = slots /\ root' = root
    /\ accepted' = accepted \cup {[kid |-> pendRec.kid, id |-> None]}

\* Mutant: a lost answer is taken for a rejection.
SubmitRecoveryHasty(p) ==
    /\ At(p, "submit")
    /\ CommitRecovery \/ AnswerAgain
    /\ \/ /\ \E a \in accepted' :
              /\ a.kid = pendRec.kid
              /\ proc' = [proc EXCEPT ![p].pc = "recPoint", ![p].id = a.id]
          /\ UNCHANGED faults
       \/ /\ faults < MaxFaults /\ faults' = faults + 1
          /\ Goto(p, "rejected")
    /\ UNCHANGED <<machine, delivered, kids, secrets, hist>>

SubmitRecovery(p) ==
    /\ At(p, "submit")
    /\ CommitRecovery \/ AnswerAgain
    /\ \/ /\ \E a \in accepted' :
              /\ a.kid = pendRec.kid
              /\ proc' = [proc EXCEPT ![p].pc = "recPoint", ![p].id = a.id]
          /\ UNCHANGED faults
       \/ /\ faults < MaxFaults /\ faults' = faults + 1
          /\ Done(p)
    /\ UNCHANGED <<machine, delivered, kids, secrets, hist>>

RecoveryRejected(p) ==
    /\ At(p, "submit") /\ RejectRecovery
    /\ \/ (root # pendRec.old \/ Receipts # {}) /\ UNCHANGED faults
       \/ Receipts = {} /\ faults < MaxFaults /\ faults' = faults + 1
    /\ Goto(p, "rejected")
    /\ UNCHANGED <<machine, delivered, kids, secrets, hist>>

RetireRejected(p) ==
    /\ At(p, "rejected")
    /\ keys' = keys \ Retirable({proc[p].kid})
    /\ Goto(p, "clearRec")
    /\ UNCHANGED <<active, binding, pendBind, pendAdd, pendRec, server,
                   delivered, kids, secrets, faults, hist>>

RecoveryPointer(p) ==
    /\ At(p, "recPoint")
    /\ IF proc[p].kid \in keys
       THEN active' = proc[p].kid /\ Goto(p, "recFields")
       ELSE Done(p) /\ UNCHANGED active
    /\ UNCHANGED <<keys, binding, pendBind, pendAdd, pendRec, server,
                   delivered, kids, secrets, faults, hist>>

RecoveryFields(p) ==
    /\ At(p, "recFields")
    /\ binding' = proc[p].id
    /\ Goto(p, "clearRec")
    /\ UNCHANGED <<keys, active, pendBind, pendAdd, pendRec, server,
                   delivered, kids, secrets, faults, hist>>

ClearRecovery(p) ==
    /\ At(p, "clearRec")
    /\ pendRec' = None
    /\ Done(p)
    /\ UNCHANGED <<keys, active, binding, pendBind, pendAdd, server,
                   delivered, kids, secrets, faults, hist>>

\* Root rotation delivers the new secret before it asks for the approval.
DeliverRoot(p) ==
    /\ At(p, "root") /\ secrets < MaxSecrets
    /\ secrets' = secrets + 1
    /\ delivered' = delivered \cup {secrets + 1}
    /\ proc' = [proc EXCEPT ![p].pc = "rootCommit", ![p].secret = secrets + 1]
    /\ UNCHANGED <<machine, server, kids, faults, hist>>

\* Received or lost, the answer changes nothing on the machine.
CommitRoot(p) ==
    /\ At(p, "rootCommit")
    /\ root' = proc[p].secret
    /\ Done(p)
    /\ UNCHANGED <<machine, slots, accepted, delivered, kids, secrets, faults,
                   hist>>

-----------------------------------------------------------------------------
(* The environment.                                                          *)

\* A kill, a transport error before the server acted, a refused approval or
\* an unacknowledged delivery: the flow ends, its lock is released.
Abort(p) ==
    /\ ~At(p, "idle") /\ faults < MaxFaults
    /\ faults' = faults + 1
    /\ Done(p)
    /\ UNCHANGED <<machine, server, delivered, kids, secrets, hist>>

\* Another control machine of the deployment revokes or adds a slot.
Elsewhere ==
    /\ faults < MaxFaults /\ faults' = faults + 1
    /\ \/ \E s \in Live(slots) :
            slots' = (slots \ {s}) \cup {[s EXCEPT !.live = FALSE]}
       \/ /\ Live(slots) # {} /\ Cardinality(Live(slots)) < MaxSlots
          /\ Fresh <= MaxIds /\ Foreign \notin Listed(slots)
          /\ slots' = slots \cup {[id |-> Fresh, kid |-> Foreign, live |-> TRUE]}
    /\ UNCHANGED <<machine, root, accepted, delivered, proc, kids, secrets, hist>>

Step(p) ==
    \/ ListSlots(p) \/ ListForRevoke(p) \/ LoadPendingAdd(p)
    \/ AdoptFields(p) \/ AdoptPointer(p) \/ RetireUnlisted(p)
    \/ ForgetFields(p) \/ ForgetPointer(p) \/ NothingToReconcile(p)
    \/ Refuse(p) \/ Repropose(p) \/ Propose(p) \/ SaveBind(p)
    \/ DeliverBind(p) \/ SaveAdd(p) \/ Commit(p) \/ CommitRefused(p)
    \/ ActivateFields(p) \/ ActivatePointer(p) \/ RetireOld(p)
    \/ ClearBind(p) \/ ClearAdd(p) \/ AfterRevoke(p)
    \/ ResumeRecovery(p) \/ StageRecovery(p) \/ DeliverReplacement(p)
    \/ SaveRecovery(p) \/ SubmitRecovery(p) \/ RecoveryRejected(p)
    \/ RetireRejected(p) \/ RecoveryPointer(p) \/ RecoveryFields(p)
    \/ ClearRecovery(p) \/ DeliverRoot(p) \/ CommitRoot(p)

Next ==
    \/ \E p \in Procs : Step(p) \/ Abort(p) \/ \E f \in Flows : Start(p, f)
    \/ Elsewhere

Spec == Init /\ [][Next]_vars

\* A running flow goes on, and the operator keeps repeating the bind.
FairSpec == /\ Spec
            /\ \A p \in Procs : WF_vars(Step(p)) /\ SF_vars(Start(p, "bind"))

-----------------------------------------------------------------------------
(* Properties.                                                               *)

TypeOK ==
    /\ keys \subseteq Kid
    /\ active \in Kid \cup {None}
    /\ binding \in Id \cup {None}
    /\ pendBind \in PendingBinds \cup {None}
    /\ pendAdd \in Kid \cup {None}
    /\ pendRec \in PendingRecoveries \cup {None}
    /\ slots \subseteq Slot
    /\ root \in Secret \cup {None}
    /\ accepted \subseteq [kid : Kid, id : Id \cup {None}]
    /\ delivered \subseteq Secret
    /\ kids \in 0..MaxKeys /\ secrets \in 0..MaxSecrets
    /\ faults \in 0..MaxFaults
    /\ shared \subseteq Kid /\ overlapped \in BOOLEAN
    /\ \A p \in Procs : proc[p].pc \in PCs /\ proc[p].flow \in Flows \cup {"none"}

\* The active pointer always names a stored key, whatever flows overlap and
\* wherever they stop: load_active never meets a missing record.
PointerLoads == active # None => active \in keys

\* While any slot is active the server accepts a recovery root, and the
\* operator holds its secret: bind, recover and root rotation deliver before
\* they commit, and a resumed proposal submits the secret it delivered.
RootRecoverable == Live(slots) # {} => root \in delivered

\* While flows run one at a time, the private key of an active slot enrolled
\* from this machine stays on disk through every kill and lost answer, unless
\* two proposals came to share a key: one flow proposed or retired a key that
\* the pending file of another still named.
SlotKeyKept ==
    ~overlapped /\ shared = {} =>
        \A s \in Live(slots) : s.kid # Foreign => s.kid \in keys

\* No key that the pointer or an active slot needs is lost.
KeysKept == PointerLoads /\ SlotKeyKept

\* An interrupted add can be resumed: the key its pending file names is kept.
\* Refuted: another flow's reconciliation may retire that key.
AddResumable == pendAdd # None => pendAdd \in keys

\* The recovery secret of a pending bind is erased from the disk once the
\* bind, repeated by the operator, is over.  Refuted: a bind that finds the
\* machine enrolled ends before it looks at the pending file.
BindSecretErased == pendBind # None ~> pendBind = None

=============================================================================
