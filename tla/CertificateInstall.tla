-------------------------- MODULE CertificateInstall --------------------------
(* Activation of public TLS material (tls.rs): `tls certificate apply` and    *)
(* `tls certificate recover` for bindings that share one provider, that is    *)
(* one activation link and one proxy.                                         *)
(*                                                                            *)
(* A transaction, the generation directory it stages and its jti are one      *)
(* number.  apply and recover hold the lock of their deployment and of the    *)
(* provider from before their first read to their end, so at most one of them *)
(* runs.  The proxy is external: it loads what the link names some time after *)
(* it was asked to reload, or by its own polling.                             *)
EXTENDS Naturals, FiniteSets, Optional

CONSTANTS Bindings,    \* deployment/tenant/hostname bindings of one provider
          MaxGens,     \* bound on prepared transactions
          MaxFaults,   \* bound on failed steps and killed commands
          MaxExpired   \* bound on certificates that expire

VARIABLES pending,     \* pending.json of each binding
          receipt,     \* receipt.json: [rev, gen] or None
          archive,     \* receipts/REVISION.json, 0 when absent
          committed,   \* generations with a Committed transactions/JTI.json
          disk,        \* a generation: "none", "partial" or "complete"
          link,        \* the activation link, 0 when absent
          served,      \* external: the generation the proxy has loaded
          asked,       \* external: has the proxy a reload to carry out?
          endpoint,    \* external: what the public address is with no generation
          expired,     \* generations whose certificate is no longer valid
          run,         \* the command at work
          next, faults

journal == <<pending, receipt, archive, committed>>
proxy == <<served, asked, endpoint>>
vars == <<journal, disk, link, proxy, expired, run, next, faults>>

Gens == 1..MaxGens
\* With no generation to serve, a native proxy's port is closed; behind any
\* other provider something trusted may answer all the same, or nothing may.
Endpoints == {"native", "standing", "silent"}
Phases == {"Prepared", "Staged", "Activating", "Activated", "Reloaded",
           "Verified", "RollbackFailed", "Committed"}
Transactions == [gen : Gens, rev : 1..MaxGens, prev : 0..MaxGens, phase : Phases]
Receipts == [rev : 1..MaxGens, gen : Gens]

ASSUME CertificateAssumption ==
    /\ None \notin Bindings \cup Nat \cup Transactions \cup Receipts
    /\ {MaxGens, MaxFaults, MaxExpired} \subseteq Nat

Idle == [at |-> "idle", by |-> "apply", b |-> None, tx |-> None]

\* TransactionPhase::activation_may_have_happened
MayHaveActivated(ph) ==
    ph \in {"Activating", "Activated", "Reloaded", "Verified", "RollbackFailed"}

Init ==
    /\ pending = [b \in Bindings |-> None] /\ receipt = [b \in Bindings |-> None]
    /\ archive = [b \in Bindings |-> [r \in Gens |-> 0]]
    /\ committed = {} /\ disk = [g \in Gens |-> "none"]
    /\ link = 0 /\ served = 0 /\ asked = FALSE /\ expired = {}
    /\ endpoint \in Endpoints
    /\ run = Idle /\ next = 1 /\ faults = 0

-----------------------------------------------------------------------------
At(step) == run.at = step
Tx == run.tx
Own == run.b
Go(step) == run' = [run EXCEPT !.at = step]
GenOf(r) == IF r = None THEN 0 ELSE r.gen
RevOf(r) == IF r = None THEN 0 ELSE r.rev

\* What apply requires of the binding before it prepares anything: the link
\* and the receipt agree, the receipt's own transaction is on record and the
\* revision is free.
Appliable(b) ==
    /\ GenOf(receipt[b]) = link
    /\ receipt[b] # None => receipt[b].gen \in committed
    /\ RevOf(receipt[b]) < MaxGens => archive[b][RevOf(receipt[b]) + 1] = 0

\* apply, up to the first journal write.  Every binding of the provider is
\* fenced by a pending transaction of any of them.
Prepare(b) ==
    /\ run = Idle /\ next <= MaxGens
    /\ \A c \in Bindings : pending[c] = None
    /\ Appliable(b)
    /\ LET tx == [gen |-> next, rev |-> RevOf(receipt[b]) + 1,
                  prev |-> GenOf(receipt[b]), phase |-> "Prepared"]
       IN /\ pending' = [pending EXCEPT ![b] = tx]
          /\ run' = [at |-> "mkdir", by |-> "apply", b |-> b, tx |-> tx]
    /\ next' = next + 1
    /\ UNCHANGED <<receipt, archive, committed, disk, link, proxy, expired, faults>>

\* stage_generation and proxy_config::stage
Stage ==
    /\ At("mkdir")
    /\ \/ /\ disk[Tx.gen] = "none"
          /\ disk' = [disk EXCEPT ![Tx.gen] = "partial"] /\ UNCHANGED run
       \/ /\ disk[Tx.gen] = "partial"
          /\ disk' = [disk EXCEPT ![Tx.gen] = "complete"] /\ Go("Staged")
    /\ UNCHANGED <<journal, link, proxy, expired, next, faults>>

\* Mutant: the link is switched before the journal says so.
AfterUnfenced(ph) ==
    CASE ph = "Staged" -> "switch"
      [] ph = "Activating" -> "switch"
      [] ph = "Activated" -> "reload"
      [] ph = "Reloaded" -> "verify"
      [] ph = "Verified" -> "archive"
      [] ph = "Committed" -> "snapshot"
      [] ph = "RollbackFailed" -> "idle"

\* The step after each journalled phase.
After(ph) ==
    CASE ph = "Staged" -> "Activating"     \* the provider's validate command
      [] ph = "Activating" -> "switch"
      [] ph = "Activated" -> "reload"
      [] ph = "Reloaded" -> "verify"
      [] ph = "Verified" -> "archive"
      [] ph = "Committed" -> "snapshot"
      [] ph = "RollbackFailed" -> "idle"

\* persist_pending with the next phase
Persist ==
    /\ run.at \in Phases
    /\ pending' = [pending EXCEPT ![Own] = [Tx EXCEPT !.phase = run.at]]
    /\ run' = IF After(run.at) = "idle" THEN Idle
              ELSE [run EXCEPT !.at = After(run.at), !.tx.phase = run.at]
    /\ UNCHANGED <<receipt, archive, committed, disk, link, proxy, expired, next, faults>>

\* activate: an atomic replacement of the link that is refused if it moved.
Switch ==
    /\ At("switch") /\ link = Tx.prev
    /\ link' = Tx.gen
    /\ Go("Activated")
    /\ UNCHANGED <<journal, disk, proxy, expired, next, faults>>

Reload ==
    /\ At("reload")
    /\ asked' = TRUE
    /\ Go("Reloaded")
    /\ UNCHANGED <<journal, disk, link, served, endpoint, expired, next, faults>>

\* Mutant: a reachable endpoint is taken for the new certificate.
VerifyAny ==
    /\ At("verify")
    /\ Go("Verified")
    /\ UNCHANGED <<journal, disk, link, proxy, expired, next, faults>>

\* verify_public polls until the endpoint presents the new leaf.
Verify ==
    /\ At("verify") /\ served = Tx.gen
    /\ Go("Verified")
    /\ UNCHANGED <<journal, disk, link, proxy, expired, next, faults>>

\* persist_receipt: the immutable archive first, then the current pointer.
WriteArchive ==
    /\ At("archive")
    /\ archive[Own][Tx.rev] \in {0, Tx.gen}
    /\ archive' = [archive EXCEPT ![Own][Tx.rev] = Tx.gen]
    /\ Go("receipt")
    /\ UNCHANGED <<pending, receipt, committed, disk, link, proxy, expired, next, faults>>

WriteReceipt ==
    /\ At("receipt")
    /\ receipt' = [receipt EXCEPT ![Own] = [rev |-> Tx.rev, gen |-> Tx.gen]]
    /\ Go("Committed")
    /\ UNCHANGED <<pending, archive, committed, disk, link, proxy, expired, next, faults>>

\* Mutant: the journal is removed before the transaction is kept.
FinalizeForgets ==
    /\ At("snapshot") \/ At("clear")
    /\ IF At("snapshot")
       THEN /\ pending' = [pending EXCEPT ![Own] = None]
            /\ Go("clear") /\ UNCHANGED committed
       ELSE /\ committed' = IF Tx.phase = "Committed" THEN committed \cup {Tx.gen}
                            ELSE committed
            /\ run' = Idle /\ UNCHANGED pending
    /\ UNCHANGED <<receipt, archive, disk, link, proxy, expired, next, faults>>

\* finalize_transaction: the final transaction is kept, then the journal goes.
Finalize ==
    /\ At("snapshot") \/ At("clear")
    /\ IF At("snapshot")
       THEN /\ committed' = IF Tx.phase = "Committed" THEN committed \cup {Tx.gen}
                            ELSE committed
            /\ Go("clear") /\ UNCHANGED pending
       ELSE /\ pending' = [pending EXCEPT ![Own] = None]
            /\ run' = Idle /\ UNCHANGED committed
    /\ UNCHANGED <<receipt, archive, disk, link, proxy, expired, next, faults>>

-----------------------------------------------------------------------------
(* rollback_transaction.                                                     *)

\* The previous generation is re-validated before the link is touched.
PreviousUsable ==
    Tx.prev # 0 => /\ Tx.prev \in committed /\ disk[Tx.prev] = "complete"
                   /\ Tx.prev \notin expired

UndoFailed == IF run.by = "apply" THEN Go("RollbackFailed") ELSE run' = Idle

Undo ==
    /\ At("undo")
    /\ IF ~MayHaveActivated(Tx.phase) THEN Go("drop")
       ELSE IF PreviousUsable THEN Go("restore")
       ELSE UndoFailed
    /\ UNCHANGED <<journal, disk, link, proxy, expired, next, faults>>

\* restore_previous_activation
Restore ==
    /\ At("restore")
    /\ link' = Tx.prev
    /\ asked' = TRUE
    /\ Go("undoVerify")
    /\ UNCHANGED <<journal, disk, served, endpoint, expired, next, faults>>

\* verify_public_not_leaf: a native proxy has to refuse the connection, any
\* other endpoint has to answer, trusted and accepted, with another leaf.
CandidateGone ==
    IF endpoint = "native" THEN served = 0
    ELSE served # Tx.gen /\ (served = 0 => endpoint = "standing")

\* The previous leaf is waited for; without one, the candidate's absence is
\* observed once.
UndoVerify ==
    /\ At("undoVerify") /\ link = Tx.prev
    /\ \/ Tx.prev # 0 /\ served = Tx.prev /\ Go("drop")
       \/ Tx.prev = 0 /\ CandidateGone /\ Go("drop")
       \/ Tx.prev = 0 /\ ~CandidateGone /\ UndoFailed
    /\ UNCHANGED <<journal, disk, link, proxy, expired, next, faults>>

\* remove_inactive_generation
Drop ==
    /\ At("drop") /\ link # Tx.gen
    /\ \/ /\ disk[Tx.gen] = "complete"
          /\ disk' = [disk EXCEPT ![Tx.gen] = "partial"] /\ UNCHANGED run
       \/ /\ disk[Tx.gen] # "complete"
          /\ disk' = [disk EXCEPT ![Tx.gen] = "none"] /\ Go("snapshot")
    /\ UNCHANGED <<journal, link, proxy, expired, next, faults>>

-----------------------------------------------------------------------------
(* recover.                                                                  *)

\* The transaction reached its receipt, at least in the archive.
ReachedReceipt(b) ==
    LET tx == pending[b] IN
    \/ GenOf(receipt[b]) = tx.gen
    \/ GenOf(receipt[b]) = tx.prev /\ archive[b][tx.rev] = tx.gen

Recover(b) ==
    /\ run = Idle /\ pending[b] # None
    /\ LET tx == pending[b]
           step == IF ReachedReceipt(b) THEN "archive" ELSE "undo"
       IN /\ IF ReachedReceipt(b) THEN link = tx.gen
             ELSE /\ GenOf(receipt[b]) = tx.prev
                  /\ link \in {tx.prev} \cup
                              (IF MayHaveActivated(tx.phase) THEN {tx.gen} ELSE {})
          /\ run' = [at |-> step, by |-> "recover", b |-> b, tx |-> tx]
    /\ UNCHANGED <<journal, disk, link, proxy, expired, next, faults>>

-----------------------------------------------------------------------------
(* Faults and surroundings.                                                  *)

Applying == {"mkdir", "Staged", "Activating", "switch", "Activated", "reload",
             "Reloaded", "verify", "Verified"}
Undoing == {"undo", "restore", "undoVerify", "drop"}

Fault == faults < MaxFaults /\ faults' = faults + 1

\* A step of apply fails, or the transaction is no longer fresh, and apply
\* rolls back with the phase it holds in memory.  A replacement of the link
\* may fail after it took effect, and so may a reload.
FailApply ==
    /\ run.at \in Applying /\ Fault
    /\ run' = [run EXCEPT !.at = "undo",
                          !.tx.phase = IF run.at \in Phases THEN run.at ELSE @]
    /\ link' \in IF At("switch") /\ link = Tx.prev THEN {link, Tx.gen} ELSE {link}
    /\ asked' \in IF At("reload") THEN {asked, TRUE} ELSE {asked}
    /\ UNCHANGED <<journal, disk, served, endpoint, expired, next>>

FailUndo ==
    /\ run.at \in Undoing /\ Fault
    /\ UndoFailed
    /\ link' \in IF At("restore") THEN {link, Tx.prev} ELSE {link}
    /\ UNCHANGED <<journal, disk, proxy, expired, next>>

\* The command is killed, or an error after the proof leaves the journal.
Kill ==
    /\ run # Idle /\ Fault
    /\ run' = Idle
    /\ UNCHANGED <<journal, disk, link, proxy, expired, next>>

ProxyLoads ==
    /\ served # link \/ asked
    /\ served' = link /\ asked' = FALSE
    /\ UNCHANGED <<journal, disk, link, endpoint, expired, run, next, faults>>

Expire(g) ==
    /\ g < next /\ g \notin expired /\ Cardinality(expired) < MaxExpired
    /\ expired' = expired \cup {g}
    /\ UNCHANGED <<journal, disk, link, proxy, run, next, faults>>

CommandStep ==
    \/ Stage \/ Persist \/ Switch \/ Reload \/ Verify
    \/ WriteArchive \/ WriteReceipt \/ Finalize
    \/ Undo \/ Restore \/ UndoVerify \/ Drop

Next ==
    \/ \E b \in Bindings : Prepare(b) \/ Recover(b)
    \/ CommandStep
    \/ FailApply \/ FailUndo \/ Kill
    \/ ProxyLoads \/ \E g \in Gens : Expire(g)

Spec == Init /\ [][Next]_vars

\* A running command goes on, the operator repeats recover while a journal is
\* pending, and the proxy carries out a reload it was asked for.
FairSpec ==
    /\ Spec
    /\ WF_vars(CommandStep)
    /\ \A b \in Bindings : WF_vars(Recover(b))
    /\ WF_vars(asked /\ ProxyLoads)

-----------------------------------------------------------------------------
(* Properties.                                                               *)

TypeOK ==
    /\ pending \in [Bindings -> Transactions \cup {None}]
    /\ receipt \in [Bindings -> Receipts \cup {None}]
    /\ archive \in [Bindings -> [Gens -> 0..MaxGens]]
    /\ committed \subseteq Gens /\ expired \subseteq Gens
    /\ disk \in [Gens -> {"none", "partial", "complete"}]
    /\ link \in 0..MaxGens /\ served \in 0..MaxGens /\ asked \in BOOLEAN
    /\ endpoint \in Endpoints
    /\ run.b \in Bindings \cup {None} /\ run.tx \in Transactions \cup {None}
    /\ run.at \in {"idle", "archive", "receipt", "snapshot", "clear"}
                  \cup Applying \cup Undoing \cup Phases
    /\ next \in 1..(MaxGens + 1) /\ faults \in 0..MaxFaults

AtRest == run = Idle /\ \A b \in Bindings : pending[b] = None

(* verify_public, rollback_transaction: once no transaction is pending, the   *)
(* proxy presents what the receipt names, or nothing this program staged if   *)
(* no binding has a receipt; and no staged generation is left behind.         *)
ServesReceipt ==
    AtRest =>
        /\ served \in {0} \cup {receipt[b].gen : b \in {c \in Bindings : receipt[c] # None}}
        /\ \A b \in Bindings : receipt[b] # None => served = receipt[b].gen
        /\ \A g \in Gens : disk[g] # "none" => \E b \in Bindings, r \in Gens : archive[b][r] = g

(* stage_generation, activate, remove_inactive_generation: whatever is killed *)
(* or fails, the link names a generation whose files are all there, and one a *)
(* receipt or the pending transaction accounts for.                           *)
LinkIsWhole ==
    link # 0 =>
        /\ disk[link] = "complete"
        /\ \E b \in Bindings : GenOf(receipt[b]) = link
                \/ (pending[b] # None /\ pending[b].gen = link
                    /\ MayHaveActivated(pending[b].phase))

(* The link is whole at every moment, and at rest what it serves is what the  *)
(* receipts say.                                                              *)
InstallTrue == LinkIsWhole /\ ServesReceipt

(* validate_active_receipt, load_committed_transaction,                       *)
(* ensure_receipt_revision_available: interrupted work never leaves evidence  *)
(* that makes the next apply of the installed binding refuse.                 *)
Renewable ==
    AtRest => \A b \in Bindings : receipt[b] # None => Appliable(b)

\* The switch may have been made and must be undone, but a previous certificate
\* that has expired cannot be restored, and the undo of a first activation
\* cannot be proved where nothing acceptable answers without it.
Unrestorable(b) ==
    /\ pending[b] # None
    /\ MayHaveActivated(pending[b].phase) /\ ~ReachedReceipt(b)
    /\ IF pending[b].prev = 0 THEN endpoint = "silent" ELSE pending[b].prev \in expired

(* tls certificate recover: repeated recovery settles every transaction,      *)
(* forward once its receipt is archived and backward before, unless the       *)
(* transaction stays unrestorable for ever: its previous certificate expired, *)
(* or it has none and the public address answers nothing acceptable without.  *)
RecoverSettles ==
    \A b \in Bindings :
        pending[b] # None ~> (pending[b] = None \/ []Unrestorable(b))

===============================================================================
