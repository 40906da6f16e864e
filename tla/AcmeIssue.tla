------------------------------ MODULE AcmeIssue -------------------------------
(* Issuance of a certificate by ACME HTTP-01 (tls/acme.rs): `tls acme issue`  *)
(* and `tls acme recover` for one binding, run by concurrent processes, and   *)
(* the account that the binding shares with other bindings of its deployment. *)
(*                                                                            *)
(* A transaction is its jti, an order its URL, an account key and a server    *)
(* key are numbers; 0 stands for an absent field or file.  The certificate of *)
(* an order is the order, the challenge token too.  Configuration snapshots   *)
(* are left out, and so is the phase, which restates which fields are present *)
(* (ready: it is past Prepared).                                              *)
EXTENDS Naturals, FiniteSets, Optional

CONSTANTS Procs,
          MaxTx,       \* bound on transactions
          MaxOrders,   \* bound on orders at the authority
          MaxKeys,     \* bound on generated keys
          MaxMishaps   \* bound on failures, kills and refused authorizations

ASSUME AcmeAssumption ==
    None \notin Nat /\ {MaxTx, MaxOrders, MaxKeys, MaxMishaps} \subseteq Nat

VARIABLES issuing,     \* pending.json
          current,     \* current.json
          issued,      \* receipts/REVISION.json
          work,        \* transactions/JTI: private-key.pem, request.csr.der, fullchain.pem
          account,     \* the account record's key
          draft,       \* the account-key draft
          webroot,     \* published challenges
          order,       \* external: orders at the authority
          known,       \* external: account keys the authority has registered
          lapsed,      \* transactions past their expiry
          proc,        \* the processes
          used,        \* numbers handed out: [tx, order, key]
          mishaps,
          stale        \* history: a process went on with an outdated journal

files == <<issuing, current, issued, work, account, draft, webroot>>
authority == <<order, known>>
acmeVars == <<files, authority, lapsed, proc, used, mishaps, stale>>

Txs == 1..MaxTx
Orders == 1..MaxOrders
Keys == 1..MaxKeys

\* AcmeTransaction and AcmeReceipt, as far as recovery depends on them
Journals == [jti : Txs, rev : 1..MaxTx, acct : 0..MaxKeys, order : 0..MaxOrders,
             token : 0..MaxOrders, key : 0..MaxKeys, cert : 0..MaxOrders,
             ready : BOOLEAN]
ASSUME NoneIsAbsent == None \notin Journals

Bound(t) == [jti |-> t.jti, rev |-> t.rev, acct |-> t.acct, order |-> t.order,
             key |-> t.key, cert |-> t.cert]

IdleIssuer == [at |-> "idle", tx |-> None]
RevisionOf(r) == IF r = None THEN 0 ELSE r.rev

AcmeInit ==
        /\ issuing = None /\ current = None /\ issued = [r \in Txs |-> None]
        /\ work = [t \in Txs |-> [key |-> 0, csr |-> 0, cert |-> 0]]
        /\ account = 0 /\ draft = 0 /\ webroot = {}
        /\ order = [o \in Orders |-> [acct |-> 0, status |-> "none", key |-> 0]]
        /\ known = {} /\ lapsed = {} /\ proc = [p \in Procs |-> IdleIssuer]
        /\ used = [tx |-> 0, order |-> 0, key |-> 0] /\ mishaps = 0 /\ stale = FALSE

-----------------------------------------------------------------------------
IssuerAt(p, step) == proc[p].at = step
TxOf(p) == proc[p].tx
IssuerGo(p, step) == proc' = [proc EXCEPT ![p].at = step]

\* persist_pending of a changed transaction, then the given step
Save(p, t, step) ==
    /\ issuing' = t
    /\ proc' = [proc EXCEPT ![p] = [at |-> step, tx |-> t]]

\* ensure_transaction_fresh, and the time limit of drive_transaction
Fresh(t) == t.jti \notin lapsed

\* The journal is written only when it did not name the account key yet.
BindAccount(p, k, step) ==
    IF TxOf(p).acct = 0 THEN Save(p, [TxOf(p) EXCEPT !.acct = k], step)
    ELSE IssuerGo(p, step) /\ UNCHANGED issuing

\* The challenge lock is tried, never waited for.
LockFree == \A p \in Procs : proc[p].at \in {"idle", "lock"}

\* issue: under the lock no transaction may be pending
Issue(p) ==
    /\ proc[p] = IdleIssuer /\ LockFree /\ issuing = None /\ used.tx < MaxTx
    /\ Save(p, [jti |-> used.tx + 1, rev |-> RevisionOf(current) + 1, acct |-> 0,
                order |-> 0, token |-> 0, key |-> 0, cert |-> 0, ready |-> FALSE],
            "account")
    /\ used' = [used EXCEPT !.tx = @ + 1]
    /\ UNCHANGED <<current, issued, work, account, draft, webroot, authority,
                   lapsed, mishaps, stale>>

\* recover reads the journal before it tries the lock.
RecoverLoad(p) ==
    /\ proc[p] = IdleIssuer /\ issuing # None
    /\ proc' = [proc EXCEPT ![p] = [at |-> "lock", tx |-> issuing]]
    /\ UNCHANGED <<files, authority, lapsed, used, mishaps, stale>>

\* validate_receipt_transaction and validate_receipt_artifacts
Matches(r, t) ==
    /\ r = Bound(t)
    /\ work[r.jti].cert = r.cert /\ work[r.jti].key = r.key /\ account = r.acct

Committed(t) == current # None /\ current.jti = t.jti

\* recover under the lock: a committed receipt is finished, an archived one
\* republished, an expired transaction aborted and any other one driven on;
\* evidence that contradicts the journal is an error.
RecoverLocked(p) ==
    LET t == TxOf(p)
        conflict == \/ Committed(t) /\ ~Matches(current, t)
                    \/ ~Committed(t) /\ RevisionOf(current) + 1 # t.rev
                    \/ /\ ~Committed(t) /\ issued[t.rev] # None
                       /\ ~Matches(issued[t.rev], t)
        archived == ~Committed(t) /\ issued[t.rev] # None IN
    /\ IssuerAt(p, "lock") /\ LockFree
    /\ IF conflict THEN proc' = [proc EXCEPT ![p] = IdleIssuer]
       ELSE IssuerGo(p, CASE Committed(t) \/ archived -> "retire"
                            [] t.jti \in lapsed /\ ~Committed(t) /\ ~archived -> "abort"
                            [] OTHER -> "account")
    /\ current' = IF archived /\ ~conflict THEN issued[t.rev] ELSE current
    /\ stale' = (stale \/ (~conflict /\ issuing # t))
    /\ UNCHANGED <<issuing, issued, work, account, draft, webroot, authority,
                   lapsed, used, mishaps>>

LockBusy(p) ==
    /\ IssuerAt(p, "lock") /\ ~LockFree
    /\ proc' = [proc EXCEPT ![p] = IdleIssuer]
    /\ UNCHANGED <<files, authority, lapsed, used, mishaps, stale>>

-----------------------------------------------------------------------------
(* load_or_create_account, under the account lock.                           *)

\* A recorded account binds the transaction to its key.
RestoreAccount(p) ==
    /\ IssuerAt(p, "account") /\ account # 0 /\ TxOf(p).acct \in {0, account}
    /\ BindAccount(p, account, "retireDraft")
    /\ UNCHANGED <<current, issued, work, account, draft, webroot, authority,
                   lapsed, used, mishaps, stale>>

\* load_or_create_account_key
DraftKey(p) ==
    /\ IssuerAt(p, "account") /\ account = 0
    /\ IF draft = 0
       THEN /\ used.key < MaxKeys /\ draft' = used.key + 1
            /\ used' = [used EXCEPT !.key = @ + 1]
       ELSE UNCHANGED <<draft, used>>
    /\ IssuerGo(p, "bind")
    /\ UNCHANGED <<issuing, current, issued, work, account, webroot, authority,
                   lapsed, mishaps, stale>>

\* bind_account_key_digest
BindKey(p) ==
    /\ IssuerAt(p, "bind") /\ TxOf(p).acct \in {0, draft}
    /\ BindAccount(p, draft, "register")
    /\ UNCHANGED <<current, issued, work, account, draft, webroot, authority,
                   lapsed, used, mishaps, stale>>

\* Mutant: the draft is only kept in memory until the account exists.
RegisterUnsaved(p) ==
    /\ IssuerAt(p, "register")
    /\ known' = known \cup {TxOf(p).acct}
    /\ draft' = 0
    /\ IssuerGo(p, "record")
    /\ UNCHANGED <<issuing, current, issued, work, account, webroot, order,
                   lapsed, used, mishaps, stale>>

\* The account is created at the authority; a known key finds its account.
Register(p) ==
    /\ IssuerAt(p, "register")
    /\ known' = known \cup {TxOf(p).acct}
    /\ IssuerGo(p, "record")
    /\ UNCHANGED <<files, order, lapsed, used, mishaps, stale>>

RecordAccount(p) ==
    /\ IssuerAt(p, "record")
    /\ account' = TxOf(p).acct
    /\ IssuerGo(p, "retireDraft")
    /\ UNCHANGED <<issuing, current, issued, work, draft, webroot, authority,
                   lapsed, used, mishaps, stale>>

\* retire_account_key_draft; the first time the account is journalled as ready.
RetireDraft(p) ==
    /\ IssuerAt(p, "retireDraft")
    /\ draft' = 0
    /\ IF TxOf(p).ready THEN IssuerGo(p, "order") /\ UNCHANGED issuing
       ELSE Save(p, [TxOf(p) EXCEPT !.ready = TRUE], "order")
    /\ UNCHANGED <<current, issued, work, account, webroot, authority, lapsed,
                   used, mishaps, stale>>

\* Another binding of the deployment passes through the same section, to its
\* end, or is killed with a draft that the authority may already know.
OtherBinding ==
    LET k == IF draft = 0 THEN used.key + 1 ELSE draft IN
    /\ account = 0 /\ k <= MaxKeys
    /\ \A p \in Procs : proc[p].at \notin {"account", "bind", "register", "record",
                                            "retireDraft"}
    /\ used' = [used EXCEPT !.key = IF draft = 0 THEN k ELSE @]
    /\ \/ account' = k /\ known' = known \cup {k} /\ draft' = 0 /\ UNCHANGED mishaps
       \/ /\ mishaps < MaxMishaps /\ mishaps' = mishaps + 1
          /\ known' \in {known, known \cup {k}}
          /\ draft' = k /\ UNCHANGED account
    /\ UNCHANGED <<issuing, current, issued, work, webroot, order, lapsed, proc,
                   stale>>

-----------------------------------------------------------------------------
(* drive_async after the account.                                            *)

\* A bound order is resumed; otherwise one is created and then journalled.
NewOrder(p) ==
    /\ IssuerAt(p, "order") /\ Fresh(TxOf(p))
    /\ IF TxOf(p).order # 0
       THEN IssuerGo(p, "status") /\ UNCHANGED <<order, used>>
       ELSE /\ used.order < MaxOrders
            /\ order' = [order EXCEPT ![used.order + 1] =
                            [acct |-> TxOf(p).acct, status |-> "pending", key |-> 0]]
            /\ used' = [used EXCEPT !.order = @ + 1]
            /\ proc' = [proc EXCEPT ![p] = [at |-> "bindOrder",
                                            tx |-> [TxOf(p) EXCEPT !.order = used'.order]]]
    /\ UNCHANGED <<files, known, lapsed, mishaps, stale>>

BindOrder(p) ==
    /\ IssuerAt(p, "bindOrder")
    /\ Save(p, TxOf(p), "status")
    /\ UNCHANGED <<current, issued, work, account, draft, webroot, authority,
                   lapsed, used, mishaps, stale>>

\* order.refresh
Status(p) ==
    /\ IssuerAt(p, "status") /\ Fresh(TxOf(p)) /\ order[TxOf(p).order].status # "invalid"
    /\ IssuerGo(p, IF order[TxOf(p).order].status = "pending" THEN "challenge" ELSE "clean")
    /\ UNCHANGED <<files, authority, lapsed, used, mishaps, stale>>

\* Mutant: the challenge is published before the journal names it.
BindChallengeLate(p) ==
    /\ IssuerAt(p, "challenge") /\ order[TxOf(p).order].status # "invalid"
    /\ proc' = [proc EXCEPT ![p] = [at |-> "publish",
                                    tx |-> [TxOf(p) EXCEPT !.token = TxOf(p).order]]]
    /\ UNCHANGED <<files, authority, lapsed, used, mishaps, stale>>

\* satisfy_authorization: the path is journalled before it is published.
BindChallenge(p) ==
    /\ IssuerAt(p, "challenge") /\ order[TxOf(p).order].status # "invalid"
    /\ Save(p, [TxOf(p) EXCEPT !.token = TxOf(p).order], "publish")
    /\ UNCHANGED <<current, issued, work, account, draft, webroot, authority,
                   lapsed, used, mishaps, stale>>

Publish(p) ==
    /\ IssuerAt(p, "publish")
    /\ webroot' = webroot \cup {TxOf(p).token}
    /\ IssuerGo(p, "await")
    /\ UNCHANGED <<issuing, current, issued, work, account, draft, authority,
                   lapsed, used, mishaps, stale>>

\* poll_ready
Ready(p) ==
    /\ IssuerAt(p, "await") /\ Fresh(TxOf(p)) /\ order[TxOf(p).order].status = "ready"
    /\ IssuerGo(p, "clean")
    /\ UNCHANGED <<files, authority, lapsed, used, mishaps, stale>>

\* cleanup_challenge
Cleaned(t) == webroot \ {t.token}

CleanChallenge(p) ==
    /\ IssuerAt(p, "clean")
    /\ webroot' = Cleaned(TxOf(p))
    /\ IssuerGo(p, IF TxOf(p).key = 0 THEN "newKey" ELSE "csr")
    /\ UNCHANGED <<issuing, current, issued, work, account, draft, authority,
                   lapsed, used, mishaps, stale>>

\* load_or_create_csr: the key, the request and only then their binding.
NewKey(p) ==
    /\ IssuerAt(p, "newKey") /\ Fresh(TxOf(p)) /\ used.key < MaxKeys
    /\ work' = [work EXCEPT ![TxOf(p).jti].key = used.key + 1]
    /\ used' = [used EXCEPT !.key = @ + 1]
    /\ IssuerGo(p, "newCsr")
    /\ UNCHANGED <<issuing, current, issued, account, draft, webroot, authority,
                   lapsed, mishaps, stale>>

NewCsr(p) ==
    /\ IssuerAt(p, "newCsr")
    /\ work' = [work EXCEPT ![TxOf(p).jti].csr = work[TxOf(p).jti].key]
    /\ IssuerGo(p, "bindCsr")
    /\ UNCHANGED <<issuing, current, issued, account, draft, webroot, authority,
                   lapsed, used, mishaps, stale>>

BindCsr(p) ==
    /\ IssuerAt(p, "bindCsr")
    /\ Save(p, [TxOf(p) EXCEPT !.key = work[TxOf(p).jti].key], "finalize")
    /\ UNCHANGED <<current, issued, work, account, draft, webroot, authority,
                   lapsed, used, mishaps, stale>>

\* Bound files must still be what the journal says.
LoadCsr(p) ==
    /\ IssuerAt(p, "csr") /\ Fresh(TxOf(p))
    /\ work[TxOf(p).jti].key = TxOf(p).key /\ work[TxOf(p).jti].csr = TxOf(p).key
    /\ IssuerGo(p, "finalize")
    /\ UNCHANGED <<files, authority, lapsed, used, mishaps, stale>>

\* finalize_csr, only for an order that is ready; the journal notes it.
FinalizeOrder(p) ==
    /\ IssuerAt(p, "finalize")
    /\ IF order[TxOf(p).order].status = "ready"
       THEN /\ order' = [order EXCEPT ![TxOf(p).order].status = "processing",
                                      ![TxOf(p).order].key = work[TxOf(p).jti].csr]
            /\ Save(p, TxOf(p), "fetch")
       ELSE IssuerGo(p, "fetch") /\ UNCHANGED <<order, issuing>>
    /\ UNCHANGED <<current, issued, work, account, draft, webroot, known, lapsed,
                   used, mishaps, stale>>

\* commit_issued_material: the chain is written, then bound
Fetch(p) ==
    /\ IssuerAt(p, "fetch") /\ Fresh(TxOf(p)) /\ order[TxOf(p).order].status = "valid"
    /\ work' = [work EXCEPT ![TxOf(p).jti].cert = TxOf(p).order]
    /\ IssuerGo(p, "bindCert")
    /\ UNCHANGED <<issuing, current, issued, account, draft, webroot, authority,
                   lapsed, used, mishaps, stale>>

BindCert(p) ==
    /\ IssuerAt(p, "bindCert")
    /\ Save(p, [TxOf(p) EXCEPT !.cert = TxOf(p).order], "archive")
    /\ UNCHANGED <<current, issued, work, account, draft, webroot, authority,
                   lapsed, used, mishaps, stale>>

\* load_and_validate_material: the chain fits the private key on disk
Fits(t) == order[work[t.jti].cert].key = work[t.jti].key

\* persist_receipt
WriteIssued(p) ==
    /\ IssuerAt(p, "archive") /\ Fits(TxOf(p))
    /\ RevisionOf(current) + 1 = TxOf(p).rev
    /\ issued[TxOf(p).rev] \in {None, Bound(TxOf(p))}
    /\ issued' = [issued EXCEPT ![TxOf(p).rev] = Bound(TxOf(p))]
    /\ IssuerGo(p, "current")
    /\ UNCHANGED <<issuing, current, work, account, draft, webroot, authority,
                   lapsed, used, mishaps, stale>>

WriteCurrent(p) ==
    /\ IssuerAt(p, "current")
    /\ current' = Bound(TxOf(p))
    /\ IssuerGo(p, "retire")
    /\ UNCHANGED <<issuing, issued, work, account, draft, webroot, authority,
                   lapsed, used, mishaps, stale>>

\* cleanup_challenge, then archive_transaction, which removes pending.json
Retire(p) ==
    /\ IssuerAt(p, "retire") \/ IssuerAt(p, "clear")
    /\ IF IssuerAt(p, "retire")
       THEN webroot' = Cleaned(TxOf(p)) /\ IssuerGo(p, "clear") /\ UNCHANGED issuing
       ELSE /\ issuing' = None /\ proc' = [proc EXCEPT ![p] = IdleIssuer]
            /\ UNCHANGED webroot
    /\ UNCHANGED <<current, issued, work, account, draft, authority, lapsed,
                   used, mishaps, stale>>

\* Mutant: the abort is journalled and the journal kept.
AbortKept(p) ==
    /\ IssuerAt(p, "abort")
    /\ webroot' = Cleaned(TxOf(p))
    /\ issuing' = TxOf(p) /\ proc' = [proc EXCEPT ![p] = IdleIssuer]
    /\ UNCHANGED <<current, issued, work, account, draft, authority, lapsed,
                   used, mishaps, stale>>

\* abort_transaction
Abort(p) ==
    /\ IssuerAt(p, "abort")
    /\ webroot' = Cleaned(TxOf(p))
    /\ Save(p, TxOf(p), "clear")
    /\ UNCHANGED <<current, issued, work, account, draft, authority, lapsed,
                   used, mishaps, stale>>

-----------------------------------------------------------------------------
(* Failures.                                                                 *)

Driving == {"account", "bind", "register", "record", "retireDraft", "order",
            "bindOrder", "status", "challenge", "publish", "await", "clean",
            "newKey", "newCsr", "bindCsr", "csr", "finalize", "fetch", "bindCert",
            "archive", "current"}

\* A check of the driver that refuses, or the end of its time
Refused(p) ==
    LET t == TxOf(p) IN
    \/ proc[p].at \in {"order", "status", "await", "newKey", "csr", "fetch"} /\ ~Fresh(t)
    \/ IssuerAt(p, "account") /\ account # 0 /\ t.acct \notin {0, account}
    \/ IssuerAt(p, "bind") /\ t.acct \notin {0, draft}
    \/ /\ proc[p].at \in {"status", "challenge", "await", "fetch"}
       /\ order[t.order].status = "invalid"
    \/ IssuerAt(p, "csr") /\ (work[t.jti].key # t.key \/ work[t.jti].csr # t.key)
    \/ /\ IssuerAt(p, "archive")
       /\ \/ ~Fits(t) \/ RevisionOf(current) + 1 # t.rev
          \/ issued[t.rev] \notin {None, Bound(t)}

\* drive_transaction: the error is journalled, then the challenge is retired.
Fail(p) ==
    /\ proc[p].at \in Driving
    /\ IF Refused(p) THEN UNCHANGED mishaps
       ELSE mishaps < MaxMishaps /\ mishaps' = mishaps + 1
    /\ Save(p, TxOf(p), "unpublish")
    /\ UNCHANGED <<current, issued, work, account, draft, webroot, authority,
                   lapsed, used, stale>>

Unpublish(p) ==
    /\ IssuerAt(p, "unpublish")
    /\ webroot' = Cleaned(TxOf(p))
    /\ proc' = [proc EXCEPT ![p] = IdleIssuer]
    /\ UNCHANGED <<issuing, current, issued, work, account, draft, authority,
                   lapsed, used, mishaps, stale>>

KillIssuer(p) ==
          /\ proc[p] # IdleIssuer /\ ~IssuerAt(p, "lock") /\ mishaps < MaxMishaps
          /\ mishaps' = mishaps + 1
          /\ proc' = [proc EXCEPT ![p] = IdleIssuer]
          /\ UNCHANGED <<files, authority, lapsed, used, stale>>

\* External: the authority fetches a published challenge, and issues.
Authorize(o) ==
    /\ order[o].status = "pending" /\ o \in webroot
    /\ order' = [order EXCEPT ![o].status = "ready"]
    /\ UNCHANGED <<files, known, lapsed, proc, used, mishaps, stale>>

Deny(o) ==
    /\ order[o].status \in {"pending", "processing"} /\ mishaps < MaxMishaps
    /\ mishaps' = mishaps + 1
    /\ order' = [order EXCEPT ![o].status = "invalid"]
    /\ UNCHANGED <<files, known, lapsed, proc, used, stale>>

Certify(o) ==
    /\ order[o].status = "processing"
    /\ order' = [order EXCEPT ![o].status = "valid"]
    /\ UNCHANGED <<files, known, lapsed, proc, used, mishaps, stale>>

ExpireTx(t) ==
    /\ t <= used.tx /\ t \notin lapsed
    /\ lapsed' = lapsed \cup {t}
    /\ UNCHANGED <<files, authority, proc, used, mishaps, stale>>

Step(p) ==
    \/ RecoverLocked(p) \/ LockBusy(p)
    \/ RestoreAccount(p) \/ DraftKey(p) \/ BindKey(p) \/ Register(p)
    \/ RecordAccount(p) \/ RetireDraft(p)
    \/ NewOrder(p) \/ BindOrder(p) \/ Status(p)
    \/ BindChallenge(p) \/ Publish(p) \/ Ready(p) \/ CleanChallenge(p)
    \/ NewKey(p) \/ NewCsr(p) \/ BindCsr(p) \/ LoadCsr(p)
    \/ FinalizeOrder(p) \/ Fetch(p) \/ BindCert(p)
    \/ WriteIssued(p) \/ WriteCurrent(p) \/ Retire(p) \/ Abort(p)
    \/ Unpublish(p)

AcmeNext ==
        \/ \E p \in Procs : Issue(p) \/ RecoverLoad(p) \/ Step(p) \/ Fail(p) \/ KillIssuer(p)
        \/ OtherBinding
        \/ \E o \in Orders : Authorize(o) \/ Deny(o) \/ Certify(o)
        \/ \E t \in Txs : ExpireTx(t)

AcmeSpec == AcmeInit /\ [][AcmeNext]_acmeVars

\* A process goes on, or gives up once a check refuses or its time is over; the
\* operator repeats recover until one holds the lock; time passes.
AcmeFairSpec ==
    /\ AcmeSpec
    /\ \A p \in Procs : WF_acmeVars(Step(p) \/ (Refused(p) /\ Fail(p)))
    /\ SF_acmeVars(\E p \in Procs : RecoverLoad(p)) /\ SF_acmeVars(\E p \in Procs : RecoverLocked(p))
    /\ WF_acmeVars(\E t \in Txs : ExpireTx(t))

-----------------------------------------------------------------------------
(* Properties.                                                               *)

AcmeTypeOK ==
    /\ issuing \in Journals \cup {None}
    /\ account \in 0..MaxKeys /\ draft \in 0..MaxKeys
    /\ webroot \subseteq Orders /\ known \subseteq Keys /\ lapsed \subseteq Txs
    /\ \A t \in Txs : work[t] \in [key : 0..MaxKeys, csr : 0..MaxKeys, cert : 0..MaxOrders]
    /\ \A p \in Procs : proc[p].tx \in Journals \cup {None}
    /\ mishaps \in 0..MaxMishaps /\ stale \in BOOLEAN

NobodyIssues == \A p \in Procs : proc[p] = IdleIssuer

(* load_or_create_csr, persist_receipt: the current receipt always describes  *)
(* material that can be installed: its chain was issued for the private key   *)
(* beside it, and the account that ordered it is on record.                   *)
ReceiptUsable ==
    current # None =>
        /\ work[current.jti].key = current.key /\ work[current.jti].cert = current.cert
        /\ order[current.cert].key = current.key
        /\ account = current.acct

(* load_or_create_account_key, bind_account_key_digest: a key the authority   *)
(* knows, or the journal binds, is always on disk, whoever created it.        *)
AccountKeyKept ==
    /\ known \subseteq {account, draft}
    /\ issuing # None => issuing.acct \in {0, account, draft}

(* What an issuance has obtained, a certificate or an account, stays usable.  *)
MaterialKept == ReceiptUsable /\ AccountKeyKept

(* cleanup_challenge: when nothing is pending no challenge stays published,   *)
(* unless a process went on with an outdated journal.                         *)
ChallengeRetired == NobodyIssues /\ issuing = None /\ ~stale => webroot = {}

(* recover: a pending issuance is committed, or aborted once it has expired.  *)
IssuanceSettles == issuing # None /\ ~stale ~> issuing = None \/ stale

(* docs/tls-acme-http01.md: a failure preserves the journal; it is removed    *)
(* only when its own transaction has a receipt or has expired.  Refuted: a    *)
(* process that loaded the journal before it was replaced removes the new one.*)
JournalPreserved ==
    [][issuing # None /\ (issuing' = None \/ issuing'.jti # issuing.jti)
         => issuing.jti \in lapsed \/ (current # None /\ current.jti = issuing.jti)]_acmeVars

===============================================================================
