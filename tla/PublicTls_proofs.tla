-------------------------- MODULE PublicTls_proofs --------------------------
(* Proofs about the public certificates of a deployment: CertificateInstall,  *)
(* for every number of bindings, generations, faults and expired              *)
(* certificates, and, from AcmeConstants on, AcmeIssue.                       *)
EXTENDS CertificateInstall, AcmeIssue, TLAPS

Steps == {"idle", "archive", "receipt", "snapshot", "clear"}
         \cup Applying \cup Undoing \cup Phases

Commands == [at : Steps, by : {"apply", "recover"}, b : Bindings \cup {None},
             tx : Transactions \cup {None}]

(* A command at work knows its binding and its transaction.                   *)
Types ==
    /\ TypeOK
    /\ run \in Commands
    /\ run.at = "idle" <=> run = Idle
    /\ run # Idle => Own \in Bindings /\ Tx \in Transactions

Early == {"Prepared", "Staged"}

(* What a generation, a receipt and an archived receipt stand for, whatever   *)
(* the commands are doing.                                                    *)
Evidence ==
    /\ \A b \in Bindings : receipt[b] # None =>
         /\ receipt[b].gen < next /\ receipt[b].rev <= receipt[b].gen
         /\ disk[receipt[b].gen] = "complete"
         /\ archive[b][receipt[b].rev] = receipt[b].gen
    /\ \A b \in Bindings, r \in Gens : archive[b][r] # 0 =>
         /\ archive[b][r] < next
         /\ r <= RevOf(receipt[b]) \/ (pending[b] # None /\ r = pending[b].rev)
    /\ link < next /\ served < next

(* A generation directory is archived or belongs to the pending transaction.  *)
Owned ==
    \A g \in Gens : disk[g] # "none" =>
        /\ g < next
        /\ \/ \E b \in Bindings, r \in Gens : archive[b][r] = g
           \/ \E b \in Bindings : pending[b] # None /\ pending[b].gen = g

(* One binding at most has something installed or under way.                  *)
Single ==
    \A b, c \in Bindings :
        (receipt[b] # None \/ pending[b] # None) /\ (receipt[c] # None \/ pending[c] # None)
            => b = c

Old(b, tx) == GenOf(receipt[b]) = tx.prev /\ RevOf(receipt[b]) + 1 = tx.rev
New(b, tx) == receipt[b] = [rev |-> tx.rev, gen |-> tx.gen]

(* A pending transaction stands between the previous and the new receipt.     *)
Between(b) ==
    LET tx == pending[b] IN
    /\ tx.gen < next /\ tx.prev < tx.gen /\ tx.rev <= tx.gen
    /\ Old(b, tx) \/ New(b, tx)
    /\ New(b, tx) => archive[b][tx.rev] = tx.gen
    /\ archive[b][tx.rev] \in {0, tx.gen}
    /\ archive[b][tx.rev] = tx.gen => link = tx.gen /\ served = tx.gen
    /\ {link, served} \subseteq {tx.prev, tx.gen}
    /\ tx.phase \in Early => link = tx.prev /\ served = tx.prev
    /\ tx.phase = "Committed" => New(b, tx)
    /\ link = tx.gen => disk[tx.gen] = "complete"
    /\ tx.prev # 0 => tx.prev \in committed /\ disk[tx.prev] = "complete"

Journalled == \A b \in Bindings : pending[b] # None => Between(b)

(* With nothing pending the link, the proxy and the receipt agree.            *)
Settled ==
    (\A b \in Bindings : pending[b] = None) =>
        /\ served = link
        /\ link # 0 => \E b \in Bindings : receipt[b] # None /\ receipt[b].gen = link
        /\ \A b \in Bindings : receipt[b] # None =>
              receipt[b].gen = link /\ receipt[b].gen \in committed

(* What a command at work knows of its transaction at each of its steps.      *)
Holding ==
    /\ pending[Own] # None
    /\ Tx.gen = pending[Own].gen /\ Tx.rev = pending[Own].rev /\ Tx.prev = pending[Own].prev
    /\ Tx.phase \in Early => pending[Own].phase \in Early

Forward ==
    /\ run.at # "Prepared"
    /\ run.at \in {"mkdir", "Staged", "Activating"} => pending[Own].phase \in Early
    /\ run.at \in {"Staged", "Activating", "switch"} => disk[Tx.gen] = "complete"
    /\ run.at \in {"switch", "Activated", "reload", "Reloaded", "verify", "Verified"} =>
          pending[Own].phase \notin Early /\ Tx.phase \notin Early
    /\ run.at \in {"Activated", "reload", "Reloaded", "verify", "Verified"} => link = Tx.gen
    /\ run.at \in {"Verified", "archive"} => link = Tx.gen /\ served = Tx.gen
    /\ run.at \in Applying \cup Undoing \cup {"RollbackFailed"} => archive[Own][Tx.rev] = 0

Settling ==
    /\ run.at \in {"receipt", "Committed"} => archive[Own][Tx.rev] = Tx.gen
    /\ run.at = "Committed" \/ Tx.phase = "Committed" => New(Own, Tx)
    /\ run.at = "clear" /\ Tx.phase = "Committed" => Tx.gen \in committed
    /\ run.at = "drop" => link = Tx.prev /\ served = Tx.prev
    /\ run.at \in {"snapshot", "clear"} /\ Tx.phase # "Committed" =>
          /\ archive[Own][Tx.rev] = 0 /\ link = Tx.prev /\ served = Tx.prev
          /\ disk[Tx.gen] = "none"

InHand == run # Idle => Holding /\ Forward /\ Settling

IInv == Types /\ Evidence /\ Owned /\ Single /\ Journalled /\ Settled /\ InHand

-----------------------------------------------------------------------------
(* Moves of a command, and what it may rely on.                               *)

USE CertificateAssumption

LEMMA StepSets ==
  /\ Applying \cup Undoing \cup Phases \subseteq Steps /\ "idle" \in Steps
  /\ "idle" \notin Applying \cup Undoing \cup Phases
  /\ Early \subseteq Phases
  BY DEF Steps, Applying, Undoing, Phases, Early

LEMMA GoMoves ==
  ASSUME Types, run.at # "idle", NEW step \in Steps \ {"idle"}, Go(step)
  PROVE  /\ run' \in Commands /\ run'.at = step /\ run'.b = run.b /\ run'.tx = run.tx
         /\ run' # Idle /\ run # Idle
  BY DEF Types, Go, Commands, Idle

(* At work there is one pending transaction, and no other binding has one or  *)
(* a receipt.                                                                 *)
LEMMA AtWork ==
  ASSUME IInv, run.at # "idle"
  PROVE  /\ run # Idle /\ run \in Commands /\ Own \in Bindings /\ Tx \in Transactions
         /\ pending[Own] \in Transactions /\ pending[Own] # None
         /\ Between(Own) /\ Holding /\ Forward /\ Settling
         /\ \A c \in Bindings : c # Own => pending[c] = None /\ receipt[c] = None
         /\ archive[Own][Tx.rev] = 0 =>
              Old(Own, Tx) /\ ~New(Own, Tx) /\ Tx.phase # "Committed"
         /\ Tx.gen \in Gens /\ Tx.gen # 0 /\ Tx.gen < next /\ Tx.prev < Tx.gen
         /\ Tx.prev \in 0..MaxGens /\ Tx.rev \in Gens
         /\ Tx.gen = pending[Own].gen /\ Tx.prev = pending[Own].prev
         /\ Tx.rev = pending[Own].rev
  <1>1. run # Idle /\ run \in Commands /\ Own \in Bindings /\ Tx \in Transactions
    BY DEF IInv, Types, Idle
  <1>2. Holding /\ Forward /\ Settling
    BY <1>1 DEF IInv, InHand
  <1>3. pending[Own] # None /\ pending[Own] \in Transactions
    BY <1>1, <1>2 DEF Holding, IInv, Types, TypeOK
  <1>4. Between(Own)
    BY <1>1, <1>3 DEF IInv, Journalled
  <1>5. \A c \in Bindings : c # Own => pending[c] = None /\ receipt[c] = None
    BY <1>1, <1>3 DEF IInv, Single
  <1>6. /\ Tx.gen \in Gens /\ Tx.gen # 0 /\ Tx.gen < next /\ Tx.prev < Tx.gen
        /\ Tx.prev \in 0..MaxGens /\ Tx.rev \in Gens
        /\ Tx.gen = pending[Own].gen /\ Tx.prev = pending[Own].prev
        /\ Tx.rev = pending[Own].rev
    BY <1>1, <1>2, <1>4 DEF Transactions, Gens, Between, Holding
  <1>7. archive[Own][Tx.rev] = 0 =>
          Old(Own, Tx) /\ ~New(Own, Tx) /\ Tx.phase # "Committed"
    BY <1>2, <1>4, <1>6 DEF Between, Old, New, Settling
  <1> QED
    BY <1>1, <1>2, <1>3, <1>4, <1>5, <1>6, <1>7

(* A step that changes nothing but the command's position.                    *)
LEMMA OnlyMoves ==
  ASSUME IInv, UNCHANGED <<journal, disk, link, served, next>>, Types', InHand'
  PROVE  IInv'
  <1>1. Evidence' /\ Owned' /\ Single' /\ Settled'
    BY DEF IInv, Evidence, Owned, Single, Settled, RevOf, journal
  <1>2. Journalled'
    BY DEF IInv, Journalled, Between, Old, New, GenOf, RevOf, journal
  <1> QED
    BY <1>1, <1>2 DEF IInv

(* Ending the command keeps everything the journals say.                      *)
LEMMA Ends ==
  ASSUME IInv, UNCHANGED <<journal, disk, link, served, next>>, run' = Idle, TypeOK'
  PROVE  IInv'
  <1>1. Types'
    BY DEF Types, Idle, Commands, Steps
  <1>2. InHand'
    BY DEF InHand
  <1> QED
    BY <1>1, <1>2, OnlyMoves

-----------------------------------------------------------------------------
(* One lemma per action.                                                      *)

LEMMA PrepareKeeps ==
  ASSUME IInv, NEW b \in Bindings, Prepare(b)
  PROVE  IInv'
  <1> DEFINE tx == pending'[b]
  <1>1. /\ run = Idle /\ next \in Gens /\ RevOf(receipt[b]) < next
        /\ GenOf(receipt[b]) \in 0..MaxGens /\ RevOf(receipt[b]) \in 0..MaxGens
        /\ GenOf(receipt[b]) < next
    <2>1. run = Idle /\ next \in Gens
      BY DEF IInv, Types, TypeOK, Prepare, Gens
    <2>2. /\ receipt[b] \in Receipts \cup {None}
          /\ receipt[b] # None => receipt[b].gen < next /\ receipt[b].rev <= receipt[b].gen
      BY DEF IInv, Types, TypeOK, Evidence
    <2>3. CASE receipt[b] = None
      BY <2>1, <2>3 DEF GenOf, RevOf, Gens
    <2>4. CASE receipt[b] # None
      <3>1. receipt[b].gen \in Gens /\ receipt[b].rev \in 1..MaxGens
        BY <2>2, <2>4 DEF Receipts
      <3> QED BY <2>1, <2>2, <2>4, <3>1 DEF GenOf, RevOf, Gens
    <2> QED BY <2>3, <2>4
  <1>2. /\ tx = [gen |-> next, rev |-> RevOf(receipt[b]) + 1,
                 prev |-> GenOf(receipt[b]), phase |-> "Prepared"]
        /\ pending' = [pending EXCEPT ![b] = tx]
        /\ run' = [at |-> "mkdir", by |-> "apply", b |-> b, tx |-> tx]
        /\ next' = next + 1
        /\ UNCHANGED <<receipt, archive, committed, disk, link, served, asked, endpoint, expired, faults>>
    BY DEF Prepare, IInv, Types, TypeOK, proxy
  <1>3. tx \in Transactions
    BY <1>1, <1>2 DEF Transactions, Gens, Phases
  <1>4. /\ GenOf(receipt[b]) = link /\ served = link
        /\ archive[b][tx.rev] = 0
        /\ receipt[b] # None => receipt[b].gen \in committed
    BY <1>1, <1>2 DEF Prepare, Appliable, IInv, Settled, Types, TypeOK, Gens
  <1>5. \A c \in Bindings : c # b => pending[c] = None /\ receipt[c] = None
    <2>1. \A c \in Bindings : pending[c] = None
      BY DEF Prepare
    <2>2. \A c \in Bindings : receipt[c] # None => receipt[c].gen = link /\ receipt[c].gen # 0
      BY <2>1 DEF IInv, Settled, Types, TypeOK, Receipts, Gens
    <2>3. \A c \in Bindings : receipt[c] # None => receipt[b] # None
      BY <1>4, <2>2 DEF GenOf
    <2> QED
      BY <2>1, <2>3 DEF IInv, Single
  <1>6. Types'
    <2>1. run' \in Commands /\ run'.at = "mkdir" /\ run'.b = b /\ run'.tx = tx /\ run' # Idle
      BY <1>2, <1>3, StepSets DEF Commands, Applying, Idle
    <2>2. next' \in 1..(MaxGens + 1)
      BY <1>1, <1>2 DEF Gens
    <2>3. pending' \in [Bindings -> Transactions \cup {None}]
      BY <1>2, <1>3 DEF IInv, Types, TypeOK
    <2>4. TypeOK'
      BY <1>2, <1>3, <2>1, <2>2, <2>3 DEF IInv, Types, TypeOK, Applying
    <2> QED
      BY <1>2, <1>3, <2>1, <2>4 DEF Types, Own, Tx, Idle
  <1>7. Evidence'
    <2>1. \A c \in Bindings, r \in Gens : archive[c][r] # 0 =>
             archive[c][r] < next /\ r <= RevOf(receipt[c])
      BY DEF IInv, Evidence, Prepare
    <2>2. next < next' /\ next \in Nat /\ next' \in Nat
      BY <1>1, <1>2 DEF Gens
    <2>3. /\ \A c \in Bindings, r \in Gens : archive[c][r] \in Nat
          /\ \A c \in Bindings : receipt[c] # None => receipt[c].gen \in Nat
          /\ link \in Nat /\ served \in Nat
      <3>1. \A c \in Bindings, r \in Gens : archive[c][r] \in 0..MaxGens
        BY DEF IInv, Types, TypeOK
      <3>2. \A c \in Bindings : receipt[c] # None => receipt[c].gen \in Gens
        BY DEF IInv, Types, TypeOK, Receipts
      <3>3. link \in 0..MaxGens /\ served \in 0..MaxGens
        BY DEF IInv, Types, TypeOK
      <3> QED
        BY <3>1, <3>2, <3>3 DEF Gens
    <2>4. \A n \in Nat : n < next => n < next'
      BY <2>2
    <2> QED
      BY <1>2, <2>1, <2>3, <2>4 DEF IInv, Evidence
  <1>8. Owned'
    <2>1. ASSUME NEW g \in Gens, disk[g] # "none"
          PROVE  /\ g < next
                 /\ \E c \in Bindings, r \in Gens : archive[c][r] = g
      <3>1. \A c \in Bindings : pending[c] = None
        BY DEF Prepare
      <3> QED
        BY <2>1, <3>1 DEF IInv, Owned
    <2>2. next \in Nat /\ next' = next + 1 /\ Gens \subseteq Nat
      BY <1>1, <1>2 DEF Gens
    <2>3. ASSUME NEW g \in Gens, g < next
          PROVE  g < next'
      BY <2>2, <2>3
    <2>4. disk' = disk /\ archive' = archive
      BY <1>2
    <2> QED
      BY <2>1, <2>3, <2>4 DEF Owned
  <1>9. Single'
    BY <1>2, <1>3, <1>5 DEF IInv, Types, TypeOK, Single
  <1>10. disk[next] = "none"
    BY <1>1 DEF IInv, Owned, Types, TypeOK, Gens
  <1>11. Between(b)'
    BY <1>1, <1>2, <1>3, <1>4 DEF Between, Old, New, IInv, Types, TypeOK, Evidence, GenOf,
       RevOf, Gens, Early, Receipts
  <1>12. Journalled' /\ Settled'
    BY <1>2, <1>3, <1>5, <1>11 DEF Journalled, Settled, IInv, Types, TypeOK
  <1>13. InHand'
    BY <1>2, <1>3, <1>4 DEF InHand, Holding, Forward, Settling, Early, Applying, Undoing,
         Own, Tx, Types, TypeOK, IInv
  <1> QED
    BY <1>6, <1>7, <1>8, <1>9, <1>12, <1>13 DEF IInv

LEMMA StageKeeps ==
  ASSUME IInv, Stage
  PROVE  IInv'
  <1>1. At("mkdir") /\ run.at # "idle"
    BY DEF Stage, At
  <1>2. /\ run \in Commands /\ Own \in Bindings /\ Tx \in Transactions
        /\ pending[Own] \in Transactions /\ pending[Own] # None
        /\ Between(Own) /\ Holding /\ Forward /\ Settling
        /\ \A c \in Bindings : c # Own => pending[c] = None /\ receipt[c] = None
        /\ Tx.gen \in Gens /\ Tx.gen # 0 /\ Tx.gen < next /\ Tx.prev < Tx.gen
        /\ Tx.gen = pending[Own].gen /\ Tx.prev = pending[Own].prev
    BY <1>1, AtWork
  <1>3. pending[Own].phase \in Early /\ archive[Own][Tx.rev] = 0
    BY <1>1, <1>2 DEF Forward, At, Applying
  <1>4. Old(Own, Tx) /\ ~New(Own, Tx) /\ Tx.phase # "Committed"
    BY <1>1, <1>3, AtWork
  <1>5. \A b \in Bindings : receipt[b] # None => receipt[b].gen # Tx.gen
    BY <1>2, <1>3, <1>4 DEF Old, GenOf, Transactions, Gens
  <1>6. PICK v \in {"partial", "complete"} : disk' = [disk EXCEPT ![Tx.gen] = v]
    BY DEF Stage
  <1>7. UNCHANGED <<pending, receipt, archive, committed, link, served, asked, endpoint, expired, next, faults>>
    BY DEF Stage, journal, proxy
  <1>8. /\ run' \in Commands /\ run'.b = run.b /\ run'.tx = run.tx /\ run' # Idle /\ run # Idle
        /\ run'.at \in {"mkdir", "Staged"}
        /\ run'.at = "Staged" => disk'[Tx.gen] = "complete"
    BY <1>1, <1>2, <1>3, GoMoves, StepSets DEF Stage, IInv, Types, TypeOK, At, Applying,
       Idle, Phases
  <1>9. Types'
    BY <1>2, <1>3, <1>6, <1>7, <1>8 DEF IInv, Types, TypeOK, Own, Tx, Steps, Idle,
       Applying, Commands
  <1>10. Evidence'
    BY <1>3, <1>5, <1>6, <1>7 DEF IInv, Types, TypeOK, Evidence, Receipts
  <1>11. Owned'
    BY <1>2, <1>3, <1>6, <1>7 DEF IInv, Types, TypeOK, Owned
  <1>12. Single' /\ Settled'
    BY <1>7 DEF IInv, Single, Settled
  <1>13. Between(Own)'
    <2>1. Tx.prev # 0 => disk'[Tx.prev] = disk[Tx.prev]
      BY <1>2, <1>6 DEF IInv, Types, TypeOK, Transactions, Gens
    <2>2. link # Tx.gen /\ served # Tx.gen
      BY <1>2, <1>3 DEF Between, Transactions, Gens
    <2> QED
      BY <1>2, <1>3, <1>7, <1>8, <2>1, <2>2 DEF Between, Old, New, GenOf, RevOf, Own
  <1>14. Journalled'
    BY <1>2, <1>7, <1>8, <1>13 DEF Journalled, Own
  <1>15. InHand'
    BY <1>1, <1>2, <1>3, <1>4, <1>7, <1>8 DEF InHand, Holding, Forward, Settling, Own, Tx,
         Applying, Undoing, Early
  <1> QED
    BY <1>9, <1>10, <1>11, <1>12, <1>14, <1>15 DEF IInv

(* The new position of a command, when little else changes.                   *)
LEMMA Retyped ==
  ASSUME IInv, UNCHANGED <<journal, disk, expired, next, endpoint>>,
         link' \in 0..MaxGens, served' \in 0..MaxGens, asked' \in BOOLEAN,
         faults' \in 0..MaxFaults, run' \in Commands,
         run' = Idle \/ (run'.at # "idle" /\ run'.b \in Bindings /\ run'.tx \in Transactions)
  PROVE  Types'
  <1>1. TypeOK'
    BY DEF IInv, Types, TypeOK, journal, Commands, Steps
  <1> QED
    BY <1>1 DEF Types, Own, Tx, Idle

LEMMA FaultTyped ==
  ASSUME IInv, Fault
  PROVE  faults' \in 0..MaxFaults
  BY DEF IInv, Types, TypeOK, Fault

LEMMA IdleTyped == Idle \in Commands /\ Idle.at = "idle"
  BY DEF Idle, Commands, Steps

(* A command that goes on without touching anything else.                     *)
LEMMA GoesOn ==
  ASSUME IInv, run.at # "idle", NEW step \in Steps \ {"idle"}, Go(step),
         UNCHANGED <<journal, disk, expired, next, faults, link, served, endpoint>>,
         asked' \in BOOLEAN,
         InHand'
  PROVE  IInv'
  <1>1. Types /\ Own \in Bindings /\ Tx \in Transactions
    BY AtWork DEF IInv
  <1>2. Types'
    BY <1>1, GoMoves, Retyped DEF IInv, Types, TypeOK, Own, Tx
  <1> QED
    BY <1>2, OnlyMoves

LEMMA ReloadKeeps ==
  ASSUME IInv, Reload
  PROVE  IInv'
  <1>1. run.at = "reload" /\ run.at # "idle" /\ "Reloaded" \in Steps \ {"idle"}
    BY StepSets DEF Reload, At, Phases
  <1>2. UNCHANGED <<journal, disk, expired, next, faults, link, served, endpoint>> /\ asked' \in BOOLEAN
    BY DEF Reload
  <1>3. /\ run'.at = "Reloaded" /\ run'.b = run.b /\ run'.tx = run.tx
    BY <1>1, GoMoves DEF IInv, Reload
  <1>4. Holding /\ Forward /\ Settling
    BY <1>1, AtWork
  <1>5. InHand'
    BY <1>1, <1>2, <1>3, <1>4 DEF InHand, Holding, Forward, Settling, New, Own, Tx, journal,
         Applying, Undoing
  <1> QED
    BY <1>1, <1>2, <1>5, GoesOn DEF Reload

LEMMA VerifyKeeps ==
  ASSUME IInv, Verify
  PROVE  IInv'
  <1>1. run.at = "verify" /\ run.at # "idle" /\ "Verified" \in Steps \ {"idle"}
    BY StepSets DEF Verify, At, Phases
  <1>2. UNCHANGED <<journal, disk, expired, next, faults, link, served, endpoint>> /\ asked' \in BOOLEAN
    BY DEF Verify, proxy, IInv, Types, TypeOK
  <1>3. /\ run'.at = "Verified" /\ run'.b = run.b /\ run'.tx = run.tx
    BY <1>1, GoMoves DEF IInv, Verify
  <1>4. Holding /\ Forward /\ Settling
    BY <1>1, AtWork
  <1>5. InHand'
    BY <1>1, <1>2, <1>3, <1>4 DEF InHand, Holding, Forward, Settling, New, Own, Tx, journal,
         Applying, Undoing, Verify
  <1> QED
    BY <1>1, <1>2, <1>5, GoesOn DEF Verify

LEMMA PersistKeeps ==
  ASSUME IInv, Persist
  PROVE  IInv'
  <1> DEFINE t == [Tx EXCEPT !.phase = run.at]
  <1>1. run.at \in Phases /\ run.at # "idle"
    BY StepSets DEF Persist
  <1>2. /\ run \in Commands /\ Own \in Bindings /\ Tx \in Transactions /\ run # Idle
        /\ pending[Own] \in Transactions /\ pending[Own] # None
        /\ Between(Own) /\ Holding /\ Forward /\ Settling
        /\ \A c \in Bindings : c # Own => pending[c] = None /\ receipt[c] = None
    BY <1>1, AtWork
  <1>3. /\ t \in Transactions /\ t.gen = Tx.gen /\ t.rev = Tx.rev /\ t.prev = Tx.prev
        /\ t.phase = run.at /\ t # None
    BY <1>1, <1>2 DEF Transactions
  <1> HIDE DEF t
  <1>4. /\ pending' = [pending EXCEPT ![Own] = t]
        /\ pending'[Own] = t /\ \A c \in Bindings : c # Own => pending'[c] = pending[c]
        /\ UNCHANGED <<receipt, archive, committed, disk, link, served, asked, endpoint, expired, next, faults>>
    BY <1>2 DEF Persist, proxy, IInv, Types, TypeOK, t
  <1>5. run.at \in {"Staged", "Activating", "Activated", "Reloaded", "Verified",
                    "RollbackFailed", "Committed"}
    BY <1>1, <1>2 DEF Forward, Phases
  <1>6. \/ run' = Idle
        \/ /\ run' \in Commands /\ run'.at = After(run.at) /\ run'.b = run.b /\ run'.tx = t
           /\ run'.at # "idle" /\ run.at # "RollbackFailed"
    <2>1. CASE run.at = "RollbackFailed"
      BY <2>1 DEF Persist, After
    <2>2. CASE run.at # "RollbackFailed"
      <3>1. After(run.at) \in Steps \ {"idle"}
        BY <2>2, <1>5 DEF After, Steps, Applying, Undoing, Phases
      <3>2. run' = [run EXCEPT !.at = After(run.at), !.tx.phase = run.at]
        BY <3>1 DEF Persist
      <3>3. run' = [run EXCEPT !.at = After(run.at), !.tx = t]
        BY <1>2, <3>2 DEF Commands, Tx, t
      <3> QED
        BY <3>1, <3>3, <2>2, <1>2, <1>3 DEF Commands
    <2> QED
      BY <2>1, <2>2
  <1>7. Types'
    <2>1. pending' \in [Bindings -> Transactions \cup {None}]
      BY <1>3, <1>4 DEF IInv, Types, TypeOK
    <2>2. run' \in Commands
      BY <1>6, IdleTyped
    <2>3. TypeOK'
      BY <1>4, <2>1, <2>2 DEF IInv, Types, TypeOK, Commands, Steps
    <2> QED
      BY <1>2, <1>3, <1>6, <2>2, <2>3, IdleTyped DEF Types, Own, Tx
  <1>8. t.gen = pending[Own].gen /\ t.rev = pending[Own].rev /\ t.prev = pending[Own].prev
    BY <1>2, <1>3 DEF Holding
  <1>9. Evidence' /\ Owned' /\ Single' /\ Settled'
    <2>1. \A c \in Bindings : (pending'[c] # None) <=> (pending[c] # None)
      BY <1>2, <1>3, <1>4
    <2>2. \A c \in Bindings : pending'[c] # None =>
             pending'[c].gen = pending[c].gen /\ pending'[c].rev = pending[c].rev
      BY <1>2, <1>4, <1>8
    <2> QED
      BY <1>4, <2>1, <2>2 DEF IInv, Evidence, Owned, Single, Settled, RevOf
  <1>10. Between(Own)
    BY <1>2
  <1>11. Journalled'
    <2>1. \A b \in Bindings : b # Own => pending'[b] = None
      BY <1>2, <1>4
    <2>2. t.phase = "Committed" => New(Own, t)
      BY <1>2, <1>3 DEF Settling, New
    <2>3. t.phase \in Early => pending[Own].phase \in Early
      BY <1>2, <1>3, <1>5 DEF Forward, Early
    <2>4. ASSUME NEW b \in Bindings, b = Own PROVE Between(b)'
      BY <2>2, <2>3, <2>4, <1>2, <1>4, <1>8 DEF Between, Old, New, GenOf, RevOf
    <2> QED
      BY <2>1, <2>4 DEF Journalled
  <1>12. InHand'
    <2> SUFFICES ASSUME run' # Idle PROVE InHand'
      BY DEF InHand
    <2>1. /\ run'.at = After(run.at) /\ run'.b = run.b /\ run'.tx = t
          /\ run.at # "RollbackFailed"
      BY <1>6
    <2>2. Holding'
      BY <2>1, <1>3, <1>4 DEF Holding, Own, Tx
    <2>3. Forward'
      BY <2>1, <1>2, <1>3, <1>4, <1>5 DEF Forward, After, Own, Tx, Early, Applying, Undoing
    <2>4. Settling'
      BY <2>1, <1>2, <1>3, <1>4, <1>5 DEF Settling, After, Own, Tx, New
    <2> QED
      BY <2>2, <2>3, <2>4 DEF InHand
  <1> QED
    BY <1>7, <1>9, <1>11, <1>12 DEF IInv

(* The link moves between the previous and the new generation, before there   *)
(* is an archived receipt.                                                    *)
LEMMA LinkMoves ==
  ASSUME IInv, run.at # "idle", UNCHANGED <<journal, disk, served, endpoint, next>>,
         link' \in {link, Tx.prev, Tx.gen},
         archive[Own][Tx.rev] = 0,
         link' # link /\ link' = Tx.gen =>
            disk[Tx.gen] = "complete" /\ pending[Own].phase \notin Early,
         Types', InHand'
  PROVE  IInv'
  <1>1. /\ Own \in Bindings /\ pending[Own] \in Transactions /\ pending[Own] # None
        /\ Between(Own)
        /\ \A c \in Bindings : c # Own => pending[c] = None /\ receipt[c] = None
        /\ Tx.gen < next /\ Tx.prev < Tx.gen /\ Tx.gen \in Gens /\ Tx.prev \in 0..MaxGens
        /\ Tx.gen = pending[Own].gen /\ Tx.prev = pending[Own].prev
        /\ Tx.rev = pending[Own].rev
    BY AtWork
  <1>2. link' < next
    <2>1. link < next /\ next \in Nat
      BY DEF IInv, Evidence, Types, TypeOK
    <2> QED
      BY <1>1, <2>1 DEF Gens
  <1>3. Evidence' /\ Owned' /\ Single'
    BY <1>2 DEF IInv, Evidence, Owned, Single, RevOf, journal
  <1>4. Settled'
    BY <1>1 DEF Settled, journal
  <1>5. Journalled'
    <2>1. archive[Own][pending[Own].rev] = 0 /\ pending[Own].gen # 0
      BY <1>1 DEF Gens
    <2>2. ASSUME NEW b \in Bindings, b = Own PROVE Between(b)'
      BY <2>1, <2>2, <1>1 DEF Between, Old, New, GenOf, RevOf, journal
    <2> QED
      BY <1>1, <2>2 DEF Journalled, journal
  <1> QED
    BY <1>3, <1>4, <1>5 DEF IInv

LEMMA SwitchKeeps ==
  ASSUME IInv, Switch
  PROVE  IInv'
  <1>1. run.at = "switch" /\ run.at # "idle" /\ "Activated" \in Steps \ {"idle"}
    BY StepSets DEF Switch, At, Phases
  <1>2. /\ Own \in Bindings /\ Tx \in Transactions /\ Holding /\ Forward /\ Settling
        /\ Tx.gen \in Gens /\ Types
    BY <1>1, AtWork DEF IInv
  <1>3. /\ UNCHANGED <<journal, disk, expired, next, faults, served, asked, endpoint>>
        /\ link' = Tx.gen /\ Go("Activated")
    BY DEF Switch, proxy
  <1>4. /\ run' \in Commands /\ run'.at = "Activated" /\ run'.b = run.b /\ run'.tx = run.tx
    BY <1>1, <1>2, <1>3, GoMoves
  <1>5. Types'
    <2>1. link' \in 0..MaxGens
      BY <1>2, <1>3 DEF Gens
    <2> QED
      BY <1>2, <1>3, <1>4, <2>1, Retyped DEF IInv, Types, TypeOK, Own, Tx
  <1>6. InHand'
    BY <1>1, <1>2, <1>3, <1>4 DEF InHand, Holding, Forward, Settling, New, Own, Tx, journal,
         Applying, Undoing
  <1>7. archive[Own][Tx.rev] = 0 /\ disk[Tx.gen] = "complete" /\ pending[Own].phase \notin Early
    BY <1>1, <1>2 DEF Forward, Applying
  <1> QED
    BY <1>1, <1>3, <1>5, <1>6, <1>7, LinkMoves

LEMMA RestoreKeeps ==
  ASSUME IInv, Restore
  PROVE  IInv'
  <1>1. run.at = "restore" /\ run.at # "idle" /\ "undoVerify" \in Steps \ {"idle"}
    BY StepSets DEF Restore, At, Undoing
  <1>2. /\ Own \in Bindings /\ Tx \in Transactions /\ Holding /\ Forward /\ Settling
        /\ Tx.gen \in Gens /\ Tx.prev \in 0..MaxGens /\ Tx.prev < Tx.gen /\ Types
    BY <1>1, AtWork DEF IInv
  <1>3. /\ UNCHANGED <<journal, disk, expired, next, faults, served, endpoint>> /\ asked' = TRUE
        /\ link' = Tx.prev /\ Go("undoVerify")
    BY DEF Restore
  <1>4. /\ run' \in Commands /\ run'.at = "undoVerify" /\ run'.b = run.b /\ run'.tx = run.tx
    BY <1>1, <1>2, <1>3, GoMoves
  <1>5. Types'
    BY <1>2, <1>3, <1>4, Retyped DEF IInv, Types, TypeOK, Own, Tx
  <1>6. InHand'
    BY <1>1, <1>2, <1>3, <1>4 DEF InHand, Holding, Forward, Settling, New, Own, Tx, journal,
         Applying, Undoing
  <1>7. archive[Own][Tx.rev] = 0 /\ Tx.prev # Tx.gen
    BY <1>1, <1>2 DEF Forward, Undoing, Gens
  <1> QED
    BY <1>1, <1>3, <1>5, <1>6, <1>7, LinkMoves

(* A rollback that fails is journalled by apply and dropped by recover.       *)
LEMMA UndoFails ==
  ASSUME IInv, run.at \in Undoing, UndoFailed,
         UNCHANGED <<journal, disk, next, expired, served, asked, endpoint>>,
         link' \in {link, Tx.prev}, faults' \in 0..MaxFaults
  PROVE  IInv'
  <1>1. run.at # "idle" /\ "RollbackFailed" \in Steps \ {"idle"}
    BY StepSets DEF Phases
  <1>2. /\ Own \in Bindings /\ Tx \in Transactions /\ Holding /\ Forward /\ Settling
        /\ Tx.gen \in Gens /\ Tx.prev \in 0..MaxGens /\ Tx.prev < Tx.gen /\ Types
    BY <1>1, AtWork DEF IInv
  <1>3. link' \in 0..MaxGens /\ served' \in 0..MaxGens /\ asked' \in BOOLEAN
    BY <1>2 DEF Types, TypeOK
  <1>4. archive[Own][Tx.rev] = 0 /\ Tx.prev # Tx.gen
    BY <1>2 DEF Forward, Gens
  <1>5. CASE run' = Idle
    <2>1. Types'
      BY <1>3, <1>5, IdleTyped, Retyped
    <2>2. InHand'
      BY <1>5 DEF InHand
    <2> QED
      BY <1>1, <1>4, <2>1, <2>2, LinkMoves
  <1>6. CASE Go("RollbackFailed")
    <2>1. /\ run' \in Commands /\ run'.at = "RollbackFailed" /\ run'.b = run.b
          /\ run'.tx = run.tx
      BY <1>1, <1>2, <1>6, GoMoves
    <2>2. Types'
      BY <1>2, <1>3, <2>1, Retyped DEF Own, Tx
    <2>3. InHand'
      BY <1>2, <1>4, <2>1 DEF InHand, Holding, Forward, Settling, New, Own, Tx, journal,
           Applying, Undoing
    <2> QED
      BY <1>1, <1>4, <2>2, <2>3, LinkMoves
  <1> QED
    BY <1>5, <1>6 DEF UndoFailed

LEMMA FailUndoKeeps ==
  ASSUME IInv, FailUndo
  PROVE  IInv'
  <1>1. link' \in {link, Tx.prev}
    BY DEF FailUndo
  <1> QED
    BY <1>1, UndoFails, FaultTyped DEF FailUndo, proxy

LEMMA UndoKeeps ==
  ASSUME IInv, Undo
  PROVE  IInv'
  <1>1. run.at = "undo" /\ run.at # "idle" /\ {"drop", "restore"} \subseteq Steps \ {"idle"}
    BY StepSets DEF Undo, At, Undoing
  <1>2. /\ Own \in Bindings /\ Tx \in Transactions /\ Holding /\ Forward /\ Settling
        /\ Between(Own) /\ pending[Own] \in Transactions
    BY <1>1, AtWork
  <1>3. archive[Own][Tx.rev] = 0 /\ Tx.phase # "Committed"
    BY <1>1, <1>2, AtWork DEF Forward, Undoing
  <1>4. UNCHANGED <<journal, disk, expired, next, faults, link, served, asked, endpoint>>
    BY DEF Undo, proxy
  <1>5. faults' \in 0..MaxFaults /\ asked' \in BOOLEAN
    BY <1>4 DEF IInv, Types, TypeOK
  <1>6. CASE Go("drop") /\ ~MayHaveActivated(Tx.phase)
    <2>1. Tx.phase \in Early
      BY <1>2, <1>3, <1>6 DEF MayHaveActivated, Transactions, Phases, Early
    <2>2. link = Tx.prev /\ served = Tx.prev
      BY <2>1, <1>2 DEF Holding, Between
    <2>3. run'.at = "drop" /\ run'.b = run.b /\ run'.tx = run.tx
      BY <1>1, <1>6, GoMoves DEF IInv
    <2>4. InHand'
      BY <2>2, <2>3, <1>2, <1>3, <1>4 DEF InHand, Holding, Forward, Settling, New, Own, Tx,
           journal, Applying, Undoing
    <2> QED
      BY <2>4, <1>1, <1>4, <1>5, <1>6, GoesOn
  <1>7. CASE Go("restore")
    <2>3. run'.at = "restore" /\ run'.b = run.b /\ run'.tx = run.tx
      BY <1>1, <1>7, GoMoves DEF IInv
    <2>4. InHand'
      BY <2>3, <1>2, <1>3, <1>4 DEF InHand, Holding, Forward, Settling, New, Own, Tx,
           journal, Applying, Undoing
    <2> QED
      BY <2>4, <1>1, <1>4, <1>5, <1>7, GoesOn
  <1>8. CASE UndoFailed
    BY <1>1, <1>4, <1>5, <1>8, UndoFails DEF Undoing
  <1> QED
    BY <1>6, <1>7, <1>8 DEF Undo

LEMMA UndoVerifyKeeps ==
  ASSUME IInv, UndoVerify
  PROVE  IInv'
  <1>1. run.at = "undoVerify" /\ run.at # "idle" /\ "drop" \in Steps \ {"idle"}
    BY StepSets DEF UndoVerify, At, Undoing
  <1>2. /\ Own \in Bindings /\ Tx \in Transactions /\ Holding /\ Forward /\ Settling
        /\ Between(Own) /\ pending[Own] \in Transactions
        /\ Tx.gen = pending[Own].gen /\ Tx.prev = pending[Own].prev
    BY <1>1, AtWork
  <1>3. UNCHANGED <<journal, disk, expired, next, faults, link, served, asked, endpoint>>
    BY DEF UndoVerify, proxy
  <1>4. archive[Own][Tx.rev] = 0 /\ link = Tx.prev
    BY <1>1, <1>2 DEF UndoVerify, Forward, Undoing
  <1>5. faults' \in 0..MaxFaults /\ asked' \in BOOLEAN
    BY <1>3 DEF IInv, Types, TypeOK
  <1>6. CASE Go("drop") /\ served = Tx.prev
    <2>1. run'.at = "drop" /\ run'.b = run.b /\ run'.tx = run.tx
      BY <1>1, <1>6, GoMoves DEF IInv
    <2>2. InHand'
      BY <1>2, <1>3, <1>4, <1>6, <2>1 DEF InHand, Holding, Forward, Settling, New, Own, Tx,
           journal, Applying, Undoing
    <2> QED
      BY <1>1, <1>3, <1>5, <1>6, <2>2, GoesOn
  <1>7. CASE UndoFailed
    BY <1>1, <1>3, <1>5, <1>7, UndoFails DEF Undoing
  <1>8. CandidateGone /\ Tx.prev = 0 => served = Tx.prev
    BY <1>2 DEF CandidateGone, Between, Transactions, Gens
  <1> QED
    BY <1>6, <1>7, <1>8 DEF UndoVerify

LEMMA FailApplyKeeps ==
  ASSUME IInv, FailApply
  PROVE  IInv'
  <1> DEFINE t == [Tx EXCEPT !.phase = IF run.at \in Phases THEN run.at ELSE Tx.phase]
  <1>1. run.at \in Applying /\ run.at # "idle" /\ "undo" \in Steps \ {"idle"}
    BY StepSets DEF FailApply, Undoing
  <1>2. /\ Own \in Bindings /\ Tx \in Transactions /\ Holding /\ Forward /\ Settling
        /\ run \in Commands /\ Tx.gen \in Gens /\ Tx.prev \in 0..MaxGens
        /\ Tx.prev < Tx.gen
    BY <1>1, AtWork
  <1>3. archive[Own][Tx.rev] = 0 /\ Tx.phase # "Committed"
    BY <1>1, <1>2, AtWork DEF Forward
  <1>4. /\ t \in Transactions /\ t.gen = Tx.gen /\ t.rev = Tx.rev /\ t.prev = Tx.prev
        /\ t.phase = IF run.at \in Phases THEN run.at ELSE Tx.phase
    BY <1>2 DEF Transactions
  <1>5. t.phase # "Committed" /\ (t.phase \in Early => pending[Own].phase \in Early)
    BY <1>1, <1>2, <1>3, <1>4 DEF Applying, Early, Forward, Holding
  <1> HIDE DEF t
  <1>6. run' \in Commands /\ run'.at = "undo" /\ run'.b = run.b /\ run'.tx = t
    <2>1. run' = [run EXCEPT !.at = "undo", !.tx = t]
      BY <1>2 DEF FailApply, Commands, Tx, t
    <2> QED
      BY <1>1, <1>2, <1>4, <2>1 DEF Commands
  <1>7. /\ link' \in {link, Tx.gen} /\ (link' # link => run.at = "switch")
        /\ UNCHANGED <<journal, disk, served, endpoint, expired, next>> /\ asked' \in {asked, TRUE}
    BY DEF FailApply, At
  <1>8. Types'
    <2>1. link' \in 0..MaxGens /\ served' \in 0..MaxGens /\ asked' \in BOOLEAN
      <3>1. Tx.gen \in 0..MaxGens
        BY <1>2 DEF Gens
      <3> QED
        BY <3>1, <1>7 DEF IInv, Types, TypeOK
    <2>2. faults' \in 0..MaxFaults
      BY FaultTyped DEF FailApply
    <2> QED
      BY <1>2, <1>4, <1>6, <1>7, <2>1, <2>2, Retyped DEF Own
  <1>9. InHand'
    BY <1>2, <1>3, <1>4, <1>5, <1>6, <1>7 DEF InHand, Holding, Forward, Settling, Own, Tx,
         journal, Applying, Undoing
  <1>10. link' # link => disk[Tx.gen] = "complete" /\ pending[Own].phase \notin Early
    BY <1>2, <1>7 DEF Forward
  <1> QED
    BY <1>1, <1>3, <1>7, <1>8, <1>9, <1>10, LinkMoves

LEMMA DropKeeps ==
  ASSUME IInv, Drop
  PROVE  IInv'
  <1>1. run.at = "drop" /\ run.at # "idle" /\ "snapshot" \in Steps \ {"idle"}
    BY DEF Drop, At, Steps
  <1>2. /\ run \in Commands /\ Own \in Bindings /\ Tx \in Transactions /\ run # Idle
        /\ pending[Own] \in Transactions /\ pending[Own] # None
        /\ Between(Own) /\ Holding /\ Forward /\ Settling
        /\ \A c \in Bindings : c # Own => pending[c] = None /\ receipt[c] = None
        /\ Tx.gen \in Gens /\ Tx.gen # 0 /\ Tx.gen < next /\ Tx.prev < Tx.gen
        /\ Tx.gen = pending[Own].gen /\ Tx.prev = pending[Own].prev
        /\ Tx.prev \in 0..MaxGens
    BY <1>1, AtWork
  <1>3. link = Tx.prev /\ served = Tx.prev /\ archive[Own][Tx.rev] = 0
    BY <1>1, <1>2 DEF Forward, Settling, Undoing
  <1>4. Old(Own, Tx) /\ ~New(Own, Tx) /\ Tx.phase # "Committed"
    BY <1>1, <1>3, AtWork
  <1>5. \A b \in Bindings : receipt[b] # None => receipt[b].gen # Tx.gen
    BY <1>2, <1>3, <1>4 DEF Old, GenOf, Gens
  <1>6. PICK v \in {"partial", "none"} : disk' = [disk EXCEPT ![Tx.gen] = v]
    BY DEF Drop
  <1>7. UNCHANGED <<pending, receipt, archive, committed, link, served, asked, endpoint, expired, next, faults>>
    BY DEF Drop, journal, proxy
  <1>8. /\ run' \in Commands /\ run'.b = run.b /\ run'.tx = run.tx /\ run' # Idle
        /\ run'.at \in {"drop", "snapshot"}
        /\ run'.at = "snapshot" => disk'[Tx.gen] = "none"
    <2>1. CASE UNCHANGED run
      BY <2>1, <1>1, <1>2
    <2>2. CASE disk' = [disk EXCEPT ![Tx.gen] = "none"] /\ Go("snapshot")
      BY <2>2, <1>1, <1>2, GoMoves DEF IInv, Types, TypeOK
    <2> QED
      BY <2>1, <2>2 DEF Drop
  <1>9. Types'
    <2>1. disk' \in [Gens -> {"none", "partial", "complete"}]
      BY <1>6 DEF IInv, Types, TypeOK
    <2>2. TypeOK'
      BY <1>7, <1>8, <2>1 DEF IInv, Types, TypeOK, Commands, Steps
    <2> QED
      BY <1>2, <1>8, <2>2 DEF Types, Own, Tx, Idle
  <1>10. Evidence'
    BY <1>5, <1>6, <1>7 DEF IInv, Types, TypeOK, Evidence, Receipts
  <1>11. Owned'
    BY <1>2, <1>6, <1>7 DEF IInv, Types, TypeOK, Owned
  <1>12. Single' /\ Settled'
    BY <1>7 DEF IInv, Single, Settled
  <1>13. Journalled'
    <2>1. Tx.prev # 0 => disk'[Tx.prev] = disk[Tx.prev]
      BY <1>2, <1>6 DEF IInv, Types, TypeOK, Gens
    <2>2. link # Tx.gen
      BY <1>2, <1>3 DEF Gens
    <2>3. ASSUME NEW b \in Bindings, b = Own PROVE Between(b)'
      BY <1>2, <1>7, <2>1, <2>2, <2>3 DEF Between, Old, New, GenOf, RevOf
    <2> QED
      BY <1>2, <1>7, <2>3 DEF Journalled
  <1>14. InHand'
    BY <1>2, <1>3, <1>4, <1>7, <1>8 DEF InHand, Holding, Forward, Settling, Own, Tx,
         Applying, Undoing
  <1> QED
    BY <1>9, <1>10, <1>11, <1>12, <1>13, <1>14 DEF IInv

LEMMA WriteArchiveKeeps ==
  ASSUME IInv, WriteArchive
  PROVE  IInv'
  <1>1. run.at = "archive" /\ run.at # "idle" /\ "receipt" \in Steps \ {"idle"}
    BY DEF WriteArchive, At, Steps
  <1>2. /\ run \in Commands /\ Own \in Bindings /\ Tx \in Transactions /\ Types
        /\ pending[Own] \in Transactions /\ pending[Own] # None
        /\ Between(Own) /\ Holding /\ Forward /\ Settling
        /\ \A c \in Bindings : c # Own => pending[c] = None /\ receipt[c] = None
        /\ Tx.gen \in Gens /\ Tx.gen # 0 /\ Tx.gen < next /\ Tx.rev \in Gens
        /\ Tx.gen = pending[Own].gen /\ Tx.prev = pending[Own].prev
        /\ Tx.rev = pending[Own].rev
    BY <1>1, AtWork DEF IInv
  <1>3. link = Tx.gen /\ served = Tx.gen /\ archive[Own][Tx.rev] \in {0, Tx.gen}
    BY <1>1, <1>2 DEF Forward, WriteArchive
  <1>4. /\ archive' = [archive EXCEPT ![Own][Tx.rev] = Tx.gen] /\ Go("receipt")
        /\ UNCHANGED <<pending, receipt, committed, disk, link, served, asked, endpoint, expired, next, faults>>
    BY DEF WriteArchive, proxy
  <1>5. run' \in Commands /\ run'.at = "receipt" /\ run'.b = run.b /\ run'.tx = run.tx /\ run' # Idle
    BY <1>1, <1>2, <1>4, GoMoves
  <1>6. /\ archive' \in [Bindings -> [Gens -> 0..MaxGens]]
        /\ archive'[Own][Tx.rev] = Tx.gen
        /\ \A b \in Bindings, r \in Gens :
              b # Own \/ r # Tx.rev => archive'[b][r] = archive[b][r]
    <2>1. archive[Own] \in [Gens -> 0..MaxGens] /\ Tx.gen \in 0..MaxGens
      BY <1>2 DEF Types, TypeOK, Gens
    <2>2. archive' = [archive EXCEPT ![Own] = [archive[Own] EXCEPT ![Tx.rev] = Tx.gen]]
      BY <1>2, <1>4 DEF Types, TypeOK
    <2> QED
      BY <1>2, <2>1, <2>2 DEF Types, TypeOK
  <1>7. Types'
    <2>1. TypeOK'
      BY <1>4, <1>5, <1>6 DEF IInv, Types, TypeOK, Commands, Steps
    <2> QED
      BY <1>2, <1>5, <2>1 DEF Types, Own, Tx, Idle
  <1>8. Evidence'
    <2>1. \A b \in Bindings : receipt[b] # None =>
            /\ receipt[b].rev \in Gens
            /\ archive'[b][receipt[b].rev] = receipt[b].gen
      <3>1. \A b \in Bindings : receipt[b] # None =>
              receipt[b].rev \in Gens /\ archive[b][receipt[b].rev] = receipt[b].gen
              /\ receipt[b].gen \in Gens
        BY DEF IInv, Evidence, Types, TypeOK, Receipts, Gens
      <3>2. receipt[Own] # None /\ receipt[Own].rev = Tx.rev => receipt[Own].gen = Tx.gen
        BY <1>2, <1>3, <3>1 DEF Gens
      <3> QED
        BY <1>2, <1>6, <3>1, <3>2
    <2>2. ASSUME NEW b \in Bindings, NEW r \in Gens, archive'[b][r] # 0
          PROVE  /\ archive'[b][r] < next
                 /\ r <= RevOf(receipt[b]) \/ (pending[b] # None /\ r = pending[b].rev)
      <3>1. CASE b = Own /\ r = Tx.rev
        BY <1>2, <1>6, <3>1
      <3>2. CASE b # Own \/ r # Tx.rev
        BY <1>6, <2>2, <3>2 DEF IInv, Evidence
      <3> QED
        BY <3>1, <3>2
    <2> QED
      BY <1>4, <2>1, <2>2 DEF IInv, Evidence
  <1>9. Owned'
    <2>1. ASSUME NEW g \in Gens, disk[g] # "none",
                 NEW b \in Bindings, NEW r \in Gens, archive[b][r] = g
          PROVE  archive'[b][r] = g
      <3>1. CASE b = Own /\ r = Tx.rev
        <4>1. g = Tx.gen
          BY <1>3, <2>1, <3>1 DEF Gens
        <4> QED
          BY <1>6, <3>1, <4>1
      <3>2. CASE b # Own \/ r # Tx.rev
        BY <1>6, <2>1, <3>2
      <3> QED
        BY <3>1, <3>2
    <2> QED
      BY <1>4, <2>1 DEF IInv, Owned
  <1>10. Single' /\ Settled'
    BY <1>4 DEF IInv, Single, Settled
  <1>11. Journalled'
    <2>1. ASSUME NEW b \in Bindings, b = Own PROVE Between(b)'
      BY <1>2, <1>3, <1>4, <1>6, <2>1 DEF Between, Old, New, GenOf, RevOf
    <2> QED
      BY <1>2, <1>4, <2>1 DEF Journalled
  <1>12. InHand'
    BY <1>2, <1>3, <1>4, <1>5, <1>6 DEF InHand, Holding, Forward, Settling, New, Own, Tx,
         Applying, Undoing
  <1> QED
    BY <1>7, <1>8, <1>9, <1>10, <1>11, <1>12 DEF IInv

LEMMA WriteReceiptKeeps ==
  ASSUME IInv, WriteReceipt
  PROVE  IInv'
  <1> DEFINE r == [rev |-> Tx.rev, gen |-> Tx.gen]
  <1>1. run.at = "receipt" /\ run.at # "idle" /\ "Committed" \in Steps \ {"idle"}
    BY StepSets DEF WriteReceipt, At, Phases
  <1>2. /\ run \in Commands /\ Own \in Bindings /\ Tx \in Transactions /\ Types
        /\ pending[Own] \in Transactions /\ pending[Own] # None
        /\ Between(Own) /\ Holding /\ Forward /\ Settling
        /\ \A c \in Bindings : c # Own => pending[c] = None /\ receipt[c] = None
        /\ Tx.gen \in Gens /\ Tx.gen # 0 /\ Tx.gen < next /\ Tx.rev \in Gens
        /\ Tx.gen = pending[Own].gen /\ Tx.prev = pending[Own].prev
        /\ Tx.rev = pending[Own].rev
    BY <1>1, AtWork DEF IInv
  <1>3. archive[Own][Tx.rev] = Tx.gen /\ link = Tx.gen /\ served = Tx.gen
        /\ disk[Tx.gen] = "complete" /\ Tx.rev <= Tx.gen
    BY <1>1, <1>2 DEF Settling, Between
  <1>4. /\ r \in Receipts /\ r # None /\ r.rev = Tx.rev /\ r.gen = Tx.gen
    BY <1>2 DEF Receipts, Gens
  <1>5. /\ receipt' = [receipt EXCEPT ![Own] = r] /\ receipt'[Own] = r
        /\ \A c \in Bindings : c # Own => receipt'[c] = receipt[c]
        /\ Go("Committed")
        /\ UNCHANGED <<pending, archive, committed, disk, link, served, asked, endpoint, expired, next, faults>>
    BY <1>2 DEF WriteReceipt, proxy, Types, TypeOK
  <1>6. run' \in Commands /\ run'.at = "Committed" /\ run'.b = run.b /\ run'.tx = run.tx /\ run' # Idle
    BY <1>1, <1>2, <1>5, GoMoves
  <1> HIDE DEF r
  <1>7. Types'
    <2>1. receipt' \in [Bindings -> Receipts \cup {None}]
      BY <1>4, <1>5 DEF IInv, Types, TypeOK
    <2>2. TypeOK'
      BY <1>5, <1>6, <2>1 DEF IInv, Types, TypeOK, Commands, Steps
    <2> QED
      BY <1>2, <1>6, <2>2 DEF Types, Own, Tx, Idle
  <1>8. Evidence'
    <2>1. ASSUME NEW b \in Bindings, NEW n \in Gens, archive[b][n] # 0
          PROVE  n <= RevOf(receipt'[b]) \/ (pending[b] # None /\ n = pending[b].rev)
      <3>1. n <= RevOf(receipt[b]) \/ (pending[b] # None /\ n = pending[b].rev)
        BY <2>1 DEF IInv, Evidence
      <3>2. RevOf(receipt[Own]) <= Tx.rev
        BY SMTT(20), <1>2 DEF Between, Old, New, RevOf, Gens, Types, TypeOK, Receipts
      <3>3. RevOf(receipt[Own]) \in Nat
        BY <1>2 DEF RevOf, Types, TypeOK, Receipts
      <3>4. RevOf(receipt'[Own]) = Tx.rev
        BY <1>4, <1>5 DEF RevOf
      <3> QED
        BY <3>1, <3>2, <3>3, <3>4, <1>2, <1>5 DEF Gens
    <2> QED
      BY <1>2, <1>3, <1>4, <1>5, <2>1 DEF IInv, Evidence
  <1>9. Owned'
    BY <1>5 DEF IInv, Owned
  <1>10. Single' /\ Settled'
    BY <1>2, <1>5 DEF IInv, Single, Settled
  <1>11. Journalled'
    <2>1. ASSUME NEW b \in Bindings, b = Own PROVE Between(b)'
      <3>1. New(b, pending[b])'
        BY <1>2, <1>5, <2>1 DEF New, r
      <3> QED
        BY <1>2, <1>3, <1>5, <2>1, <3>1 DEF Between
    <2> QED
      BY <1>2, <1>5, <2>1 DEF Journalled
  <1>12. InHand'
    <2>1. New(Own, Tx)'
      BY <1>5, <1>6 DEF New, r, Own, Tx
    <2> QED
      BY <1>2, <1>3, <1>5, <1>6, <2>1 DEF InHand, Holding, Forward, Settling, Own, Tx,
         Applying, Undoing
  <1> QED
    BY <1>7, <1>8, <1>9, <1>10, <1>11, <1>12 DEF IInv

LEMMA FinalizeKeeps ==
  ASSUME IInv, Finalize
  PROVE  IInv'
  <1>1. run.at \in {"snapshot", "clear"} /\ run.at # "idle" /\ "clear" \in Steps \ {"idle"}
    BY DEF Finalize, At, Steps
  <1>2. /\ run \in Commands /\ Own \in Bindings /\ Tx \in Transactions /\ Types
        /\ pending[Own] \in Transactions /\ pending[Own] # None
        /\ Between(Own) /\ Holding /\ Forward /\ Settling
        /\ \A c \in Bindings : c # Own => pending[c] = None /\ receipt[c] = None
        /\ Tx.gen \in Gens /\ Tx.gen # 0 /\ Tx.gen < next /\ Tx.rev \in Gens
        /\ Tx.gen = pending[Own].gen /\ Tx.prev = pending[Own].prev
        /\ Tx.rev = pending[Own].rev
        /\ Tx.prev \in 0..MaxGens /\ Tx.prev < Tx.gen
    BY <1>1, AtWork DEF IInv
  <1>3. UNCHANGED <<receipt, archive, disk, link, served, asked, endpoint, expired, next, faults>>
    BY DEF Finalize, proxy
  <1>4. CASE run.at = "snapshot"
    <2>1. /\ committed' = IF Tx.phase = "Committed" THEN committed \cup {Tx.gen} ELSE committed
          /\ Go("clear") /\ UNCHANGED pending
      BY <1>4 DEF Finalize, At
    <2>2. run' \in Commands /\ run'.at = "clear" /\ run'.b = run.b /\ run'.tx = run.tx /\ run' # Idle
      BY <1>1, <1>2, <2>1, GoMoves
    <2>3. Types'
      <3>1. TypeOK'
        BY <1>2, <1>3, <2>1, <2>2 DEF IInv, Types, TypeOK, Commands, Steps
      <3> QED
        BY <1>2, <2>2, <3>1 DEF Types, Own, Tx, Idle
    <2>4. committed \subseteq committed' /\ (Tx.phase = "Committed" => Tx.gen \in committed')
      BY <2>1
    <2>5. Evidence' /\ Owned' /\ Single' /\ Settled'
      BY <1>3, <2>1, <2>4 DEF IInv, Evidence, Owned, Single, Settled, RevOf
    <2>6. Journalled'
      BY <1>3, <2>1, <2>4 DEF IInv, Journalled, Between, Old, New, GenOf, RevOf
    <2>7. InHand'
      BY <1>2, <1>3, <1>4, <2>1, <2>2, <2>4 DEF InHand, Holding, Forward, Settling, New,
           Own, Tx, Applying, Undoing
    <2> QED
      BY <2>3, <2>5, <2>6, <2>7 DEF IInv
  <1>5. CASE run.at = "clear"
    <2>1. /\ pending' = [pending EXCEPT ![Own] = None] /\ run' = Idle /\ UNCHANGED committed
      BY <1>5 DEF Finalize, At
    <2>2. \A b \in Bindings : pending'[b] = None
      BY <1>2, <2>1 DEF Types, TypeOK
    <2>3. Types'
      <3>1. pending' \in [Bindings -> Transactions \cup {None}]
        BY <2>1 DEF IInv, Types, TypeOK
      <3>2. TypeOK'
        BY <1>3, <2>1, <3>1 DEF IInv, Types, TypeOK, Idle
      <3> QED
        BY <2>1, <3>2, IdleTyped DEF Types
    <2>4. CASE Tx.phase = "Committed"
      <3>1. /\ New(Own, Tx) /\ Tx.gen \in committed
            /\ New(Own, pending[Own]) /\ link = Tx.gen /\ served = Tx.gen
            /\ archive[Own][Tx.rev] = Tx.gen
        BY <1>2, <1>5, <2>4 DEF Settling, Between, New
      <3>2. receipt[Own].gen = Tx.gen /\ receipt[Own].rev = Tx.rev /\ receipt[Own] # None
            /\ RevOf(receipt[Own]) = Tx.rev
        BY <1>2, <3>1 DEF New, RevOf, Receipts, Gens
      <3>3. Settled'
        BY <1>2, <1>3, <2>1, <3>1, <3>2 DEF Settled
      <3>4. Evidence'
        <4>1. ASSUME NEW b \in Bindings, NEW n \in Gens, archive[b][n] # 0
              PROVE  n <= RevOf(receipt[b])
          BY <1>2, <3>2, <4>1 DEF IInv, Evidence, Gens
        <4> QED
          BY <1>3, <4>1 DEF IInv, Evidence
      <3>5. Owned'
        BY <1>2, <1>3, <3>1 DEF IInv, Owned
      <3> QED
        BY <1>3, <2>1, <2>2, <2>3, <3>3, <3>4, <3>5 DEF IInv, Single, Journalled, InHand
    <2>5. CASE Tx.phase # "Committed"
      <3>1. /\ archive[Own][Tx.rev] = 0 /\ link = Tx.prev /\ served = Tx.prev
            /\ disk[Tx.gen] = "none"
        BY <1>2, <1>5, <2>5 DEF Settling
      <3>2. Old(Own, Tx)
        BY <1>1, <3>1, AtWork
      <3>3. Settled'
        <4>1. receipt[Own] # None => receipt[Own].gen = link
          BY <3>1, <3>2 DEF Old, GenOf
        <4>2. link # 0 => receipt[Own] # None /\ link \in committed
          BY <1>2, <3>1, <3>2 DEF Old, GenOf, Between
        <4>3. receipt[Own] # None => receipt[Own].gen # 0
          BY <1>2 DEF Types, TypeOK, Receipts, Gens
        <4> QED
          BY <1>2, <1>3, <2>1, <3>1, <4>1, <4>2, <4>3 DEF Settled
      <3>4. Evidence'
        <4>1. ASSUME NEW b \in Bindings, NEW n \in Gens, archive[b][n] # 0
              PROVE  n <= RevOf(receipt[b])
          BY <1>2, <3>1, <4>1 DEF IInv, Evidence
        <4> QED
          BY <1>3, <4>1 DEF IInv, Evidence
      <3>5. Owned'
        BY <1>2, <1>3, <3>1 DEF IInv, Owned
      <3> QED
        BY <1>3, <2>1, <2>2, <2>3, <3>3, <3>4, <3>5 DEF IInv, Single, Journalled, InHand
    <2> QED
      BY <2>4, <2>5
  <1> QED
    BY <1>1, <1>4, <1>5

(* The receipt of a transaction names its generation.                         *)
LEMMA NewGen ==
  ASSUME NEW b \in Bindings, NEW tx \in Transactions, New(b, tx)
  PROVE  GenOf(receipt[b]) = tx.gen
  <1>1. [rev |-> tx.rev, gen |-> tx.gen] \in Receipts
    BY DEF Transactions, Receipts, Gens
  <1> QED
    BY <1>1 DEF New, GenOf

LEMMA RecoverKeeps ==
  ASSUME IInv, NEW b \in Bindings, Recover(b)
  PROVE  IInv'
  <1> DEFINE tx == pending[b]
  <1>1. /\ run = Idle /\ tx \in Transactions /\ tx # None /\ Between(b)
    BY DEF Recover, IInv, Types, TypeOK, Journalled
  <1>2. PICK step \in {"archive", "undo"} :
          /\ step = "archive" <=> ReachedReceipt(b)
          /\ run' = [at |-> step, by |-> "recover", b |-> b, tx |-> tx]
    BY DEF Recover
  <1>3. /\ UNCHANGED <<journal, disk, link, served, asked, endpoint, expired, next, faults>>
    BY DEF Recover, proxy
  <1> HIDE DEF tx
  <1>4. run' \in Commands /\ run'.at = step /\ run'.b = b /\ run'.tx = tx /\ run' # Idle
    BY <1>1, <1>2 DEF Commands, Steps, Undoing, Idle
  <1>5. Types'
    BY <1>1, <1>3, <1>4, Retyped DEF IInv, Types, TypeOK
  <1>6. tx.gen \in Gens /\ tx.gen # 0 /\ tx.prev # tx.gen
    BY <1>1 DEF Transactions, Gens, Between, tx
  <1>7. step = "archive" => archive[b][tx.rev] = tx.gen
    <2>1. Old(b, tx) => GenOf(receipt[b]) = tx.prev
      BY DEF Old
    <2> QED
      BY <1>1, <1>2, <1>6, <2>1 DEF ReachedReceipt, Between, tx
  <1>8. step = "undo" => archive[b][tx.rev] = 0
    <2>1. New(b, tx) => GenOf(receipt[b]) = tx.gen
      BY <1>1, NewGen
    <2>2. Old(b, tx) => GenOf(receipt[b]) = tx.prev
      BY DEF Old
    <2> QED
      BY <1>1, <1>2, <2>1, <2>2 DEF ReachedReceipt, Between, tx
  <1>9. tx.phase = "Committed" => New(b, tx)
    BY <1>1 DEF Between, tx
  <1>10. step = "archive" => link = tx.gen /\ served = tx.gen
    BY <1>1, <1>7 DEF Between, tx
  <1>11. InHand'
    BY <1>1, <1>3, <1>4, <1>7, <1>8, <1>9, <1>10 DEF InHand, Holding, Forward, Settling,
       New,
         Own, Tx, journal, Applying, Undoing, tx
  <1> QED
    BY <1>3, <1>5, <1>11, OnlyMoves

LEMMA KillKeeps ==
  ASSUME IInv, Kill
  PROVE  IInv'
  <1>1. Types'
    BY IdleTyped, FaultTyped, Retyped DEF Kill, proxy, IInv, Types, TypeOK
  <1> QED
    BY <1>1, Ends DEF Kill, proxy, Types

LEMMA ProxyLoadsKeeps ==
  ASSUME IInv, ProxyLoads
  PROVE  IInv'
  <1>1. served' = link /\ asked' = FALSE
        /\ UNCHANGED <<pending, receipt, archive, committed, disk, link, endpoint, expired, run, next, faults>>
    BY DEF ProxyLoads, journal
  <1>2. Types'
    BY <1>1 DEF IInv, Types, TypeOK, Own, Tx
  <1>3. Evidence' /\ Owned' /\ Single' /\ Settled'
    BY <1>1 DEF IInv, Evidence, Owned, Single, Settled, RevOf
  <1>4. Journalled'
    BY <1>1 DEF IInv, Journalled, Between, Old, New, GenOf, RevOf
  <1>5. InHand'
    BY <1>1 DEF IInv, InHand, Holding, Forward, Settling, New, Own, Tx
  <1> QED
    BY <1>2, <1>3, <1>4, <1>5 DEF IInv

LEMMA ExpireKeeps ==
  ASSUME IInv, NEW g \in Gens, Expire(g)
  PROVE  IInv'
  <1>1. UNCHANGED <<pending, receipt, archive, committed, disk, link, served, asked, endpoint, run, next, faults>>
    BY DEF Expire, journal, proxy
  <1>2. Types'
    BY <1>1 DEF IInv, Types, TypeOK, Own, Tx, Expire
  <1>3. InHand'
    BY <1>1 DEF IInv, InHand, Holding, Forward, Settling, New, Own, Tx
  <1> QED
    BY <1>1, <1>2, <1>3, OnlyMoves DEF journal

-----------------------------------------------------------------------------
(* The theorems.                                                              *)

LEMMA InitHolds ==
  ASSUME Init
  PROVE  IInv
  <1>1. TypeOK
    <2>1. archive \in [Bindings -> [Gens -> 0..MaxGens]]
      BY DEF Init
    <2>2. 1 \in 1..(MaxGens + 1) /\ 0 \in 0..MaxFaults /\ 0 \in 0..MaxGens
      OBVIOUS
    <2> QED
      BY <2>1, <2>2 DEF Init, TypeOK, Idle
  <1>2. Types
    BY <1>1, IdleTyped DEF Types, Init
  <1>3. Evidence /\ Owned /\ Single /\ Journalled /\ Settled /\ InHand
    BY DEF Init, Evidence, Owned, Single, Journalled, Settled, InHand
  <1> QED
    BY <1>2, <1>3 DEF IInv

LEMMA NextKeeps ==
  ASSUME IInv, [Next]_vars
  PROVE  IInv'
  <1>1. CASE UNCHANGED vars
    <2>1. UNCHANGED <<pending, receipt, archive, committed, disk, link, served, asked, endpoint, expired, run, next, faults>>
      BY <1>1 DEF vars, journal, proxy
    <2>2. Types' /\ InHand'
      BY <2>1 DEF IInv, Types, TypeOK, Own, Tx, InHand, Holding, Forward, Settling, New
    <2> QED
      BY <2>1, <2>2, OnlyMoves DEF journal
  <1>2. CASE \E b \in Bindings : Prepare(b) \/ Recover(b)
    BY <1>2, PrepareKeeps, RecoverKeeps
  <1>3. CASE CommandStep
    BY <1>3, StageKeeps, PersistKeeps, SwitchKeeps, ReloadKeeps, VerifyKeeps,
       WriteArchiveKeeps,
       WriteReceiptKeeps, FinalizeKeeps, UndoKeeps, RestoreKeeps, UndoVerifyKeeps, DropKeeps
       DEF CommandStep
  <1>4. CASE FailApply \/ FailUndo \/ Kill
    BY <1>4, FailApplyKeeps, FailUndoKeeps, KillKeeps
  <1>5. CASE ProxyLoads \/ \E g \in Gens : Expire(g)
    BY <1>5, ProxyLoadsKeeps, ExpireKeeps
  <1> QED
    BY <1>1, <1>2, <1>3, <1>4, <1>5 DEF Next

THEOREM Inductive == Spec => []IInv
  <1>1. Init => IInv
    BY InitHolds
  <1>2. IInv /\ [Next]_vars => IInv'
    BY NextKeeps
  <1> QED
    BY <1>1, <1>2, PTL DEF Spec

(* Every variable keeps to its type: generations and revisions within the     *)
(* bound, commands only at steps tls.rs has.                                  *)
THEOREM TypeCorrect == Spec => []TypeOK
  <1>1. IInv => TypeOK
    BY DEF IInv, Types
  <1> QED
    BY <1>1, Inductive, PTL

LEMMA WholeLink ==
  ASSUME IInv
  PROVE  LinkIsWhole
  <1> SUFFICES ASSUME link # 0 PROVE LinkIsWhole
    BY DEF LinkIsWhole
  <1>1. CASE \A b \in Bindings : pending[b] = None
    <2>1. PICK b \in Bindings : receipt[b] # None /\ receipt[b].gen = link
      BY <1>1 DEF IInv, Settled
    <2> QED
      BY <2>1 DEF IInv, Evidence, LinkIsWhole, GenOf
  <1>2. ASSUME NEW b \in Bindings, pending[b] # None PROVE LinkIsWhole
    <2>1. Between(b) /\ pending[b] \in Transactions
      BY <1>2 DEF IInv, Journalled, Types, TypeOK
    <2>2. CASE link = pending[b].prev
      <3>1. ~New(b, pending[b])
        BY <2>1, <2>2 DEF Between, Transactions, Gens
      <3>2. GenOf(receipt[b]) = link
        BY <2>1, <2>2, <3>1 DEF Between, Old
      <3> QED
        BY <2>1, <2>2, <3>2 DEF Between, LinkIsWhole
    <2>3. CASE link = pending[b].gen
      <3>1. disk[link] = "complete"
        BY <2>1, <2>3 DEF Between
      <3>2. pending[b].phase \notin Early
        BY <2>1, <2>3 DEF Between, Transactions, Gens
      <3>3. MayHaveActivated(pending[b].phase) \/ pending[b].phase = "Committed"
        BY <2>1, <3>2 DEF Early, Transactions, Phases, MayHaveActivated
      <3>4. pending[b].phase = "Committed" => GenOf(receipt[b]) = link
        BY <2>1, <2>3, NewGen DEF Between
      <3> QED
        BY <1>2, <2>3, <3>1, <3>3, <3>4 DEF LinkIsWhole
    <2> QED
      BY <2>1, <2>2, <2>3 DEF Between
  <1> QED
    BY <1>1, <1>2

(* activate, remove_inactive_generation, verify_public, rollback_transaction: *)
(* the link never names a generation with a file missing or one nothing       *)
(* accounts for, and once no transaction is pending the proxy presents the    *)
(* certificate the receipt names and no staged generation is left.            *)
THEOREM InstallIsTrue == Spec => []InstallTrue
  <1>1. ASSUME IInv, AtRest PROVE ServesReceipt
    <2>1. \A b \in Bindings : pending[b] = None
      BY <1>1 DEF AtRest
    <2>2. /\ served = link
          /\ link # 0 => \E b \in Bindings : receipt[b] # None /\ receipt[b].gen = link
          /\ \A b \in Bindings : receipt[b] # None => receipt[b].gen = link
      BY <1>1, <2>1 DEF IInv, Settled
    <2>3. \A g \in Gens : disk[g] # "none" => \E b \in Bindings, r \in Gens : archive[b][r] = g
      BY <1>1, <2>1 DEF IInv, Owned
    <2>4. served \in {0} \cup {receipt[b].gen : b \in {c \in Bindings : receipt[c] # None}}
      BY <2>2
    <2> QED
      BY <2>2, <2>3, <2>4 DEF ServesReceipt
  <1>2. IInv => InstallTrue
    BY <1>1, WholeLink DEF InstallTrue, ServesReceipt
  <1> QED
    BY <1>2, Inductive, PTL

(* validate_active_receipt, load_committed_transaction,                       *)
(* ensure_receipt_revision_available: whatever was interrupted or failed, the *)
(* evidence left once nothing is pending lets the next apply of the installed *)
(* binding go ahead.                                                          *)
THEOREM AlwaysRenewable == Spec => []Renewable
  <1>1. ASSUME IInv, AtRest, NEW b \in Bindings, receipt[b] # None PROVE Appliable(b)
    <2>1. \A c \in Bindings : pending[c] = None
      BY <1>1 DEF AtRest
    <2>2. receipt[b].gen = link /\ receipt[b].gen \in committed
      BY <1>1, <2>1 DEF IInv, Settled
    <2>3. RevOf(receipt[b]) \in Nat
      BY <1>1 DEF IInv, Types, TypeOK, Receipts, RevOf
    <2>4. RevOf(receipt[b]) < MaxGens => RevOf(receipt[b]) + 1 \in Gens
      BY <2>3 DEF Gens
    <2>5. RevOf(receipt[b]) < MaxGens => archive[b][RevOf(receipt[b]) + 1] = 0
      BY <1>1, <2>1, <2>3, <2>4 DEF IInv, Evidence
    <2> QED
      BY <1>1, <2>2, <2>5 DEF Appliable, GenOf
  <1>2. IInv => Renewable
    BY <1>1 DEF Renewable
  <1> QED
    BY <1>2, Inductive, PTL

-----------------------------------------------------------------------------
(* Where the certificates come from.  AcmeIssue, for every number of          *)
(* processes, transactions, orders, keys and faults.                          *)

AcmeConstants == AcmeAssumption /\ NoneIsAbsent

LEMMA AcmeAssumed == AcmeConstants
  BY AcmeAssumption, NoneIsAbsent DEF AcmeConstants

AcmeSteps == {"idle", "lock", "unpublish", "retire", "clear", "abort"} \cup Driving
Processes == [at : AcmeSteps, tx : Journals \cup {None}]
AcmeReceipts == [jti : Txs, rev : 1..MaxTx, acct : 0..MaxKeys, order : 0..MaxOrders,
             key : 0..MaxKeys, cert : 0..MaxOrders]
Statuses == {"none", "pending", "ready", "processing", "valid", "invalid"}

AcmeTypes ==
    /\ AcmeConstants /\ AcmeTypeOK /\ proc \in [Procs -> Processes]
    /\ current \in AcmeReceipts \cup {None} /\ issued \in [Txs -> AcmeReceipts \cup {None}]
    /\ work \in [Txs -> [key : 0..MaxKeys, csr : 0..MaxKeys, cert : 0..MaxOrders]]
    /\ order \in [Orders -> [acct : 0..MaxKeys, status : Statuses, key : 0..MaxKeys]]
    /\ used \in [tx : 0..MaxTx, order : 0..MaxOrders, key : 0..MaxKeys]

(* challenge.lock: one process at most is past it.                            *)
OneHolder ==
    \A p, q \in Procs :
        proc[p].at \notin {"idle", "lock"} /\ proc[q].at \notin {"idle", "lock"} => p = q

(* Transactions and orders are numbered; a challenge is that of the order.    *)
Issued(t) == t # None => t.rev <= t.jti /\ t.jti <= used.tx

Sound(t) == t # None => /\ Issued(t) /\ t.token \in {0, t.order}
                        /\ t.acct \in {0, account, draft}

Numbered ==
    /\ Issued(current) /\ Sound(issuing)
    /\ \A r \in Txs : Issued(issued[r])
    /\ \A p \in Procs : Sound(proc[p].tx)
    /\ \A o \in Orders : o > used.order => order[o].status = "none"

Accounted ==
    /\ known \subseteq {account, draft}
    /\ account # 0 => draft \in {0, account}

(* A receipt names a certificate that the authority issued for its key.       *)
Kept(r) ==
    r # None =>
        /\ r.cert # 0 /\ order[r.cert].status = "valid" /\ order[r.cert].key = r.key
        /\ r.acct = account /\ account # 0

Receipted ==
    /\ \A r \in Txs : Kept(issued[r])
    /\ Kept(current)
    /\ current # None =>
         work[current.jti].key = current.key /\ work[current.jti].cert = current.cert

Accounting == {"account", "bind", "register", "record"}
Ordering == {"retireDraft", "order"}

\* What the holder of the lock knows at each step of the driver
Knows(p) ==
    LET q == proc[p] t == q.tx IN
    /\ q.at # "idle" => t # None
    /\ q.at \in Driving => ~Committed(t)
    /\ q.at \in {"bind", "register", "record"} => account = 0 /\ draft # 0
    /\ q.at \in {"register", "record"} => t.acct = draft
    /\ q.at \in Driving \ Accounting => t.acct = account /\ account # 0
    /\ q.at \in Driving \ (Accounting \cup Ordering) => t.order # 0
    /\ q.at = "publish" => t.token = t.order
    /\ q.at \in {"finalize", "fetch", "bindCert", "archive", "current"} =>
          work[t.jti].key = t.key
    /\ q.at \in {"bindCert", "archive", "current"} =>
          work[t.jti].cert = t.order /\ order[t.order].status = "valid"
    /\ q.at \in {"archive", "current"} => t.cert = t.order
    /\ q.at = "current" => order[t.cert].key = t.key

\* What is published is what the journal names, unless a journal was outdated.
Published ==
    ~stale =>
        /\ webroot \subseteq IF issuing = None THEN {} ELSE {issuing.token}
        /\ \A p \in Procs :
             /\ proc[p].at \notin {"idle", "lock"} =>
                  issuing # None /\ issuing.token = proc[p].tx.token
             /\ proc[p].at = "clear" => webroot = {}

AcmeInv ==
    /\ AcmeTypes /\ OneHolder /\ Numbered /\ Accounted /\ Receipted /\ Published
    /\ \A p \in Procs : Knows(p)

(* The constants, as the invariant carries them.                              *)
LEMMA Bounds ==
  ASSUME AcmeTypes
  PROVE  /\ None \notin Nat /\ None \notin Journals
         /\ MaxTx \in Nat /\ MaxOrders \in Nat /\ MaxKeys \in Nat /\ MaxMishaps \in Nat
         /\ Txs \subseteq Nat /\ Orders \subseteq Nat /\ Keys \subseteq Nat
         /\ used.tx \in Nat /\ used.order \in Nat /\ used.key \in Nat /\ mishaps \in Nat
  <1>1. /\ None \notin Nat /\ None \notin Journals
        /\ MaxTx \in Nat /\ MaxOrders \in Nat /\ MaxKeys \in Nat /\ MaxMishaps \in Nat
    BY DEF AcmeTypes, AcmeConstants
  <1>2. Txs \subseteq Nat /\ Orders \subseteq Nat /\ Keys \subseteq Nat
    BY DEF Txs, Orders, Keys
  <1>3. /\ used \in [tx : 0..MaxTx, order : 0..MaxOrders, key : 0..MaxKeys]
        /\ mishaps \in 0..MaxMishaps
    BY DEF AcmeTypes, AcmeTypeOK
  <1>4. used.tx \in Nat /\ used.order \in Nat /\ used.key \in Nat /\ mishaps \in Nat
    BY <1>1, <1>3
  <1> QED
    BY <1>1, <1>2, <1>4

\* Where the holder of the lock stands
Inside == AcmeSteps \ {"idle", "lock"}

LEMMA StepNames ==
  /\ Driving \subseteq Inside /\ Inside \subseteq AcmeSteps
  /\ "unpublish" \in Inside /\ "retire" \in Inside /\ "clear" \in Inside /\ "abort" \in Inside
  /\ "idle" \in AcmeSteps /\ "lock" \in AcmeSteps /\ "idle" \notin Inside /\ "lock" \notin Inside
  /\ "unpublish" \notin Driving /\ "retire" \notin Driving /\ "clear" \notin Driving
  /\ "abort" \notin Driving /\ "idle" \notin Driving /\ "lock" \notin Driving
  BY DEF Inside, AcmeSteps, Driving

(* What the holder of the lock has in hand.                                   *)
LEMMA AcmeInHand ==
  ASSUME AcmeInv, NEW p \in Procs, proc[p].at # "idle"
  PROVE  /\ proc[p].tx \in Journals /\ proc[p].tx # None
         /\ proc[p] \in Processes /\ Knows(p) /\ Sound(proc[p].tx)
         /\ proc[p].tx.jti \in Txs /\ proc[p].tx.rev \in Txs
         /\ proc[p].tx.acct \in 0..MaxKeys /\ proc[p].tx.order \in 0..MaxOrders
         /\ (proc[p].tx.order # 0 => proc[p].tx.order \in Orders)
  <1>1. proc[p] \in Processes /\ Knows(p) /\ Sound(proc[p].tx)
    BY DEF AcmeInv, AcmeTypes, Numbered
  <1>2. proc[p].tx # None
    BY <1>1 DEF Knows
  <1>3. proc[p].tx \in Journals
    BY <1>1, <1>2 DEF Processes
  <1>4. /\ proc[p].tx.jti \in Txs /\ proc[p].tx.rev \in Txs
        /\ proc[p].tx.acct \in 0..MaxKeys /\ proc[p].tx.order \in 0..MaxOrders
    BY <1>3 DEF Journals, Txs
  <1> QED BY <1>1, <1>2, <1>3, <1>4 DEF Orders

LEMMA AcmeGoMoves ==
  ASSUME AcmeTypes, NEW p \in Procs, NEW step \in AcmeSteps, IssuerGo(p, step)
  PROVE  /\ proc' \in [Procs -> Processes] /\ proc'[p].at = step
         /\ proc'[p].tx = proc[p].tx
         /\ \A q \in Procs : q # p => proc'[q] = proc[q]
  <1>1. [proc[p] EXCEPT !.at = step] \in Processes
    BY DEF AcmeTypes, Processes
  <1>2. proc' = [proc EXCEPT ![p] = [proc[p] EXCEPT !.at = step]]
    BY DEF IssuerGo, AcmeTypes
  <1> QED BY <1>1, <1>2 DEF AcmeTypes, Processes

LEMMA SaveMoves ==
  ASSUME AcmeTypes, NEW p \in Procs, NEW t \in Journals, NEW step \in AcmeSteps,
         proc' = [proc EXCEPT ![p] = [at |-> step, tx |-> t]]
  PROVE  /\ proc' \in [Procs -> Processes] /\ proc'[p].at = step
         /\ proc'[p].tx = t
         /\ \A q \in Procs : q # p => proc'[q] = proc[q]
  <1>1. [at |-> step, tx |-> t] \in Processes
    BY DEF Processes
  <1> QED BY <1>1 DEF AcmeTypes

LEMMA EndMoves ==
  ASSUME AcmeTypes, NEW p \in Procs, proc' = [proc EXCEPT ![p] = IdleIssuer]
  PROVE  /\ proc' \in [Procs -> Processes] /\ proc'[p].at = "idle" /\ proc'[p].tx = None
         /\ \A q \in Procs : q # p => proc'[q] = proc[q]
  <1>1. IdleIssuer \in Processes /\ IdleIssuer.at = "idle" /\ IdleIssuer.tx = None
    BY DEF IdleIssuer, Processes, AcmeSteps
  <1> QED BY <1>1 DEF AcmeTypes

(* Types, when nothing but the machine's files, the process and a number      *)
(* change.                                                                    *)
LEMMA Typed ==
  ASSUME AcmeTypes, proc' \in [Procs -> Processes], issuing' \in Journals \cup {None},
         current' \in AcmeReceipts \cup {None}, issued' \in [Txs -> AcmeReceipts \cup {None}],
         work' \in [Txs -> [key : 0..MaxKeys, csr : 0..MaxKeys, cert : 0..MaxOrders]],
         order' \in [Orders -> [acct : 0..MaxKeys, status : Statuses, key : 0..MaxKeys]],
         used' \in [tx : 0..MaxTx, order : 0..MaxOrders, key : 0..MaxKeys],
         account' \in 0..MaxKeys, draft' \in 0..MaxKeys, webroot' \subseteq Orders,
         known' \subseteq Keys, lapsed' \subseteq Txs, mishaps' \in 0..MaxMishaps,
         stale' \in BOOLEAN
  PROVE  AcmeTypes'
  BY DEF AcmeTypes, AcmeTypeOK, Processes

(* Another process is not in the section the holder is in.                    *)
LEMMA OthersKnow ==
  ASSUME AcmeInv, NEW p \in Procs, proc[p].at \in Inside,
         \A q \in Procs : q # p => proc'[q] = proc[q]
  PROVE  /\ \A q \in Procs : q # p => proc[q].at \in {"idle", "lock"}
         /\ \A q \in Procs : q # p => Knows(q)'
         /\ OneHolder'
  <1>1. \A q \in Procs : q # p => proc[q].at \in {"idle", "lock"}
    BY StepNames DEF AcmeInv, OneHolder
  <1>2. ASSUME NEW q \in Procs, q # p PROVE Knows(q)'
    <2>1. Knows(q) /\ proc'[q] = proc[q] /\ proc'[q].at \in {"idle", "lock"}
      BY <1>1, <1>2 DEF AcmeInv
    <2> QED BY <2>1 DEF Knows, Driving, Accounting, Ordering
  <1>3. OneHolder'
    BY <1>1 DEF OneHolder
  <1> QED BY <1>1, <1>2, <1>3

(* A step of the holder.                                                      *)
LEMMA HolderStep ==
  ASSUME AcmeInv, NEW p \in Procs, proc[p].at \in Inside,
         \A q \in Procs : q # p => proc'[q] = proc[q],
         AcmeTypes', Numbered', Accounted', Receipted', Published', Knows(p)'
  PROVE  AcmeInv'
  BY OthersKnow DEF AcmeInv

LEMMA StillNumbered ==
  ASSUME AcmeInv, NEW p \in Procs, \A q \in Procs : q # p => proc'[q] = proc[q],
         Sound(issuing)', Sound(proc[p].tx)', UNCHANGED <<current, issued, order>>,
         used'.tx = used.tx, used'.order = used.order,
         \A k \in {0, account, draft} : k \in {0, account', draft'}
  PROVE  Numbered'
  <1>1. ASSUME NEW q \in Procs PROVE Sound(proc[q].tx)'
    <2>1. CASE q = p
      BY <2>1
    <2>2. CASE q # p
      <3>1. Sound(proc[q].tx) /\ proc'[q] = proc[q]
        BY <2>2 DEF AcmeInv, Numbered
      <3> QED BY <3>1 DEF Sound, Issued
    <2> QED BY <2>1, <2>2
  <1>2. Issued(current)' /\ \A r \in Txs : Issued(issued[r])'
    BY DEF AcmeInv, Numbered, Issued
  <1> QED BY <1>1, <1>2 DEF AcmeInv, Numbered

LEMMA StillReceipted ==
  ASSUME AcmeInv, UNCHANGED <<current, issued>>,
         account # 0 => account' = account,
         current # None => work'[current.jti] = work[current.jti],
         \A o \in Orders : order[o].status = "valid" =>
            order'[o].status = "valid" /\ order'[o].key = order[o].key
  PROVE  Receipted'
  <1>1. ASSUME NEW r \in AcmeReceipts \cup {None}, Kept(r) PROVE Kept(r)'
    <2>1. r # None => r.cert \in Orders
      BY <1>1 DEF Kept, AcmeReceipts, Orders
    <2> QED BY <1>1, <2>1 DEF Kept
  <1>2. \A r \in Txs : Kept(issued[r]) /\ issued[r] \in AcmeReceipts \cup {None}
    BY DEF AcmeInv, Receipted, AcmeTypes
  <1>3. Kept(current) /\ current \in AcmeReceipts \cup {None}
    BY DEF AcmeInv, Receipted, AcmeTypes
  <1>4. \A r \in Txs : Kept(issued[r])'
    BY <1>1, <1>2
  <1>5. Kept(current)'
    BY <1>1, <1>3
  <1> QED BY <1>4, <1>5 DEF AcmeInv, Receipted

(* The holder's step leaves the others outside.                               *)
LEMMA StillPublished ==
  ASSUME AcmeInv, NEW p \in Procs, proc[p].at \in Inside,
         \A q \in Procs : q # p => proc'[q] = proc[q], stale' = stale,
         ~stale => /\ webroot' \subseteq IF issuing' = None THEN {} ELSE {issuing'.token}
                   /\ proc'[p].at \notin {"idle", "lock"} =>
                        issuing' # None /\ issuing'.token = proc'[p].tx.token
                   /\ proc'[p].at = "clear" => webroot' = {}
  PROVE  Published'
  <1>1. \A q \in Procs : q # p => proc'[q].at \in {"idle", "lock"}
    BY OthersKnow
  <1> QED BY <1>1 DEF Published

(* The holder moves on and changes no file.                                   *)
LEMMA AcmeGoesOn ==
  ASSUME AcmeInv, NEW p \in Procs, proc[p].at \in Inside, NEW step \in Inside \ {"clear"},
         IssuerGo(p, step), UNCHANGED <<files, authority, lapsed, stale, used>>,
         mishaps' \in 0..MaxMishaps, Knows(p)'
  PROVE  AcmeInv'
  <1>1. /\ proc' \in [Procs -> Processes] /\ proc'[p].at = step
        /\ proc'[p].tx = proc[p].tx
        /\ \A q \in Procs : q # p => proc'[q] = proc[q]
    BY AcmeGoMoves DEF AcmeInv, Inside
  <1>2. AcmeTypes'
    BY <1>1, Typed DEF AcmeInv, AcmeTypes, AcmeTypeOK, files, authority
  <1>3. Numbered'
    <2>1. Sound(proc[p].tx) /\ Sound(issuing)
      BY DEF AcmeInv, Numbered
    <2>2. Sound(proc[p].tx)' /\ Sound(issuing)'
      BY <1>1, <2>1 DEF Sound, Issued, files
    <2> QED BY <1>1, <2>2, StillNumbered DEF files, authority
  <1>4. Accounted'
    BY DEF AcmeInv, Accounted, files, authority
  <1>5. Receipted'
    BY StillReceipted DEF files, authority
  <1>6. Published'
    BY <1>1, StepNames DEF AcmeInv, Published, files
  <1> QED BY <1>1, <1>2, <1>3, <1>4, <1>5, <1>6, HolderStep

(* The holder writes the journal and moves on.                                *)
LEMMA Saves ==
  ASSUME AcmeInv, NEW p \in Procs, proc[p].at \in Inside, NEW step \in Inside,
         NEW t \in Journals, Save(p, t, step),
         t.rev = proc[p].tx.rev, t.jti = proc[p].tx.jti,
         t.acct \in {0, account, draft}, t.token \in {0, t.order},
         account' = account, draft' \in {0, draft}, draft' = draft \/ account # 0,
         webroot' \subseteq Orders, ~stale => webroot' \subseteq {t.token},
         step = "clear" /\ ~stale => webroot' = {},
         UNCHANGED <<current, issued, work, known, lapsed, stale, used>>,
         order' \in [Orders -> [acct : 0..MaxKeys, status : Statuses, key : 0..MaxKeys]],
         \A o \in Orders : order[o].status = "valid" =>
            order'[o].status = "valid" /\ order'[o].key = order[o].key,
         \A o \in Orders : order[o].status = "none" => order'[o].status = "none",
         mishaps' \in 0..MaxMishaps, Knows(p)'
  PROVE  AcmeInv'
  <1>1. /\ proc' \in [Procs -> Processes] /\ proc'[p].at = step
        /\ proc'[p].tx = t /\ issuing' = t
        /\ \A q \in Procs : q # p => proc'[q] = proc[q]
    <2>1. AcmeTypes
      BY DEF AcmeInv
    <2>3. step \in AcmeSteps
      BY DEF Inside
    <2>2. issuing' = t /\ proc' = [proc EXCEPT ![p] = [at |-> step, tx |-> t]]
      BY DEF Save
    <2> QED BY ONLY <2>1, <2>2, <2>3, SaveMoves, p \in Procs, t \in Journals
  <1>2. AcmeTypes'
    <2>1. AcmeTypes
      BY DEF AcmeInv
    <2>2. /\ issuing' \in Journals \cup {None} /\ current' \in AcmeReceipts \cup {None}
          /\ issued' \in [Txs -> AcmeReceipts \cup {None}]
          /\ work' \in [Txs -> [key : 0..MaxKeys, csr : 0..MaxKeys, cert : 0..MaxOrders]]
          /\ used' \in [tx : 0..MaxTx, order : 0..MaxOrders, key : 0..MaxKeys]
          /\ lapsed' \subseteq Txs /\ stale' \in BOOLEAN
      BY <1>1, <2>1 DEF AcmeTypes, AcmeTypeOK
    <2>3. account' \in 0..MaxKeys /\ draft' \in 0..MaxKeys /\ known' \subseteq Keys
      BY <2>1, Bounds DEF AcmeTypes, AcmeTypeOK
    <2> QED BY <1>1, <2>1, <2>2, <2>3, Typed
  <1>3. Accounted'
    BY DEF AcmeInv, Accounted
  <1>4. \A k \in {0, account, draft} : k \in {0, account', draft'}
    BY DEF AcmeInv, Accounted
  <1>5. Numbered'
    <2>1. Sound(proc[p].tx) /\ proc[p].tx # None
      BY StepNames, AcmeInHand
    <2>2. Sound(t)'
      BY <1>4, <2>1 DEF Sound, Issued
    <2>3. ASSUME NEW q \in Procs PROVE Sound(proc[q].tx)'
      <3>1. CASE q = p
        BY <1>1, <2>2, <3>1
      <3>2. CASE q # p
        <4>1. Sound(proc[q].tx) /\ proc'[q] = proc[q]
          BY <1>1, <3>2 DEF AcmeInv, Numbered
        <4> QED BY <1>4, <4>1 DEF Sound, Issued
      <3> QED BY <3>1, <3>2
    <2>4. Issued(current)' /\ \A r \in Txs : Issued(issued[r])'
      BY DEF AcmeInv, Numbered, Issued
    <2>5. Sound(issuing)'
      BY <1>1, <2>2
    <2> QED BY <2>3, <2>4, <2>5 DEF AcmeInv, Numbered
  <1>6. Receipted'
    BY StillReceipted
  <1>7. t # None
    BY Bounds DEF AcmeInv
  <1>8. Published'
    BY <1>1, <1>7, StillPublished
  <1> QED BY <1>1, <1>2, <1>3, <1>5, <1>6, <1>8, HolderStep

LEMMA StatusI ==
  ASSUME AcmeInv, NEW p \in Procs, Status(p)
  PROVE  AcmeInv'
  <1> DEFINE t == proc[p].tx
  <1>1. proc[p].at = "status" /\ proc[p].at \in Inside
    BY DEF Status, IssuerAt, Inside, AcmeSteps, Driving
  <1>2. /\ t \in Journals /\ t # None /\ proc[p] \in Processes /\ Knows(p) /\ Sound(t)
        /\ t.jti \in Txs /\ t.rev \in Txs
        /\ t.acct \in 0..MaxKeys /\ t.order \in 0..MaxOrders
        /\ (t.order # 0 => t.order \in Orders)
    BY <1>1, AcmeInHand
  <1>3. PICK step \in {"challenge", "clean"} : IssuerGo(p, step)
    BY DEF Status
  <1>4. step \in Inside \ {"clear"} /\ step \in Driving
    BY DEF Inside, AcmeSteps, Driving
  <1>5. /\ UNCHANGED <<files, authority, lapsed, stale, used>> /\ mishaps' \in 0..MaxMishaps
        /\ proc'[p].at = step /\ proc'[p].tx = t
    BY <1>3, <1>4, AcmeGoMoves DEF Status, AcmeInv, AcmeTypes, AcmeTypeOK, Inside
  <1>6. Knows(p)'
    BY <1>1, <1>2, <1>5 DEF Knows, Committed, Driving, Accounting, Ordering,
       files
  <1> QED BY <1>1, <1>3, <1>4, <1>5, <1>6, AcmeGoesOn

LEMMA ReadyI ==
  ASSUME AcmeInv, NEW p \in Procs, Ready(p)
  PROVE  AcmeInv'
  <1> DEFINE t == proc[p].tx
  <1>1. proc[p].at = "await" /\ proc[p].at \in Inside
    BY DEF Ready, IssuerAt, Inside, AcmeSteps, Driving
  <1>2. /\ t \in Journals /\ t # None /\ proc[p] \in Processes /\ Knows(p) /\ Sound(t)
        /\ t.jti \in Txs /\ t.rev \in Txs
        /\ t.acct \in 0..MaxKeys /\ t.order \in 0..MaxOrders
        /\ (t.order # 0 => t.order \in Orders)
    BY <1>1, AcmeInHand
  <1>3. PICK step \in {"clean"} : IssuerGo(p, step)
    BY DEF Ready
  <1>4. step \in Inside \ {"clear"} /\ step \in Driving
    BY DEF Inside, AcmeSteps, Driving
  <1>5. /\ UNCHANGED <<files, authority, lapsed, stale, used>> /\ mishaps' \in 0..MaxMishaps
        /\ proc'[p].at = step /\ proc'[p].tx = t
    BY <1>3, <1>4, AcmeGoMoves DEF Ready, AcmeInv, AcmeTypes, AcmeTypeOK, Inside
  <1>6. Knows(p)'
    BY <1>1, <1>2, <1>5 DEF Knows, Committed, Driving, Accounting, Ordering,
       files
  <1> QED BY <1>1, <1>3, <1>4, <1>5, <1>6, AcmeGoesOn

LEMMA LoadCsrI ==
  ASSUME AcmeInv, NEW p \in Procs, LoadCsr(p)
  PROVE  AcmeInv'
  <1> DEFINE t == proc[p].tx
  <1>1. proc[p].at = "csr" /\ proc[p].at \in Inside
    BY DEF LoadCsr, IssuerAt, Inside, AcmeSteps, Driving
  <1>2. /\ t \in Journals /\ t # None /\ proc[p] \in Processes /\ Knows(p) /\ Sound(t)
        /\ t.jti \in Txs /\ t.rev \in Txs
        /\ t.acct \in 0..MaxKeys /\ t.order \in 0..MaxOrders
        /\ (t.order # 0 => t.order \in Orders)
    BY <1>1, AcmeInHand
  <1>3. PICK step \in {"finalize"} : IssuerGo(p, step)
    BY DEF LoadCsr
  <1>4. step \in Inside \ {"clear"} /\ step \in Driving
    BY DEF Inside, AcmeSteps, Driving
  <1>5. /\ UNCHANGED <<files, authority, lapsed, stale, used>> /\ mishaps' \in 0..MaxMishaps
        /\ proc'[p].at = step /\ proc'[p].tx = t
    BY <1>3, <1>4, AcmeGoMoves DEF LoadCsr, AcmeInv, AcmeTypes, AcmeTypeOK, Inside
  <1>6. Knows(p)'
    BY <1>1, <1>2, <1>5 DEF LoadCsr, Knows, Committed, TxOf, Driving,
       Accounting, Ordering, files
  <1> QED BY <1>1, <1>3, <1>4, <1>5, <1>6, AcmeGoesOn

LEMMA BindOrderI ==
  ASSUME AcmeInv, NEW p \in Procs, BindOrder(p)
  PROVE  AcmeInv'
  <1> DEFINE t == proc[p].tx
  <1>1. proc[p].at = "bindOrder" /\ proc[p].at \in Inside
    BY DEF BindOrder, IssuerAt, Inside, AcmeSteps, Driving
  <1>2. /\ t \in Journals /\ t # None /\ proc[p] \in Processes /\ Knows(p) /\ Sound(t)
        /\ t.jti \in Txs /\ t.rev \in Txs
        /\ t.acct \in 0..MaxKeys /\ t.order \in 0..MaxOrders
        /\ (t.order # 0 => t.order \in Orders)
    BY <1>1, AcmeInHand
  <1> DEFINE s == t
  <1>3. Save(p, s, "status") /\ "status" \in Inside
    BY DEF BindOrder, TxOf, Inside, AcmeSteps, Driving
  <1>4. /\ s \in Journals /\ s.rev = t.rev /\ s.jti = t.jti /\ s.order = t.order
        /\ s.key = t.key /\ s.cert = t.cert /\ s.token = t.token /\ s.acct = t.acct
        /\ s.acct \in {0, account, draft} /\ s.token \in {0, s.order}
    BY <1>2 DEF Sound
  <1>5. proc'[p].at = "status" /\ proc'[p].tx = s /\ s # None
    BY <1>3, <1>4, Bounds DEF Save, AcmeInv, AcmeTypes
  <1> HIDE DEF s
  <1>6. Knows(p)'
    BY <1>1, <1>2, <1>4, <1>5 DEF BindOrder, Knows, Committed, Driving,
       Accounting, Ordering
  <1>7. webroot' \subseteq Orders /\ (~stale => webroot' \subseteq {s.token})
    BY <1>1, <1>4 DEF BindOrder, AcmeInv, Published, AcmeTypes, AcmeTypeOK
  <1> QED BY <1>1, <1>3, <1>4, <1>6, <1>7, Saves DEF BindOrder, AcmeInv, AcmeTypes,
             AcmeTypeOK, authority

LEMMA BindCsrI ==
  ASSUME AcmeInv, NEW p \in Procs, BindCsr(p)
  PROVE  AcmeInv'
  <1> DEFINE t == proc[p].tx
  <1>1. proc[p].at = "bindCsr" /\ proc[p].at \in Inside
    BY DEF BindCsr, IssuerAt, Inside, AcmeSteps, Driving
  <1>2. /\ t \in Journals /\ t # None /\ proc[p] \in Processes /\ Knows(p) /\ Sound(t)
        /\ t.jti \in Txs /\ t.rev \in Txs
        /\ t.acct \in 0..MaxKeys /\ t.order \in 0..MaxOrders
        /\ (t.order # 0 => t.order \in Orders)
    BY <1>1, AcmeInHand
  <1> DEFINE s == [t EXCEPT !.key = work[t.jti].key]
  <1>3. Save(p, s, "finalize") /\ "finalize" \in Inside
    BY DEF BindCsr, TxOf, Inside, AcmeSteps, Driving
  <1>4. /\ s \in Journals /\ s.rev = t.rev /\ s.jti = t.jti /\ s.order = t.order
        /\ s.key = work[t.jti].key /\ s.cert = t.cert /\ s.token = t.token /\ s.acct = t.acct
        /\ s.acct \in {0, account, draft} /\ s.token \in {0, s.order}
    BY <1>2 DEF AcmeInv, AcmeTypes, Sound, Journals
  <1>5. proc'[p].at = "finalize" /\ proc'[p].tx = s /\ s # None
    BY <1>3, <1>4, Bounds DEF Save, AcmeInv, AcmeTypes
  <1> HIDE DEF s
  <1>6. Knows(p)'
    BY <1>1, <1>2, <1>4, <1>5 DEF BindCsr, Knows, Committed, Driving,
       Accounting, Ordering
  <1>7. webroot' \subseteq Orders /\ (~stale => webroot' \subseteq {s.token})
    BY <1>1, <1>4 DEF BindCsr, AcmeInv, Published, AcmeTypes, AcmeTypeOK
  <1> QED BY <1>1, <1>3, <1>4, <1>6, <1>7, Saves DEF BindCsr, AcmeInv, AcmeTypes,
             AcmeTypeOK, authority

LEMMA BindCertI ==
  ASSUME AcmeInv, NEW p \in Procs, BindCert(p)
  PROVE  AcmeInv'
  <1> DEFINE t == proc[p].tx
  <1>1. proc[p].at = "bindCert" /\ proc[p].at \in Inside
    BY DEF BindCert, IssuerAt, Inside, AcmeSteps, Driving
  <1>2. /\ t \in Journals /\ t # None /\ proc[p] \in Processes /\ Knows(p) /\ Sound(t)
        /\ t.jti \in Txs /\ t.rev \in Txs
        /\ t.acct \in 0..MaxKeys /\ t.order \in 0..MaxOrders
        /\ (t.order # 0 => t.order \in Orders)
    BY <1>1, AcmeInHand
  <1> DEFINE s == [t EXCEPT !.cert = t.order]
  <1>3. Save(p, s, "archive") /\ "archive" \in Inside
    BY DEF BindCert, TxOf, Inside, AcmeSteps, Driving
  <1>4. /\ s \in Journals /\ s.rev = t.rev /\ s.jti = t.jti /\ s.order = t.order
        /\ s.key = t.key /\ s.cert = t.order /\ s.token = t.token /\ s.acct = t.acct
        /\ s.acct \in {0, account, draft} /\ s.token \in {0, s.order}
    BY <1>2 DEF Sound, Journals
  <1>5. proc'[p].at = "archive" /\ proc'[p].tx = s /\ s # None
    BY <1>3, <1>4, Bounds DEF Save, AcmeInv, AcmeTypes
  <1> HIDE DEF s
  <1>6. Knows(p)'
    BY <1>1, <1>2, <1>4, <1>5 DEF BindCert, Knows, Committed, Driving,
       Accounting, Ordering, authority
  <1>7. webroot' \subseteq Orders /\ (~stale => webroot' \subseteq {s.token})
    BY <1>1, <1>4 DEF BindCert, AcmeInv, Published, AcmeTypes, AcmeTypeOK
  <1> QED BY <1>1, <1>3, <1>4, <1>6, <1>7, Saves DEF BindCert, AcmeInv, AcmeTypes,
             AcmeTypeOK, authority

LEMMA BindChallengeI ==
  ASSUME AcmeInv, NEW p \in Procs, BindChallenge(p)
  PROVE  AcmeInv'
  <1> DEFINE t == proc[p].tx
  <1>1. proc[p].at = "challenge" /\ proc[p].at \in Inside
    BY DEF BindChallenge, IssuerAt, Inside, AcmeSteps, Driving
  <1>2. /\ t \in Journals /\ t # None /\ proc[p] \in Processes /\ Knows(p) /\ Sound(t)
        /\ t.jti \in Txs /\ t.rev \in Txs
        /\ t.acct \in 0..MaxKeys /\ t.order \in 0..MaxOrders
        /\ (t.order # 0 => t.order \in Orders)
    BY <1>1, AcmeInHand
  <1> DEFINE s == [t EXCEPT !.token = t.order]
  <1>3. Save(p, s, "publish") /\ "publish" \in Inside
    BY DEF BindChallenge, TxOf, Inside, AcmeSteps, Driving
  <1>4. /\ s \in Journals /\ s.rev = t.rev /\ s.jti = t.jti /\ s.order = t.order
        /\ s.key = t.key /\ s.cert = t.cert /\ s.token = t.order /\ s.acct = t.acct
        /\ s.acct \in {0, account, draft} /\ s.token \in {0, s.order}
    BY <1>2 DEF Sound, Journals
  <1>5. proc'[p].at = "publish" /\ proc'[p].tx = s /\ s # None
    BY <1>3, <1>4, Bounds DEF Save, AcmeInv, AcmeTypes
  <1> HIDE DEF s
  <1>6. Knows(p)'
    BY <1>1, <1>2, <1>4, <1>5 DEF BindChallenge, Knows, Committed, Driving,
       Accounting, Ordering
  <1>7. webroot' \subseteq Orders /\ (~stale => webroot' \subseteq {s.token})
    <2>1. webroot' = webroot /\ webroot \subseteq Orders
      BY DEF BindChallenge, AcmeInv, AcmeTypes, AcmeTypeOK
    <2>2. ~stale => webroot \subseteq {t.token}
      BY <1>1, StepNames DEF AcmeInv, Published, Inside
    <2>3. t.token \in {0, t.order} /\ ~(0 \in Orders)
      BY <1>2 DEF Sound, Orders
    <2> QED BY <1>4, <2>1, <2>2, <2>3
  <1> QED BY <1>1, <1>3, <1>4, <1>6, <1>7, Saves DEF BindChallenge, AcmeInv,
             AcmeTypes, AcmeTypeOK, authority

(* What the invariant says of each variable.                                  *)
LEMMA Ranges ==
  ASSUME AcmeInv
  PROVE  /\ account \in 0..MaxKeys /\ draft \in 0..MaxKeys /\ webroot \subseteq Orders
         /\ known \subseteq Keys /\ known \subseteq {account, draft}
         /\ account # 0 => draft \in {0, account}
         /\ work \in [Txs -> [key : 0..MaxKeys, csr : 0..MaxKeys, cert : 0..MaxOrders]]
         /\ order \in [Orders -> [acct : 0..MaxKeys, status : Statuses, key : 0..MaxKeys]]
         /\ used \in [tx : 0..MaxTx, order : 0..MaxOrders, key : 0..MaxKeys]
         /\ used.tx \in 0..MaxTx /\ used.order \in 0..MaxOrders /\ used.key \in 0..MaxKeys
         /\ \A o \in Orders : o > used.order => order[o].status = "none"
  BY DEF AcmeInv, AcmeTypes, AcmeTypeOK, Numbered, Accounted

LEMMA GoIs ==
  ASSUME AcmeInv, NEW p \in Procs, NEW step, IssuerGo(p, step)
  PROVE  proc' = [proc EXCEPT ![p] = [at |-> step, tx |-> proc[p].tx]]
  <1>1. proc[p] \in [at : AcmeSteps, tx : Journals \cup {None}]
    BY DEF AcmeInv, AcmeTypes, Processes
  <1>2. [proc[p] EXCEPT !.at = step] = [at |-> step, tx |-> proc[p].tx]
    BY <1>1
  <1> QED BY <1>2 DEF IssuerGo, AcmeInv, AcmeTypes

(* The holder moves on, with its journal or a changed one in hand.            *)
LEMMA Works ==
  ASSUME AcmeInv, NEW p \in Procs, proc[p].at \in Inside, NEW step \in Inside, NEW t \in Journals,
         proc' = [proc EXCEPT ![p] = [at |-> step, tx |-> t]],
         t.rev = proc[p].tx.rev, t.jti = proc[p].tx.jti, t.token = proc[p].tx.token,
         t.acct = proc[p].tx.acct, t.token \in {0, t.order},
         UNCHANGED <<issuing, current, issued, lapsed, mishaps, stale>>,
         work' \in [Txs -> [key : 0..MaxKeys, csr : 0..MaxKeys, cert : 0..MaxOrders]],
         current # None => work'[current.jti] = work[current.jti],
         account' \in 0..MaxKeys, draft' \in 0..MaxKeys, known' \subseteq Keys,
         \A k \in {0, account, draft} : k \in {0, account', draft'},
         account # 0 => account' = account, account' # 0 => draft' \in {0, account'},
         known' \subseteq {account', draft'},
         order' \in [Orders -> [acct : 0..MaxKeys, status : Statuses, key : 0..MaxKeys]],
         \A o \in Orders : order[o].status = "valid" =>
            order'[o].status = "valid" /\ order'[o].key = order[o].key,
         used' \in [tx : 0..MaxTx, order : 0..MaxOrders, key : 0..MaxKeys],
         used'.tx = used.tx,
         \A o \in Orders : o > used'.order => order'[o].status = "none",
         webroot' \subseteq Orders, webroot' \subseteq webroot \cup {t.token},
         step = "clear" => webroot' \subseteq webroot \ {t.token}, Knows(p)'
  PROVE  AcmeInv'
  <1>1. /\ proc' \in [Procs -> Processes] /\ proc'[p].at = step /\ proc'[p].tx = t
        /\ \A q \in Procs : q # p => proc'[q] = proc[q]
    <2>1. AcmeTypes
      BY DEF AcmeInv
    <2>2. step \in AcmeSteps
      BY DEF Inside
    <2>3. proc' = [proc EXCEPT ![p] = [at |-> step, tx |-> t]]
      OBVIOUS
    <2> QED BY ONLY <2>1, <2>2, <2>3, SaveMoves, p \in Procs, t \in Journals
  <1>2. AcmeTypes'
    <2>1. AcmeTypes
      BY DEF AcmeInv
    <2>2. /\ issuing' \in Journals \cup {None} /\ current' \in AcmeReceipts \cup {None}
          /\ issued' \in [Txs -> AcmeReceipts \cup {None}]
          /\ lapsed' \subseteq Txs /\ mishaps' \in 0..MaxMishaps /\ stale' \in BOOLEAN
      BY <2>1 DEF AcmeTypes, AcmeTypeOK
    <2> QED BY <1>1, <2>1, <2>2, Typed
  <1>3. Accounted'
    BY DEF Accounted
  <1>4. Numbered'
    <2>1. Sound(proc[p].tx) /\ proc[p].tx # None /\ Sound(issuing)
      BY StepNames, AcmeInHand DEF AcmeInv, Numbered
    <2>2. Sound(t)' /\ Sound(issuing)'
      BY <2>1 DEF Sound, Issued
    <2>3. ASSUME NEW q \in Procs PROVE Sound(proc[q].tx)'
      <3>1. CASE q = p
        BY <1>1, <2>2, <3>1
      <3>2. CASE q # p
        <4>1. Sound(proc[q].tx) /\ proc'[q] = proc[q]
          BY <1>1, <3>2 DEF AcmeInv, Numbered
        <4> QED BY <4>1 DEF Sound, Issued
      <3> QED BY <3>1, <3>2
    <2>4. Issued(current)' /\ \A r \in Txs : Issued(issued[r])'
      BY DEF AcmeInv, Numbered, Issued
    <2> QED BY <2>2, <2>3, <2>4 DEF Numbered
  <1>5. Receipted'
    BY StillReceipted
  <1>6. Published'
    <2>1. ~stale => /\ webroot \subseteq {issuing.token} /\ issuing # None
                    /\ issuing.token = t.token
      BY StepNames DEF AcmeInv, Published, Inside
    <2> QED BY <1>1, <2>1, StillPublished, StepNames DEF Inside
  <1> QED BY <1>1, <1>2, <1>3, <1>4, <1>5, <1>6, HolderStep

LEMMA DraftKeyI ==
  ASSUME AcmeInv, NEW p \in Procs, DraftKey(p)
  PROVE  AcmeInv'
  <1> DEFINE t == proc[p].tx
  <1>1. proc[p].at = "account" /\ proc[p].at \in Inside
    BY DEF DraftKey, IssuerAt, Inside, AcmeSteps, Driving
  <1>2. /\ t \in Journals /\ t # None /\ proc[p] \in Processes /\ Knows(p) /\ Sound(t)
        /\ t.jti \in Txs /\ t.rev \in Txs
        /\ t.acct \in 0..MaxKeys /\ t.order \in 0..MaxOrders
        /\ (t.order # 0 => t.order \in Orders)
    BY <1>1, AcmeInHand
  <1> DEFINE s == t
  <1>3. proc' = [proc EXCEPT ![p] = [at |-> "bind", tx |-> s]]
    BY GoIs DEF DraftKey, TxOf
  <1>4. /\ s \in Journals /\ s.rev = t.rev /\ s.jti = t.jti /\ s.token = t.token /\ s.acct = t.acct
        /\ s.key = t.key /\ s.cert = t.cert /\ s.order = t.order /\ s.token \in {0, s.order}
    BY <1>2 DEF Sound
  <1>5. "bind" \in Inside /\ s # None
    BY <1>4, Bounds DEF Inside, AcmeSteps, Driving, AcmeInv
  <1>6. /\ work' \in [Txs -> [key : 0..MaxKeys, csr : 0..MaxKeys, cert : 0..MaxOrders]]
        /\ current # None => work'[current.jti] = work[current.jti]
    BY <1>1, <1>2, Ranges, Bounds DEF DraftKey, AcmeInv, files, authority
  <1>7. /\ account' \in 0..MaxKeys /\ draft' \in 0..MaxKeys /\ known' \subseteq Keys
        /\ \A k \in {0, account, draft} : k \in {0, account', draft'}
        /\ account # 0 => account' = account
        /\ account' # 0 => draft' \in {0, account'}
        /\ known' \subseteq {account', draft'}
    <2>1. account = 0 /\ known' = known /\ account' = account
      BY DEF DraftKey, authority
    <2>2. (draft = 0 /\ draft' = used.key + 1 /\ used.key < MaxKeys) \/ draft' = draft
      BY DEF DraftKey
    <2> QED BY <2>1, <2>2, Ranges, Bounds DEF AcmeInv, Keys
  <1>8. /\ order' \in [Orders -> [acct : 0..MaxKeys, status : Statuses, key : 0..MaxKeys]]
        /\ \A o \in Orders : order[o].status = "valid" =>
              order'[o].status = "valid" /\ order'[o].key = order[o].key
        /\ used' \in [tx : 0..MaxTx, order : 0..MaxOrders, key : 0..MaxKeys]
        /\ used'.tx = used.tx
        /\ \A o \in Orders : o > used'.order => order'[o].status = "none"
    <2>1. order' = order /\ (used' = used \/ (used' = [used EXCEPT !.key = @ + 1] /\ used.key < MaxKeys))
      BY DEF DraftKey, authority
    <2> QED BY <2>1, Ranges, Bounds DEF AcmeInv
  <1>9. webroot' \subseteq Orders /\ webroot' \subseteq webroot \cup {s.token}
    BY <1>1, <1>2, Ranges, Bounds DEF DraftKey, AcmeInv, files, authority
  <1>10. proc'[p].at = "bind" /\ proc'[p].tx = s
    BY <1>3 DEF AcmeInv, AcmeTypes
  <1> HIDE DEF s
  <1>11. Knows(p)'
    <2>1. account' = 0 /\ draft' # 0 /\ current' = current
      BY <1>1, Ranges, Bounds DEF DraftKey, AcmeInv
    <2> QED BY <1>1, <1>2, <1>4, <1>5, <1>10, <2>1 DEF Knows, Committed, Driving,
               Accounting
  <1>12. UNCHANGED <<issuing, current, issued, lapsed, mishaps, stale>>
    BY DEF DraftKey, files
  <1> QED BY <1>1, <1>3, <1>4, <1>5, <1>6, <1>7, <1>8, <1>9, <1>11, <1>12, Works

LEMMA RegisterI ==
  ASSUME AcmeInv, NEW p \in Procs, Register(p)
  PROVE  AcmeInv'
  <1> DEFINE t == proc[p].tx
  <1>1. proc[p].at = "register" /\ proc[p].at \in Inside
    BY DEF Register, IssuerAt, Inside, AcmeSteps, Driving
  <1>2. /\ t \in Journals /\ t # None /\ proc[p] \in Processes /\ Knows(p) /\ Sound(t)
        /\ t.jti \in Txs /\ t.rev \in Txs
        /\ t.acct \in 0..MaxKeys /\ t.order \in 0..MaxOrders
        /\ (t.order # 0 => t.order \in Orders)
    BY <1>1, AcmeInHand
  <1> DEFINE s == t
  <1>3. proc' = [proc EXCEPT ![p] = [at |-> "record", tx |-> s]]
    BY GoIs DEF Register, TxOf
  <1>4. /\ s \in Journals /\ s.rev = t.rev /\ s.jti = t.jti /\ s.token = t.token /\ s.acct = t.acct
        /\ s.key = t.key /\ s.cert = t.cert /\ s.order = t.order /\ s.token \in {0, s.order}
    BY <1>2 DEF Sound
  <1>5. "record" \in Inside /\ s # None
    BY <1>4, Bounds DEF Inside, AcmeSteps, Driving, AcmeInv
  <1>6. /\ work' \in [Txs -> [key : 0..MaxKeys, csr : 0..MaxKeys, cert : 0..MaxOrders]]
        /\ current # None => work'[current.jti] = work[current.jti]
    BY <1>1, <1>2, Ranges, Bounds DEF Register, AcmeInv, files, authority
  <1>7. /\ account' \in 0..MaxKeys /\ draft' \in 0..MaxKeys /\ known' \subseteq Keys
        /\ \A k \in {0, account, draft} : k \in {0, account', draft'}
        /\ account # 0 => account' = account
        /\ account' # 0 => draft' \in {0, account'}
        /\ known' \subseteq {account', draft'}
    <2>1. t.acct = draft /\ draft # 0 /\ account = 0
      BY <1>1, <1>2 DEF Knows, Driving
    <2>2. known' = known \cup {t.acct} /\ account' = account /\ draft' = draft
      BY DEF Register, TxOf, files
    <2> QED BY <2>1, <2>2, Ranges, Bounds DEF AcmeInv, Keys
  <1>8. /\ order' \in [Orders -> [acct : 0..MaxKeys, status : Statuses, key : 0..MaxKeys]]
        /\ \A o \in Orders : order[o].status = "valid" =>
              order'[o].status = "valid" /\ order'[o].key = order[o].key
        /\ used' \in [tx : 0..MaxTx, order : 0..MaxOrders, key : 0..MaxKeys]
        /\ used'.tx = used.tx
        /\ \A o \in Orders : o > used'.order => order'[o].status = "none"
    BY <1>1, <1>2, Ranges, Bounds DEF Register, AcmeInv, files, authority
  <1>9. webroot' \subseteq Orders /\ webroot' \subseteq webroot \cup {s.token}
    BY <1>1, <1>2, Ranges, Bounds DEF Register, AcmeInv, files, authority
  <1>10. proc'[p].at = "record" /\ proc'[p].tx = s
    BY <1>3 DEF AcmeInv, AcmeTypes
  <1> HIDE DEF s
  <1>11. Knows(p)'
    BY <1>1, <1>2, <1>4, <1>5, <1>10 DEF Register, Knows, Committed,
       Driving, Accounting, files
  <1>12. UNCHANGED <<issuing, current, issued, lapsed, mishaps, stale>>
    BY DEF Register, files
  <1> QED BY <1>1, <1>3, <1>4, <1>5, <1>6, <1>7, <1>8, <1>9, <1>11, <1>12, Works

LEMMA RecordAccountI ==
  ASSUME AcmeInv, NEW p \in Procs, RecordAccount(p)
  PROVE  AcmeInv'
  <1> DEFINE t == proc[p].tx
  <1>1. proc[p].at = "record" /\ proc[p].at \in Inside
    BY DEF RecordAccount, IssuerAt, Inside, AcmeSteps, Driving
  <1>2. /\ t \in Journals /\ t # None /\ proc[p] \in Processes /\ Knows(p) /\ Sound(t)
        /\ t.jti \in Txs /\ t.rev \in Txs
        /\ t.acct \in 0..MaxKeys /\ t.order \in 0..MaxOrders
        /\ (t.order # 0 => t.order \in Orders)
    BY <1>1, AcmeInHand
  <1> DEFINE s == t
  <1>3. proc' = [proc EXCEPT ![p] = [at |-> "retireDraft", tx |-> s]]
    BY GoIs DEF RecordAccount, TxOf
  <1>4. /\ s \in Journals /\ s.rev = t.rev /\ s.jti = t.jti /\ s.token = t.token /\ s.acct = t.acct
        /\ s.key = t.key /\ s.cert = t.cert /\ s.order = t.order /\ s.token \in {0, s.order}
    BY <1>2 DEF Sound
  <1>5. "retireDraft" \in Inside /\ s # None
    BY <1>4, Bounds DEF Inside, AcmeSteps, Driving, AcmeInv
  <1>6. /\ work' \in [Txs -> [key : 0..MaxKeys, csr : 0..MaxKeys, cert : 0..MaxOrders]]
        /\ current # None => work'[current.jti] = work[current.jti]
    BY Ranges DEF RecordAccount
  <1>7. /\ account' \in 0..MaxKeys /\ draft' \in 0..MaxKeys /\ known' \subseteq Keys
        /\ \A k \in {0, account, draft} : k \in {0, account', draft'}
        /\ account # 0 => account' = account
        /\ account' # 0 => draft' \in {0, account'}
        /\ known' \subseteq {account', draft'}
    <2>1. t.acct = draft /\ draft # 0 /\ account = 0
      BY <1>1, <1>2 DEF Knows, Driving
    <2>2. account' = t.acct /\ known' = known /\ draft' = draft
      BY DEF RecordAccount, TxOf, authority
    <2> QED BY <2>1, <2>2, Ranges, Bounds DEF AcmeInv, Keys
  <1>8. /\ order' \in [Orders -> [acct : 0..MaxKeys, status : Statuses, key : 0..MaxKeys]]
        /\ \A o \in Orders : order[o].status = "valid" =>
              order'[o].status = "valid" /\ order'[o].key = order[o].key
        /\ used' \in [tx : 0..MaxTx, order : 0..MaxOrders, key : 0..MaxKeys]
        /\ used'.tx = used.tx
        /\ \A o \in Orders : o > used'.order => order'[o].status = "none"
    BY Ranges DEF RecordAccount, authority
  <1>9. webroot' \subseteq Orders /\ webroot' \subseteq webroot \cup {s.token}
    BY Ranges DEF RecordAccount
  <1>10. proc'[p].at = "retireDraft" /\ proc'[p].tx = s
    BY <1>3 DEF AcmeInv, AcmeTypes
  <1> HIDE DEF s
  <1>11. Knows(p)'
    BY <1>1, <1>2, <1>4, <1>5, <1>10 DEF RecordAccount, Knows, Committed,
       TxOf, Driving, Ordering
  <1>12. UNCHANGED <<issuing, current, issued, lapsed, mishaps, stale>>
    BY DEF RecordAccount, files
  <1> QED BY <1>1, <1>3, <1>4, <1>5, <1>6, <1>7, <1>8, <1>9, <1>11, <1>12, Works

LEMMA OrderResumed ==
  ASSUME AcmeInv, NEW p \in Procs, NewOrder(p),
         proc[p].tx.order # 0
  PROVE  AcmeInv'
  <1> DEFINE t == proc[p].tx
  <1>1. proc[p].at = "order" /\ proc[p].at \in Inside
    BY DEF NewOrder, IssuerAt, Inside, AcmeSteps, Driving
  <1>2. /\ t \in Journals /\ t # None /\ proc[p] \in Processes /\ Knows(p) /\ Sound(t)
        /\ t.jti \in Txs /\ t.rev \in Txs
        /\ t.acct \in 0..MaxKeys /\ t.order \in 0..MaxOrders
        /\ (t.order # 0 => t.order \in Orders)
    BY <1>1, AcmeInHand
  <1>3. PICK step \in {"status"} : IssuerGo(p, step)
    BY DEF NewOrder, TxOf
  <1>4. step \in Inside \ {"clear"} /\ step \in Driving
    BY DEF Inside, AcmeSteps, Driving
  <1>5. /\ UNCHANGED <<files, authority, lapsed, stale, used>> /\ mishaps' \in 0..MaxMishaps
        /\ proc'[p].at = step /\ proc'[p].tx = t
    BY <1>3, <1>4, AcmeGoMoves DEF NewOrder, authority, AcmeInv, AcmeTypes,
       AcmeTypeOK, Inside
  <1>6. Knows(p)'
    BY <1>1, <1>2, <1>5 DEF Knows, Committed, Driving, Accounting, files
  <1> QED BY <1>1, <1>3, <1>4, <1>5, <1>6, AcmeGoesOn

LEMMA OrderCreated ==
  ASSUME AcmeInv, NEW p \in Procs, NewOrder(p),
         proc[p].tx.order = 0
  PROVE  AcmeInv'
  <1> DEFINE t == proc[p].tx
  <1>1. proc[p].at = "order" /\ proc[p].at \in Inside
    BY DEF NewOrder, IssuerAt, Inside, AcmeSteps, Driving
  <1>2. /\ t \in Journals /\ t # None /\ proc[p] \in Processes /\ Knows(p) /\ Sound(t)
        /\ t.jti \in Txs /\ t.rev \in Txs
        /\ t.acct \in 0..MaxKeys /\ t.order \in 0..MaxOrders
        /\ (t.order # 0 => t.order \in Orders)
    BY <1>1, AcmeInHand
  <1> DEFINE s == [t EXCEPT !.order = used'.order]
  <1>3. proc' = [proc EXCEPT ![p] = [at |-> "bindOrder", tx |-> s]]
    BY GoIs DEF NewOrder, TxOf
  <1>4. /\ s \in Journals /\ s.rev = t.rev /\ s.jti = t.jti /\ s.token = t.token /\ s.acct = t.acct
        /\ s.key = t.key /\ s.cert = t.cert /\ s.order = used.order + 1 /\ s.token \in {0, s.order}
    <2>1. used'.order = used.order + 1 /\ used.order < MaxOrders
      BY Ranges DEF NewOrder, TxOf
    <2> QED BY <1>2, <2>1, Ranges, Bounds DEF Sound, Journals, AcmeInv
  <1>5. "bindOrder" \in Inside /\ s # None
    BY <1>4, Bounds DEF Inside, AcmeSteps, Driving, AcmeInv
  <1>6. /\ work' \in [Txs -> [key : 0..MaxKeys, csr : 0..MaxKeys, cert : 0..MaxOrders]]
        /\ current # None => work'[current.jti] = work[current.jti]
    BY <1>1, <1>2, Ranges, Bounds DEF NewOrder, AcmeInv, files, authority
  <1>7. /\ account' \in 0..MaxKeys /\ draft' \in 0..MaxKeys /\ known' \subseteq Keys
        /\ \A k \in {0, account, draft} : k \in {0, account', draft'}
        /\ account # 0 => account' = account
        /\ account' # 0 => draft' \in {0, account'}
        /\ known' \subseteq {account', draft'}
    BY <1>1, <1>2, Ranges, Bounds DEF NewOrder, AcmeInv, files, authority
  <1>8. /\ order' \in [Orders -> [acct : 0..MaxKeys, status : Statuses, key : 0..MaxKeys]]
        /\ \A o \in Orders : order[o].status = "valid" =>
              order'[o].status = "valid" /\ order'[o].key = order[o].key
        /\ used' \in [tx : 0..MaxTx, order : 0..MaxOrders, key : 0..MaxKeys]
        /\ used'.tx = used.tx
        /\ \A o \in Orders : o > used'.order => order'[o].status = "none"
    <2>1. /\ used.order < MaxOrders /\ used' = [used EXCEPT !.order = @ + 1]
          /\ order' = [order EXCEPT ![used.order + 1] =
                         [acct |-> t.acct, status |-> "pending", key |-> 0]]
      BY DEF NewOrder, TxOf
    <2>2. used.order + 1 \in Orders /\ used.order + 1 \in 0..MaxOrders
      <3>1. used.order \in Nat /\ MaxOrders \in Nat
        BY Bounds DEF AcmeInv
      <3> QED BY <2>1, <3>1 DEF Orders
    <2>3. order[used.order + 1].status = "none"
      BY <2>2, Ranges, Bounds DEF AcmeInv
    <2>4. /\ order' \in [Orders -> [acct : 0..MaxKeys, status : Statuses, key : 0..MaxKeys]]
          /\ \A o \in Orders : o # used.order + 1 => order'[o] = order[o]
      BY <1>2, <2>1, <2>2, Ranges, Bounds DEF AcmeInv, Statuses
    <2>5. used' \in [tx : 0..MaxTx, order : 0..MaxOrders, key : 0..MaxKeys] /\ used'.tx = used.tx
          /\ used'.order = used.order + 1
      BY <2>1, <2>2, Ranges
    <2>6. \A o \in Orders : o > used.order + 1 => order'[o].status = "none"
      BY <2>4, <2>5, Ranges, Bounds DEF AcmeInv
    <2> QED BY <2>2, <2>3, <2>4, <2>5, <2>6
  <1>9. webroot' \subseteq Orders /\ webroot' \subseteq webroot \cup {s.token}
    BY <1>1, <1>2, Ranges, Bounds DEF NewOrder, AcmeInv, files, authority
  <1>10. proc'[p].at = "bindOrder" /\ proc'[p].tx = s
    BY <1>3 DEF AcmeInv, AcmeTypes
  <1> HIDE DEF s
  <1>11. Knows(p)'
    <2>1. s.order # 0 /\ UNCHANGED <<account, current>>
      BY <1>4, Ranges DEF NewOrder, TxOf, files
    <2> QED BY <1>1, <1>2, <1>4, <1>5, <1>10, <2>1 DEF Knows, Committed, Driving,
               Accounting
  <1>12. UNCHANGED <<issuing, current, issued, lapsed, mishaps, stale>>
    BY DEF NewOrder, files
  <1> QED BY <1>1, <1>3, <1>4, <1>5, <1>6, <1>7, <1>8, <1>9, <1>11, <1>12, Works

LEMMA NewOrderI ==
  ASSUME AcmeInv, NEW p \in Procs, NewOrder(p)
  PROVE  AcmeInv'
  BY OrderResumed, OrderCreated

LEMMA PublishI ==
  ASSUME AcmeInv, NEW p \in Procs, Publish(p)
  PROVE  AcmeInv'
  <1> DEFINE t == proc[p].tx
  <1>1. proc[p].at = "publish" /\ proc[p].at \in Inside
    BY DEF Publish, IssuerAt, Inside, AcmeSteps, Driving
  <1>2. /\ t \in Journals /\ t # None /\ proc[p] \in Processes /\ Knows(p) /\ Sound(t)
        /\ t.jti \in Txs /\ t.rev \in Txs
        /\ t.acct \in 0..MaxKeys /\ t.order \in 0..MaxOrders
        /\ (t.order # 0 => t.order \in Orders)
    BY <1>1, AcmeInHand
  <1> DEFINE s == t
  <1>3. proc' = [proc EXCEPT ![p] = [at |-> "await", tx |-> s]]
    BY GoIs DEF Publish, TxOf
  <1>4. /\ s \in Journals /\ s.rev = t.rev /\ s.jti = t.jti /\ s.token = t.token /\ s.acct = t.acct
        /\ s.key = t.key /\ s.cert = t.cert /\ s.order = t.order /\ s.token \in {0, s.order}
    BY <1>2 DEF Sound
  <1>5. "await" \in Inside /\ s # None
    BY <1>4, Bounds DEF Inside, AcmeSteps, Driving, AcmeInv
  <1>6. /\ work' \in [Txs -> [key : 0..MaxKeys, csr : 0..MaxKeys, cert : 0..MaxOrders]]
        /\ current # None => work'[current.jti] = work[current.jti]
    BY <1>1, <1>2, Ranges, Bounds DEF Publish, AcmeInv, files, authority
  <1>7. /\ account' \in 0..MaxKeys /\ draft' \in 0..MaxKeys /\ known' \subseteq Keys
        /\ \A k \in {0, account, draft} : k \in {0, account', draft'}
        /\ account # 0 => account' = account
        /\ account' # 0 => draft' \in {0, account'}
        /\ known' \subseteq {account', draft'}
    BY <1>1, <1>2, Ranges, Bounds DEF Publish, AcmeInv, files, authority
  <1>8. /\ order' \in [Orders -> [acct : 0..MaxKeys, status : Statuses, key : 0..MaxKeys]]
        /\ \A o \in Orders : order[o].status = "valid" =>
              order'[o].status = "valid" /\ order'[o].key = order[o].key
        /\ used' \in [tx : 0..MaxTx, order : 0..MaxOrders, key : 0..MaxKeys]
        /\ used'.tx = used.tx
        /\ \A o \in Orders : o > used'.order => order'[o].status = "none"
    BY <1>1, <1>2, Ranges, Bounds DEF Publish, AcmeInv, files, authority
  <1>9. webroot' \subseteq Orders /\ webroot' \subseteq webroot \cup {s.token}
    <2>1. webroot' = webroot \cup {t.token} /\ t.order # 0 /\ t.token = t.order
      BY <1>1, <1>2 DEF Publish, TxOf, Knows, Driving, Accounting, Ordering
    <2>2. t.order \in Orders
      BY <1>2, <2>1
    <2> QED BY <1>4, <2>1, <2>2, Ranges
  <1>10. proc'[p].at = "await" /\ proc'[p].tx = s
    BY <1>3 DEF AcmeInv, AcmeTypes
  <1> HIDE DEF s
  <1>11. Knows(p)'
    BY <1>1, <1>2, <1>4, <1>5, <1>10 DEF Publish, Knows, Committed, Driving,
       Accounting, Ordering
  <1>12. UNCHANGED <<issuing, current, issued, lapsed, mishaps, stale>>
    BY DEF Publish, files
  <1> QED BY <1>1, <1>3, <1>4, <1>5, <1>6, <1>7, <1>8, <1>9, <1>11, <1>12, Works

(* The holder writes into the directory of its own transaction.               *)
LEMMA WorkStill ==
  ASSUME AcmeInv, NEW j \in Txs, current # None => current.jti # j,
         NEW w \in [key : 0..MaxKeys, csr : 0..MaxKeys, cert : 0..MaxOrders],
         work' = [work EXCEPT ![j] = w]
  PROVE  /\ work' \in [Txs -> [key : 0..MaxKeys, csr : 0..MaxKeys, cert : 0..MaxOrders]]
         /\ current # None => work'[current.jti] = work[current.jti]
  <1>1. current # None => current.jti \in Txs
    BY DEF AcmeInv, AcmeTypes, AcmeReceipts
  <1> QED BY <1>1, Ranges

LEMMA CleanChallengeI ==
  ASSUME AcmeInv, NEW p \in Procs, CleanChallenge(p)
  PROVE  AcmeInv'
  <1> DEFINE t == proc[p].tx
  <1>1. proc[p].at = "clean" /\ proc[p].at \in Inside
    BY DEF CleanChallenge, IssuerAt, Inside, AcmeSteps, Driving
  <1>2. /\ t \in Journals /\ t # None /\ proc[p] \in Processes /\ Knows(p) /\ Sound(t)
        /\ t.jti \in Txs /\ t.rev \in Txs
        /\ t.acct \in 0..MaxKeys /\ t.order \in 0..MaxOrders
        /\ (t.order # 0 => t.order \in Orders)
    BY <1>1, AcmeInHand
  <1> DEFINE s == t
  <1>3. PICK step \in {"newKey", "csr"} : proc' = [proc EXCEPT ![p] = [at |-> step, tx |-> s]]
    BY GoIs DEF CleanChallenge, TxOf
  <1>4. /\ s \in Journals /\ s.rev = t.rev /\ s.jti = t.jti /\ s.token = t.token /\ s.acct = t.acct
        /\ s.key = t.key /\ s.cert = t.cert /\ s.order = t.order /\ s.token \in {0, s.order}
    BY <1>2 DEF Sound
  <1>5. step \in Inside /\ step # "clear" /\ s # None
    BY <1>4, Bounds DEF Inside, AcmeSteps, Driving, AcmeInv
  <1>6. /\ work' \in [Txs -> [key : 0..MaxKeys, csr : 0..MaxKeys, cert : 0..MaxOrders]]
        /\ current # None => work'[current.jti] = work[current.jti]
    BY Ranges DEF CleanChallenge
  <1>7. /\ account' \in 0..MaxKeys /\ draft' \in 0..MaxKeys /\ known' \subseteq Keys
        /\ \A k \in {0, account, draft} : k \in {0, account', draft'}
        /\ account # 0 => account' = account
        /\ account' # 0 => draft' \in {0, account'}
        /\ known' \subseteq {account', draft'}
    BY Ranges DEF CleanChallenge, authority
  <1>8. /\ order' \in [Orders -> [acct : 0..MaxKeys, status : Statuses, key : 0..MaxKeys]]
        /\ \A o \in Orders : order[o].status = "valid" =>
              order'[o].status = "valid" /\ order'[o].key = order[o].key
        /\ used' \in [tx : 0..MaxTx, order : 0..MaxOrders, key : 0..MaxKeys]
        /\ used'.tx = used.tx
        /\ \A o \in Orders : o > used'.order => order'[o].status = "none"
    BY Ranges DEF CleanChallenge, authority
  <1>9. webroot' \subseteq Orders /\ webroot' \subseteq webroot \cup {s.token}
    BY Ranges DEF CleanChallenge, Cleaned
  <1>10. proc'[p].at = step /\ proc'[p].tx = s
    BY <1>3 DEF AcmeInv, AcmeTypes
  <1> HIDE DEF s
  <1>11. Knows(p)'
    BY <1>1, <1>2, <1>4, <1>5, <1>10 DEF CleanChallenge, Knows, Committed,
       Driving, Accounting, Ordering
  <1>12. UNCHANGED <<issuing, current, issued, lapsed, mishaps, stale>>
    BY DEF CleanChallenge, files
  <1> QED BY <1>1, <1>3, <1>4, <1>5, <1>6, <1>7, <1>8, <1>9, <1>11, <1>12, Works

LEMMA NewKeyI ==
  ASSUME AcmeInv, NEW p \in Procs, NewKey(p)
  PROVE  AcmeInv'
  <1> DEFINE t == proc[p].tx
  <1>1. proc[p].at = "newKey" /\ proc[p].at \in Inside
    BY DEF NewKey, IssuerAt, Inside, AcmeSteps, Driving
  <1>2. /\ t \in Journals /\ t # None /\ proc[p] \in Processes /\ Knows(p) /\ Sound(t)
        /\ t.jti \in Txs /\ t.rev \in Txs
        /\ t.acct \in 0..MaxKeys /\ t.order \in 0..MaxOrders
        /\ (t.order # 0 => t.order \in Orders)
    BY <1>1, AcmeInHand
  <1> DEFINE s == t
  <1>3. proc' = [proc EXCEPT ![p] = [at |-> "newCsr", tx |-> s]]
    BY GoIs DEF NewKey, TxOf
  <1>4. /\ s \in Journals /\ s.rev = t.rev /\ s.jti = t.jti /\ s.token = t.token /\ s.acct = t.acct
        /\ s.key = t.key /\ s.cert = t.cert /\ s.order = t.order /\ s.token \in {0, s.order}
    BY <1>2 DEF Sound
  <1>5. "newCsr" \in Inside /\ s # None
    BY <1>4, Bounds DEF Inside, AcmeSteps, Driving, AcmeInv
  <1>6. /\ work' \in [Txs -> [key : 0..MaxKeys, csr : 0..MaxKeys, cert : 0..MaxOrders]]
        /\ current # None => work'[current.jti] = work[current.jti]
    <2>1. current # None => current.jti # t.jti
      BY <1>1, <1>2 DEF Knows, Committed, Driving
    <2>2. work' = [work EXCEPT ![t.jti] = [work[t.jti] EXCEPT !.key = used.key + 1]]
      BY DEF NewKey, TxOf
    <2>4. used.key < MaxKeys /\ used.key + 1 \in 0..MaxKeys
      BY Ranges, Bounds DEF NewKey, AcmeInv
    <2>5. work[t.jti] \in [key : 0..MaxKeys, csr : 0..MaxKeys, cert : 0..MaxOrders]
      BY <1>2, Ranges
    <2>3. [work[t.jti] EXCEPT !.key = used.key + 1] \in [key : 0..MaxKeys, csr : 0..MaxKeys, cert : 0..MaxOrders]
      BY <2>4, <2>5
    <2> QED BY <1>2, <2>1, <2>2, <2>3, WorkStill
  <1>7. /\ account' \in 0..MaxKeys /\ draft' \in 0..MaxKeys /\ known' \subseteq Keys
        /\ \A k \in {0, account, draft} : k \in {0, account', draft'}
        /\ account # 0 => account' = account
        /\ account' # 0 => draft' \in {0, account'}
        /\ known' \subseteq {account', draft'}
    BY <1>1, <1>2, Ranges, Bounds DEF NewKey, AcmeInv, files, authority
  <1>8. /\ order' \in [Orders -> [acct : 0..MaxKeys, status : Statuses, key : 0..MaxKeys]]
        /\ \A o \in Orders : order[o].status = "valid" =>
              order'[o].status = "valid" /\ order'[o].key = order[o].key
        /\ used' \in [tx : 0..MaxTx, order : 0..MaxOrders, key : 0..MaxKeys]
        /\ used'.tx = used.tx
        /\ \A o \in Orders : o > used'.order => order'[o].status = "none"
    <2>1. order' = order /\ used' = [used EXCEPT !.key = @ + 1] /\ used.key < MaxKeys
      BY DEF NewKey, authority
    <2> QED BY <2>1, Ranges, Bounds DEF AcmeInv
  <1>9. webroot' \subseteq Orders /\ webroot' \subseteq webroot \cup {s.token}
    BY <1>1, <1>2, Ranges, Bounds DEF NewKey, AcmeInv, files, authority
  <1>10. proc'[p].at = "newCsr" /\ proc'[p].tx = s
    BY <1>3 DEF AcmeInv, AcmeTypes
  <1> HIDE DEF s
  <1>11. Knows(p)'
    BY <1>1, <1>2, <1>4, <1>5, <1>10 DEF NewKey, Knows, Committed, Driving,
       Accounting, Ordering
  <1>12. UNCHANGED <<issuing, current, issued, lapsed, mishaps, stale>>
    BY DEF NewKey, files
  <1> QED BY <1>1, <1>3, <1>4, <1>5, <1>6, <1>7, <1>8, <1>9, <1>11, <1>12, Works

LEMMA NewCsrI ==
  ASSUME AcmeInv, NEW p \in Procs, NewCsr(p)
  PROVE  AcmeInv'
  <1> DEFINE t == proc[p].tx
  <1>1. proc[p].at = "newCsr" /\ proc[p].at \in Inside
    BY DEF NewCsr, IssuerAt, Inside, AcmeSteps, Driving
  <1>2. /\ t \in Journals /\ t # None /\ proc[p] \in Processes /\ Knows(p) /\ Sound(t)
        /\ t.jti \in Txs /\ t.rev \in Txs
        /\ t.acct \in 0..MaxKeys /\ t.order \in 0..MaxOrders
        /\ (t.order # 0 => t.order \in Orders)
    BY <1>1, AcmeInHand
  <1> DEFINE s == t
  <1>3. proc' = [proc EXCEPT ![p] = [at |-> "bindCsr", tx |-> s]]
    BY GoIs DEF NewCsr, TxOf
  <1>4. /\ s \in Journals /\ s.rev = t.rev /\ s.jti = t.jti /\ s.token = t.token /\ s.acct = t.acct
        /\ s.key = t.key /\ s.cert = t.cert /\ s.order = t.order /\ s.token \in {0, s.order}
    BY <1>2 DEF Sound
  <1>5. "bindCsr" \in Inside /\ s # None
    BY <1>4, Bounds DEF Inside, AcmeSteps, Driving, AcmeInv
  <1>6. /\ work' \in [Txs -> [key : 0..MaxKeys, csr : 0..MaxKeys, cert : 0..MaxOrders]]
        /\ current # None => work'[current.jti] = work[current.jti]
    <2>1. current # None => current.jti # t.jti
      BY <1>1, <1>2 DEF Knows, Committed, Driving
    <2>2. work' = [work EXCEPT ![t.jti] = [work[t.jti] EXCEPT !.csr = work[t.jti].key]]
      BY DEF NewCsr, TxOf
    <2>3. [work[t.jti] EXCEPT !.csr = work[t.jti].key] \in [key : 0..MaxKeys, csr : 0..MaxKeys, cert : 0..MaxOrders]
      <3>1. work[t.jti] \in [key : 0..MaxKeys, csr : 0..MaxKeys, cert : 0..MaxOrders]
        BY <1>2, Ranges
      <3> QED BY <1>2, <3>1
    <2> QED BY <1>2, <2>1, <2>2, <2>3, WorkStill
  <1>7. /\ account' \in 0..MaxKeys /\ draft' \in 0..MaxKeys /\ known' \subseteq Keys
        /\ \A k \in {0, account, draft} : k \in {0, account', draft'}
        /\ account # 0 => account' = account
        /\ account' # 0 => draft' \in {0, account'}
        /\ known' \subseteq {account', draft'}
    BY <1>1, <1>2, Ranges, Bounds DEF NewCsr, AcmeInv, files, authority
  <1>8. /\ order' \in [Orders -> [acct : 0..MaxKeys, status : Statuses, key : 0..MaxKeys]]
        /\ \A o \in Orders : order[o].status = "valid" =>
              order'[o].status = "valid" /\ order'[o].key = order[o].key
        /\ used' \in [tx : 0..MaxTx, order : 0..MaxOrders, key : 0..MaxKeys]
        /\ used'.tx = used.tx
        /\ \A o \in Orders : o > used'.order => order'[o].status = "none"
    BY <1>1, <1>2, Ranges, Bounds DEF NewCsr, AcmeInv, files, authority
  <1>9. webroot' \subseteq Orders /\ webroot' \subseteq webroot \cup {s.token}
    BY <1>1, <1>2, Ranges, Bounds DEF NewCsr, AcmeInv, files, authority
  <1>10. proc'[p].at = "bindCsr" /\ proc'[p].tx = s
    BY <1>3 DEF AcmeInv, AcmeTypes
  <1> HIDE DEF s
  <1>11. Knows(p)'
    BY <1>1, <1>2, <1>4, <1>5, <1>10 DEF NewCsr, Knows, Committed, Driving,
       Accounting, Ordering
  <1>12. UNCHANGED <<issuing, current, issued, lapsed, mishaps, stale>>
    BY DEF NewCsr, files
  <1> QED BY <1>1, <1>3, <1>4, <1>5, <1>6, <1>7, <1>8, <1>9, <1>11, <1>12, Works

LEMMA FetchI ==
  ASSUME AcmeInv, NEW p \in Procs, Fetch(p)
  PROVE  AcmeInv'
  <1> DEFINE t == proc[p].tx
  <1>1. proc[p].at = "fetch" /\ proc[p].at \in Inside
    BY DEF Fetch, IssuerAt, Inside, AcmeSteps, Driving
  <1>2. /\ t \in Journals /\ t # None /\ proc[p] \in Processes /\ Knows(p) /\ Sound(t)
        /\ t.jti \in Txs /\ t.rev \in Txs
        /\ t.acct \in 0..MaxKeys /\ t.order \in 0..MaxOrders
        /\ (t.order # 0 => t.order \in Orders)
    BY <1>1, AcmeInHand
  <1> DEFINE s == t
  <1>3. proc' = [proc EXCEPT ![p] = [at |-> "bindCert", tx |-> s]]
    BY GoIs DEF Fetch, TxOf
  <1>4. /\ s \in Journals /\ s.rev = t.rev /\ s.jti = t.jti /\ s.token = t.token /\ s.acct = t.acct
        /\ s.key = t.key /\ s.cert = t.cert /\ s.order = t.order /\ s.token \in {0, s.order}
    BY <1>2 DEF Sound
  <1>5. "bindCert" \in Inside /\ s # None
    BY <1>4, Bounds DEF Inside, AcmeSteps, Driving, AcmeInv
  <1>6. /\ work' \in [Txs -> [key : 0..MaxKeys, csr : 0..MaxKeys, cert : 0..MaxOrders]]
        /\ current # None => work'[current.jti] = work[current.jti]
    <2>1. current # None => current.jti # t.jti
      BY <1>1, <1>2 DEF Knows, Committed, Driving
    <2>2. work' = [work EXCEPT ![t.jti] = [work[t.jti] EXCEPT !.cert = t.order]]
      BY DEF Fetch, TxOf
    <2>3. [work[t.jti] EXCEPT !.cert = t.order] \in [key : 0..MaxKeys, csr : 0..MaxKeys, cert : 0..MaxOrders]
      <3>1. work[t.jti] \in [key : 0..MaxKeys, csr : 0..MaxKeys, cert : 0..MaxOrders]
        BY <1>2, Ranges
      <3> QED BY <1>2, <3>1
    <2> QED BY <1>2, <2>1, <2>2, <2>3, WorkStill
  <1>7. /\ account' \in 0..MaxKeys /\ draft' \in 0..MaxKeys /\ known' \subseteq Keys
        /\ \A k \in {0, account, draft} : k \in {0, account', draft'}
        /\ account # 0 => account' = account
        /\ account' # 0 => draft' \in {0, account'}
        /\ known' \subseteq {account', draft'}
    BY <1>1, <1>2, Ranges, Bounds DEF Fetch, AcmeInv, files, authority
  <1>8. /\ order' \in [Orders -> [acct : 0..MaxKeys, status : Statuses, key : 0..MaxKeys]]
        /\ \A o \in Orders : order[o].status = "valid" =>
              order'[o].status = "valid" /\ order'[o].key = order[o].key
        /\ used' \in [tx : 0..MaxTx, order : 0..MaxOrders, key : 0..MaxKeys]
        /\ used'.tx = used.tx
        /\ \A o \in Orders : o > used'.order => order'[o].status = "none"
    BY <1>1, <1>2, Ranges, Bounds DEF Fetch, AcmeInv, files, authority
  <1>9. webroot' \subseteq Orders /\ webroot' \subseteq webroot \cup {s.token}
    BY <1>1, <1>2, Ranges, Bounds DEF Fetch, AcmeInv, files, authority
  <1>10. proc'[p].at = "bindCert" /\ proc'[p].tx = s
    BY <1>3 DEF AcmeInv, AcmeTypes
  <1> HIDE DEF s
  <1>11. Knows(p)'
    <2>1. /\ work' = [work EXCEPT ![t.jti].cert = t.order] /\ order[t.order].status = "valid"
          /\ UNCHANGED <<order, account, current>>
      BY DEF Fetch, TxOf, authority
    <2>2. work'[t.jti].cert = t.order /\ work'[t.jti].key = work[t.jti].key
      BY <1>2, <2>1, Ranges
    <2> QED BY <1>1, <1>2, <1>4, <1>5, <1>10, <2>1, <2>2 DEF Knows, Committed,
               Driving, Accounting, Ordering
  <1>12. UNCHANGED <<issuing, current, issued, lapsed, mishaps, stale>>
    BY DEF Fetch, files
  <1> QED BY <1>1, <1>3, <1>4, <1>5, <1>6, <1>7, <1>8, <1>9, <1>11, <1>12, Works

LEMMA AccountFits ==
  ASSUME AcmeInv, NEW p \in Procs, RestoreAccount(p),
         proc[p].tx.acct # 0
  PROVE  AcmeInv'
  <1> DEFINE t == proc[p].tx
  <1>1. proc[p].at = "account" /\ proc[p].at \in Inside
    BY DEF RestoreAccount, IssuerAt, Inside, AcmeSteps, Driving
  <1>2. /\ t \in Journals /\ t # None /\ proc[p] \in Processes /\ Knows(p) /\ Sound(t)
        /\ t.jti \in Txs /\ t.rev \in Txs
        /\ t.acct \in 0..MaxKeys /\ t.order \in 0..MaxOrders
        /\ (t.order # 0 => t.order \in Orders)
    BY <1>1, AcmeInHand
  <1>3. PICK step \in {"retireDraft"} : IssuerGo(p, step)
    BY DEF RestoreAccount, BindAccount, TxOf
  <1>4. step \in Inside \ {"clear"} /\ step \in Driving
    BY DEF Inside, AcmeSteps, Driving
  <1>5. /\ UNCHANGED <<files, authority, lapsed, stale, used>> /\ mishaps' \in 0..MaxMishaps
        /\ proc'[p].at = step /\ proc'[p].tx = t
    BY <1>4, AcmeGoMoves DEF RestoreAccount, TxOf, files, BindAccount,
       AcmeInv, AcmeTypes, AcmeTypeOK, Inside
  <1>6. Knows(p)'
    BY <1>1, <1>2, <1>5 DEF RestoreAccount, Knows, Committed, TxOf,
       Driving, Ordering
  <1> QED BY <1>1, <1>3, <1>4, <1>5, <1>6, AcmeGoesOn

LEMMA AccountNamed ==
  ASSUME AcmeInv, NEW p \in Procs, RestoreAccount(p),
         proc[p].tx.acct = 0
  PROVE  AcmeInv'
  <1> DEFINE t == proc[p].tx
  <1>1. proc[p].at = "account" /\ proc[p].at \in Inside
    BY DEF RestoreAccount, IssuerAt, Inside, AcmeSteps, Driving
  <1>2. /\ t \in Journals /\ t # None /\ proc[p] \in Processes /\ Knows(p) /\ Sound(t)
        /\ t.jti \in Txs /\ t.rev \in Txs
        /\ t.acct \in 0..MaxKeys /\ t.order \in 0..MaxOrders
        /\ (t.order # 0 => t.order \in Orders)
    BY <1>1, AcmeInHand
  <1> DEFINE s == [t EXCEPT !.acct = account]
  <1>3. Save(p, s, "retireDraft") /\ "retireDraft" \in Inside
    BY DEF RestoreAccount, BindAccount, TxOf, Inside, AcmeSteps, Driving
  <1>4. /\ s \in Journals /\ s.rev = t.rev /\ s.jti = t.jti /\ s.order = t.order
        /\ s.key = t.key /\ s.cert = t.cert /\ s.token = t.token /\ s.acct = account
        /\ s.acct \in {0, account, draft} /\ s.token \in {0, s.order}
    BY <1>2 DEF AcmeInv, AcmeTypes, Sound, Journals, AcmeTypeOK
  <1>5. proc'[p].at = "retireDraft" /\ proc'[p].tx = s /\ s # None
    BY <1>3, <1>4, Bounds DEF Save, AcmeInv, AcmeTypes
  <1> HIDE DEF s
  <1>6. Knows(p)'
    BY <1>1, <1>2, <1>4, <1>5 DEF RestoreAccount, Knows, Committed, Driving,
       Ordering
  <1>7. webroot' \subseteq Orders /\ (~stale => webroot' \subseteq {s.token})
    BY <1>1, <1>4 DEF RestoreAccount, AcmeInv, Published, AcmeTypes, AcmeTypeOK
  <1> QED BY <1>1, <1>3, <1>4, <1>6, <1>7, Saves DEF RestoreAccount, AcmeInv,
             AcmeTypes, AcmeTypeOK, authority

LEMMA RestoreAccountI ==
  ASSUME AcmeInv, NEW p \in Procs, RestoreAccount(p)
  PROVE  AcmeInv'
  BY AccountFits, AccountNamed

LEMMA KeyFits ==
  ASSUME AcmeInv, NEW p \in Procs, BindKey(p),
         proc[p].tx.acct # 0
  PROVE  AcmeInv'
  <1> DEFINE t == proc[p].tx
  <1>1. proc[p].at = "bind" /\ proc[p].at \in Inside
    BY DEF BindKey, IssuerAt, Inside, AcmeSteps, Driving
  <1>2. /\ t \in Journals /\ t # None /\ proc[p] \in Processes /\ Knows(p) /\ Sound(t)
        /\ t.jti \in Txs /\ t.rev \in Txs
        /\ t.acct \in 0..MaxKeys /\ t.order \in 0..MaxOrders
        /\ (t.order # 0 => t.order \in Orders)
    BY <1>1, AcmeInHand
  <1>3. PICK step \in {"register"} : IssuerGo(p, step)
    BY DEF BindKey, BindAccount, TxOf
  <1>4. step \in Inside \ {"clear"} /\ step \in Driving
    BY DEF Inside, AcmeSteps, Driving
  <1>5. /\ UNCHANGED <<files, authority, lapsed, stale, used>> /\ mishaps' \in 0..MaxMishaps
        /\ proc'[p].at = step /\ proc'[p].tx = t
    BY <1>4, AcmeGoMoves DEF BindKey, TxOf, files, BindAccount, AcmeInv,
       AcmeTypes, AcmeTypeOK, Inside
  <1>6. Knows(p)'
    BY <1>1, <1>2, <1>5 DEF BindKey, Knows, Committed, TxOf, Driving,
       Accounting
  <1> QED BY <1>1, <1>3, <1>4, <1>5, <1>6, AcmeGoesOn

LEMMA KeyNamed ==
  ASSUME AcmeInv, NEW p \in Procs, BindKey(p),
         proc[p].tx.acct = 0
  PROVE  AcmeInv'
  <1> DEFINE t == proc[p].tx
  <1>1. proc[p].at = "bind" /\ proc[p].at \in Inside
    BY DEF BindKey, IssuerAt, Inside, AcmeSteps, Driving
  <1>2. /\ t \in Journals /\ t # None /\ proc[p] \in Processes /\ Knows(p) /\ Sound(t)
        /\ t.jti \in Txs /\ t.rev \in Txs
        /\ t.acct \in 0..MaxKeys /\ t.order \in 0..MaxOrders
        /\ (t.order # 0 => t.order \in Orders)
    BY <1>1, AcmeInHand
  <1> DEFINE s == [t EXCEPT !.acct = draft]
  <1>3. Save(p, s, "register") /\ "register" \in Inside
    BY DEF BindKey, BindAccount, TxOf, Inside, AcmeSteps, Driving
  <1>4. /\ s \in Journals /\ s.rev = t.rev /\ s.jti = t.jti /\ s.order = t.order
        /\ s.key = t.key /\ s.cert = t.cert /\ s.token = t.token /\ s.acct = draft
        /\ s.acct \in {0, account, draft} /\ s.token \in {0, s.order}
    BY <1>2 DEF AcmeInv, AcmeTypes, Sound, Journals, AcmeTypeOK
  <1>5. proc'[p].at = "register" /\ proc'[p].tx = s /\ s # None
    BY <1>3, <1>4, Bounds DEF Save, AcmeInv, AcmeTypes
  <1> HIDE DEF s
  <1>6. Knows(p)'
    BY <1>1, <1>2, <1>4, <1>5 DEF BindKey, Knows, Committed, Driving,
       Accounting
  <1>7. webroot' \subseteq Orders /\ (~stale => webroot' \subseteq {s.token})
    BY <1>1, <1>4 DEF BindKey, AcmeInv, Published, AcmeTypes, AcmeTypeOK
  <1> QED BY <1>1, <1>3, <1>4, <1>6, <1>7, Saves DEF BindKey, AcmeInv, AcmeTypes,
             AcmeTypeOK, authority

LEMMA BindKeyI ==
  ASSUME AcmeInv, NEW p \in Procs, BindKey(p)
  PROVE  AcmeInv'
  BY KeyFits, KeyNamed

LEMMA DraftRetired ==
  ASSUME AcmeInv, NEW p \in Procs, RetireDraft(p),
         proc[p].tx.ready
  PROVE  AcmeInv'
  <1> DEFINE t == proc[p].tx
  <1>1. proc[p].at = "retireDraft" /\ proc[p].at \in Inside
    BY DEF RetireDraft, IssuerAt, Inside, AcmeSteps, Driving
  <1>2. /\ t \in Journals /\ t # None /\ proc[p] \in Processes /\ Knows(p) /\ Sound(t)
        /\ t.jti \in Txs /\ t.rev \in Txs
        /\ t.acct \in 0..MaxKeys /\ t.order \in 0..MaxOrders
        /\ (t.order # 0 => t.order \in Orders)
    BY <1>1, AcmeInHand
  <1> DEFINE s == t
  <1>3. proc' = [proc EXCEPT ![p] = [at |-> "order", tx |-> s]]
    BY GoIs DEF RetireDraft, TxOf
  <1>4. /\ s \in Journals /\ s.rev = t.rev /\ s.jti = t.jti /\ s.token = t.token /\ s.acct = t.acct
        /\ s.key = t.key /\ s.cert = t.cert /\ s.order = t.order /\ s.token \in {0, s.order}
    BY <1>2 DEF Sound
  <1>5. "order" \in Inside /\ s # None
    BY <1>4, Bounds DEF Inside, AcmeSteps, Driving, AcmeInv
  <1>6. /\ work' \in [Txs -> [key : 0..MaxKeys, csr : 0..MaxKeys, cert : 0..MaxOrders]]
        /\ current # None => work'[current.jti] = work[current.jti]
    BY Ranges DEF RetireDraft
  <1>7. /\ account' \in 0..MaxKeys /\ draft' \in 0..MaxKeys /\ known' \subseteq Keys
        /\ \A k \in {0, account, draft} : k \in {0, account', draft'}
        /\ account # 0 => account' = account
        /\ account' # 0 => draft' \in {0, account'}
        /\ known' \subseteq {account', draft'}
    <2>1. account # 0 /\ t.acct = account
      BY <1>1, <1>2 DEF Knows, Driving, Accounting
    <2>2. draft' = 0 /\ known' = known /\ account' = account
      BY DEF RetireDraft, authority
    <2> QED BY <2>1, <2>2, Ranges, Bounds DEF AcmeInv
  <1>8. /\ order' \in [Orders -> [acct : 0..MaxKeys, status : Statuses, key : 0..MaxKeys]]
        /\ \A o \in Orders : order[o].status = "valid" =>
              order'[o].status = "valid" /\ order'[o].key = order[o].key
        /\ used' \in [tx : 0..MaxTx, order : 0..MaxOrders, key : 0..MaxKeys]
        /\ used'.tx = used.tx
        /\ \A o \in Orders : o > used'.order => order'[o].status = "none"
    BY Ranges DEF RetireDraft, authority
  <1>9. webroot' \subseteq Orders /\ webroot' \subseteq webroot \cup {s.token}
    BY Ranges DEF RetireDraft
  <1>10. proc'[p].at = "order" /\ proc'[p].tx = s
    BY <1>3 DEF AcmeInv, AcmeTypes
  <1> HIDE DEF s
  <1>11. Knows(p)'
    BY <1>1, <1>2, <1>4, <1>5, <1>10 DEF RetireDraft, Knows, Committed,
       Driving, Accounting, Ordering
  <1>12. UNCHANGED <<issuing, current, issued, lapsed, mishaps, stale>>
    BY DEF RetireDraft, TxOf, files
  <1> QED BY <1>1, <1>3, <1>4, <1>5, <1>6, <1>7, <1>8, <1>9, <1>11, <1>12, Works

LEMMA AccountReady ==
  ASSUME AcmeInv, NEW p \in Procs, RetireDraft(p),
         ~proc[p].tx.ready
  PROVE  AcmeInv'
  <1> DEFINE t == proc[p].tx
  <1>1. proc[p].at = "retireDraft" /\ proc[p].at \in Inside
    BY DEF RetireDraft, IssuerAt, Inside, AcmeSteps, Driving
  <1>2. /\ t \in Journals /\ t # None /\ proc[p] \in Processes /\ Knows(p) /\ Sound(t)
        /\ t.jti \in Txs /\ t.rev \in Txs
        /\ t.acct \in 0..MaxKeys /\ t.order \in 0..MaxOrders
        /\ (t.order # 0 => t.order \in Orders)
    BY <1>1, AcmeInHand
  <1> DEFINE s == [t EXCEPT !.ready = TRUE]
  <1>3. Save(p, s, "order") /\ "order" \in Inside
    BY DEF RetireDraft, TxOf, Inside, AcmeSteps, Driving
  <1>4. /\ s \in Journals /\ s.rev = t.rev /\ s.jti = t.jti /\ s.order = t.order
        /\ s.key = t.key /\ s.cert = t.cert /\ s.token = t.token /\ s.acct = t.acct
        /\ s.acct \in {0, account, draft} /\ s.token \in {0, s.order}
    BY <1>2 DEF Sound, Journals
  <1>5. proc'[p].at = "order" /\ proc'[p].tx = s /\ s # None
    BY <1>3, <1>4, Bounds DEF Save, AcmeInv, AcmeTypes
  <1> HIDE DEF s
  <1>6. Knows(p)'
    BY <1>1, <1>2, <1>4, <1>5 DEF RetireDraft, Knows, Committed, Driving,
       Accounting, Ordering
  <1>7. webroot' \subseteq Orders /\ (~stale => webroot' \subseteq {s.token})
    BY <1>1, <1>4 DEF RetireDraft, AcmeInv, Published, AcmeTypes, AcmeTypeOK
  <1>8. account # 0 /\ account' = account /\ draft' = 0 /\ order' = order /\ mishaps' \in 0..MaxMishaps
        /\ UNCHANGED <<current, issued, work, known, lapsed, stale, used>>
    BY <1>1 DEF RetireDraft, Knows, Driving, Accounting, authority, AcmeInv,
       AcmeTypes, AcmeTypeOK
  <1> QED BY <1>8, Ranges, <1>1, <1>3, <1>4, <1>6, <1>7, Saves

LEMMA RetireDraftI ==
  ASSUME AcmeInv, NEW p \in Procs, RetireDraft(p)
  PROVE  AcmeInv'
  BY DraftRetired, AccountReady

LEMMA OrderWaits ==
  ASSUME AcmeInv, NEW p \in Procs, FinalizeOrder(p),
         order[proc[p].tx.order].status # "ready"
  PROVE  AcmeInv'
  <1> DEFINE t == proc[p].tx
  <1>1. proc[p].at = "finalize" /\ proc[p].at \in Inside
    BY DEF FinalizeOrder, IssuerAt, Inside, AcmeSteps, Driving
  <1>2. /\ t \in Journals /\ t # None /\ proc[p] \in Processes /\ Knows(p) /\ Sound(t)
        /\ t.jti \in Txs /\ t.rev \in Txs
        /\ t.acct \in 0..MaxKeys /\ t.order \in 0..MaxOrders
        /\ (t.order # 0 => t.order \in Orders)
    BY <1>1, AcmeInHand
  <1>3. PICK step \in {"fetch"} : IssuerGo(p, step)
    BY DEF FinalizeOrder, TxOf
  <1>4. step \in Inside \ {"clear"} /\ step \in Driving
    BY DEF Inside, AcmeSteps, Driving
  <1>5. /\ UNCHANGED <<files, authority, lapsed, stale, used>> /\ mishaps' \in 0..MaxMishaps
        /\ proc'[p].at = step /\ proc'[p].tx = t
    BY <1>4, AcmeGoMoves DEF FinalizeOrder, TxOf, authority, files, AcmeInv,
       AcmeTypes, AcmeTypeOK, Inside
  <1>6. Knows(p)'
    BY <1>1, <1>2, <1>5 DEF FinalizeOrder, Knows, Committed, Driving, Accounting,
       Ordering
  <1> QED BY <1>1, <1>3, <1>4, <1>5, <1>6, AcmeGoesOn

LEMMA OrderSent ==
  ASSUME AcmeInv, NEW p \in Procs, FinalizeOrder(p),
         order[proc[p].tx.order].status = "ready"
  PROVE  AcmeInv'
  <1> DEFINE t == proc[p].tx
  <1>1. proc[p].at = "finalize" /\ proc[p].at \in Inside
    BY DEF FinalizeOrder, IssuerAt, Inside, AcmeSteps, Driving
  <1>2. /\ t \in Journals /\ t # None /\ proc[p] \in Processes /\ Knows(p) /\ Sound(t)
        /\ t.jti \in Txs /\ t.rev \in Txs
        /\ t.acct \in 0..MaxKeys /\ t.order \in 0..MaxOrders
        /\ (t.order # 0 => t.order \in Orders)
    BY <1>1, AcmeInHand
  <1> DEFINE s == t
  <1>3. Save(p, s, "fetch") /\ "fetch" \in Inside
    BY DEF FinalizeOrder, TxOf, Inside, AcmeSteps, Driving
  <1>4. /\ s \in Journals /\ s.rev = t.rev /\ s.jti = t.jti /\ s.order = t.order
        /\ s.key = t.key /\ s.cert = t.cert /\ s.token = t.token /\ s.acct = t.acct
        /\ s.acct \in {0, account, draft} /\ s.token \in {0, s.order}
    BY <1>2 DEF Sound
  <1>5. proc'[p].at = "fetch" /\ proc'[p].tx = s /\ s # None
    BY <1>3, <1>4, Bounds DEF Save, AcmeInv, AcmeTypes
  <1> HIDE DEF s
  <1>6. Knows(p)'
    BY <1>1, <1>2, <1>4, <1>5 DEF FinalizeOrder, Knows, Committed, Driving,
       Accounting, Ordering
  <1>7. webroot' \subseteq Orders /\ (~stale => webroot' \subseteq {s.token})
    BY <1>1, <1>4 DEF FinalizeOrder, AcmeInv, Published, AcmeTypes, AcmeTypeOK
  <1>8. /\ t.order \in Orders /\ account' = account /\ draft' = draft /\ mishaps' = mishaps
        /\ UNCHANGED <<current, issued, work, known, lapsed, stale, used>>
    BY <1>1, <1>2 DEF FinalizeOrder, Knows, Driving, Accounting, Ordering
  <1>9. /\ order' \in [Orders -> [acct : 0..MaxKeys, status : Statuses, key : 0..MaxKeys]]
        /\ \A o \in Orders : order[o].status = "valid" =>
              order'[o].status = "valid" /\ order'[o].key = order[o].key
        /\ \A o \in Orders : order[o].status = "none" => order'[o].status = "none"
    <2>1. order' = [order EXCEPT ![t.order] = [order[t.order] EXCEPT !.status = "processing",
                                                                  !.key = work[t.jti].csr]]
      BY <1>8, Ranges DEF FinalizeOrder, TxOf
    <2>2. work[t.jti].csr \in 0..MaxKeys /\ order[t.order].status = "ready"
      BY <1>2, Ranges
    <2>3. [order[t.order] EXCEPT !.status = "processing", !.key = work[t.jti].csr]
            \in [acct : 0..MaxKeys, status : Statuses, key : 0..MaxKeys]
      <3>1. /\ order[t.order] \in [acct : 0..MaxKeys, status : Statuses, key : 0..MaxKeys]
            /\ "processing" \in Statuses
        BY <1>8, Ranges DEF Statuses
      <3> QED BY <2>2, <3>1
    <2> QED BY <1>8, <2>1, <2>2, <2>3, Ranges
  <1>10. mishaps \in 0..MaxMishaps
    BY DEF AcmeInv, AcmeTypes, AcmeTypeOK
  <1> QED BY <1>8, <1>9, <1>10, Ranges, <1>1, <1>3, <1>4, <1>6, <1>7, Saves

LEMMA FinalizeI ==
  ASSUME AcmeInv, NEW p \in Procs, FinalizeOrder(p)
  PROVE  AcmeInv'
  BY OrderWaits, OrderSent

LEMMA FailI ==
  ASSUME AcmeInv, NEW p \in Procs, Fail(p)
  PROVE  AcmeInv'
  <1> DEFINE t == proc[p].tx
  <1>1. proc[p].at \in Driving /\ proc[p].at \in Inside /\ proc[p].at # "idle"
    BY StepNames DEF Fail
  <1>2. t \in Journals /\ t # None /\ Sound(t)
    BY <1>1, AcmeInHand
  <1>3. Save(p, t, "unpublish") /\ "unpublish" \in Inside
    BY StepNames DEF Fail, TxOf
  <1>4. t.acct \in {0, account, draft} /\ t.token \in {0, t.order}
    BY <1>2 DEF Sound
  <1>5. proc'[p].at = "unpublish" /\ proc'[p].tx = t
    BY <1>3 DEF Save, AcmeInv, AcmeTypes
  <1>6. Knows(p)'
    BY <1>2, <1>5, StepNames DEF Knows, Accounting, Ordering
  <1>7. /\ UNCHANGED <<current, issued, work, account, draft, webroot, authority, lapsed, used, stale>>
        /\ mishaps' \in 0..MaxMishaps
    BY Bounds DEF Fail, AcmeInv, AcmeTypes, AcmeTypeOK
  <1>8. ~stale => webroot \subseteq {t.token}
    BY <1>1, StepNames DEF AcmeInv, Published, Inside
  <1> QED BY <1>1, <1>2, <1>3, <1>4, <1>6, <1>7, <1>8, Ranges, Saves DEF authority

LEMMA AbortI ==
  ASSUME AcmeInv, NEW p \in Procs, Abort(p)
  PROVE  AcmeInv'
  <1> DEFINE t == proc[p].tx
  <1>1. proc[p].at = "abort" /\ proc[p].at \in Inside /\ proc[p].at # "idle"
    BY StepNames DEF Abort, IssuerAt
  <1>2. t \in Journals /\ t # None /\ Sound(t)
    BY <1>1, AcmeInHand
  <1>3. Save(p, t, "clear") /\ "clear" \in Inside
    BY StepNames DEF Abort, TxOf
  <1>4. t.acct \in {0, account, draft} /\ t.token \in {0, t.order}
    BY <1>2 DEF Sound
  <1>5. proc'[p].at = "clear" /\ proc'[p].tx = t
    BY <1>3 DEF Save, AcmeInv, AcmeTypes
  <1>6. Knows(p)'
    BY <1>2, <1>5, StepNames DEF Knows, Accounting, Ordering
  <1>7. /\ UNCHANGED <<current, issued, work, account, draft, authority, lapsed, used, mishaps, stale>>
        /\ mishaps \in 0..MaxMishaps /\ webroot' = webroot \ {t.token}
    BY Bounds DEF Abort, AcmeInv, AcmeTypes, AcmeTypeOK, Cleaned, TxOf
  <1>8. ~stale => webroot \subseteq {t.token}
    BY <1>1, StepNames DEF AcmeInv, Published, Inside
  <1> QED BY <1>1, <1>2, <1>3, <1>4, <1>6, <1>7, <1>8, Ranges, Saves DEF authority

(* A process ends, or gives up.                                               *)
LEMMA AcmeEnds ==
  ASSUME AcmeInv, NEW p \in Procs, proc' = [proc EXCEPT ![p] = IdleIssuer],
         UNCHANGED <<current, issued, work, account, draft, authority, lapsed, used, stale>>,
         issuing' \in {issuing, None}, webroot' \subseteq webroot, mishaps' \in 0..MaxMishaps,
         proc[p].at \in Inside \/ UNCHANGED <<issuing, webroot>>,
         ~stale => webroot' \subseteq IF issuing' = None THEN {} ELSE {issuing'.token}
  PROVE  AcmeInv'
  <1>1. /\ proc' \in [Procs -> Processes] /\ proc'[p].at = "idle" /\ proc'[p].tx = None
        /\ \A q \in Procs : q # p => proc'[q] = proc[q]
    BY EndMoves DEF AcmeInv
  <1>2. AcmeTypes'
    BY <1>1, Typed, Ranges DEF AcmeInv, AcmeTypes, AcmeTypeOK, authority
  <1>3. Accounted'
    BY Ranges DEF Accounted, authority
  <1>4. Numbered'
    <2>1. Sound(issuing)' /\ Sound(proc[p].tx)'
      BY <1>1 DEF AcmeInv, Numbered, Sound, Issued
    <2> QED BY <1>1, <2>1, StillNumbered DEF authority
  <1>5. Receipted'
    BY StillReceipted DEF authority
  <1>6. OneHolder'
    BY <1>1 DEF AcmeInv, OneHolder
  <1>7. ASSUME NEW q \in Procs PROVE Knows(q)'
    <2>1. CASE q = p
      BY <1>1, <2>1 DEF Knows, Driving, Accounting
    <2>2. CASE q # p
      <3>1. Knows(q) /\ proc'[q] = proc[q]
        BY <1>1, <2>2 DEF AcmeInv
      <3> QED BY <3>1 DEF Knows, Committed, authority
    <2> QED BY <2>1, <2>2
  <1>8. Published'
    <2>1. CASE proc[p].at \in Inside
      <3>1. \A q \in Procs : q # p => proc'[q].at \in {"idle", "lock"}
        BY <1>1, <2>1, OthersKnow
      <3> QED BY <1>1, <3>1 DEF Published
    <2>2. CASE UNCHANGED <<issuing, webroot>>
      BY <1>1, <2>2 DEF AcmeInv, Published
    <2> QED BY <2>1, <2>2
  <1> QED BY <1>2, <1>3, <1>4, <1>5, <1>6, <1>7, <1>8 DEF AcmeInv

LEMMA LockBusyI ==
  ASSUME AcmeInv, NEW p \in Procs, LockBusy(p)
  PROVE  AcmeInv'
  <1>1. /\ proc' = [proc EXCEPT ![p] = IdleIssuer] /\ mishaps' = mishaps /\ mishaps \in 0..MaxMishaps
        /\ UNCHANGED <<issuing, current, issued, work, account, draft, webroot, authority,
                       lapsed, used, stale>>
    BY DEF LockBusy, files, AcmeInv, AcmeTypes, AcmeTypeOK
  <1>2. ~stale => webroot' \subseteq IF issuing' = None THEN {} ELSE {issuing'.token}
    BY <1>1 DEF AcmeInv, Published
  <1> QED BY <1>1, <1>2, AcmeEnds

LEMMA KillI ==
  ASSUME AcmeInv, NEW p \in Procs, KillIssuer(p)
  PROVE  AcmeInv'
  <1>1. /\ proc' = [proc EXCEPT ![p] = IdleIssuer] /\ mishaps' \in 0..MaxMishaps
        /\ UNCHANGED <<issuing, current, issued, work, account, draft, webroot, authority,
                       lapsed, used, stale>>
    BY Bounds DEF KillIssuer, files, AcmeInv, AcmeTypes, AcmeTypeOK
  <1>2. ~stale => webroot' \subseteq IF issuing' = None THEN {} ELSE {issuing'.token}
    BY <1>1 DEF AcmeInv, Published
  <1> QED BY <1>1, <1>2, AcmeEnds

LEMMA UnpublishI ==
  ASSUME AcmeInv, NEW p \in Procs, Unpublish(p)
  PROVE  AcmeInv'
  <1>1. proc[p].at \in Inside
    BY StepNames DEF Unpublish, IssuerAt
  <1>2. /\ proc' = [proc EXCEPT ![p] = IdleIssuer] /\ mishaps' = mishaps /\ mishaps \in 0..MaxMishaps
        /\ webroot' \subseteq webroot /\ issuing' = issuing
        /\ UNCHANGED <<current, issued, work, account, draft, authority, lapsed, used, stale>>
    BY DEF Unpublish, Cleaned, AcmeInv, AcmeTypes, AcmeTypeOK
  <1>3. ~stale => webroot' \subseteq IF issuing' = None THEN {} ELSE {issuing'.token}
    BY <1>2 DEF AcmeInv, Published
  <1> QED BY <1>1, <1>2, <1>3, AcmeEnds

(* cleanup_challenge, then the journal goes.                                  *)
LEMMA RetireI ==
  ASSUME AcmeInv, NEW p \in Procs, Retire(p)
  PROVE  AcmeInv'
  <1> DEFINE t == proc[p].tx
  <1>1. proc[p].at \in Inside /\ proc[p].at # "idle" /\ proc[p].at \in {"retire", "clear"}
    BY StepNames DEF Retire, IssuerAt
  <1>2. t \in Journals /\ t # None /\ Sound(t)
    BY <1>1, AcmeInHand
  <1>3. /\ mishaps' = mishaps /\ mishaps \in 0..MaxMishaps /\ "clear" \in Inside
        /\ UNCHANGED <<current, issued, work, account, draft, authority, lapsed, used, stale>>
    BY StepNames DEF Retire, AcmeInv, AcmeTypes, AcmeTypeOK
  <1>4. CASE IssuerAt(p, "retire")
    <2>1. /\ webroot' = webroot \ {t.token} /\ issuing' = issuing
          /\ proc' = [proc EXCEPT ![p] = [at |-> "clear", tx |-> t]]
      BY <1>4, GoIs DEF Retire, Cleaned, TxOf
    <2>2. proc'[p].at = "clear" /\ proc'[p].tx = t
      BY <2>1 DEF AcmeInv, AcmeTypes
    <2>3. Knows(p)'
      BY <1>2, <2>2, StepNames DEF Knows, Accounting, Ordering
    <2>4. t.token \in {0, t.order}
      BY <1>2 DEF Sound
    <2> QED BY <1>1, <1>2, <1>3, <2>1, <2>3, <2>4, Ranges, Works DEF authority
  <1>5. CASE ~IssuerAt(p, "retire")
    <2>1. /\ proc[p].at = "clear" /\ webroot' = webroot /\ issuing' = None
          /\ proc' = [proc EXCEPT ![p] = IdleIssuer]
      BY <1>1, <1>5 DEF Retire, IssuerAt
    <2>2. ~stale => webroot = {}
      BY <2>1 DEF AcmeInv, Published
    <2> QED BY <1>1, <1>3, <2>1, <2>2, AcmeEnds
  <1> QED BY <1>4, <1>5

(* recover reads the journal.                                                 *)
LEMMA RecoverLoadI ==
  ASSUME AcmeInv, NEW p \in Procs, RecoverLoad(p)
  PROVE  AcmeInv'
  <1>1. /\ proc[p] = IdleIssuer /\ issuing \in Journals /\ issuing # None /\ Sound(issuing)
        /\ UNCHANGED <<issuing, current, issued, work, account, draft, webroot, order, known,
                       lapsed, used, mishaps, stale>>
    BY DEF RecoverLoad, files, authority, AcmeInv, AcmeTypes, AcmeTypeOK,
       Numbered
  <1>2. /\ proc' \in [Procs -> Processes] /\ proc'[p].at = "lock" /\ proc'[p].tx = issuing
        /\ \A q \in Procs : q # p => proc'[q] = proc[q]
    BY <1>1, SaveMoves, StepNames DEF RecoverLoad, AcmeInv
  <1>3. AcmeTypes'
    BY <1>1, <1>2, Typed, Ranges DEF AcmeInv, AcmeTypes, AcmeTypeOK
  <1>4. Accounted'
    BY <1>1, Ranges DEF Accounted
  <1>5. Numbered'
    <2>1. Sound(issuing)' /\ Sound(proc[p].tx)'
      BY <1>1, <1>2 DEF Sound, Issued
    <2> QED BY <1>1, <1>2, <2>1, StillNumbered
  <1>6. Receipted'
    BY <1>1, StillReceipted
  <1>7. OneHolder'
    BY <1>2 DEF AcmeInv, OneHolder
  <1>8. ASSUME NEW q \in Procs PROVE Knows(q)'
    <2>1. CASE q = p
      BY <1>1, <1>2, <2>1, StepNames DEF Knows, Accounting, Ordering
    <2>2. CASE q # p
      <3>1. Knows(q) /\ proc'[q] = proc[q]
        BY <1>2, <2>2 DEF AcmeInv
      <3> QED BY <1>1, <3>1 DEF Knows, Committed
    <2> QED BY <2>1, <2>2
  <1>9. Published'
    BY <1>1, <1>2 DEF AcmeInv, Published
  <1> QED BY <1>3, <1>4, <1>5, <1>6, <1>7, <1>8, <1>9 DEF AcmeInv

(* A process enters the section while no other is in it.                      *)
LEMMA Enters ==
  ASSUME AcmeInv, NEW p \in Procs, LockFree, NEW step \in Inside, NEW t \in Journals,
         proc' = [proc EXCEPT ![p] = [at |-> step, tx |-> t]],
         AcmeTypes', Numbered', Accounted', Receipted', Knows(p)', t # None,
         UNCHANGED <<account, draft, order, work>>,
         ~stale' => /\ webroot' \subseteq IF issuing' = None THEN {} ELSE {issuing'.token}
                    /\ issuing' # None /\ issuing'.token = t.token
                    /\ step = "clear" => webroot' = {}
  PROVE  AcmeInv'
  <1>1. /\ proc'[p].at = step /\ proc'[p].tx = t
        /\ \A q \in Procs : q # p => proc'[q] = proc[q]
    BY SaveMoves, StepNames DEF AcmeInv
  <1>2. \A q \in Procs : q # p => proc'[q].at \in {"idle", "lock"}
    BY <1>1 DEF LockFree
  <1>3. OneHolder'
    BY <1>2 DEF OneHolder
  <1>4. ASSUME NEW q \in Procs PROVE Knows(q)'
    <2>1. CASE q = p
      BY <2>1
    <2>2. CASE q # p
      <3>1. Knows(q) /\ proc'[q] = proc[q] /\ proc'[q].at \in {"idle", "lock"}
        BY <1>1, <1>2, <2>2 DEF AcmeInv
      <3> QED BY <3>1, StepNames DEF Knows, Accounting, Ordering
    <2> QED BY <2>1, <2>2
  <1>5. Published'
    BY <1>1, <1>2 DEF Published
  <1> QED BY <1>3, <1>4, <1>5 DEF AcmeInv

(* issue: a transaction with the next number.                                 *)
LEMMA IssueI ==
  ASSUME AcmeInv, NEW p \in Procs, Issue(p)
  PROVE  AcmeInv'
  <1> DEFINE new == [jti |-> used.tx + 1, rev |-> RevisionOf(current) + 1, acct |-> 0,
                     order |-> 0, token |-> 0, key |-> 0, cert |-> 0, ready |-> FALSE]
  <1>1. /\ proc[p] = IdleIssuer /\ LockFree /\ issuing = None /\ used.tx < MaxTx /\ Save(p, new, "account")
        /\ used' = [used EXCEPT !.tx = @ + 1]
        /\ UNCHANGED <<current, issued, work, account, draft, webroot, order, known,
                       lapsed, mishaps, stale>>
    BY DEF Issue, authority
  <1>2. used.tx + 1 \in 1..MaxTx /\ used'.tx = used.tx + 1 /\ used'.order = used.order
    BY <1>1, Ranges, Bounds DEF AcmeInv
  <1>3. RevisionOf(current) \in 0..used.tx
    <2>1. CASE current = None
      BY <2>1, Ranges, Bounds DEF RevisionOf, AcmeInv
    <2>2. CASE current # None
      <3>1. Issued(current) /\ current.rev \in 1..MaxTx /\ current.jti \in 1..MaxTx
        BY <2>2 DEF AcmeInv, Numbered, AcmeTypes, AcmeReceipts, Txs
      <3> QED BY <2>2, <3>1, Ranges, Bounds DEF RevisionOf, Issued, AcmeInv
    <2> QED BY <2>1, <2>2
  <1>4. PICK t \in Journals : /\ t = new /\ t.acct = 0 /\ t.token = 0 /\ t.order = 0
                              /\ t.jti = used.tx + 1 /\ t.rev \in 1..(used.tx + 1)
    <2>1. RevisionOf(current) + 1 \in 1..MaxTx /\ RevisionOf(current) + 1 \in 1..(used.tx + 1)
      BY <1>2, <1>3, Ranges, Bounds DEF AcmeInv
    <2>2. 0 \in 0..MaxKeys /\ 0 \in 0..MaxOrders
      BY Bounds DEF AcmeInv
    <2>3. new \in Journals
      BY <1>2, <2>1, <2>2 DEF Journals, Txs
    <2> QED BY <2>1, <2>3
  <1> HIDE DEF new
  <1>5. issuing' = t /\ proc' = [proc EXCEPT ![p] = [at |-> "account", tx |-> t]]
    BY <1>1, <1>4 DEF Save
  <1>6. /\ proc' \in [Procs -> Processes] /\ proc'[p].at = "account" /\ proc'[p].tx = t
        /\ \A q \in Procs : q # p => proc'[q] = proc[q]
    <2>1. AcmeTypes /\ "account" \in AcmeSteps
      BY DEF AcmeInv, AcmeSteps, Driving
    <2> QED BY <1>4, <1>5, <2>1, SaveMoves
  <1>7. AcmeTypes'
    <2>1. used' \in [tx : 0..MaxTx, order : 0..MaxOrders, key : 0..MaxKeys]
      BY <1>1, <1>2, Ranges, Bounds DEF AcmeInv
    <2> QED BY <1>1, <1>5, <1>6, <2>1 DEF AcmeInv, AcmeTypes, AcmeTypeOK
  <1>8. \A x : Issued(x) /\ (x # None => x.jti \in Nat) => Issued(x)'
    BY <1>2, Ranges, Bounds DEF Issued, AcmeInv
  <1>9. Numbered'
    <2>1. \A x \in AcmeReceipts : x.jti \in Nat
      BY Bounds DEF AcmeReceipts, AcmeInv
    <2>2. Issued(current)' /\ \A r \in Txs : Issued(issued[r])'
      BY <1>1, <1>8, <2>1 DEF AcmeInv, Numbered, AcmeTypes
    <2>3. Sound(t)'
      BY <1>2, <1>4, Ranges, Bounds DEF Sound, Issued, AcmeInv
    <2>4. ASSUME NEW q \in Procs PROVE Sound(proc[q].tx)'
      <3>1. CASE q = p
        BY <1>6, <2>3, <3>1
      <3>2. CASE q # p
        <4>1. Sound(proc[q].tx) /\ proc'[q] = proc[q] /\ proc[q].tx \in Journals \cup {None}
          BY <1>6, <3>2 DEF AcmeInv, Numbered, AcmeTypes, Processes
        <4>2. proc[q].tx # None => proc[q].tx.jti \in Nat
          BY <4>1, Bounds DEF Journals, AcmeInv
        <4> QED BY <1>1, <1>8, <4>1, <4>2 DEF Sound
      <3> QED BY <3>1, <3>2
    <2>5. \A o \in Orders : o > used'.order => order'[o].status = "none"
      BY <1>1, <1>2, Ranges
    <2> QED BY <1>5, <2>2, <2>3, <2>4, <2>5 DEF Numbered
  <1>10. Accounted'
    BY <1>1, Ranges DEF Accounted
  <1>11. Receipted'
    BY <1>1, StillReceipted
  <1>12. Knows(p)'
    <2>1. current # None => current.jti # t.jti
      BY <1>4, Ranges DEF AcmeInv, Numbered, Issued
    <2>2. t # None
      BY <1>4, Bounds DEF AcmeInv
    <2> QED BY <1>1, <1>6, <2>1, <2>2 DEF Knows, Committed, Accounting
  <1>13. ~stale => webroot = {}
    BY <1>1 DEF AcmeInv, Published
  <1>14. t # None /\ "account" \in Inside
    BY <1>4, Bounds DEF AcmeInv, Inside, AcmeSteps, Driving
  <1> QED BY <1>1, <1>5, <1>7, <1>9, <1>10, <1>11, <1>12, <1>13, <1>14, Enters

(* recover under the lock.                                                    *)
LEMMA RecoverLockedI ==
  ASSUME AcmeInv, NEW p \in Procs, RecoverLocked(p)
  PROVE  AcmeInv'
  <1> DEFINE t == proc[p].tx
             conflict == \/ Committed(t) /\ ~Matches(current, t)
                         \/ ~Committed(t) /\ RevisionOf(current) + 1 # t.rev
                         \/ /\ ~Committed(t) /\ issued[t.rev] # None
                            /\ ~Matches(issued[t.rev], t)
             archived == ~Committed(t) /\ issued[t.rev] # None
  <1>1. /\ proc[p].at = "lock" /\ LockFree
        /\ conflict => proc' = [proc EXCEPT ![p] = IdleIssuer]
        /\ ~conflict => IssuerGo(p, CASE Committed(t) \/ archived -> "retire"
                             [] t.jti \in lapsed /\ ~Committed(t) /\ ~archived -> "abort"
                             [] OTHER -> "account")
        /\ current' = IF archived /\ ~conflict THEN issued[t.rev] ELSE current
        /\ stale' = (stale \/ (~conflict /\ issuing # t))
        /\ UNCHANGED <<issuing, issued, work, account, draft, webroot, order, known,
                       lapsed, used, mishaps>>
    BY DEF RecoverLocked, IssuerAt, TxOf, authority
  <1>2. t \in Journals /\ t # None /\ Sound(t) /\ t.rev \in Txs
    BY <1>1, AcmeInHand
  <1>3. mishaps \in 0..MaxMishaps /\ stale \in BOOLEAN
    BY DEF AcmeInv, AcmeTypes, AcmeTypeOK
  <1>4. CASE conflict
    <2>1. proc' = [proc EXCEPT ![p] = IdleIssuer] /\ current' = current /\ stale' = stale
      BY <1>1, <1>3, <1>4
    <2>2. ~stale => webroot \subseteq IF issuing = None THEN {} ELSE {issuing.token}
      BY DEF AcmeInv, Published
    <2> QED BY <1>1, <1>3, <2>1, <2>2, AcmeEnds DEF authority
  <1>5. CASE ~conflict
    <2> DEFINE step == CASE Committed(t) \/ archived -> "retire"
                         [] t.jti \in lapsed /\ ~Committed(t) /\ ~archived -> "abort"
                         [] OTHER -> "account"
    <2>1. step \in {"retire", "abort", "account"} /\ (step = "account" => ~Committed(t) /\ ~archived)
      OBVIOUS
    <2>2. IssuerGo(p, step)
      BY <1>1, <1>5
    <2>3. /\ current' = IF archived THEN issued[t.rev] ELSE current
          /\ stale' = (stale \/ issuing # t)
      BY <1>1, <1>5
    <2>4. archived => Matches(issued[t.rev], t)
      BY <1>5
    <2> HIDE DEF step, conflict
    <2>5. proc' = [proc EXCEPT ![p] = [at |-> step, tx |-> t]]
      BY <2>2, GoIs
    <2>6. step \in Inside /\ step # "clear"
      BY <2>1 DEF Inside, AcmeSteps, Driving
    <2>7. /\ proc' \in [Procs -> Processes] /\ proc'[p].at = step /\ proc'[p].tx = t
          /\ \A q \in Procs : q # p => proc'[q] = proc[q]
      BY <1>2, <2>5, <2>6, SaveMoves DEF AcmeInv, Inside
    <2>8. /\ issued[t.rev] \in AcmeReceipts \cup {None} /\ Issued(issued[t.rev])
          /\ Kept(issued[t.rev])
      BY <1>2 DEF AcmeInv, AcmeTypes, Numbered, Receipted
    <2>9. AcmeTypes'
      <3>1. current' \in AcmeReceipts \cup {None}
        BY <2>3, <2>8 DEF AcmeInv, AcmeTypes
      <3> QED BY <1>1, <2>7, <3>1 DEF AcmeInv, AcmeTypes, AcmeTypeOK
    <2>10. Numbered'
      <3>1. Issued(current)' /\ (\A r \in Txs : Issued(issued[r])') /\ Sound(issuing)'
        BY <1>1, <2>3, <2>8 DEF AcmeInv, Numbered, Issued, Sound
      <3>2. ASSUME NEW q \in Procs PROVE Sound(proc[q].tx)'
        <4>1. Sound(proc[q].tx) /\ proc'[q].tx = proc[q].tx
          BY <2>7 DEF AcmeInv, Numbered
        <4> QED BY <1>1, <4>1 DEF Sound, Issued
      <3> QED BY <1>1, <3>1, <3>2 DEF AcmeInv, Numbered
    <2>11. Accounted'
      BY <1>1, Ranges DEF Accounted
    <2>12. Receipted'
      <3>1. \A x : Kept(x) => Kept(x)'
        BY <1>1 DEF Kept
      <3>2. \A r \in Txs : Kept(issued[r])'
        BY <1>1, <3>1 DEF AcmeInv, Receipted
      <3>3. Kept(current)'
        BY <2>3, <2>8, <3>1 DEF AcmeInv, Receipted
      <3>4. current' # None => work[current'.jti].key = current'.key /\ work[current'.jti].cert = current'.cert
        BY <2>3, <2>4 DEF AcmeInv, Receipted, Matches
      <3> QED BY <1>1, <3>2, <3>3, <3>4 DEF Receipted
    <2>13. Knows(p)'
      <3>1. step = "account" => ~(current' # None /\ current'.jti = t.jti)
        BY <1>1, <2>1, <2>3 DEF Committed
      <3>2. step \in Driving => step = "account"
        BY <2>1 DEF Driving
      <3> QED BY <1>2, <2>1, <2>7, <3>1, <3>2 DEF Knows, Committed, Accounting
    <2>14. ~stale' => /\ webroot' \subseteq IF issuing' = None THEN {} ELSE {issuing'.token}
                      /\ issuing' # None /\ issuing'.token = t.token
      BY <1>1, <1>2, <1>3, <2>3 DEF AcmeInv, Published
    <2> QED BY <1>1, <1>2, <2>5, <2>6, <2>9, <2>10, <2>11, <2>12, <2>13, <2>14, Enters
  <1> QED BY <1>4, <1>5

(* A receipt is what the journal binds.                                       *)
LEMMA AcmeBindings ==
  ASSUME AcmeTypes, NEW t \in Journals
  PROVE  /\ Bound(t) \in AcmeReceipts /\ Bound(t).jti = t.jti /\ Bound(t).rev = t.rev
         /\ Bound(t).acct = t.acct /\ Bound(t).key = t.key /\ Bound(t).cert = t.cert
  BY DEF Bound, AcmeReceipts, Journals

(* persist_receipt: the archive entry.                                        *)
LEMMA WriteArchiveI ==
  ASSUME AcmeInv, NEW p \in Procs, WriteIssued(p)
  PROVE  AcmeInv'
  <1> DEFINE t == proc[p].tx
  <1>1. proc[p].at = "archive" /\ proc[p].at \in Inside /\ proc[p].at \in Driving
    BY DEF WriteIssued, IssuerAt, Inside, AcmeSteps, Driving
  <1>2. t \in Journals /\ t # None /\ Knows(p) /\ Sound(t) /\ t.jti \in Txs /\ t.rev \in Txs
    BY <1>1, StepNames, AcmeInHand
  <1>3. /\ Fits(t) /\ issued' = [issued EXCEPT ![t.rev] = Bound(t)]
        /\ proc' = [proc EXCEPT ![p] = [at |-> "current", tx |-> t]]
        /\ UNCHANGED <<issuing, current, work, account, draft, webroot, order, known,
                       lapsed, used, mishaps, stale>>
    BY GoIs DEF WriteIssued, TxOf, authority
  <1>4. /\ proc' \in [Procs -> Processes] /\ proc'[p].at = "current" /\ proc'[p].tx = t
        /\ \A q \in Procs : q # p => proc'[q] = proc[q]
    BY <1>2, <1>3, SaveMoves, StepNames DEF AcmeInv, AcmeSteps, Driving
  <1>5. Bound(t) \in AcmeReceipts /\ Issued(Bound(t))
    BY <1>2, AcmeBindings, Bounds DEF AcmeInv, Sound, Issued
  <1>6. /\ ~Committed(t) /\ t.acct = account /\ account # 0 /\ t.order # 0
        /\ work[t.jti].key = t.key /\ work[t.jti].cert = t.order
        /\ order[t.order].status = "valid" /\ t.cert = t.order
    BY <1>1, <1>2 DEF Knows, Accounting, Ordering
  <1>7. order[t.cert].key = t.key
    BY <1>3, <1>6 DEF Fits
  <1>8. Kept(Bound(t))
    BY <1>2, <1>6, <1>7, AcmeBindings DEF AcmeInv, Kept
  <1>9. /\ issued' \in [Txs -> AcmeReceipts \cup {None}]
        /\ \A r \in Txs : issued'[r] \in {issued[r], Bound(t)}
    BY <1>2, <1>3, <1>5 DEF AcmeInv, AcmeTypes
  <1>10. AcmeTypes'
    BY <1>3, <1>4, <1>9, Typed, Ranges DEF AcmeInv, AcmeTypes, AcmeTypeOK
  <1>11. Numbered'
    <2>1. Issued(current)' /\ Sound(issuing)'
      BY <1>3 DEF AcmeInv, Numbered, Issued, Sound
    <2>2. ASSUME NEW r \in Txs PROVE Issued(issued[r])'
      <3>1. Issued(issued[r]) /\ issued'[r] \in {issued[r], Bound(t)}
        BY <1>9 DEF AcmeInv, Numbered
      <3> QED BY <1>3, <1>5, <3>1 DEF Issued
    <2>3. ASSUME NEW q \in Procs PROVE Sound(proc[q].tx)'
      <3>1. Sound(proc[q].tx) /\ proc'[q].tx = proc[q].tx
        BY <1>4 DEF AcmeInv, Numbered
      <3> QED BY <1>3, <3>1 DEF Sound, Issued
    <2> QED BY <1>3, <2>1, <2>2, <2>3 DEF AcmeInv, Numbered
  <1>12. Accounted'
    BY <1>3, Ranges DEF Accounted
  <1>13. Receipted'
    <2>1. \A x : Kept(x) <=> Kept(x)'
      BY <1>3 DEF Kept
    <2>2. \A r \in Txs : Kept(issued'[r])
      BY <1>8, <1>9 DEF AcmeInv, Receipted
    <2>3. \A r \in Txs : Kept(issued[r])'
      BY <1>3, <2>2 DEF Kept
    <2> QED BY <1>3, <2>3 DEF AcmeInv, Receipted, Kept
  <1>14. Knows(p)'
    BY <1>2, <1>3, <1>6, <1>7 DEF Knows, Committed
  <1>15. Published'
    BY <1>1, <1>3 DEF AcmeInv, Published
  <1> QED BY <1>1, <1>4, <1>10, <1>11, <1>12, <1>13, <1>14, <1>15, HolderStep

(* persist_receipt: the current receipt.                                      *)
LEMMA WriteCurrentI ==
  ASSUME AcmeInv, NEW p \in Procs, WriteCurrent(p)
  PROVE  AcmeInv'
  <1> DEFINE t == proc[p].tx
  <1>1. proc[p].at = "current" /\ proc[p].at \in Inside /\ proc[p].at \in Driving
    BY DEF WriteCurrent, IssuerAt, Inside, AcmeSteps, Driving
  <1>2. t \in Journals /\ t # None /\ Knows(p) /\ Sound(t) /\ t.jti \in Txs /\ t.rev \in Txs
    BY <1>1, StepNames, AcmeInHand
  <1>3. /\ current' = Bound(t) /\ proc' = [proc EXCEPT ![p] = [at |-> "retire", tx |-> t]]
        /\ UNCHANGED <<issuing, issued, work, account, draft, webroot, order, known,
                       lapsed, used, mishaps, stale>>
    BY GoIs DEF WriteCurrent, TxOf, authority
  <1>4. /\ proc' \in [Procs -> Processes] /\ proc'[p].at = "retire" /\ proc'[p].tx = t
        /\ \A q \in Procs : q # p => proc'[q] = proc[q]
    BY <1>2, <1>3, SaveMoves, StepNames DEF AcmeInv, AcmeSteps, Driving
  <1>5. Bound(t) \in AcmeReceipts /\ Issued(Bound(t))
    BY <1>2, AcmeBindings, Bounds DEF AcmeInv, Sound, Issued
  <1>6. /\ t.acct = account /\ account # 0 /\ t.order # 0
        /\ work[t.jti].key = t.key /\ work[t.jti].cert = t.order
        /\ order[t.order].status = "valid" /\ t.cert = t.order /\ order[t.cert].key = t.key
    BY <1>1, <1>2 DEF Knows, Accounting, Ordering
  <1>7. Kept(Bound(t))
    BY <1>2, <1>6, AcmeBindings DEF AcmeInv, Kept
  <1>8. AcmeTypes'
    BY <1>3, <1>4, <1>5, Typed, Ranges DEF AcmeInv, AcmeTypes, AcmeTypeOK
  <1>9. Numbered'
    <2>1. Issued(current)' /\ Sound(issuing)' /\ \A r \in Txs : Issued(issued[r])'
      BY <1>3, <1>5 DEF AcmeInv, Numbered, Issued, Sound
    <2>2. ASSUME NEW q \in Procs PROVE Sound(proc[q].tx)'
      <3>1. Sound(proc[q].tx) /\ proc'[q].tx = proc[q].tx
        BY <1>4 DEF AcmeInv, Numbered
      <3> QED BY <1>3, <3>1 DEF Sound, Issued
    <2> QED BY <1>3, <2>1, <2>2 DEF AcmeInv, Numbered
  <1>10. Accounted'
    BY <1>3, Ranges DEF Accounted
  <1>11. Receipted'
    <2>1. Kept(current)' /\ \A r \in Txs : Kept(issued[r])'
      BY <1>3, <1>7 DEF AcmeInv, Receipted, Kept
    <2>2. work[Bound(t).jti].key = Bound(t).key /\ work[Bound(t).jti].cert = Bound(t).cert
      BY <1>2, <1>6, AcmeBindings DEF AcmeInv
    <2> QED BY <1>3, <2>1, <2>2 DEF Receipted
  <1>12. Knows(p)'
    BY <1>2, <1>4, StepNames DEF Knows, Accounting, Ordering
  <1>13. Published'
    BY <1>1, <1>3 DEF AcmeInv, Published
  <1> QED BY <1>1, <1>4, <1>8, <1>9, <1>10, <1>11, <1>12, <1>13, HolderStep

(* The account section of another binding.                                    *)
LEMMA OtherBindingI ==
  ASSUME AcmeInv, OtherBinding
  PROVE  AcmeInv'
  <1> DEFINE k == IF draft = 0 THEN used.key + 1 ELSE draft
  <1>1. /\ account = 0 /\ k \in 1..MaxKeys
        /\ \A q \in Procs : proc[q].at \notin {"account", "bind", "register", "record", "retireDraft"}
        /\ used' = [used EXCEPT !.key = IF draft = 0 THEN k ELSE @]
        /\ UNCHANGED <<issuing, current, issued, work, webroot, order, lapsed, proc, stale>>
    BY Ranges, Bounds DEF OtherBinding, AcmeInv
  <1>2. \/ account' = k /\ known' = known \cup {k} /\ draft' = 0
        \/ known' \in {known, known \cup {k}} /\ draft' = k /\ account' = account
    BY DEF OtherBinding
  <1>3. mishaps' \in 0..MaxMishaps
    BY Bounds DEF OtherBinding, AcmeInv, AcmeTypes, AcmeTypeOK
  <1>4. /\ used' \in [tx : 0..MaxTx, order : 0..MaxOrders, key : 0..MaxKeys]
        /\ used'.tx = used.tx /\ used'.order = used.order
    BY <1>1, Ranges, Bounds DEF AcmeInv
  <1>5. draft \in {0, k}
    OBVIOUS
  <1> HIDE DEF k
  <1>6. k \in 0..MaxKeys /\ k # 0 /\ k \in Keys
    BY <1>1, Bounds DEF AcmeInv, Keys
  <1>7. AcmeTypes'
    BY <1>1, <1>2, <1>3, <1>6 DEF AcmeInv, AcmeTypes, AcmeTypeOK
  <1>8. Accounted'
    BY <1>1, <1>2, <1>5, <1>6, Ranges DEF Accounted
  <1>9. \A x : Sound(x) => Sound(x)'
    BY <1>1, <1>2, <1>4, <1>5 DEF Sound, Issued
  <1>10. Numbered'
    <2>1. Issued(current)' /\ \A r \in Txs : Issued(issued[r])'
      BY <1>1, <1>4 DEF AcmeInv, Numbered, Issued
    <2>2. Sound(issuing)' /\ \A q \in Procs : Sound(proc[q].tx)'
      BY <1>1, <1>9 DEF AcmeInv, Numbered
    <2> QED BY <1>1, <1>4, <2>1, <2>2 DEF AcmeInv, Numbered
  <1>11. Receipted'
    BY <1>1, StillReceipted
  <1>12. ASSUME NEW q \in Procs PROVE Knows(q)'
    <2>1. Knows(q) /\ proc'[q] = proc[q] /\ current' = current /\ work' = work /\ order' = order
      BY <1>1 DEF AcmeInv
    <2>2. proc[q].at \notin Driving
      BY <1>1, <2>1 DEF Knows, Driving, Accounting
    <2> QED BY <2>1, <2>2, StepNames DEF Knows, Driving, Accounting
  <1>13. OneHolder' /\ Published'
    BY <1>1 DEF AcmeInv, OneHolder, Published
  <1> QED BY <1>7, <1>8, <1>10, <1>11, <1>12, <1>13 DEF AcmeInv

(* The authority moves an order that it has not completed.                    *)
LEMMA OrderMoves ==
  ASSUME AcmeInv, NEW o \in Orders, NEW s \in Statuses \ {"none"},
         order[o].status \in {"pending", "processing"},
         order' = [order EXCEPT ![o].status = s], mishaps' \in 0..MaxMishaps,
         UNCHANGED <<files, known, lapsed, proc, used, stale>>
  PROVE  AcmeInv'
  <1>1. [order[o] EXCEPT !.status = s] \in [acct : 0..MaxKeys, status : Statuses, key : 0..MaxKeys]
    BY Ranges
  <1>2. order' \in [Orders -> [acct : 0..MaxKeys, status : Statuses, key : 0..MaxKeys]]
    BY <1>1, Ranges
  <1>3. /\ \A n \in Orders : order[n].status = "valid" => order'[n] = order[n]
        /\ \A n \in Orders : order[n].status = "none" => order'[n] = order[n]
        /\ \A n \in Orders : order'[n].key = order[n].key
    BY Ranges
  <1>4. UNCHANGED <<issuing, current, issued, work, account, draft, webroot>>
    BY DEF files
  <1>5. AcmeTypes'
    BY <1>2, <1>4, Typed, Ranges DEF AcmeInv, AcmeTypes, AcmeTypeOK
  <1>6. Numbered'
    <2>1. \A x : (Sound(x) => Sound(x)') /\ (Issued(x) => Issued(x)')
      BY <1>4 DEF Sound, Issued
    <2>2. Issued(current)' /\ Sound(issuing)' /\ (\A r \in Txs : Issued(issued[r])')
          /\ \A q \in Procs : Sound(proc[q].tx)'
      BY <1>4, <2>1 DEF AcmeInv, Numbered
    <2>3. \A n \in Orders : n > used'.order => order'[n].status = "none"
      BY <1>3, Ranges
    <2> QED BY <2>2, <2>3 DEF Numbered
  <1>7. Accounted'
    BY <1>4, Ranges DEF Accounted
  <1>8. Receipted'
    BY <1>3, <1>4, StillReceipted
  <1>9. ASSUME NEW q \in Procs PROVE Knows(q)'
    <2>1. Knows(q) /\ proc[q] \in Processes
      BY DEF AcmeInv, AcmeTypes
    <2>2. CASE proc[q].at \in {"idle", "lock"} \/ proc[q].at \notin Driving
      BY <1>4, <2>1, <2>2, StepNames DEF Knows, Committed, Accounting
    <2>3. CASE proc[q].at \in Driving
      <3>1. /\ proc[q].tx.order # 0 => proc[q].tx.order \in Orders
        BY <2>3, StepNames, AcmeInHand
      <3>2. proc[q].at \in {"bindCert", "archive", "current"} => proc[q].tx.order # 0
        BY <2>1, <2>3 DEF Knows, Accounting, Ordering
      <3>3. \A n \in Orders : order[n].status = "valid" => order'[n].status = "valid"
        BY <1>3
      <3> QED BY <1>4, <2>1 DEF Knows, Committed
    <2> QED BY <2>2, <2>3
  <1>10. OneHolder' /\ Published'
    BY <1>4 DEF AcmeInv, OneHolder, Published
  <1> QED BY <1>5, <1>6, <1>7, <1>8, <1>9, <1>10 DEF AcmeInv

LEMMA ExpireI ==
  ASSUME AcmeInv, NEW x \in Txs, ExpireTx(x)
  PROVE  AcmeInv'
  <1>1. /\ UNCHANGED <<issuing, current, issued, work, account, draft, webroot, order, known,
                       proc, used, mishaps, stale>>
        /\ lapsed' \subseteq Txs
    BY DEF ExpireTx, files, authority, AcmeInv, AcmeTypes, AcmeTypeOK
  <1>2. AcmeTypes'
    BY <1>1, Typed, Ranges DEF AcmeInv, AcmeTypes, AcmeTypeOK
  <1>3. Numbered' /\ Accounted' /\ Receipted' /\ OneHolder' /\ Published'
    BY <1>1 DEF AcmeInv, Numbered, Issued, Sound, Accounted, Receipted, Kept, OneHolder,
       Published
  <1>4. \A q \in Procs : Knows(q)'
    BY <1>1 DEF AcmeInv, Knows, Committed
  <1> QED BY <1>2, <1>3, <1>4 DEF AcmeInv

LEMMA StutterI ==
  ASSUME AcmeInv, UNCHANGED acmeVars
  PROVE  AcmeInv'
  <1>1. UNCHANGED <<issuing, current, issued, work, account, draft, webroot, order, known,
                    lapsed, proc, used, mishaps, stale>>
    BY DEF acmeVars, files, authority
  <1>2. AcmeTypes'
    BY <1>1 DEF AcmeInv, AcmeTypes, AcmeTypeOK
  <1>3. Numbered' /\ Accounted' /\ Receipted' /\ OneHolder' /\ Published'
    BY <1>1 DEF AcmeInv, Numbered, Issued, Sound, Accounted, Receipted, Kept, OneHolder,
       Published
  <1>4. \A q \in Procs : Knows(q)'
    BY <1>1 DEF AcmeInv, Knows, Committed
  <1> QED BY <1>2, <1>3, <1>4 DEF AcmeInv

LEMMA InitI ==
  ASSUME AcmeConstants, AcmeInit
  PROVE  AcmeInv
  <1>1. MaxTx \in Nat /\ MaxOrders \in Nat /\ MaxKeys \in Nat /\ MaxMishaps \in Nat
    BY DEF AcmeConstants, AcmeAssumption
  <1>2. IdleIssuer \in Processes /\ IdleIssuer.at = "idle" /\ IdleIssuer.tx = None
    BY DEF IdleIssuer, Processes, AcmeSteps
  <1>3. proc = [p \in Procs |-> IdleIssuer] /\ \A p \in Procs : proc[p] = IdleIssuer
    BY DEF AcmeInit
  <1>4. AcmeTypes
    <2>1. /\ work \in [Txs -> [key : 0..MaxKeys, csr : 0..MaxKeys, cert : 0..MaxOrders]]
          /\ used \in [tx : 0..MaxTx, order : 0..MaxOrders, key : 0..MaxKeys]
      BY <1>1 DEF AcmeInit
    <2>2. order \in [Orders -> [acct : 0..MaxKeys, status : Statuses, key : 0..MaxKeys]]
      BY <1>1 DEF AcmeInit, Statuses
    <2>3. proc \in [Procs -> Processes] /\ \A p \in Procs : proc[p].tx = None
      BY <1>2, <1>3
    <2>4. current \in AcmeReceipts \cup {None} /\ issued \in [Txs -> AcmeReceipts \cup {None}]
      BY DEF AcmeInit
    <2>5. AcmeTypeOK
      <3>1. \A x \in Txs : work[x] \in [key : 0..MaxKeys, csr : 0..MaxKeys, cert : 0..MaxOrders]
        BY <2>1
      <3>2. /\ issuing = None /\ account = 0 /\ draft = 0 /\ webroot = {} /\ known = {}
            /\ lapsed = {} /\ mishaps = 0 /\ stale = FALSE
        BY DEF AcmeInit
      <3>3. 0 \in 0..MaxKeys /\ 0 \in 0..MaxMishaps
        BY <1>1
      <3> QED BY <2>3, <3>1, <3>2, <3>3 DEF AcmeTypeOK
    <2> QED BY <2>1, <2>2, <2>3, <2>4, <2>5 DEF AcmeTypes
  <1>5. OneHolder /\ Accounted /\ Receipted /\ Published
    BY <1>2 DEF AcmeInit, OneHolder, Accounted, Receipted, Kept, Published
  <1>6. Numbered
    BY <1>2, <1>3 DEF AcmeInit, Numbered, Issued, Sound
  <1>7. \A p \in Procs : Knows(p)
    BY <1>2, <1>3 DEF Knows, Driving, Accounting
  <1> QED BY <1>4, <1>5, <1>6, <1>7 DEF AcmeInv

LEMMA NextI ==
  ASSUME AcmeInv, [AcmeNext]_acmeVars
  PROVE  AcmeInv'
  <1>1. CASE UNCHANGED acmeVars
    BY <1>1, StutterI
  <1>2. CASE OtherBinding
    BY <1>2, OtherBindingI
  <1>3. ASSUME NEW p \in Procs, Issue(p) \/ RecoverLoad(p) \/ Fail(p) \/ KillIssuer(p)
        PROVE  AcmeInv'
    BY <1>3, IssueI, RecoverLoadI, FailI, KillI
  <1>4. ASSUME NEW p \in Procs, Step(p) PROVE AcmeInv'
    <2>1. CASE RecoverLocked(p) \/ LockBusy(p) \/ Unpublish(p) \/ Retire(p) \/ Abort(p)
      BY <2>1, RecoverLockedI, LockBusyI, UnpublishI, RetireI, AbortI
    <2>2. CASE \/ RestoreAccount(p) \/ DraftKey(p) \/ BindKey(p) \/ Register(p)
               \/ RecordAccount(p) \/ RetireDraft(p)
      BY <2>2, RestoreAccountI, DraftKeyI, BindKeyI, RegisterI, RecordAccountI, RetireDraftI
    <2>3. CASE \/ NewOrder(p) \/ BindOrder(p) \/ Status(p) \/ BindChallenge(p) \/ Publish(p)
               \/ Ready(p) \/ CleanChallenge(p)
      BY <2>3, NewOrderI, BindOrderI, StatusI, BindChallengeI, PublishI, ReadyI,
         CleanChallengeI
    <2>4. CASE \/ NewKey(p) \/ NewCsr(p) \/ BindCsr(p) \/ LoadCsr(p) \/ FinalizeOrder(p) \/ Fetch(p)
               \/ BindCert(p)
      BY <2>4, NewKeyI, NewCsrI, BindCsrI, LoadCsrI, FinalizeI, FetchI, BindCertI
    <2>5. CASE WriteIssued(p) \/ WriteCurrent(p)
      BY <2>5, WriteArchiveI, WriteCurrentI
    <2> QED BY <1>4, <2>1, <2>2, <2>3, <2>4, <2>5 DEF Step
  <1>5. ASSUME NEW o \in Orders, Authorize(o) \/ Deny(o) \/ Certify(o) PROVE AcmeInv'
    <2>1. /\ \E s \in Statuses \ {"none"} : order' = [order EXCEPT ![o].status = s]
          /\ order[o].status \in {"pending", "processing"}
          /\ UNCHANGED <<files, known, lapsed, proc, used, stale>>
      BY <1>5 DEF Authorize, Deny, Certify, Statuses
    <2>2. mishaps' \in 0..MaxMishaps
      BY <1>5, Bounds DEF Authorize, Deny, Certify, AcmeInv, AcmeTypes,
         AcmeTypeOK
    <2> QED BY <2>1, <2>2, OrderMoves
  <1>6. ASSUME NEW x \in Txs, ExpireTx(x) PROVE AcmeInv'
    BY <1>6, ExpireI
  <1> QED BY <1>1, <1>2, <1>3, <1>4, <1>5, <1>6 DEF AcmeNext

(* AcmeIssue: the invariant holds always, for all constants that            *)
(* AcmeAssumption and NoneIsAbsent admit.                                     *)
THEOREM AcmeInvariant == AcmeSpec => []AcmeInv
  <1>1. AcmeConstants /\ AcmeInit => AcmeInv
    BY InitI
  <1>2. AcmeInv /\ [AcmeNext]_acmeVars => AcmeInv'
    BY NextI
  <1> QED BY AcmeAssumed, <1>1, <1>2, PTL DEF AcmeSpec

(* AcmeIssue: journal, receipts, transactions, account and webroot keep       *)
(* their types.                                                               *)
THEOREM AcmeTyped == AcmeSpec => []AcmeTypeOK
  <1>1. AcmeInv => AcmeTypeOK
    BY DEF AcmeInv, AcmeTypes
  <1> QED BY <1>1, AcmeInvariant, PTL

(* write_archive, write_current and the account draft: whatever process is    *)
(* killed or works from an outdated journal, a receipt names a certificate    *)
(* that fits the key kept beside it, and a registered account keeps its key.  *)
THEOREM MaterialStays == AcmeSpec => []MaterialKept
  <1>1. ASSUME AcmeInv PROVE MaterialKept
    <2>1. ReceiptUsable
      BY <1>1 DEF AcmeInv, Receipted, Kept, ReceiptUsable
    <2>2. AccountKeyKept
      BY <1>1, Ranges DEF AcmeInv, Numbered, Sound, AccountKeyKept
    <2> QED BY <2>1, <2>2 DEF MaterialKept
  <1> QED BY <1>1, AcmeInvariant, PTL

(* publish and retire: no challenge stays published when every process rests  *)
(* and no journal is left, unless one went on with an outdated journal.       *)
THEOREM NothingLeftPublished == AcmeSpec => []ChallengeRetired
  <1>1. ASSUME AcmeInv PROVE ChallengeRetired
    BY <1>1 DEF AcmeInv, Published, ChallengeRetired
  <1> QED BY <1>1, AcmeInvariant, PTL

=============================================================================
