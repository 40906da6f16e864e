--------------------------- MODULE OperationLedger ---------------------------
(***************************************************************************)
(* What the target journal promises the rest of the system, without files, *)
(* locks, byte budgets or crashes: an atomic ledger with one entry per     *)
(* operation id.  An entry is accepted before its execution starts, keeps  *)
(* its request hash, is settled once, and is forgotten only when settled.  *)
(* The module doc of src/target/journal.rs states this contract.           *)
(***************************************************************************)

CONSTANTS Ids, Hashes, KindOf, NoEntry

VARIABLES
    entry,    \* the ledger: [status, hash] of each accepted id, or NoEntry
    started   \* ids whose execution started and is not settled

ledgerVars == <<entry, started>>

Entries == [status : {"pending", "completed", "failed"}, hash : Hashes]

LedgerTypeOK ==
    /\ entry \in [Ids -> Entries \cup {NoEntry}]
    /\ started \in SUBSET Ids

(* The entry of an accepted id with another status and the same hash.      *)
Now(id, status) == [status |-> status, hash |-> entry[id].hash]

Has(id, status) == entry[id] # NoEntry /\ entry[id].status = status

LedgerInit ==
    /\ entry = [id \in Ids |-> NoEntry]
    /\ started = {}

(* A fresh id is bound to its request hash before anything runs.           *)
Accept(id, h) ==
    /\ entry[id] = NoEntry
    /\ entry' = [entry EXCEPT ![id] = [status |-> "pending", hash |-> h]]
    /\ UNCHANGED started

(* A failed recovery phase or uninstall is taken up again under its id.    *)
Reopen(id) ==
    /\ Has(id, "failed")
    /\ KindOf[entry[id].hash] = "retryable"
    /\ entry' = [entry EXCEPT ![id] = Now(id, "pending")]
    /\ UNCHANGED started

(* Execution starts, or starts again, only behind a durable pending entry. *)
Start(id) ==
    /\ Has(id, "pending")
    /\ started' = started \cup {id}
    /\ UNCHANGED entry

Settle(id, status) ==
    /\ id \in started
    /\ Has(id, "pending")
    /\ entry' = [entry EXCEPT ![id] = Now(id, status)]
    /\ started' = started \ {id}

(* A target-verified no-op update leaves no entry.                         *)
Discard(id) ==
    /\ id \in started
    /\ Has(id, "pending")
    /\ KindOf[entry[id].hash] = "update"
    /\ entry' = [entry EXCEPT ![id] = NoEntry]
    /\ started' = started \ {id}

(* Retention: settled entries may be forgotten, several at a time; pending *)
(* entries never are.  A reopened operation has an older failure on record,*)
(* and the byte budgets may forget its completion and keep that failure.   *)
Forget ==
    /\ \E gone \in SUBSET Ids : \E back \in SUBSET (Ids \ gone) :
          /\ \A id \in gone : Has(id, "completed") \/ Has(id, "failed")
          /\ \A id \in back : /\ Has(id, "completed")
                              /\ KindOf[entry[id].hash] = "retryable"
          /\ entry' = [id \in Ids |->
                         IF id \in gone THEN NoEntry
                         ELSE IF id \in back
                              THEN Now(id, "failed")
                              ELSE entry[id]]
    /\ UNCHANGED started

LedgerNext ==
    \/ \E id \in Ids, h \in Hashes : Accept(id, h)
    \/ \E id \in Ids : Reopen(id) \/ Start(id) \/ Discard(id)
    \/ \E id \in Ids, s \in {"completed", "failed"} : Settle(id, s)
    \/ Forget

LedgerSpec == LedgerInit /\ [][LedgerNext]_ledgerVars

=============================================================================
