---------------------------- MODULE BackupTransfer ----------------------------
(* Backups of one deployment: snapshot and restore-test orders on the source  *)
(* target, and the off-host copy that a controller drives through the         *)
(* operation journals of two targets (controller/surface_run.rs,              *)
(* controller/transfer_journal.rs, target/backup_exec.rs).                    *)
(*                                                                            *)
(* Every operation id is used for one operation of the current transfer or    *)
(* the current backup order, so a journal is a function from operation kinds  *)
(* to the status of that kind's current id; a fresh id starts at "none".      *)
(* An answer may be lost at any time: the controller then repeats the call,   *)
(* which the journal answers from the stored result ("done", "failed") or     *)
(* resumes ("pending").  A lost answer therefore only delays the Advance      *)
(* actions.  A helper may be killed between any two durable steps.            *)
(*                                                                            *)
(* A snapshot is its number; the bytes of file f are the first len[f] of      *)
(* 2 * Chunks[f] units, two units to the chunk, so that a write can be torn.     *)
EXTENDS Naturals, Sequences, FiniteSets

CONSTANTS None,
          Chunks,      \* chunks of each file of a transfer plan, a sequence
          MaxSnaps,    \* bound on snapshot orders
          MaxCopies,   \* bound on transfers
          MaxFaults    \* bound on killed helpers and I/O errors

ASSUME BackupAssumption ==
    /\ None \notin Nat
    /\ Chunks \in Seq(Nat \ {0}) /\ Chunks # <<>>
    /\ {MaxSnaps, MaxCopies, MaxFaults} \subseteq Nat

VARIABLES phase, plan, cursor, receipt,   \* backup-transfer.json
          intent,                         \* pending backup orders
          op,                             \* status of each operation kind
          exec,                           \* the helper running on each host
          latest, snaps,                  \* snapshot-manifest.json, snapshots/
          restored, offHost,              \* the two receipts beside it
          export,                         \* transfers/export-<op>
          pin, rehearsed,                 \* a restore test's manifest, receipt
          incoming, binding, copies,      \* destination: partial, manifest, snapshots/
          tested,                         \* history: snapshots rehearsed
          made, begun, kills, fails       \* counters behind the bounds

transfer == <<phase, plan, cursor, receipt>>
rehearsal == <<pin, rehearsed>>
source == <<latest, snaps, restored, offHost, export, rehearsal>>
destination == <<incoming, binding, copies>>
bounds == <<made, begun, kills, fails>>
vars == <<transfer, intent, op, exec, source, destination, tested, bounds>>

Phases == {"none", "SourcePrepare", "DestinationPrepare", "Copying",
           "Finalize", "RecordSourceReceipt", "CleanupSource",
           "CleanupDestination"}
SourceOps == {"snapshot", "restore", "export", "read", "record", "cleanSource"}
DestinationOps == {"import", "write", "finalize", "cleanDestination"}
Ops == SourceOps \cup DestinationOps
ASSUME NoneIsAbsent == None \notin Ops
Hosts == {"source", "destination"}
HostOf(k) == IF k \in SourceOps THEN "source" ELSE "destination"

Snap == 1..MaxSnaps
Files == Len(Chunks)
Empty == [f \in 1..Files |-> 0]
Full == [f \in 1..Files |-> 2 * Chunks[f]]
Idle == [kind |-> None, step |-> 0]
Steps == 0..4

Init ==
    /\ phase = "none" /\ plan = None /\ cursor = None /\ receipt = None
    /\ intent = {}
    /\ op = [k \in Ops |-> "none"]
    /\ exec = [h \in Hosts |-> Idle]
    /\ latest = None /\ snaps = {} /\ restored = None /\ offHost = None
    /\ export = None /\ pin = None /\ rehearsed = FALSE
    /\ incoming = None /\ binding = None /\ copies = {}
    /\ tested = {} /\ made = 0 /\ begun = 0 /\ kills = 0 /\ fails = 0

-----------------------------------------------------------------------------
(* The controller.                                                           *)

\* execute_backup_intent: a controller repeats its pending order before it
\* starts another; one controller orders snapshots, another restore tests.
OrderBackup(k) ==
    /\ k \notin intent
    /\ k = "snapshot" => made < MaxSnaps
    /\ intent' = intent \cup {k}
    /\ made' = IF k = "snapshot" THEN made + 1 ELSE made
    /\ UNCHANGED <<transfer, op, exec, source, destination, tested, begun,
                   kills, fails>>

\* Completed or failed, the order's answer clears the intent.
SettleBackup(k) ==
    /\ k \in intent /\ op[k] \in {"done", "failed"}
    /\ intent' = intent \ {k}
    /\ op' = [op EXCEPT ![k] = "none"]
    /\ IF k = "restore" THEN pin' = None /\ rehearsed' = FALSE
       ELSE UNCHANGED <<pin, rehearsed>>
    /\ UNCHANGED <<transfer, exec, latest, snaps, restored, offHost, export,
                   destination, tested, bounds>>

\* run_backup_copy: the record is stored before the first remote call.
BeginCopy ==
    /\ phase = "none" /\ begun < MaxCopies
    /\ phase' = "SourcePrepare"
    /\ begun' = begun + 1
    /\ UNCHANGED <<plan, cursor, receipt, intent, op, exec, source,
                   destination, tested, made, kills, fails>>

\* The operation the pending order and the transfer's phase ask for.
Wanted ==
    intent \cup
    CASE phase = "SourcePrepare" -> {"export"}
      [] phase = "DestinationPrepare" -> {"import"}
      [] phase = "Copying" -> IF op["read"] = "done" THEN {"read", "write"}
                              ELSE {"read"}
      [] phase = "Finalize" -> {"finalize"}
      [] phase = "RecordSourceReceipt" -> {"record"}
      [] phase = "CleanupSource" -> {"cleanSource"}
      [] phase = "CleanupDestination" -> {"cleanDestination"}
      [] OTHER -> {}

\* The target journals the call and runs it unless its result is stored; a
\* completed read stores no bytes and runs again.
Call(k) ==
    /\ k \in Wanted /\ exec[HostOf(k)] = Idle
    /\ \/ op[k] \in {"none", "pending"}
       \/ k = "read" /\ op[k] = "done" /\ op["write"] # "done"
    /\ op' = [op EXCEPT ![k] = "pending"]
    /\ exec' = [exec EXCEPT ![HostOf(k)] = [kind |-> k, step |-> 1]]
    /\ UNCHANGED <<transfer, intent, source, destination, tested, bounds>>

AdvanceSourcePrepare ==
    /\ phase = "SourcePrepare" /\ op["export"] = "done"
    /\ plan' = export
    /\ phase' = "DestinationPrepare"
    /\ UNCHANGED <<cursor, receipt, intent, op, exec, source, destination,
                   tested, bounds>>

AdvanceDestinationPrepare ==
    /\ phase = "DestinationPrepare" /\ op["import"] = "done"
    /\ cursor' = [file |-> 1, chunk |-> 0]
    /\ phase' = "Copying"
    /\ UNCHANGED <<plan, receipt, intent, op, exec, source, destination,
                   tested, bounds>>

\* Mutant: the cursor moves on once the chunk was read.
AdvanceCopyingEarly ==
    /\ phase = "Copying" /\ op["read"] = "done"
    /\ exec["destination"] = Idle
    /\ LET more == cursor.chunk + 1 < Chunks[cursor.file]
           last == ~more /\ cursor.file = Files IN
       /\ cursor' = IF last THEN None
                    ELSE IF more THEN [cursor EXCEPT !.chunk = @ + 1]
                    ELSE [file |-> cursor.file + 1, chunk |-> 0]
       /\ phase' = IF last THEN "Finalize" ELSE "Copying"
    /\ op' = [op EXCEPT !["read"] = "none", !["write"] = "none"]
    /\ UNCHANGED <<plan, receipt, intent, exec, source, destination, tested,
                   bounds>>

\* copy_one_backup_chunk: the next chunk gets fresh operation ids.
AdvanceCopying ==
    /\ phase = "Copying" /\ op["read"] = "done" /\ op["write"] = "done"
    /\ LET more == cursor.chunk + 1 < Chunks[cursor.file]
           last == ~more /\ cursor.file = Files IN
       /\ cursor' = IF last THEN None
                    ELSE IF more THEN [cursor EXCEPT !.chunk = @ + 1]
                    ELSE [file |-> cursor.file + 1, chunk |-> 0]
       /\ phase' = IF last THEN "Finalize" ELSE "Copying"
    /\ op' = [op EXCEPT !["read"] = "none", !["write"] = "none"]
    /\ UNCHANGED <<plan, receipt, intent, exec, source, destination, tested,
                   bounds>>

AdvanceFinalize ==
    /\ phase = "Finalize" /\ op["finalize"] = "done"
    /\ receipt' = plan
    /\ phase' = "RecordSourceReceipt"
    /\ UNCHANGED <<plan, cursor, intent, op, exec, source, destination,
                   tested, bounds>>

AdvanceRecord ==
    /\ phase = "RecordSourceReceipt" /\ op["record"] = "done"
    /\ phase' = "CleanupSource"
    /\ UNCHANGED <<plan, cursor, receipt, intent, op, exec, source,
                   destination, tested, bounds>>

AdvanceCleanupSource ==
    /\ phase = "CleanupSource" /\ op["cleanSource"] = "done"
    /\ phase' = "CleanupDestination"
    /\ UNCHANGED <<plan, cursor, receipt, intent, op, exec, source,
                   destination, tested, bounds>>

\* The record is removed; the next transfer uses fresh operation ids.
AdvanceCleanupDestination ==
    /\ phase = "CleanupDestination" /\ op["cleanDestination"] = "done"
    /\ phase' = "none" /\ plan' = None /\ receipt' = None
    /\ op' = [k \in Ops |-> IF k \in {"snapshot", "restore"} THEN op[k]
                            ELSE "none"]
    /\ UNCHANGED <<cursor, intent, exec, source, destination, tested, bounds>>

-----------------------------------------------------------------------------
(* Helper steps.                                                             *)

Running(k, step) == exec[HostOf(k)] = [kind |-> k, step |-> step]
Step(k, step) == exec' = [exec EXCEPT ![HostOf(k)].step = step]
End(k, status) ==
    /\ op' = [op EXCEPT ![k] = status]
    /\ exec' = [exec EXCEPT ![HostOf(k)] = Idle]

\* The rest of an operation that has done its work: the terminal line.
Finish(k) ==
    /\ Running(k, 0)
    /\ End(k, "done")
    /\ UNCHANGED <<transfer, intent, source, destination, tested, bounds>>

\* snapshot: an already published directory is reused.
SnapshotPublish ==
    /\ Running("snapshot", 1)
    /\ snaps' = snaps \cup {made}
    /\ Step("snapshot", 2)
    /\ UNCHANGED <<transfer, intent, op, latest, restored, offHost, export,
                   rehearsal, destination, tested, bounds>>

SnapshotManifest ==
    /\ Running("snapshot", 2)
    /\ latest' = made
    /\ Step("snapshot", 3)
    /\ UNCHANGED <<transfer, intent, op, snaps, restored, offHost, export,
                   rehearsal, destination, tested, bounds>>

\* remove_receipt_if_present removes one file, then the other.
SnapshotDropReceipts ==
    /\ \/ /\ Running("snapshot", 3)
          /\ restored' = None /\ UNCHANGED offHost
          /\ Step("snapshot", 4)
       \/ /\ Running("snapshot", 4)
          /\ offHost' = None /\ UNCHANGED restored
          /\ Step("snapshot", 0)
    /\ UNCHANGED <<transfer, intent, op, latest, snaps, export, rehearsal,
                   destination, tested, bounds>>

\* Mutant: a resumed restore test takes the newest manifest.
RestorePinLatest ==
    /\ Running("restore", 1)
    /\ IF latest = None
       THEN End("restore", "failed") /\ UNCHANGED pin
       ELSE /\ pin' = latest
            /\ Step("restore", IF rehearsed THEN 3 ELSE 2)
            /\ UNCHANGED op
    /\ UNCHANGED <<transfer, intent, latest, snaps, restored, offHost, export, rehearsed,
                   destination, tested, bounds>>

\* restore_test pins the manifest it starts with; a resumed one keeps its pin
\* and reuses the receipt it already wrote for it.
RestorePin ==
    /\ Running("restore", 1)
    /\ IF pin = None /\ latest = None
       THEN End("restore", "failed") /\ UNCHANGED pin
       ELSE /\ pin' = IF pin = None THEN latest ELSE pin
            /\ Step("restore", IF rehearsed THEN 3 ELSE 2)
            /\ UNCHANGED op
    /\ UNCHANGED <<transfer, intent, latest, snaps, restored, offHost, export, rehearsed,
                   destination, tested, bounds>>

\* The rehearsal ran and left the operation's own receipt.
RestoreRehearse ==
    /\ Running("restore", 2)
    /\ tested' = tested \cup {pin}
    /\ rehearsed' = TRUE
    /\ Step("restore", 3)
    /\ UNCHANGED <<transfer, intent, op, latest, snaps, restored, offHost,
                   export, pin, destination, bounds>>

\* The receipt of the deployment is written if no newer snapshot exists.
RestoreReceipt ==
    /\ Running("restore", 3)
    /\ restored' = IF latest = pin THEN pin ELSE restored
    /\ Step("restore", 0)
    /\ UNCHANGED <<transfer, intent, op, latest, snaps, offHost, export, rehearsal,
                   destination, tested, bounds>>

\* prepare_export links the files of the newest snapshot.
ExportPrepare ==
    /\ Running("export", 1)
    /\ IF latest = None
       THEN End("export", "failed") /\ UNCHANGED export
       ELSE /\ export' = latest
            /\ Step("export", 0) /\ UNCHANGED op
    /\ UNCHANGED <<transfer, intent, latest, snaps, restored, offHost, rehearsal,
                   destination, tested, bounds>>

ReadChunk ==
    /\ Running("read", 1)
    /\ IF export = plan THEN Step("read", 0) /\ UNCHANGED op
       ELSE End("read", "failed")
    /\ UNCHANGED <<transfer, intent, source, destination, tested, bounds>>

ImportPrepare ==
    /\ Running("import", 1)
    /\ incoming' = Empty
    /\ Step("import", 0)
    /\ UNCHANGED <<transfer, intent, op, source, binding, copies, tested,
                   bounds>>

Offset == 2 * cursor.chunk

\* write_transfer_chunk appends what the file lacks of its chunk; the length
\* must lie within the chunk.
WriteChunk ==
    /\ Running("write", 1)
    /\ LET len == incoming[cursor.file] IN
       IF len \notin Offset..Offset + 2
       THEN End("write", "failed") /\ UNCHANGED incoming
       ELSE /\ UNCHANGED op
            /\ IF len < Offset + 2
               THEN /\ incoming' = [incoming EXCEPT ![cursor.file] = @ + 1]
                    /\ UNCHANGED exec
               ELSE Step("write", 0) /\ UNCHANGED incoming
    /\ UNCHANGED <<transfer, intent, source, binding, copies, tested, bounds>>

\* Mutant: the manifest of the transfer is not kept beside the partial tree.
FinalizeBindNothing ==
    /\ Running("finalize", 1)
    /\ IF incoming # None
       THEN IF incoming = Full
            THEN Step("finalize", 2) /\ UNCHANGED op
            ELSE End("finalize", "failed")
       ELSE IF binding = plan /\ plan \in copies
            THEN Step("finalize", 0) /\ UNCHANGED op
            ELSE End("finalize", "failed")
    /\ UNCHANGED <<transfer, intent, source, destination, tested, bounds>>

\* finalize_import verifies every file and keeps the manifest; without the
\* partial tree it verifies what a killed run published.
FinalizeBind ==
    /\ Running("finalize", 1)
    /\ IF incoming # None
       THEN IF incoming = Full
            THEN /\ binding' = plan
                 /\ Step("finalize", 2) /\ UNCHANGED op
            ELSE End("finalize", "failed") /\ UNCHANGED binding
       ELSE /\ UNCHANGED binding
            /\ IF binding = plan /\ plan \in copies
               THEN Step("finalize", 0) /\ UNCHANGED op
               ELSE End("finalize", "failed")
    /\ UNCHANGED <<transfer, intent, source, incoming, copies, tested, bounds>>

\* A new snapshot is renamed into place.
FinalizePublish ==
    /\ Running("finalize", 2) /\ plan \notin copies
    /\ copies' = copies \cup {plan}
    /\ incoming' = None
    /\ Step("finalize", 0)
    /\ UNCHANGED <<transfer, intent, op, source, binding, tested, bounds>>

\* The partial tree of a snapshot that is already there is removed, file by
\* file: a kill may leave the directory without its manifest.
FinalizeDrop ==
    /\ \/ /\ Running("finalize", 2) /\ plan \in copies
          /\ incoming' = Empty
          /\ Step("finalize", 3)
       \/ /\ Running("finalize", 3)
          /\ incoming' = None
          /\ Step("finalize", 0)
    /\ UNCHANGED <<transfer, intent, op, source, binding, copies, tested,
                   bounds>>

\* record_off_host_copy: the deployment's receipt is written if the copied
\* snapshot is the newest.
Record ==
    /\ Running("record", 1)
    /\ offHost' = IF latest = receipt THEN receipt ELSE offHost
    /\ Step("record", 0)
    /\ UNCHANGED <<transfer, intent, op, latest, snaps, restored, export, rehearsal,
                   destination, tested, bounds>>

CleanSource ==
    /\ Running("cleanSource", 1)
    /\ export' = None
    /\ Step("cleanSource", 0)
    /\ UNCHANGED <<transfer, intent, op, latest, snaps, restored, offHost, rehearsal,
                   destination, tested, bounds>>

\* cleanup_transfer removes the kept manifest, then the partial tree.
CleanDestination ==
    /\ \/ /\ Running("cleanDestination", 1)
          /\ binding' = None /\ UNCHANGED incoming
          /\ Step("cleanDestination", 2)
       \/ /\ Running("cleanDestination", 2)
          /\ incoming' = None /\ UNCHANGED binding
          /\ Step("cleanDestination", 0)
    /\ UNCHANGED <<transfer, intent, op, source, copies, tested, bounds>>

-----------------------------------------------------------------------------
(* Faults.                                                                   *)

Kill(h) ==
    /\ exec[h] # Idle /\ kills + fails < MaxFaults
    /\ kills' = kills + 1
    /\ exec' = [exec EXCEPT ![h] = Idle]
    /\ UNCHANGED <<transfer, intent, op, source, destination, tested, made,
                   begun, fails>>

\* An I/O error before the operation's work is done: the failure is journaled.
Fail(h) ==
    /\ exec[h] # Idle /\ exec[h].step # 0 /\ kills + fails < MaxFaults
    /\ fails' = fails + 1
    /\ End(exec[h].kind, "failed")
    /\ UNCHANGED <<transfer, intent, source, destination, tested, made, begun,
                   kills>>

SourceStep ==
    \/ \E k \in SourceOps : Finish(k)
    \/ SnapshotPublish \/ SnapshotManifest \/ SnapshotDropReceipts
    \/ RestorePin \/ RestoreRehearse \/ RestoreReceipt
    \/ ExportPrepare \/ ReadChunk \/ Record \/ CleanSource

DestinationStep ==
    \/ \E k \in DestinationOps : Finish(k)
    \/ ImportPrepare \/ WriteChunk \/ CleanDestination
    \/ FinalizeBind \/ FinalizePublish \/ FinalizeDrop

Advance ==
    \/ AdvanceSourcePrepare \/ AdvanceDestinationPrepare \/ AdvanceCopying
    \/ AdvanceFinalize \/ AdvanceRecord \/ AdvanceCleanupSource
    \/ AdvanceCleanupDestination

Next ==
    \/ \E k \in {"snapshot", "restore"} : OrderBackup(k) \/ SettleBackup(k)
    \/ BeginCopy \/ Advance
    \/ \E k \in Ops : Call(k)
    \/ SourceStep \/ DestinationStep
    \/ \E h \in Hosts : Kill(h) \/ Fail(h)

Spec == Init /\ [][Next]_vars

\* The operator repeats an unfinished copy until it is answered, each repeat
\* finds the target's journal free now and then, and a helper that is not
\* killed goes on.
FairSpec ==
    /\ Spec
    /\ WF_vars(SourceStep) /\ WF_vars(DestinationStep) /\ WF_vars(Advance)
    /\ SF_vars(\E k \in SourceOps \ {"snapshot", "restore"} : Call(k))
    /\ SF_vars(\E k \in DestinationOps : Call(k))

-----------------------------------------------------------------------------
(* Properties.                                                               *)

TypeOK ==
    /\ phase \in Phases
    /\ plan \in Snap \cup {None} /\ receipt \in Snap \cup {None}
    /\ \/ cursor = None
       \/ /\ cursor \in [file : 1..Files, chunk : Nat]
          /\ cursor.chunk < Chunks[cursor.file]
    /\ intent \subseteq {"snapshot", "restore"} /\ rehearsed \in BOOLEAN
    /\ op \in [Ops -> {"none", "pending", "done", "failed"}]
    /\ exec \in [Hosts -> [kind : Ops \cup {None}, step : Steps]]
    /\ snaps \subseteq Snap /\ copies \subseteq Snap /\ tested \subseteq Snap
    /\ {latest, restored, offHost, export, pin, binding} \subseteq Snap \cup {None}
    /\ \/ incoming = None
       \/ incoming \in [1..Files -> Nat] /\ \A f \in 1..Files : incoming[f] <= Full[f]

\* Whatever calls were repeated, resumed or torn, the destination holds every
\* byte of the plan when the copy is finalized, and its published snapshot
\* from then on.
CopyComplete ==
    /\ phase = "Finalize" => incoming = Full \/ plan \in copies
    /\ phase \in {"RecordSourceReceipt", "CleanupSource", "CleanupDestination"}
         => plan \in copies

\* What the backup projection reports of the newest snapshot is true: it was
\* rehearsed if it shows a restore test, and it exists on another host if it
\* shows an off-host copy.
EvidenceTrue ==
    latest # None =>
        /\ restored = latest => latest \in tested
        /\ offHost = latest => latest \in copies

\* Between snapshot orders no receipt names an older snapshot, which would
\* make the strict projection fail, unless an order failed half way.
EvidenceReadable ==
    "snapshot" \notin intent /\ fails = 0 =>
        {restored, offHost} \subseteq {None, latest}

\* The evidence of the newest snapshot can be believed and can be read.
EvidenceSound == EvidenceTrue /\ EvidenceReadable

\* A copy that was begun ends through any kills and lost answers, unless an
\* operation met an I/O error, no snapshot existed when it began, or a kill
\* tore the removal of a partial tree whose snapshot was already there.
CopyEnds ==
    phase # "none" ~>
        \/ phase = "none" \/ fails > 0 \/ op["export"] = "failed"
        \/ phase = "Finalize" /\ plan \in copies /\ incoming \notin {None, Full}

\* A cleanup that failed can be retried by repeating the command, as its
\* message says.  Refuted: the target journal replays the stored failure.
CleanupRetries == phase \in {"CleanupSource", "CleanupDestination"} ~> phase = "none"

===============================================================================
