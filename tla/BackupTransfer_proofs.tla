------------------------ MODULE BackupTransfer_proofs ------------------------
(***************************************************************************)
(* Proofs about BackupTransfer for every plan (number of files and chunks) *)
(* and every bound on snapshots, kills and failures.                       *)
(*                                                                         *)
(* Every operation outlives the process that runs it: the helper is killed *)
(* and repeated, the controller resumes. The invariant says what each of   *)
(* the journals promises about the others: a pending operation belongs to  *)
(* the phase it was asked in (Called, Unused), and what it has done so far *)
(* is on disk (Prepared, Copied, Published, Rehearsed, Readable).          *)
(* <Action>C is the lemma that the action keeps it.                        *)
(***************************************************************************)
EXTENDS BackupTransfer, TLAPS

\* The phase in which the controller asks for a transfer operation.
DueIn(k) ==
    CASE k = "export" -> "SourcePrepare"
      [] k = "import" -> "DestinationPrepare"
      [] k \in {"read", "write"} -> "Copying"
      [] k = "finalize" -> "Finalize"
      [] k = "record" -> "RecordSourceReceipt"
      [] k = "cleanSource" -> "CleanupSource"
      [] k = "cleanDestination" -> "CleanupDestination"

CopyTypes ==
    /\ TypeOK
    /\ made \in 0..MaxSnaps /\ begun \in Nat /\ kills \in Nat /\ fails \in Nat

\* The helper of a host runs a pending operation of that host; one order's
\* operation belongs to its saved intent, one transfer's to its phase.
Called ==
    /\ \A h \in Hosts :
          \/ exec[h] = Idle
          \/ /\ exec[h].kind \in Ops /\ HostOf(exec[h].kind) = h
             /\ op[exec[h].kind] = "pending"
    /\ \A k \in {"snapshot", "restore"} : op[k] # "none" => k \in intent
    /\ \A k \in Ops \ {"snapshot", "restore"} :
          op[k] = "pending" => phase = DueIn(k)
    /\ "snapshot" \in intent => made > 0

\* The ids of the operations of later phases are fresh.
Unused ==
    /\ phase = "none" => op["export"] = "none"
    /\ phase \in {"none", "SourcePrepare"} => op["import"] = "none"
    /\ phase # "Copying" => op["read"] = "none" /\ op["write"] = "none"
    /\ phase \in {"none", "SourcePrepare", "DestinationPrepare", "Copying"}
         => op["finalize"] = "none"
    /\ phase \notin {"RecordSourceReceipt", "CleanupSource", "CleanupDestination"}
         => op["record"] = "none"
    /\ phase \notin {"CleanupSource", "CleanupDestination"}
         => op["cleanSource"] = "none"
    /\ phase # "CleanupDestination" => op["cleanDestination"] = "none"

\* An operation has done its work: it only has to be journaled, or it was.
Worked(k) == Running(k, 0) \/ op[k] = "done"

(* The partial tree of the transfer.                                       *)
Partial == /\ incoming \in [1..Files -> Nat]
           /\ \A f \in 1..Files : incoming[f] <= Full[f]

Prepared ==
    /\ phase = "SourcePrepare" /\ Worked("export") => export \in Snap
    /\ phase \notin {"none", "SourcePrepare"} => plan \in Snap
    /\ phase = "DestinationPrepare" /\ Worked("import") => Partial
    /\ phase = "RecordSourceReceipt" => receipt = plan

\* The files before the cursor are whole, the chunks before it are there.
Copied ==
    phase = "Copying" =>
        /\ cursor \in [file : 1..Files, chunk : Nat] /\ Partial
        /\ cursor.chunk < Chunks[cursor.file]
        /\ \A f \in 1..Files : f < cursor.file => incoming[f] = Full[f]
        /\ incoming[cursor.file] >= Offset
        /\ Worked("write") => incoming[cursor.file] >= Offset + 2

Published ==
    /\ CopyComplete
    /\ Running("finalize", 3) => plan \in copies
    /\ phase = "Finalize" /\ Worked("finalize") => plan \in copies

Rehearsed ==
    /\ rehearsed => pin # None /\ pin \in tested
    /\ Running("restore", 2) => pin # None
    /\ Running("restore", 3) => rehearsed
    /\ restored # None => restored \in tested
    /\ offHost # None => offHost \in copies

Readable ==
    fails = 0 =>
        /\ op["snapshot"] # "failed"
        /\ Running("snapshot", 4) => restored \in {None, latest}
        /\ "snapshot" \notin intent \/ Worked("snapshot") =>
               {restored, offHost} \subseteq {None, latest}

CopyInv ==
    /\ CopyTypes /\ Called /\ Unused /\ Prepared /\ Copied /\ Published
    /\ Rehearsed /\ Readable

-----------------------------------------------------------------------------
LEMMA Hosted ==
    /\ Ops = {"snapshot", "restore", "export", "read", "record", "cleanSource",
              "import", "write", "finalize", "cleanDestination"}
    /\ \A k \in {"snapshot", "restore", "export", "read", "record", "cleanSource"} :
          HostOf(k) = "source"
    /\ \A k \in {"import", "write", "finalize", "cleanDestination"} :
          HostOf(k) = "destination"
BY DEF Ops, SourceOps, DestinationOps, HostOf

LEMMA Due ==
    /\ DueIn("export") = "SourcePrepare" /\ DueIn("import") = "DestinationPrepare"
    /\ DueIn("read") = "Copying" /\ DueIn("write") = "Copying"
    /\ DueIn("finalize") = "Finalize" /\ DueIn("record") = "RecordSourceReceipt"
    /\ DueIn("cleanSource") = "CleanupSource"
    /\ DueIn("cleanDestination") = "CleanupDestination"
BY DEF DueIn

LEMMA Sized == /\ Files \in Nat \ {0} /\ Chunks \in [1..Files -> Nat \ {0}]
               /\ DOMAIN Full = 1..Files /\ \A f \in 1..Files : Full[f] = 2 * Chunks[f]
BY BackupAssumption DEF Files, Full

(* What a running helper says of the journal and the controller.            *)
Helpers ==
    /\ exec["source"] = Idle => exec["source"].kind \notin Ops
    /\ exec["destination"] = Idle => exec["destination"].kind \notin Ops
    /\ exec["source"].kind = "snapshot" =>
          op["snapshot"] = "pending" /\ "snapshot" \in intent /\ made \in Snap
    /\ exec["source"].kind = "restore" =>
          op["restore"] = "pending" /\ "restore" \in intent
    /\ exec["source"].kind = "export" =>
          op["export"] = "pending" /\ phase = "SourcePrepare"
    /\ exec["source"].kind = "read" =>
          op["read"] = "pending" /\ phase = "Copying"
    /\ exec["source"].kind = "record" =>
          op["record"] = "pending" /\ phase = "RecordSourceReceipt"
    /\ exec["source"].kind = "cleanSource" =>
          op["cleanSource"] = "pending" /\ phase = "CleanupSource"
    /\ exec["destination"].kind = "import" =>
          op["import"] = "pending" /\ phase = "DestinationPrepare"
    /\ exec["destination"].kind = "write" =>
          op["write"] = "pending" /\ phase = "Copying"
    /\ exec["destination"].kind = "finalize" =>
          op["finalize"] = "pending" /\ phase = "Finalize"
    /\ exec["destination"].kind = "cleanDestination" =>
          op["cleanDestination"] = "pending" /\ phase = "CleanupDestination"

LEMMA Busy ==
    ASSUME CopyTypes, Called PROVE Helpers
<1>1. /\ Idle.kind \notin Ops
      /\ "source" \in Hosts /\ "destination" \in Hosts
    BY NoneIsAbsent DEF Idle, Hosts
<1>2. \A h \in Hosts : exec[h].kind \in Ops => op[exec[h].kind] = "pending"
    BY <1>1 DEF Called
<1>3. made > 0 => made \in Snap
    BY BackupAssumption DEF CopyTypes, Snap
<1>4. \A h \in Hosts : exec[h] = Idle => exec[h].kind \notin Ops
    BY <1>1
<1>5. exec["source"].kind \in {"snapshot", "restore"} =>
         /\ op[exec["source"].kind] = "pending" /\ exec["source"].kind \in intent
         /\ "snapshot" \in intent => made > 0
    BY <1>1, <1>2, Hosted DEF Called
<1>6. \A h \in Hosts : exec[h].kind \in Ops \ {"snapshot", "restore"} =>
         op[exec[h].kind] = "pending" /\ phase = DueIn(exec[h].kind)
    BY <1>1, <1>2 DEF Called
<1>q. QED BY <1>1, <1>3, <1>4, <1>5, <1>6, Hosted, Due DEF Helpers

(* A step of a running helper.                                             *)
LEMMA Stepped ==
    ASSUME CopyTypes, Called, NEW k \in Ops, NEW m, NEW n \in Steps,
           Running(k, m), Step(k, n)
    PROVE  /\ exec' \in [Hosts -> [kind : Ops \cup {None}, step : Steps]]
           /\ exec'[HostOf(k)] = [kind |-> k, step |-> n]
           /\ \A h \in Hosts \ {HostOf(k)} : exec'[h] = exec[h]
           /\ op' = op /\ intent' = intent /\ phase' = phase /\ made' = made => Called'
<1>1. HostOf(k) \in Hosts BY Hosted DEF Hosts
<1>2. /\ exec \in [Hosts -> [kind : Ops \cup {None}, step : Steps]]
      /\ exec[HostOf(k)] = [kind |-> k, step |-> m]
    BY DEF CopyTypes, TypeOK, Running
<1>3. /\ exec' \in [Hosts -> [kind : Ops \cup {None}, step : Steps]]
      /\ exec'[HostOf(k)] = [kind |-> k, step |-> n]
      /\ \A h \in Hosts \ {HostOf(k)} : exec'[h] = exec[h]
    BY <1>1, <1>2 DEF Step
<1>4. op[k] = "pending"
    BY <1>1, <1>2, NoneIsAbsent DEF Called, Idle
<1>5. ASSUME op' = op, intent' = intent, phase' = phase, made' = made PROVE Called'
    BY <1>1, <1>3, <1>4, <1>5 DEF Called
<1>q. QED BY <1>3, <1>5

(* The end of a running helper's operation.                                *)
LEMMA Ended ==
    ASSUME CopyTypes, Called, NEW k \in Ops, NEW m,
           NEW s \in {"done", "failed"}, Running(k, m), End(k, s)
    PROVE  /\ exec' \in [Hosts -> [kind : Ops \cup {None}, step : Steps]]
           /\ op' \in [Ops -> {"none", "pending", "done", "failed"}]
           /\ exec'[HostOf(k)] = Idle
           /\ \A h \in Hosts \ {HostOf(k)} : exec'[h] = exec[h]
           /\ op'[k] = s /\ op[k] = "pending"
           /\ \A j \in Ops \ {k} : op'[j] = op[j]
           /\ intent' = intent /\ phase' = phase /\ made' = made => Called'
<1>1. HostOf(k) \in Hosts BY Hosted DEF Hosts
<1>2. /\ exec \in [Hosts -> [kind : Ops \cup {None}, step : Steps]]
      /\ op \in [Ops -> {"none", "pending", "done", "failed"}]
      /\ exec[HostOf(k)] = [kind |-> k, step |-> m]
      /\ Idle \in [kind : Ops \cup {None}, step : Steps]
    BY DEF CopyTypes, TypeOK, Running, Idle, Steps
<1>3. /\ exec' \in [Hosts -> [kind : Ops \cup {None}, step : Steps]]
      /\ exec'[HostOf(k)] = Idle
      /\ \A h \in Hosts \ {HostOf(k)} : exec'[h] = exec[h]
      /\ op' \in [Ops -> {"none", "pending", "done", "failed"}]
      /\ op'[k] = s
      /\ \A j \in Ops \ {k} : op'[j] = op[j]
    BY <1>1, <1>2 DEF End
<1>4. op[k] = "pending"
    BY <1>1, <1>2, NoneIsAbsent DEF Called, Idle
<1>5. ASSUME intent' = intent, phase' = phase, made' = made PROVE Called'
  <2>0. intent' = intent /\ phase' = phase /\ made' = made
      BY <1>5
  <2>1. \A h \in Hosts : \/ exec'[h] = Idle
                         \/ /\ exec'[h].kind \in Ops /\ HostOf(exec'[h].kind) = h
                            /\ op'[exec'[h].kind] = "pending"
      BY <1>1, <1>3 DEF Called
  <2>2. \A j \in Ops : /\ op'[j] # "none" => op[j] # "none"
                       /\ op'[j] = "pending" => op[j] = "pending"
      BY <1>3, <1>4
  <2>3. \A j \in {"snapshot", "restore"} : op'[j] # "none" => j \in intent'
      BY <2>0, <2>2, Hosted DEF Called
  <2>4. \A j \in Ops \ {"snapshot", "restore"} :
           op'[j] = "pending" => phase' = DueIn(j)
      BY <2>0, <2>2 DEF Called
  <2>5. "snapshot" \in intent' => made' > 0
      BY <1>5 DEF Called
  <2>q. QED BY <2>1, <2>3, <2>4, <2>5 DEF Called
<1>q. QED BY <1>3, <1>4, <1>5

(* The same, host by host.                                                 *)
ExecOf == [Hosts -> [kind : Ops \cup {None}, step : Steps]]
Journals == [Ops -> {"none", "pending", "done", "failed"}]

LEMMA SourceStepped ==
    ASSUME CopyTypes, Called, NEW k \in SourceOps, NEW m, NEW n \in Steps,
           Running(k, m), Step(k, n), UNCHANGED <<op, intent, phase, made>>
    PROVE  /\ exec' \in ExecOf /\ op' \in Journals /\ Called'
           /\ exec'["source"] = [kind |-> k, step |-> n]
           /\ exec'["destination"] = exec["destination"]
<1>1. k \in Ops /\ HostOf(k) = "source" BY DEF Ops, HostOf
<1>2. op \in Journals BY DEF CopyTypes, TypeOK, Journals
<1>q. QED BY <1>1, <1>2, Stepped DEF Hosts, ExecOf

LEMMA DestinationStepped ==
    ASSUME CopyTypes, Called, NEW k \in DestinationOps, NEW m, NEW n \in Steps,
           Running(k, m), Step(k, n), UNCHANGED <<op, intent, phase, made>>
    PROVE  /\ exec' \in ExecOf /\ op' \in Journals /\ Called'
           /\ exec'["destination"] = [kind |-> k, step |-> n]
           /\ exec'["source"] = exec["source"]
<1>1. k \in Ops /\ HostOf(k) = "destination"
    BY DEF Ops, HostOf, SourceOps, DestinationOps
<1>2. op \in Journals BY DEF CopyTypes, TypeOK, Journals
<1>q. QED BY <1>1, <1>2, Stepped DEF Hosts, ExecOf

LEMMA SourceEnded ==
    ASSUME CopyTypes, Called, NEW k \in SourceOps, NEW m, NEW s \in {"done", "failed"},
           Running(k, m), End(k, s), UNCHANGED <<intent, phase, made>>
    PROVE  /\ exec' \in ExecOf /\ op' \in Journals /\ Called'
           /\ exec'["source"] = Idle /\ exec'["destination"] = exec["destination"]
           /\ op'[k] = s /\ \A j \in Ops \ {k} : op'[j] = op[j]
<1>1. k \in Ops /\ HostOf(k) = "source" BY DEF Ops, HostOf
<1>q. QED BY <1>1, Ended DEF Hosts, ExecOf, Journals

LEMMA DestinationEnded ==
    ASSUME CopyTypes, Called, NEW k \in DestinationOps, NEW m, NEW s \in {"done", "failed"},
           Running(k, m), End(k, s), UNCHANGED <<intent, phase, made>>
    PROVE  /\ exec' \in ExecOf /\ op' \in Journals /\ Called'
           /\ exec'["destination"] = Idle /\ exec'["source"] = exec["source"]
           /\ op'[k] = s /\ \A j \in Ops \ {k} : op'[j] = op[j]
<1>1. k \in Ops /\ HostOf(k) = "destination"
    BY DEF Ops, HostOf, SourceOps, DestinationOps
<1>q. QED BY <1>1, Ended DEF Hosts, ExecOf, Journals

-----------------------------------------------------------------------------
(* The controller's steps.                                                 *)
LEMMA OrderBackupC ==
    ASSUME CopyInv, NEW k \in {"snapshot", "restore"}, OrderBackup(k) PROVE CopyInv'
<1>b. Helpers BY Busy DEF CopyInv
<1>1. CopyTypes'
    BY BackupAssumption DEF CopyInv, CopyTypes, TypeOK, OrderBackup, transfer, source,
       rehearsal, destination
<1>2. Called'
    BY DEF CopyInv, Called, CopyTypes, OrderBackup, transfer
<1>3. Unused'
    BY DEF CopyInv, Unused, OrderBackup, transfer
<1>4. Prepared'
    BY DEF CopyInv, Prepared, Partial, Worked, Running, OrderBackup, transfer, source,
       destination
<1>5. Copied'
    BY DEF CopyInv, Copied, Partial, Worked, Running, Offset, OrderBackup, transfer,
       destination
<1>6. Published'
    BY DEF CopyInv, Published, CopyComplete, Worked, Running, OrderBackup, transfer,
       destination
<1>7. Rehearsed'
    BY DEF CopyInv, Rehearsed, Running, OrderBackup, source, rehearsal, destination
<1>8. Readable'
    BY DEF CopyInv, Readable, Worked, Running, OrderBackup, source
<1>q. QED BY <1>1, <1>2, <1>3, <1>4, <1>5, <1>6, <1>7, <1>8 DEF CopyInv

LEMMA SettleBackupC ==
    ASSUME CopyInv, NEW k \in {"snapshot", "restore"}, SettleBackup(k) PROVE CopyInv'
<1>b. Helpers BY Busy DEF CopyInv
<1>1. CopyTypes'
  <2>1. op' \in Journals BY DEF CopyInv, CopyTypes, TypeOK, SettleBackup, Journals
  <2>2. pin' \in Snap \cup {None} /\ rehearsed' \in BOOLEAN
    BY DEF CopyInv, CopyTypes, TypeOK, SettleBackup
  <2>q. QED BY <2>1, <2>2 DEF CopyInv, CopyTypes, TypeOK, Journals, SettleBackup, transfer,
                              destination, bounds
<1>2. Called'
    BY Hosted DEF CopyInv, Called, CopyTypes, TypeOK, SettleBackup, transfer, bounds
<1>3. Unused'
    BY DEF CopyInv, Unused, SettleBackup, transfer
<1>4. Prepared'
    BY DEF CopyInv, Prepared, Partial, Worked, Running, SettleBackup, transfer, destination
<1>5. Copied'
    BY DEF CopyInv, Copied, Partial, Worked, Running, Offset, SettleBackup, transfer,
       destination
<1>6. Published'
    BY DEF CopyInv, Published, CopyComplete, Worked, Running, SettleBackup, transfer,
       destination
<1>7. Rehearsed'
    BY <1>b, Hosted DEF CopyInv, Helpers, Rehearsed, Running, SettleBackup, destination
<1>8. Readable'
    BY DEF CopyInv, Readable, Worked, Running, SettleBackup, bounds
<1>q. QED BY <1>1, <1>2, <1>3, <1>4, <1>5, <1>6, <1>7, <1>8 DEF CopyInv

LEMMA BeginCopyC ==
    ASSUME CopyInv, BeginCopy PROVE CopyInv'
<1>b. Helpers BY Busy DEF CopyInv
<1>1. CopyTypes'
    BY DEF CopyInv, CopyTypes, TypeOK, Phases, BeginCopy, source, rehearsal, destination
<1>2. Called'
    BY Due, Hosted DEF CopyInv, Called, BeginCopy
<1>3. Unused'
    BY DEF CopyInv, Unused, BeginCopy
<1>4. Prepared'
    BY <1>b, Hosted DEF CopyInv, Helpers, Prepared, Worked, Running, Unused, BeginCopy
<1>5. Copied'
    BY DEF Copied, BeginCopy
<1>6. Published'
    BY DEF CopyInv, Published, CopyComplete, Running, BeginCopy, destination
<1>7. Rehearsed'
    BY DEF CopyInv, Rehearsed, Running, BeginCopy, source, rehearsal, destination
<1>8. Readable'
    BY DEF CopyInv, Readable, Worked, Running, BeginCopy, source
<1>q. QED BY <1>1, <1>2, <1>3, <1>4, <1>5, <1>6, <1>7, <1>8 DEF CopyInv

LEMMA AdvanceSourcePrepareC ==
    ASSUME CopyInv, AdvanceSourcePrepare PROVE CopyInv'
<1>b. Helpers BY Busy DEF CopyInv
<1>1. CopyTypes'
    BY DEF CopyInv, CopyTypes, TypeOK, Phases, AdvanceSourcePrepare, source, rehearsal,
       destination, bounds
<1>2. Called'
    BY Due, Hosted DEF CopyInv, Called, AdvanceSourcePrepare, bounds
<1>3. Unused'
    BY DEF CopyInv, Unused, AdvanceSourcePrepare
<1>4. Prepared'
    BY <1>b, Hosted DEF CopyInv, Helpers, Prepared, Worked, Running, Unused,
       AdvanceSourcePrepare
<1>5. Copied'
    BY DEF Copied, AdvanceSourcePrepare
<1>6. Published'
    BY <1>b, Hosted DEF Helpers, Published, CopyComplete, Running, AdvanceSourcePrepare
<1>7. Rehearsed'
    BY DEF CopyInv, Rehearsed, Running, AdvanceSourcePrepare, source, rehearsal, destination
<1>8. Readable'
    BY DEF CopyInv, Readable, Worked, Running, AdvanceSourcePrepare, source, bounds
<1>q. QED BY <1>1, <1>2, <1>3, <1>4, <1>5, <1>6, <1>7, <1>8 DEF CopyInv

LEMMA AdvanceDestinationPrepareC ==
    ASSUME CopyInv, AdvanceDestinationPrepare PROVE CopyInv'
<1>b. Helpers BY Busy DEF CopyInv
<1>1. CopyTypes'
    BY Sized DEF CopyInv, CopyTypes, TypeOK, Phases, AdvanceDestinationPrepare, source,
       rehearsal, destination, bounds
<1>2. Called'
    BY Due, Hosted DEF CopyInv, Called, AdvanceDestinationPrepare, bounds
<1>3. Unused'
    BY DEF CopyInv, Unused, AdvanceDestinationPrepare
<1>4. Prepared'
    BY DEF CopyInv, Prepared, AdvanceDestinationPrepare
<1>5. Copied'
    BY <1>b, Sized, Hosted DEF CopyInv, Helpers, Copied, Partial, Worked, Running, Unused,
       Offset, Prepared, AdvanceDestinationPrepare, destination
<1>6. Published'
    BY DEF CopyInv, Published, CopyComplete, Running, AdvanceDestinationPrepare, destination
<1>7. Rehearsed'
    BY DEF CopyInv, Rehearsed, Running, AdvanceDestinationPrepare, source, rehearsal,
       destination
<1>8. Readable'
    BY DEF CopyInv, Readable, Worked, Running, AdvanceDestinationPrepare, source, bounds
<1>q. QED BY <1>1, <1>2, <1>3, <1>4, <1>5, <1>6, <1>7, <1>8 DEF CopyInv

LEMMA AdvanceFinalizeC ==
    ASSUME CopyInv, AdvanceFinalize PROVE CopyInv'
<1>b. Helpers BY Busy DEF CopyInv
<1>1. CopyTypes'
    BY DEF CopyInv, CopyTypes, TypeOK, Phases, AdvanceFinalize, source, rehearsal,
       destination, bounds
<1>2. Called'
    BY Due, Hosted DEF CopyInv, Called, AdvanceFinalize, bounds
<1>3. Unused'
    BY DEF CopyInv, Unused, AdvanceFinalize
<1>4. Prepared'
    BY DEF CopyInv, Prepared, AdvanceFinalize
<1>5. Copied'
    BY DEF Copied, AdvanceFinalize
<1>6. Published'
    BY DEF CopyInv, Published, CopyComplete, Worked, AdvanceFinalize, destination
<1>7. Rehearsed'
    BY DEF CopyInv, Rehearsed, Running, AdvanceFinalize, source, rehearsal, destination
<1>8. Readable'
    BY DEF CopyInv, Readable, Worked, Running, AdvanceFinalize, source, bounds
<1>q. QED BY <1>1, <1>2, <1>3, <1>4, <1>5, <1>6, <1>7, <1>8 DEF CopyInv

LEMMA AdvanceRecordC ==
    ASSUME CopyInv, AdvanceRecord PROVE CopyInv'
<1>b. Helpers BY Busy DEF CopyInv
<1>1. CopyTypes'
    BY DEF CopyInv, CopyTypes, TypeOK, Phases, AdvanceRecord, source, rehearsal,
       destination, bounds
<1>2. Called'
    BY Due, Hosted DEF CopyInv, Called, AdvanceRecord, bounds
<1>3. Unused'
    BY DEF CopyInv, Unused, AdvanceRecord
<1>4. Prepared'
    BY DEF CopyInv, Prepared, AdvanceRecord
<1>5. Copied'
    BY DEF Copied, AdvanceRecord
<1>6. Published'
    BY DEF CopyInv, Published, CopyComplete, AdvanceRecord, destination
<1>7. Rehearsed'
    BY DEF CopyInv, Rehearsed, Running, AdvanceRecord, source, rehearsal, destination
<1>8. Readable'
    BY DEF CopyInv, Readable, Worked, Running, AdvanceRecord, source, bounds
<1>q. QED BY <1>1, <1>2, <1>3, <1>4, <1>5, <1>6, <1>7, <1>8 DEF CopyInv

LEMMA AdvanceCleanupSourceC ==
    ASSUME CopyInv, AdvanceCleanupSource PROVE CopyInv'
<1>b. Helpers BY Busy DEF CopyInv
<1>1. CopyTypes'
    BY DEF CopyInv, CopyTypes, TypeOK, Phases, AdvanceCleanupSource, source, rehearsal,
       destination, bounds
<1>2. Called'
    BY Due, Hosted DEF CopyInv, Called, AdvanceCleanupSource, bounds
<1>3. Unused'
    BY DEF CopyInv, Unused, AdvanceCleanupSource
<1>4. Prepared'
    BY DEF CopyInv, Prepared, AdvanceCleanupSource
<1>5. Copied'
    BY DEF Copied, AdvanceCleanupSource
<1>6. Published'
    BY DEF CopyInv, Published, CopyComplete, AdvanceCleanupSource, destination
<1>7. Rehearsed'
    BY DEF CopyInv, Rehearsed, Running, AdvanceCleanupSource, source, rehearsal, destination
<1>8. Readable'
    BY DEF CopyInv, Readable, Worked, Running, AdvanceCleanupSource, source, bounds
<1>q. QED BY <1>1, <1>2, <1>3, <1>4, <1>5, <1>6, <1>7, <1>8 DEF CopyInv

LEMMA AdvanceCleanupDestinationC ==
    ASSUME CopyInv, AdvanceCleanupDestination PROVE CopyInv'
<1>b. Helpers BY Busy DEF CopyInv
<1>1. CopyTypes'
    BY DEF CopyInv, CopyTypes, TypeOK, Phases, AdvanceCleanupDestination, source,
       rehearsal, destination, bounds
<1>2. Called'
    BY Due, Hosted DEF CopyInv, Called, AdvanceCleanupDestination, bounds
<1>3. Unused'
    BY Hosted DEF Unused, AdvanceCleanupDestination
<1>4. Prepared'
    BY DEF Prepared, AdvanceCleanupDestination
<1>5. Copied'
    BY DEF Copied, AdvanceCleanupDestination
<1>6. Published'
    BY <1>b, Hosted DEF Helpers, Published, CopyComplete, Running, AdvanceCleanupDestination
<1>7. Rehearsed'
    BY DEF CopyInv, Rehearsed, Running, AdvanceCleanupDestination, source, rehearsal,
       destination
<1>8. Readable'
    BY Hosted DEF CopyInv, Readable, Worked, Running, AdvanceCleanupDestination, source,
       bounds
<1>q. QED BY <1>1, <1>2, <1>3, <1>4, <1>5, <1>6, <1>7, <1>8 DEF CopyInv

LEMMA AdvanceCopyingC ==
    ASSUME CopyInv, AdvanceCopying PROVE CopyInv'
<1> DEFINE file == cursor.file
           chunk == cursor.chunk
<1>b. Helpers BY Busy DEF CopyInv
<1>c. /\ cursor \in [file : 1..Files, chunk : Nat] /\ chunk < Chunks[file]
      /\ incoming \in [1..Files -> Nat]
      /\ \A f \in 1..Files : incoming[f] <= 2 * Chunks[f]
      /\ \A f \in 1..Files : f < file => incoming[f] = Full[f]
      /\ incoming[file] >= 2 * chunk + 2
      /\ plan \in Snap
  <2>1. /\ phase = "Copying" /\ Worked("write")
    BY DEF AdvanceCopying, Worked
  <2>2. /\ cursor \in [file : 1..Files, chunk : Nat] /\ chunk < Chunks[file]
        /\ Partial /\ incoming[file] >= Offset + 2
        /\ \A f \in 1..Files : f < file => incoming[f] = Full[f]
    BY <2>1 DEF CopyInv, Copied
  <2>3. plan \in Snap BY <2>1 DEF CopyInv, Prepared
  <2>4. Offset = 2 * chunk BY DEF Offset
  <2>q. QED BY <2>2, <2>3, <2>4, Sized DEF Partial
<1>d. file \in 1..Files /\ chunk \in Nat /\ Chunks[file] \in Nat \ {0}
    BY <1>c, Sized
<1>e. /\ UNCHANGED <<exec, plan, receipt, intent, source, incoming, binding, copies,
                     tested, bounds>>
      /\ op' \in Journals /\ op'["read"] = "none" /\ op'["write"] = "none"
      /\ \A j \in Ops \ {"read", "write"} : op'[j] = op[j]
    BY Hosted DEF CopyInv, CopyTypes, TypeOK, Journals, AdvanceCopying, destination
<1>f. \/ /\ phase' = "Copying" /\ chunk + 1 < Chunks[file]
         /\ cursor' = [file |-> file, chunk |-> chunk + 1]
      \/ /\ phase' = "Copying" /\ chunk + 1 = Chunks[file] /\ file + 1 \in 1..Files
         /\ cursor' = [file |-> file + 1, chunk |-> 0]
      \/ /\ phase' = "Finalize" /\ chunk + 1 = Chunks[file] /\ file = Files
         /\ cursor' = None
  <2>1. [cursor EXCEPT !.chunk = @ + 1] = [file |-> file, chunk |-> chunk + 1]
    BY <1>c
  <2>q. QED BY <1>c, <1>d, <2>1, Sized DEF AdvanceCopying
<1>g. chunk + 1 = Chunks[file] => incoming[file] = Full[file]
  <2>1. incoming[file] \in Nat /\ incoming[file] <= 2 * Chunks[file] BY <1>c, <1>d
  <2>2. Full[file] = 2 * Chunks[file] BY <1>d, Sized
  <2>3. incoming[file] >= 2 * chunk + 2 BY <1>c
  <2>q. QED BY <1>d, <2>1, <2>2, <2>3
<1>h. Files \in Nat \ {0} BY Sized
<1>1. CopyTypes'
  <2>1. \/ cursor' = None
        \/ /\ cursor' \in [file : 1..Files, chunk : Nat]
           /\ cursor'.chunk < Chunks[cursor'.file]
    <3>1. CASE cursor' = [file |-> file, chunk |-> chunk + 1]
                  /\ chunk + 1 < Chunks[file]
      BY <1>d, <3>1
    <3>2. CASE cursor' = [file |-> file + 1, chunk |-> 0] /\ file + 1 \in 1..Files
      BY <3>2, Sized
    <3>q. QED BY <1>f, <3>1, <3>2
  <2>2. phase' \in Phases BY <1>f DEF Phases
  <2>q. QED BY <1>e, <2>1, <2>2
            DEF CopyInv, CopyTypes, TypeOK, Journals, source, rehearsal, bounds
<1>2. Called'
  <2>1. op["read"] = "done" /\ op["write"] = "done"
    BY DEF AdvanceCopying
  <2>2. \A h \in Hosts : \/ exec'[h] = Idle
                         \/ /\ exec'[h].kind \in Ops /\ HostOf(exec'[h].kind) = h
                            /\ op'[exec'[h].kind] = "pending"
    BY <1>e, <2>1 DEF CopyInv, Called
  <2>3. \A j \in {"snapshot", "restore"} : op'[j] # "none" => j \in intent'
    BY <1>e, Hosted DEF CopyInv, Called
  <2>4. \A j \in Ops \ {"snapshot", "restore"} : op'[j] # "pending"
    <3>1. \A j \in Ops \ {"snapshot", "restore", "read", "write"} :
             DueIn(j) # "Copying"
      BY Hosted, Due
    <3>2. \A j \in Ops \ {"snapshot", "restore"} : op[j] = "pending" => DueIn(j) = "Copying"
      BY DEF CopyInv, Called, AdvanceCopying
    <3>q. QED BY <1>e, <3>1, <3>2
  <2>5. "snapshot" \in intent' => made' > 0 BY <1>e DEF CopyInv, Called, bounds
  <2>q. QED BY <2>2, <2>3, <2>4, <2>5 DEF Called
<1>3. Unused' BY <1>e, <1>f, Hosted DEF CopyInv, Unused, AdvanceCopying
<1>4. Prepared'
    BY <1>b, <1>c, <1>e, <1>f, Hosted
       DEF CopyInv, Helpers, Prepared, Partial, Worked, Running, AdvanceCopying
<1>5. Copied'
  <2>1. ~Worked("write")'
    BY <1>b, <1>e, Hosted DEF Helpers, Worked, Running, AdvanceCopying
  <2>p. Partial'
    <3>1. UNCHANGED incoming BY <1>e
    <3>2. Partial BY <1>c, Sized DEF Partial
    <3>q. QED BY <3>1, <3>2 DEF Partial
  <2>2. CASE cursor' = [file |-> file, chunk |-> chunk + 1]
                /\ chunk + 1 < Chunks[file]
    <3>1. cursor' \in [file : 1..Files, chunk : Nat] /\ cursor'.chunk < Chunks[cursor'.file]
      BY <1>d, <2>2
    <3>2. \A f \in 1..Files : f < cursor'.file => incoming'[f] = Full[f]
      BY <1>c, <1>e, <2>2
    <3>3. incoming'[cursor'.file] >= Offset'
      BY <1>c, <1>d, <1>e, <2>2 DEF Offset
    <3>q. QED BY <2>1, <2>p, <3>1, <3>2, <3>3 DEF Copied
  <2>3. CASE cursor' = [file |-> file + 1, chunk |-> 0] /\ file + 1 \in 1..Files
                /\ chunk + 1 = Chunks[file]
    <3>1. \A f \in 1..Files : f < file + 1 => incoming[f] = Full[f]
      <4>1. file \in Nat /\ \A f \in 1..Files : f < file => incoming[f] = Full[f]
        BY <1>c, <1>d, <1>h
      <4>2. incoming[file] = Full[file] BY <1>g, <2>3
      <4>3. \A f \in 1..Files : f < file + 1 => f < file \/ f = file BY <1>h, <4>1
      <4>q. QED BY <4>1, <4>2, <4>3
    <3>2. incoming[file + 1] >= 0 BY <1>c, <2>3
    <3>3. 0 < Chunks[file + 1] BY <2>3, Sized
    <3>4. cursor' \in [file : 1..Files, chunk : Nat] /\ cursor'.chunk < Chunks[cursor'.file]
      BY <2>3, <3>3
    <3>5. \A f \in 1..Files : f < cursor'.file => incoming'[f] = Full[f]
      BY <1>e, <2>3, <3>1
    <3>6. incoming'[cursor'.file] >= Offset' BY <1>e, <2>3, <3>2 DEF Offset
    <3>q. QED BY <2>1, <2>p, <3>4, <3>5, <3>6 DEF Copied
  <2>q. QED BY <1>f, <2>2, <2>3 DEF Copied
<1>6. Published'
  <2>1. phase' = "Finalize" => incoming = Full
    <3>1. SUFFICES ASSUME phase' = "Finalize" PROVE incoming = Full
      OBVIOUS
    <3>2. \A f \in 1..Files : incoming[f] = Full[f]
      BY <1>c, <1>d, <1>f, <1>g, <1>h, <3>1
    <3>q. QED BY <1>c, <3>2, Sized DEF Full
  <2>2. ~Worked("finalize")'
    <3>1. op["finalize"] = "none" BY DEF CopyInv, Unused, AdvanceCopying
    <3>2. exec["destination"].kind # "finalize" BY <1>b, <3>1 DEF Helpers
    <3>q. QED BY <1>e, <3>1, <3>2, Hosted DEF Worked, Running
  <2>q. QED BY <1>b, <1>e, <1>f, <2>1, <2>2, Hosted
            DEF Published, CopyComplete, Helpers, Running, AdvanceCopying
<1>7. Rehearsed' BY <1>e DEF CopyInv, Rehearsed, Running, source, rehearsal
<1>8. Readable'
    BY <1>e, Hosted DEF CopyInv, Readable, Worked, Running, source, bounds
<1>q. QED BY <1>1, <1>2, <1>3, <1>4, <1>5, <1>6, <1>7, <1>8 DEF CopyInv

-----------------------------------------------------------------------------
(* The helpers' steps.                                                     *)
LEMMA SnapshotPublishC ==
    ASSUME CopyInv, SnapshotPublish PROVE CopyInv'
<1>a. CopyTypes /\ Called /\ UNCHANGED <<intent, phase, made>>
    BY DEF CopyInv, SnapshotPublish, transfer, source, rehearsal, destination, bounds
<1>b. Helpers BY <1>a, Busy
<1>c. exec["source"] = [kind |-> "snapshot", step |-> 1]
    BY Hosted DEF SnapshotPublish, Running
<1>t. Running("snapshot", 1) /\ Step("snapshot", 2) /\ UNCHANGED op
    BY DEF SnapshotPublish
<1>0. /\ exec' \in ExecOf /\ op' \in Journals /\ Called'
      /\ exec'["destination"] = exec["destination"]
      /\ exec'["source"] = [kind |-> "snapshot", step |-> 2] /\ UNCHANGED op
    BY <1>a, <1>t, SourceStepped DEF SourceOps, Steps
<1>1. CopyTypes'
    BY <1>b, <1>c, <1>0 DEF CopyInv, Helpers, CopyTypes, TypeOK, ExecOf, SnapshotPublish,
       transfer, rehearsal, destination, bounds
<1>2. Called' BY <1>0
<1>3. Unused'
    BY DEF CopyInv, Unused, SnapshotPublish, transfer
<1>4. Prepared'
    BY <1>0, Hosted DEF CopyInv, Prepared, Partial, Worked, Running, SnapshotPublish,
       transfer, destination
<1>5. Copied'
    BY <1>0, Hosted DEF CopyInv, Copied, Partial, Worked, Running, Offset, SnapshotPublish,
       transfer, destination
<1>6. Published'
    BY <1>0, Hosted DEF CopyInv, Published, CopyComplete, Worked, Running, SnapshotPublish,
       transfer, destination
<1>7. Rehearsed'
    BY <1>0, Hosted DEF CopyInv, Rehearsed, Running, SnapshotPublish, rehearsal, destination
<1>8. Readable'
    BY <1>0, Hosted DEF CopyInv, Readable, Worked, Running, SnapshotPublish, bounds
<1>q. QED BY <1>1, <1>2, <1>3, <1>4, <1>5, <1>6, <1>7, <1>8 DEF CopyInv

LEMMA SnapshotManifestC ==
    ASSUME CopyInv, SnapshotManifest PROVE CopyInv'
<1>a. CopyTypes /\ Called /\ UNCHANGED <<intent, phase, made>>
    BY DEF CopyInv, SnapshotManifest, transfer, source, rehearsal, destination, bounds
<1>b. Helpers BY <1>a, Busy
<1>c. exec["source"] = [kind |-> "snapshot", step |-> 2]
    BY Hosted DEF SnapshotManifest, Running
<1>t. Running("snapshot", 2) /\ Step("snapshot", 3) /\ UNCHANGED op
    BY DEF SnapshotManifest
<1>0. /\ exec' \in ExecOf /\ op' \in Journals /\ Called'
      /\ exec'["destination"] = exec["destination"]
      /\ exec'["source"] = [kind |-> "snapshot", step |-> 3] /\ UNCHANGED op
    BY <1>a, <1>t, SourceStepped DEF SourceOps, Steps
<1>1. CopyTypes'
    BY <1>b, <1>c, <1>0, NoneIsAbsent DEF CopyInv, Helpers, CopyTypes, TypeOK, ExecOf,
       SnapshotManifest, transfer, rehearsal, destination, bounds
<1>2. Called' BY <1>0
<1>3. Unused'
    BY DEF CopyInv, Unused, SnapshotManifest, transfer
<1>4. Prepared'
    BY <1>0, Hosted DEF CopyInv, Prepared, Partial, Worked, Running, SnapshotManifest,
       transfer, destination
<1>5. Copied'
    BY <1>0, Hosted DEF CopyInv, Copied, Partial, Worked, Running, Offset,
       SnapshotManifest, transfer, destination
<1>6. Published'
    BY <1>0, Hosted DEF CopyInv, Published, CopyComplete, Worked, Running,
       SnapshotManifest, transfer, destination
<1>7. Rehearsed'
    BY <1>0, Hosted DEF CopyInv, Rehearsed, Running, SnapshotManifest, rehearsal,
       destination
<1>8. Readable'
    BY <1>b, <1>0, Hosted DEF Helpers, Readable, Worked, Running, SnapshotManifest
<1>q. QED BY <1>1, <1>2, <1>3, <1>4, <1>5, <1>6, <1>7, <1>8 DEF CopyInv

LEMMA SnapshotDropReceiptsC ==
    ASSUME CopyInv, SnapshotDropReceipts PROVE CopyInv'
<1>a. CopyTypes /\ Called /\ UNCHANGED <<intent, phase, made>>
    BY DEF CopyInv, SnapshotDropReceipts, transfer, source, rehearsal, destination, bounds
<1>b. Helpers BY <1>a, Busy
<1>c. \/ exec["source"] = [kind |-> "snapshot", step |-> 3]
      \/ exec["source"] = [kind |-> "snapshot", step |-> 4]
    BY Hosted DEF SnapshotDropReceipts, Running
<1>t. \/ Running("snapshot", 3) /\ Step("snapshot", 4) /\ UNCHANGED op
      \/ Running("snapshot", 4) /\ Step("snapshot", 0) /\ UNCHANGED op
    BY DEF SnapshotDropReceipts
<1>0. /\ exec' \in ExecOf /\ op' \in Journals /\ Called'
      /\ exec'["destination"] = exec["destination"]
      /\ \/ /\ exec'["source"] = [kind |-> "snapshot", step |-> 4] /\ UNCHANGED op
         \/ /\ exec'["source"] = [kind |-> "snapshot", step |-> 0] /\ UNCHANGED op
  <2>1. CASE Running("snapshot", 3) /\ Step("snapshot", 4) /\ UNCHANGED op
    BY <1>a, <2>1, SourceStepped DEF SourceOps, Steps
  <2>2. CASE Running("snapshot", 4) /\ Step("snapshot", 0) /\ UNCHANGED op
    BY <1>a, <2>2, SourceStepped DEF SourceOps, Steps
  <2>q. QED BY <1>t, <2>1, <2>2
<1>1. CopyTypes'
    BY <1>0 DEF CopyInv, CopyTypes, TypeOK, ExecOf, SnapshotDropReceipts, transfer,
       rehearsal, destination, bounds
<1>2. Called' BY <1>0
<1>3. Unused'
    BY DEF CopyInv, Unused, SnapshotDropReceipts, transfer
<1>4. Prepared'
    BY <1>0, Hosted DEF CopyInv, Prepared, Partial, Worked, Running, SnapshotDropReceipts,
       transfer, destination
<1>5. Copied'
    BY <1>0, Hosted DEF CopyInv, Copied, Partial, Worked, Running, Offset,
       SnapshotDropReceipts, transfer, destination
<1>6. Published'
    BY <1>0, Hosted DEF CopyInv, Published, CopyComplete, Worked, Running,
       SnapshotDropReceipts, transfer, destination
<1>7. Rehearsed'
    BY <1>0, Hosted DEF CopyInv, Rehearsed, Running, SnapshotDropReceipts, rehearsal,
       destination
<1>8. Readable'
  <2>1. /\ op["snapshot"] = "pending" /\ "snapshot" \in intent
        /\ UNCHANGED <<op, intent, fails, latest>>
    BY <1>b, <1>c, <1>0 DEF Helpers, SnapshotDropReceipts, source, bounds
  <2>2. CASE Running("snapshot", 3) /\ Step("snapshot", 4) /\ UNCHANGED op
    <3>1. restored' = None BY <2>2, Hosted DEF SnapshotDropReceipts, Running
    <3>2. exec'["source"] = [kind |-> "snapshot", step |-> 4]
      BY <1>a, <2>2, SourceStepped DEF SourceOps, Steps
    <3>q. QED BY <2>1, <3>1, <3>2, Hosted DEF CopyInv, Readable, Worked, Running
  <2>3. CASE Running("snapshot", 4) /\ Step("snapshot", 0) /\ UNCHANGED op
    <3>1. offHost' = None /\ restored' = restored
      BY <2>3, Hosted DEF SnapshotDropReceipts, Running
    <3>2. exec'["source"] = [kind |-> "snapshot", step |-> 0]
      BY <1>a, <2>3, SourceStepped DEF SourceOps, Steps
    <3>q. QED BY <2>1, <2>3, <3>1, <3>2, Hosted DEF CopyInv, Readable, Worked, Running
  <2>q. QED BY <1>t, <2>2, <2>3
<1>q. QED BY <1>1, <1>2, <1>3, <1>4, <1>5, <1>6, <1>7, <1>8 DEF CopyInv

LEMMA RestorePinC ==
    ASSUME CopyInv, RestorePin PROVE CopyInv'
<1>a. CopyTypes /\ Called /\ UNCHANGED <<intent, phase, made>>
    BY DEF CopyInv, RestorePin, transfer, source, rehearsal, destination, bounds
<1>b. Helpers BY <1>a, Busy
<1>c. exec["source"] = [kind |-> "restore", step |-> 1]
    BY Hosted DEF RestorePin, Running
<1>t. \/ Running("restore", 1) /\ Step("restore", 2) /\ UNCHANGED op /\ ~rehearsed /\ pin' # None
      \/ Running("restore", 1) /\ Step("restore", 3) /\ UNCHANGED op /\ rehearsed /\ pin' # None
      \/ Running("restore", 1) /\ End("restore", "failed")
    BY DEF RestorePin
<1>0. /\ exec' \in ExecOf /\ op' \in Journals /\ Called'
      /\ exec'["destination"] = exec["destination"]
      /\ \/ /\ exec'["source"] = [kind |-> "restore", step |-> 2] /\ UNCHANGED op
            /\ ~rehearsed /\ pin' # None
         \/ /\ exec'["source"] = [kind |-> "restore", step |-> 3] /\ UNCHANGED op
            /\ rehearsed /\ pin' # None
         \/ /\ exec'["source"] = Idle /\ op'["restore"] = "failed"
            /\ \A j \in Ops \ {"restore"} : op'[j] = op[j]
  <2>1. CASE Running("restore", 1) /\ Step("restore", 2) /\ UNCHANGED op /\ ~rehearsed /\ pin' # None
    BY <1>a, <2>1, SourceStepped DEF SourceOps, Steps
  <2>2. CASE Running("restore", 1) /\ Step("restore", 3) /\ UNCHANGED op /\ rehearsed /\ pin' # None
    BY <1>a, <2>2, SourceStepped DEF SourceOps, Steps
  <2>3. CASE Running("restore", 1) /\ End("restore", "failed")
    BY <1>a, <2>3, SourceEnded DEF SourceOps, Steps
  <2>q. QED BY <1>t, <2>1, <2>2, <2>3
<1>d. /\ op'["snapshot"] = op["snapshot"]
      /\ op'["export"] = op["export"]
      /\ op'["read"] = op["read"]
      /\ op'["record"] = op["record"]
      /\ op'["cleanSource"] = op["cleanSource"]
      /\ op'["import"] = op["import"]
      /\ op'["write"] = op["write"]
      /\ op'["finalize"] = op["finalize"]
      /\ op'["cleanDestination"] = op["cleanDestination"]
    BY <1>0, Hosted
<1>1. CopyTypes'
    BY <1>0 DEF CopyInv, CopyTypes, TypeOK, ExecOf, Journals, RestorePin, transfer,
       destination, bounds
<1>2. Called' BY <1>0
<1>3. Unused'
    BY <1>d DEF CopyInv, Unused, RestorePin, transfer
<1>4. Prepared'
    BY <1>0, NoneIsAbsent, Hosted DEF CopyInv, Idle, Prepared, Partial, Worked, Running,
       RestorePin, transfer, destination
<1>5. Copied'
    BY <1>0, Hosted DEF CopyInv, Copied, Partial, Worked, Running, Offset, RestorePin,
       transfer, destination
<1>6. Published'
    BY <1>0, Hosted DEF CopyInv, Published, CopyComplete, Worked, Running, RestorePin,
       transfer, destination
<1>7. Rehearsed'
    BY <1>0, Hosted DEF CopyInv, Idle, Rehearsed, Running, RestorePin, destination
<1>8. Readable'
    BY <1>0, NoneIsAbsent, Hosted DEF CopyInv, Idle, Readable, Worked, Running, RestorePin,
       bounds
<1>q. QED BY <1>1, <1>2, <1>3, <1>4, <1>5, <1>6, <1>7, <1>8 DEF CopyInv

LEMMA RestoreRehearseC ==
    ASSUME CopyInv, RestoreRehearse PROVE CopyInv'
<1>a. CopyTypes /\ Called /\ UNCHANGED <<intent, phase, made>>
    BY DEF CopyInv, RestoreRehearse, transfer, source, rehearsal, destination, bounds
<1>b. Helpers BY <1>a, Busy
<1>c. exec["source"] = [kind |-> "restore", step |-> 2]
    BY Hosted DEF RestoreRehearse, Running
<1>t. Running("restore", 2) /\ Step("restore", 3) /\ UNCHANGED op
    BY DEF RestoreRehearse
<1>0. /\ exec' \in ExecOf /\ op' \in Journals /\ Called'
      /\ exec'["destination"] = exec["destination"]
      /\ exec'["source"] = [kind |-> "restore", step |-> 3] /\ UNCHANGED op
    BY <1>a, <1>t, SourceStepped DEF SourceOps, Steps
<1>1. CopyTypes'
    BY <1>0 DEF CopyInv, CopyTypes, TypeOK, ExecOf, Rehearsed, RestoreRehearse, transfer,
       destination, bounds
<1>2. Called' BY <1>0
<1>3. Unused'
    BY DEF CopyInv, Unused, RestoreRehearse, transfer
<1>4. Prepared'
    BY <1>0, Hosted DEF CopyInv, Prepared, Partial, Worked, Running, RestoreRehearse,
       transfer, destination
<1>5. Copied'
    BY <1>0, Hosted DEF CopyInv, Copied, Partial, Worked, Running, Offset, RestoreRehearse,
       transfer, destination
<1>6. Published'
    BY <1>0, Hosted DEF CopyInv, Published, CopyComplete, Worked, Running, RestoreRehearse,
       transfer, destination
<1>7. Rehearsed'
    BY DEF CopyInv, Rehearsed, RestoreRehearse, destination
<1>8. Readable'
    BY <1>0, Hosted DEF CopyInv, Readable, Worked, Running, RestoreRehearse, bounds
<1>q. QED BY <1>1, <1>2, <1>3, <1>4, <1>5, <1>6, <1>7, <1>8 DEF CopyInv

LEMMA RestoreReceiptC ==
    ASSUME CopyInv, RestoreReceipt PROVE CopyInv'
<1>a. CopyTypes /\ Called /\ UNCHANGED <<intent, phase, made>>
    BY DEF CopyInv, RestoreReceipt, transfer, source, rehearsal, destination, bounds
<1>b. Helpers BY <1>a, Busy
<1>c. exec["source"] = [kind |-> "restore", step |-> 3]
    BY Hosted DEF RestoreReceipt, Running
<1>t. Running("restore", 3) /\ Step("restore", 0) /\ UNCHANGED op
    BY DEF RestoreReceipt
<1>0. /\ exec' \in ExecOf /\ op' \in Journals /\ Called'
      /\ exec'["destination"] = exec["destination"]
      /\ exec'["source"] = [kind |-> "restore", step |-> 0] /\ UNCHANGED op
    BY <1>a, <1>t, SourceStepped DEF SourceOps, Steps
<1>1. CopyTypes'
    BY <1>0 DEF CopyInv, CopyTypes, TypeOK, ExecOf, RestoreReceipt, transfer, rehearsal,
       destination, bounds
<1>2. Called' BY <1>0
<1>3. Unused'
    BY DEF CopyInv, Unused, RestoreReceipt, transfer
<1>4. Prepared'
    BY <1>0, Hosted DEF CopyInv, Prepared, Partial, Worked, Running, RestoreReceipt,
       transfer, destination
<1>5. Copied'
    BY <1>0, Hosted DEF CopyInv, Copied, Partial, Worked, Running, Offset, RestoreReceipt,
       transfer, destination
<1>6. Published'
    BY <1>0, Hosted DEF CopyInv, Published, CopyComplete, Worked, Running, RestoreReceipt,
       transfer, destination
<1>7. Rehearsed'
    BY DEF CopyInv, Rehearsed, RestoreReceipt, rehearsal, destination
<1>8. Readable'
    BY <1>0, Hosted DEF CopyInv, Readable, Worked, Running, RestoreReceipt, bounds
<1>q. QED BY <1>1, <1>2, <1>3, <1>4, <1>5, <1>6, <1>7, <1>8 DEF CopyInv

LEMMA ExportPrepareC ==
    ASSUME CopyInv, ExportPrepare PROVE CopyInv'
<1>a. CopyTypes /\ Called /\ UNCHANGED <<intent, phase, made>>
    BY DEF CopyInv, ExportPrepare, transfer, source, rehearsal, destination, bounds
<1>b. Helpers BY <1>a, Busy
<1>c. exec["source"] = [kind |-> "export", step |-> 1]
    BY Hosted DEF ExportPrepare, Running
<1>t. \/ Running("export", 1) /\ Step("export", 0) /\ UNCHANGED op /\ latest # None /\ export' = latest
      \/ Running("export", 1) /\ End("export", "failed")
    BY DEF ExportPrepare
<1>0. /\ exec' \in ExecOf /\ op' \in Journals /\ Called'
      /\ exec'["destination"] = exec["destination"]
      /\ \/ /\ exec'["source"] = [kind |-> "export", step |-> 0] /\ UNCHANGED op
            /\ latest # None /\ export' = latest
         \/ /\ exec'["source"] = Idle /\ op'["export"] = "failed"
            /\ \A j \in Ops \ {"export"} : op'[j] = op[j]
  <2>1. CASE Running("export", 1) /\ Step("export", 0) /\ UNCHANGED op /\ latest # None /\ export' = latest
    BY <1>a, <2>1, SourceStepped DEF SourceOps, Steps
  <2>2. CASE Running("export", 1) /\ End("export", "failed")
    BY <1>a, <2>2, SourceEnded DEF SourceOps, Steps
  <2>q. QED BY <1>t, <2>1, <2>2
<1>d. /\ op'["snapshot"] = op["snapshot"]
      /\ op'["restore"] = op["restore"]
      /\ op'["read"] = op["read"]
      /\ op'["record"] = op["record"]
      /\ op'["cleanSource"] = op["cleanSource"]
      /\ op'["import"] = op["import"]
      /\ op'["write"] = op["write"]
      /\ op'["finalize"] = op["finalize"]
      /\ op'["cleanDestination"] = op["cleanDestination"]
    BY <1>0, Hosted
<1>1. CopyTypes'
    BY <1>0 DEF CopyInv, CopyTypes, TypeOK, ExecOf, Journals, ExportPrepare, transfer,
       rehearsal, destination, bounds
<1>2. Called' BY <1>0
<1>3. Unused'
    BY <1>b, <1>c, <1>d DEF CopyInv, Helpers, Unused, ExportPrepare, transfer
<1>4. Prepared'
    BY <1>0, NoneIsAbsent, Hosted DEF CopyInv, Idle, Prepared, Partial, Worked, Running,
       CopyTypes, TypeOK, ExportPrepare, transfer, destination
<1>5. Copied'
    BY <1>0, Hosted DEF CopyInv, Copied, Partial, Worked, Running, Offset, ExportPrepare,
       transfer, destination
<1>6. Published'
    BY <1>0, Hosted DEF CopyInv, Published, CopyComplete, Worked, Running, ExportPrepare,
       transfer, destination
<1>7. Rehearsed'
    BY <1>0, Hosted DEF CopyInv, Idle, Rehearsed, Running, ExportPrepare, rehearsal,
       destination
<1>8. Readable'
    BY <1>0, NoneIsAbsent, Hosted DEF CopyInv, Idle, Readable, Worked, Running,
       ExportPrepare, bounds
<1>q. QED BY <1>1, <1>2, <1>3, <1>4, <1>5, <1>6, <1>7, <1>8 DEF CopyInv

LEMMA ReadChunkC ==
    ASSUME CopyInv, ReadChunk PROVE CopyInv'
<1>a. CopyTypes /\ Called /\ UNCHANGED <<intent, phase, made>>
    BY DEF CopyInv, ReadChunk, transfer, source, rehearsal, destination, bounds
<1>b. Helpers BY <1>a, Busy
<1>c. exec["source"] = [kind |-> "read", step |-> 1]
    BY Hosted DEF ReadChunk, Running
<1>t. \/ Running("read", 1) /\ Step("read", 0) /\ UNCHANGED op
      \/ Running("read", 1) /\ End("read", "failed")
    BY DEF ReadChunk
<1>0. /\ exec' \in ExecOf /\ op' \in Journals /\ Called'
      /\ exec'["destination"] = exec["destination"]
      /\ \/ /\ exec'["source"] = [kind |-> "read", step |-> 0] /\ UNCHANGED op
         \/ /\ exec'["source"] = Idle /\ op'["read"] = "failed"
            /\ \A j \in Ops \ {"read"} : op'[j] = op[j]
  <2>1. CASE Running("read", 1) /\ Step("read", 0) /\ UNCHANGED op
    BY <1>a, <2>1, SourceStepped DEF SourceOps, Steps
  <2>2. CASE Running("read", 1) /\ End("read", "failed")
    BY <1>a, <2>2, SourceEnded DEF SourceOps, Steps
  <2>q. QED BY <1>t, <2>1, <2>2
<1>d. /\ op'["snapshot"] = op["snapshot"]
      /\ op'["restore"] = op["restore"]
      /\ op'["export"] = op["export"]
      /\ op'["record"] = op["record"]
      /\ op'["cleanSource"] = op["cleanSource"]
      /\ op'["import"] = op["import"]
      /\ op'["write"] = op["write"]
      /\ op'["finalize"] = op["finalize"]
      /\ op'["cleanDestination"] = op["cleanDestination"]
    BY <1>0, Hosted
<1>1. CopyTypes'
    BY <1>0 DEF CopyInv, CopyTypes, TypeOK, ExecOf, Journals, ReadChunk, transfer, source,
       rehearsal, destination, bounds
<1>2. Called' BY <1>0
<1>3. Unused'
    BY <1>b, <1>c, <1>d DEF CopyInv, Helpers, Unused, ReadChunk, transfer
<1>4. Prepared'
    BY <1>0, NoneIsAbsent, Hosted DEF CopyInv, Idle, Prepared, Partial, Worked, Running,
       ReadChunk, transfer, source, destination
<1>5. Copied'
    BY <1>0, Hosted DEF CopyInv, Copied, Partial, Worked, Running, Offset, ReadChunk,
       transfer, destination
<1>6. Published'
    BY <1>0, Hosted DEF CopyInv, Published, CopyComplete, Worked, Running, ReadChunk,
       transfer, destination
<1>7. Rehearsed'
    BY <1>0, Hosted DEF CopyInv, Idle, Rehearsed, Running, ReadChunk, source, rehearsal,
       destination
<1>8. Readable'
    BY <1>0, NoneIsAbsent, Hosted DEF CopyInv, Idle, Readable, Worked, Running, ReadChunk,
       source, bounds
<1>q. QED BY <1>1, <1>2, <1>3, <1>4, <1>5, <1>6, <1>7, <1>8 DEF CopyInv

LEMMA RecordC ==
    ASSUME CopyInv, Record PROVE CopyInv'
<1>a. CopyTypes /\ Called /\ UNCHANGED <<intent, phase, made>>
    BY DEF CopyInv, Record, transfer, source, rehearsal, destination, bounds
<1>b. Helpers BY <1>a, Busy
<1>c. exec["source"] = [kind |-> "record", step |-> 1]
    BY Hosted DEF Record, Running
<1>t. Running("record", 1) /\ Step("record", 0) /\ UNCHANGED op
    BY DEF Record
<1>0. /\ exec' \in ExecOf /\ op' \in Journals /\ Called'
      /\ exec'["destination"] = exec["destination"]
      /\ exec'["source"] = [kind |-> "record", step |-> 0] /\ UNCHANGED op
    BY <1>a, <1>t, SourceStepped DEF SourceOps, Steps
<1>1. CopyTypes'
    BY <1>0 DEF CopyInv, CopyTypes, TypeOK, ExecOf, Record, transfer, rehearsal,
       destination, bounds
<1>2. Called' BY <1>0
<1>3. Unused'
    BY DEF CopyInv, Unused, Record, transfer
<1>4. Prepared'
    BY <1>0, Hosted DEF CopyInv, Prepared, Partial, Worked, Running, Record, transfer,
       destination
<1>5. Copied'
    BY <1>0, Hosted DEF CopyInv, Copied, Partial, Worked, Running, Offset, Record,
       transfer, destination
<1>6. Published'
    BY <1>0, Hosted DEF CopyInv, Published, CopyComplete, Worked, Running, Record,
       transfer, destination
<1>7. Rehearsed'
    BY <1>b, <1>0, Hosted DEF CopyInv, Helpers, Rehearsed, Running, Published,
       CopyComplete, Prepared, Record, rehearsal, destination
<1>8. Readable'
    BY <1>0, Hosted DEF CopyInv, Readable, Worked, Running, Record, bounds
<1>q. QED BY <1>1, <1>2, <1>3, <1>4, <1>5, <1>6, <1>7, <1>8 DEF CopyInv

LEMMA CleanSourceC ==
    ASSUME CopyInv, CleanSource PROVE CopyInv'
<1>a. CopyTypes /\ Called /\ UNCHANGED <<intent, phase, made>>
    BY DEF CopyInv, CleanSource, transfer, source, rehearsal, destination, bounds
<1>b. Helpers BY <1>a, Busy
<1>c. exec["source"] = [kind |-> "cleanSource", step |-> 1]
    BY Hosted DEF CleanSource, Running
<1>t. Running("cleanSource", 1) /\ Step("cleanSource", 0) /\ UNCHANGED op
    BY DEF CleanSource
<1>0. /\ exec' \in ExecOf /\ op' \in Journals /\ Called'
      /\ exec'["destination"] = exec["destination"]
      /\ exec'["source"] = [kind |-> "cleanSource", step |-> 0] /\ UNCHANGED op
    BY <1>a, <1>t, SourceStepped DEF SourceOps, Steps
<1>1. CopyTypes'
    BY <1>0 DEF CopyInv, CopyTypes, TypeOK, ExecOf, CleanSource, transfer, rehearsal,
       destination, bounds
<1>2. Called' BY <1>0
<1>3. Unused'
    BY DEF CopyInv, Unused, CleanSource, transfer
<1>4. Prepared'
    BY <1>b, <1>c DEF CopyInv, Helpers, Prepared, CleanSource, transfer
<1>5. Copied'
    BY <1>0, Hosted DEF CopyInv, Copied, Partial, Worked, Running, Offset, CleanSource,
       transfer, destination
<1>6. Published'
    BY <1>0, Hosted DEF CopyInv, Published, CopyComplete, Worked, Running, CleanSource,
       transfer, destination
<1>7. Rehearsed'
    BY <1>0, Hosted DEF CopyInv, Rehearsed, Running, CleanSource, rehearsal, destination
<1>8. Readable'
    BY <1>0, Hosted DEF CopyInv, Readable, Worked, Running, CleanSource, bounds
<1>q. QED BY <1>1, <1>2, <1>3, <1>4, <1>5, <1>6, <1>7, <1>8 DEF CopyInv

LEMMA ImportPrepareC ==
    ASSUME CopyInv, ImportPrepare PROVE CopyInv'
<1>a. CopyTypes /\ Called /\ UNCHANGED <<intent, phase, made>>
    BY DEF CopyInv, ImportPrepare, transfer, source, rehearsal, destination, bounds
<1>b. Helpers BY <1>a, Busy
<1>c. exec["destination"] = [kind |-> "import", step |-> 1]
    BY Hosted DEF ImportPrepare, Running
<1>t. Running("import", 1) /\ Step("import", 0) /\ UNCHANGED op
    BY DEF ImportPrepare
<1>0. /\ exec' \in ExecOf /\ op' \in Journals /\ Called'
      /\ exec'["source"] = exec["source"]
      /\ exec'["destination"] = [kind |-> "import", step |-> 0] /\ UNCHANGED op
    BY <1>a, <1>t, DestinationStepped DEF DestinationOps, Steps
<1>1. CopyTypes'
    BY <1>b, <1>0, Sized DEF CopyInv, CopyTypes, TypeOK, ExecOf, Empty, ImportPrepare,
       transfer, source, rehearsal, bounds
<1>2. Called' BY <1>0
<1>3. Unused'
    BY DEF CopyInv, Unused, ImportPrepare, transfer
<1>4. Prepared'
  <2>1. UNCHANGED <<phase, plan, receipt, export>>
    BY DEF ImportPrepare, transfer, source
  <2>2. Partial' 
    <3>1. incoming' = [f \in 1..Files |-> 0] BY DEF ImportPrepare, Empty
    <3>2. \A f \in 1..Files : 0 <= Full[f] BY Sized
    <3>q. QED BY <3>1, <3>2 DEF Partial
  <2>3. Worked("export")' => Worked("export")
    BY <1>0, Hosted DEF Worked, Running
  <2>q. QED BY <2>1, <2>2, <2>3 DEF CopyInv, Prepared
<1>5. Copied'
    BY <1>b, <1>c DEF Helpers, Copied, ImportPrepare, transfer
<1>6. Published'
    BY <1>b, <1>0, Hosted DEF Helpers, Published, CopyComplete, Running, ImportPrepare,
       transfer
<1>7. Rehearsed'
    BY <1>0, Hosted DEF CopyInv, Rehearsed, Running, ImportPrepare, source, rehearsal
<1>8. Readable'
    BY <1>0, Hosted DEF CopyInv, Readable, Worked, Running, ImportPrepare, source, bounds
<1>q. QED BY <1>1, <1>2, <1>3, <1>4, <1>5, <1>6, <1>7, <1>8 DEF CopyInv

LEMMA CleanDestinationC ==
    ASSUME CopyInv, CleanDestination PROVE CopyInv'
<1>a. CopyTypes /\ Called /\ UNCHANGED <<intent, phase, made>>
    BY DEF CopyInv, CleanDestination, transfer, source, rehearsal, destination, bounds
<1>b. Helpers BY <1>a, Busy
<1>c. \/ exec["destination"] = [kind |-> "cleanDestination", step |-> 1]
      \/ exec["destination"] = [kind |-> "cleanDestination", step |-> 2]
    BY Hosted DEF CleanDestination, Running
<1>t. \/ Running("cleanDestination", 1) /\ Step("cleanDestination", 2) /\ UNCHANGED op
      \/ Running("cleanDestination", 2) /\ Step("cleanDestination", 0) /\ UNCHANGED op
    BY DEF CleanDestination
<1>0. /\ exec' \in ExecOf /\ op' \in Journals /\ Called'
      /\ exec'["source"] = exec["source"]
      /\ \/ /\ exec'["destination"] = [kind |-> "cleanDestination", step |-> 2] /\ UNCHANGED op
         \/ /\ exec'["destination"] = [kind |-> "cleanDestination", step |-> 0] /\ UNCHANGED op
  <2>1. CASE Running("cleanDestination", 1) /\ Step("cleanDestination", 2) /\ UNCHANGED op
    BY <1>a, <2>1, DestinationStepped DEF DestinationOps, Steps
  <2>2. CASE Running("cleanDestination", 2) /\ Step("cleanDestination", 0) /\ UNCHANGED op
    BY <1>a, <2>2, DestinationStepped DEF DestinationOps, Steps
  <2>q. QED BY <1>t, <2>1, <2>2
<1>1. CopyTypes'
    BY <1>0 DEF CopyInv, CopyTypes, TypeOK, ExecOf, CleanDestination, transfer, source,
       rehearsal, bounds
<1>2. Called' BY <1>0
<1>3. Unused'
    BY DEF CopyInv, Unused, CleanDestination, transfer
<1>4. Prepared'
    BY <1>b, <1>c DEF CopyInv, Helpers, Prepared, CleanDestination, transfer
<1>5. Copied'
    BY <1>b, <1>c DEF Helpers, Copied, CleanDestination, transfer
<1>6. Published'
    BY <1>b, <1>c DEF CopyInv, Helpers, Published, CopyComplete, CleanDestination, transfer
<1>7. Rehearsed'
    BY <1>0, Hosted DEF CopyInv, Rehearsed, Running, CleanDestination, source, rehearsal
<1>8. Readable'
    BY <1>0, Hosted DEF CopyInv, Readable, Worked, Running, CleanDestination, source, bounds
<1>q. QED BY <1>1, <1>2, <1>3, <1>4, <1>5, <1>6, <1>7, <1>8 DEF CopyInv

LEMMA FinalizeBindC ==
    ASSUME CopyInv, FinalizeBind PROVE CopyInv'
<1>a. CopyTypes /\ Called /\ UNCHANGED <<intent, phase, made>>
    BY DEF CopyInv, FinalizeBind, transfer, source, rehearsal, destination, bounds
<1>b. Helpers BY <1>a, Busy
<1>c. exec["destination"] = [kind |-> "finalize", step |-> 1]
    BY Hosted DEF FinalizeBind, Running
<1>t. \/ Running("finalize", 1) /\ Step("finalize", 2) /\ UNCHANGED op
      \/ Running("finalize", 1) /\ Step("finalize", 0) /\ UNCHANGED op /\ plan \in copies
      \/ Running("finalize", 1) /\ End("finalize", "failed")
    BY DEF FinalizeBind
<1>0. /\ exec' \in ExecOf /\ op' \in Journals /\ Called'
      /\ exec'["source"] = exec["source"]
      /\ \/ /\ exec'["destination"] = [kind |-> "finalize", step |-> 2] /\ UNCHANGED op
         \/ /\ exec'["destination"] = [kind |-> "finalize", step |-> 0] /\ UNCHANGED op
            /\ plan \in copies
         \/ /\ exec'["destination"] = Idle /\ op'["finalize"] = "failed"
            /\ \A j \in Ops \ {"finalize"} : op'[j] = op[j]
  <2>1. CASE Running("finalize", 1) /\ Step("finalize", 2) /\ UNCHANGED op
    BY <1>a, <2>1, DestinationStepped DEF DestinationOps, Steps
  <2>2. CASE Running("finalize", 1) /\ Step("finalize", 0) /\ UNCHANGED op /\ plan \in copies
    BY <1>a, <2>2, DestinationStepped DEF DestinationOps, Steps
  <2>3. CASE Running("finalize", 1) /\ End("finalize", "failed")
    BY <1>a, <2>3, DestinationEnded DEF DestinationOps, Steps
  <2>q. QED BY <1>t, <2>1, <2>2, <2>3
<1>d. /\ op'["snapshot"] = op["snapshot"]
      /\ op'["restore"] = op["restore"]
      /\ op'["export"] = op["export"]
      /\ op'["read"] = op["read"]
      /\ op'["record"] = op["record"]
      /\ op'["cleanSource"] = op["cleanSource"]
      /\ op'["import"] = op["import"]
      /\ op'["write"] = op["write"]
      /\ op'["cleanDestination"] = op["cleanDestination"]
    BY <1>0, Hosted
<1>1. CopyTypes'
    BY <1>0 DEF CopyInv, CopyTypes, TypeOK, ExecOf, Journals, FinalizeBind, transfer,
       source, rehearsal, bounds
<1>2. Called' BY <1>0
<1>3. Unused'
    BY <1>b, <1>c, <1>d DEF CopyInv, Helpers, Unused, FinalizeBind, transfer
<1>4. Prepared'
    BY <1>0, NoneIsAbsent, Hosted DEF CopyInv, Idle, Prepared, Partial, Worked, Running,
       FinalizeBind, transfer, source
<1>5. Copied'
    BY <1>0, NoneIsAbsent, Hosted DEF CopyInv, Idle, Copied, Partial, Worked, Running,
       Offset, FinalizeBind, transfer
<1>6. Published'
    BY <1>0, NoneIsAbsent, Hosted DEF CopyInv, Idle, Published, CopyComplete, Worked,
       Running, FinalizeBind, transfer
<1>7. Rehearsed'
    BY <1>0, Hosted DEF CopyInv, Rehearsed, Running, FinalizeBind, source, rehearsal
<1>8. Readable'
    BY <1>0, Hosted DEF CopyInv, Readable, Worked, Running, FinalizeBind, source, bounds
<1>q. QED BY <1>1, <1>2, <1>3, <1>4, <1>5, <1>6, <1>7, <1>8 DEF CopyInv

LEMMA FinalizePublishC ==
    ASSUME CopyInv, FinalizePublish PROVE CopyInv'
<1>a. CopyTypes /\ Called /\ UNCHANGED <<intent, phase, made>>
    BY DEF CopyInv, FinalizePublish, transfer, source, rehearsal, destination, bounds
<1>b. Helpers BY <1>a, Busy
<1>c. exec["destination"] = [kind |-> "finalize", step |-> 2]
    BY Hosted DEF FinalizePublish, Running
<1>t. Running("finalize", 2) /\ Step("finalize", 0) /\ UNCHANGED op
    BY DEF FinalizePublish
<1>0. /\ exec' \in ExecOf /\ op' \in Journals /\ Called'
      /\ exec'["source"] = exec["source"]
      /\ exec'["destination"] = [kind |-> "finalize", step |-> 0] /\ UNCHANGED op
    BY <1>a, <1>t, DestinationStepped DEF DestinationOps, Steps
<1>1. CopyTypes'
    BY <1>b, <1>c, <1>0 DEF CopyInv, Helpers, CopyTypes, TypeOK, ExecOf, Prepared,
       FinalizePublish, transfer, source, rehearsal, bounds
<1>2. Called' BY <1>0
<1>3. Unused'
    BY DEF CopyInv, Unused, FinalizePublish, transfer
<1>4. Prepared'
    BY <1>b, <1>c DEF CopyInv, Helpers, Prepared, FinalizePublish, transfer
<1>5. Copied'
    BY <1>b, <1>c DEF Helpers, Copied, FinalizePublish, transfer
<1>6. Published'
    BY DEF Published, CopyComplete, FinalizePublish, transfer
<1>7. Rehearsed'
    BY <1>0, Hosted DEF CopyInv, Rehearsed, Running, FinalizePublish, source, rehearsal
<1>8. Readable'
    BY <1>0, Hosted DEF CopyInv, Readable, Worked, Running, FinalizePublish, source, bounds
<1>q. QED BY <1>1, <1>2, <1>3, <1>4, <1>5, <1>6, <1>7, <1>8 DEF CopyInv

LEMMA FinalizeDropC ==
    ASSUME CopyInv, FinalizeDrop PROVE CopyInv'
<1>a. CopyTypes /\ Called /\ UNCHANGED <<intent, phase, made>>
    BY DEF CopyInv, FinalizeDrop, transfer, source, rehearsal, destination, bounds
<1>b. Helpers BY <1>a, Busy
<1>c. \/ exec["destination"] = [kind |-> "finalize", step |-> 2]
      \/ exec["destination"] = [kind |-> "finalize", step |-> 3]
    BY Hosted DEF FinalizeDrop, Running
<1>t. \/ Running("finalize", 2) /\ Step("finalize", 3) /\ UNCHANGED op
      \/ Running("finalize", 3) /\ Step("finalize", 0) /\ UNCHANGED op
    BY DEF FinalizeDrop
<1>0. /\ exec' \in ExecOf /\ op' \in Journals /\ Called'
      /\ exec'["source"] = exec["source"]
      /\ \/ /\ exec'["destination"] = [kind |-> "finalize", step |-> 3] /\ UNCHANGED op
         \/ /\ exec'["destination"] = [kind |-> "finalize", step |-> 0] /\ UNCHANGED op
  <2>1. CASE Running("finalize", 2) /\ Step("finalize", 3) /\ UNCHANGED op
    BY <1>a, <2>1, DestinationStepped DEF DestinationOps, Steps
  <2>2. CASE Running("finalize", 3) /\ Step("finalize", 0) /\ UNCHANGED op
    BY <1>a, <2>2, DestinationStepped DEF DestinationOps, Steps
  <2>q. QED BY <1>t, <2>1, <2>2
<1>1. CopyTypes'
    BY <1>0, Sized DEF CopyInv, CopyTypes, TypeOK, ExecOf, Empty, Phases, FinalizeDrop,
       transfer, source, rehearsal, bounds
<1>2. Called' BY <1>0
<1>3. Unused'
    BY DEF CopyInv, Unused, FinalizeDrop, transfer
<1>4. Prepared'
    BY <1>b, <1>c DEF CopyInv, Helpers, Prepared, FinalizeDrop, transfer
<1>5. Copied'
    BY <1>b, <1>c DEF Helpers, Copied, FinalizeDrop, transfer
<1>6. Published'
    BY DEF CopyInv, Published, CopyComplete, FinalizeDrop, transfer
<1>7. Rehearsed'
    BY <1>0, Hosted DEF CopyInv, Rehearsed, Running, FinalizeDrop, source, rehearsal
<1>8. Readable'
    BY <1>0, Hosted DEF CopyInv, Readable, Worked, Running, FinalizeDrop, source, bounds
<1>q. QED BY <1>1, <1>2, <1>3, <1>4, <1>5, <1>6, <1>7, <1>8 DEF CopyInv

LEMMA WriteChunkC ==
    ASSUME CopyInv, WriteChunk PROVE CopyInv'
<1> DEFINE file == cursor.file
           len == incoming[file]
<1>a. /\ CopyTypes /\ Called
      /\ UNCHANGED <<transfer, intent, source, binding, copies, tested, bounds>>
    BY DEF CopyInv, WriteChunk
<1>b. Helpers BY <1>a, Busy
<1>c. exec["destination"] = [kind |-> "write", step |-> 1] /\ phase = "Copying"
    BY <1>b, Hosted DEF Helpers, WriteChunk, Running
<1>d. /\ cursor \in [file : 1..Files, chunk : Nat] /\ cursor.chunk < Chunks[file]
      /\ incoming \in [1..Files -> Nat]
      /\ \A f \in 1..Files : incoming[f] <= 2 * Chunks[f]
      /\ \A f \in 1..Files : f < file => incoming[f] = Full[f]
      /\ len >= Offset
      /\ file \in 1..Files /\ Offset = 2 * cursor.chunk /\ Offset \in Nat
      /\ op["write"] = "pending"
  <2>1. /\ cursor \in [file : 1..Files, chunk : Nat] /\ cursor.chunk < Chunks[file]
        /\ Partial /\ len >= Offset
        /\ \A f \in 1..Files : f < file => incoming[f] = Full[f]
    BY <1>c DEF CopyInv, Copied
  <2>2. Offset = 2 * cursor.chunk BY DEF Offset
  <2>3. op["write"] = "pending" BY <1>b, <1>c DEF Helpers
  <2>q. QED BY <2>1, <2>2, <2>3, Sized DEF Partial
<1>t. \/ Running("write", 1) /\ End("write", "failed") /\ UNCHANGED incoming
      \/ /\ len < Offset + 2 /\ UNCHANGED <<op, exec>>
         /\ incoming' = [incoming EXCEPT ![file] = @ + 1]
      \/ /\ Running("write", 1) /\ Step("write", 0) /\ UNCHANGED <<op, incoming>>
         /\ len >= Offset + 2
  <2>1. len \in Nat BY <1>d
  <2>q. QED BY <1>d, <2>1 DEF WriteChunk
<1>0. /\ exec' \in ExecOf /\ op' \in Journals /\ Called'
      /\ exec'["source"] = exec["source"]
      /\ \/ exec'["destination"] \in {Idle, exec["destination"]}
         \/ exec'["destination"] = [kind |-> "write", step |-> 0] /\ len >= Offset + 2
            /\ UNCHANGED incoming
      /\ op'["write"] \in {"pending", "failed"}
      /\ \A j \in Ops \ {"write"} : op'[j] = op[j]
  <2>1. UNCHANGED <<intent, phase, made>> BY <1>a DEF transfer, bounds
  <2>2. CASE Running("write", 1) /\ End("write", "failed")
    BY <1>a, <2>1, <2>2, DestinationEnded DEF DestinationOps
  <2>3. CASE UNCHANGED <<op, exec>>
    <3>1. Called' BY <1>a, <2>1, <2>3 DEF Called
    <3>q. QED BY <1>a, <1>d, <2>3, <3>1 DEF CopyTypes, TypeOK, ExecOf, Journals
  <2>4. CASE Running("write", 1) /\ Step("write", 0) /\ UNCHANGED <<op, incoming>>
                /\ len >= Offset + 2
    BY <1>a, <1>d, <2>1, <2>4, DestinationStepped DEF DestinationOps, Steps
  <2>q. QED BY <1>t, <2>2, <2>3, <2>4
<1>e. /\ incoming' \in [1..Files -> Nat]
      /\ \A f \in 1..Files : incoming'[f] <= Full[f] /\ incoming'[f] >= incoming[f]
      /\ \A f \in 1..Files \ {file} : incoming'[f] = incoming[f]
  <2>1. CASE UNCHANGED incoming
    <3>1. \A f \in 1..Files : incoming[f] \in Nat /\ incoming[f] <= Full[f] BY <1>d, Sized
    <3>q. QED BY <1>d, <2>1, <3>1
  <2>2. CASE len < Offset + 2 /\ incoming' = [incoming EXCEPT ![file] = @ + 1]
    <3>1. len \in Nat /\ Chunks[file] \in Nat /\ cursor.chunk \in Nat BY <1>d, Sized
    <3>2. Full[file] = 2 * Chunks[file] BY <1>d, Sized
    <3>3. len + 1 <= Full[file] /\ len + 1 \in Nat BY <1>d, <2>2, <3>1, <3>2
    <3>4. incoming'[file] = len + 1 /\ \A f \in 1..Files \ {file} : incoming'[f] = incoming[f]
      BY <1>d, <2>2
    <3>5. incoming' \in [1..Files -> Nat] BY <1>d, <2>2, <3>3
    <3>6. \A f \in 1..Files : incoming[f] \in Nat /\ Full[f] = 2 * Chunks[f]
      BY <1>d, Sized
    <3>q. QED BY <1>d, <3>1, <3>3, <3>4, <3>5, <3>6
  <2>q. QED BY <1>t, <2>1, <2>2
<1>1. CopyTypes'
    BY <1>a, <1>0, <1>e DEF CopyTypes, TypeOK, ExecOf, Journals, transfer, source,
                        rehearsal, bounds
<1>2. Called' BY <1>0
<1>3. Unused' BY <1>a, <1>c, <1>0, Hosted DEF CopyInv, Unused, transfer
<1>4. Prepared'
    BY <1>a, <1>b, <1>c, <1>0, Hosted DEF CopyInv, Helpers, Prepared, Worked, transfer
<1>5. Copied'
  <2>1. cursor' = cursor /\ phase' = phase BY <1>a DEF transfer
  <2>2. incoming'[file] >= Offset
    <3>1. /\ incoming'[file] \in Nat /\ incoming'[file] >= incoming[file]
          /\ incoming[file] \in Nat
      BY <1>d, <1>e
    <3>2. incoming[file] >= Offset /\ Offset \in Nat BY <1>d
    <3>q. QED BY <3>1, <3>2
  <2>3. Worked("write")' => incoming'[file] >= Offset + 2
    <3>1. exec'["destination"] # [kind |-> "write", step |-> 0] => ~Worked("write")'
      BY <1>0, Hosted DEF Worked, Running
    <3>2. exec'["destination"] = [kind |-> "write", step |-> 0] =>
             len >= Offset + 2 /\ UNCHANGED incoming
      BY <1>c, <1>0, NoneIsAbsent, Hosted DEF Idle
    <3>q. QED BY <3>1, <3>2
  <2>q. QED BY <1>d, <1>e, <2>1, <2>2, <2>3 DEF Copied, Offset, Partial
<1>6. Published'
    BY <1>a, <1>c, <1>0, NoneIsAbsent, Hosted
       DEF CopyInv, Published, CopyComplete, Worked, Running, Idle, transfer
<1>7. Rehearsed' BY <1>a, <1>0, Hosted DEF CopyInv, Rehearsed, Running, source, rehearsal
<1>8. Readable'
    BY <1>a, <1>0, Hosted DEF CopyInv, Readable, Worked, Running, source, bounds
<1>q. QED BY <1>1, <1>2, <1>3, <1>4, <1>5, <1>6, <1>7, <1>8 DEF CopyInv

-----------------------------------------------------------------------------
(* A step that only journals or starts an operation: nothing is done that  *)
(* was not, and no helper gets further.                                    *)
LEMMA NothingDone ==
    ASSUME CopyInv, exec' \in ExecOf, op' \in Journals, Called', Unused',
           kills' \in Nat, fails' \in Nat,
           UNCHANGED <<transfer, intent, source, destination, tested, made, begun>>,
           \A j \in Ops : /\ Worked(j)' => Worked(j)
                          /\ \A s \in {2, 3, 4} : Running(j, s)' => Running(j, s),
           fails' = 0 => fails = 0 /\ (op'["snapshot"] = "failed" =>
                                          op["snapshot"] = "failed")
    PROVE  CopyInv'
<1>1. CopyTypes'
    BY DEF CopyInv, CopyTypes, TypeOK, ExecOf, Journals, transfer, source, rehearsal,
           destination
<1>4. Prepared' BY Hosted DEF CopyInv, Prepared, Partial, transfer, source, destination
<1>5. Copied' BY Hosted DEF CopyInv, Copied, Partial, Offset, transfer, destination
<1>6. Published'
    BY Hosted DEF CopyInv, Published, CopyComplete, transfer, destination
<1>7. Rehearsed' BY Hosted DEF CopyInv, Rehearsed, source, rehearsal, destination
<1>8. Readable' BY Hosted DEF CopyInv, Readable, source
<1>q. QED BY <1>1, <1>4, <1>5, <1>6, <1>7, <1>8 DEF CopyInv

LEMMA CallC ==
    ASSUME CopyInv, NEW k \in Ops, Call(k) PROVE CopyInv'
<1> DEFINE h == HostOf(k)
<1>1. /\ CopyTypes /\ Called /\ h \in Hosts
      /\ UNCHANGED <<transfer, intent, source, destination, tested, made, begun, kills,
                     fails>>
    BY Hosted DEF CopyInv, Call, bounds, Hosts
<1>2. /\ exec' \in ExecOf /\ exec'[h] = [kind |-> k, step |-> 1]
      /\ \A g \in Hosts \ {h} : exec'[g] = exec[g]
      /\ op' \in Journals /\ op'[k] = "pending"
      /\ \A j \in Ops \ {k} : op'[j] = op[j]
    BY <1>1 DEF CopyTypes, TypeOK, Call, ExecOf, Journals, Steps
<1>3. k \in {"snapshot", "restore"} => k \in intent
    BY DEF CopyInv, Call, Wanted, CopyTypes, TypeOK
<1>4. k \notin {"snapshot", "restore"} => phase = DueIn(k)
  <2>1. k \notin intent \/ k \in {"snapshot", "restore"}
    BY <1>1 DEF CopyTypes, TypeOK
  <2>q. QED BY <2>1, Due DEF Call, Wanted
<1>5. Called'
  <2>1. \A g \in Hosts : \/ exec'[g] = Idle
                         \/ /\ exec'[g].kind \in Ops /\ HostOf(exec'[g].kind) = g
                            /\ op'[exec'[g].kind] = "pending"
    BY <1>1, <1>2 DEF Called
  <2>2. UNCHANGED <<phase, intent, made>> BY <1>1 DEF transfer
  <2>3. \A j \in {"snapshot", "restore"} : op'[j] # "none" => j \in intent'
    BY <1>1, <1>2, <1>3, <2>2, Hosted DEF Called
  <2>4. \A j \in Ops \ {"snapshot", "restore"} :
           op'[j] = "pending" => phase' = DueIn(j)
    BY <1>1, <1>2, <1>4, <2>2 DEF Called
  <2>q. QED BY <1>1, <2>1, <2>2, <2>3, <2>4 DEF Called
<1>6. Unused' BY <1>1, <1>2, <1>4, Hosted, Due DEF CopyInv, Unused, transfer
<1>7. \A j \in Ops : /\ Worked(j)' => Worked(j)
                     /\ \A s \in {2, 3, 4} : Running(j, s)' => Running(j, s)
  <2>1. \A j \in Ops, s \in {0, 2, 3, 4} : Running(j, s)' => Running(j, s)
    <3>1. SUFFICES ASSUME NEW j \in Ops, NEW s \in {0, 2, 3, 4}, Running(j, s)'
                   PROVE  Running(j, s)
      OBVIOUS
    <3>2. HostOf(j) \in Hosts /\ exec'[HostOf(j)] = [kind |-> j, step |-> s]
      BY <3>1, Hosted DEF Running, Hosts
    <3>q. QED BY <1>2, <3>2 DEF Running
  <2>q. QED BY <1>2, <2>1 DEF Worked
<1>q. QED BY <1>1, <1>2, <1>5, <1>6, <1>7, NothingDone, Hosted DEF CopyInv, CopyTypes

LEMMA FinishC ==
    ASSUME CopyInv, NEW k \in Ops, Finish(k) PROVE CopyInv'
<1>1. /\ CopyTypes /\ Called /\ Running(k, 0) /\ End(k, "done")
      /\ UNCHANGED <<transfer, intent, source, destination, tested, made, begun, kills,
                     fails, phase>>
    BY DEF CopyInv, Finish, bounds, transfer
<1>2. /\ exec' \in ExecOf /\ op' \in Journals /\ Called'
      /\ exec'[HostOf(k)] = Idle /\ \A h \in Hosts \ {HostOf(k)} : exec'[h] = exec[h]
      /\ op'[k] = "done" /\ op[k] = "pending" /\ \A j \in Ops \ {k} : op'[j] = op[j]
    BY <1>1, Ended DEF ExecOf, Journals
<1>3. Unused' BY <1>1, <1>2, Hosted DEF CopyInv, Unused
<1>4. \A j \in Ops, s \in {0, 2, 3, 4} : Running(j, s)' => Running(j, s)
  <2>1. SUFFICES ASSUME NEW j \in Ops, NEW s \in {0, 2, 3, 4}, Running(j, s)'
               PROVE  Running(j, s)
    OBVIOUS
  <2>2. HostOf(j) \in Hosts /\ exec'[HostOf(j)] = [kind |-> j, step |-> s]
    BY <2>1, Hosted DEF Running, Hosts
  <2>q. QED BY <1>2, <2>2, NoneIsAbsent DEF Running, Idle
<1>5. \A j \in Ops : Worked(j)' => Worked(j) BY <1>1, <1>2, <1>4 DEF Worked
<1>q. QED BY <1>1, <1>2, <1>3, <1>4, <1>5, NothingDone, Hosted DEF CopyInv, CopyTypes

LEMMA KillC ==
    ASSUME CopyInv, NEW h \in Hosts, Kill(h) PROVE CopyInv'
<1>1. /\ UNCHANGED <<transfer, intent, op, source, destination, tested, made, begun,
                     fails>>
      /\ kills' \in Nat
    BY DEF CopyInv, CopyTypes, Kill
<1>2. /\ exec' \in ExecOf /\ exec'[h] = Idle
      /\ \A g \in Hosts \ {h} : exec'[g] = exec[g]
    BY DEF CopyInv, CopyTypes, TypeOK, Kill, ExecOf, Idle, Steps
<1>3. op' \in Journals BY <1>1 DEF CopyInv, CopyTypes, TypeOK, Journals
<1>4. Called'
  <2>1. \A g \in Hosts : \/ exec'[g] = Idle
                         \/ /\ exec'[g].kind \in Ops /\ HostOf(exec'[g].kind) = g
                            /\ op'[exec'[g].kind] = "pending"
    BY <1>1, <1>2 DEF CopyInv, Called
  <2>q. QED BY <1>1, <2>1 DEF CopyInv, Called, transfer
<1>5. Unused' BY <1>1 DEF CopyInv, Unused, transfer
<1>6. \A j \in Ops, s \in {0, 2, 3, 4} : Running(j, s)' => Running(j, s)
  <2>1. SUFFICES ASSUME NEW j \in Ops, NEW s \in {0, 2, 3, 4}, Running(j, s)'
               PROVE  Running(j, s)
    OBVIOUS
  <2>2. HostOf(j) \in Hosts /\ exec'[HostOf(j)] = [kind |-> j, step |-> s]
    BY <2>1, Hosted DEF Running, Hosts
  <2>q. QED BY <1>2, <2>2, NoneIsAbsent DEF Running, Idle
<1>7. \A j \in Ops : Worked(j)' => Worked(j) BY <1>1, <1>6 DEF Worked
<1>q. QED BY <1>1, <1>2, <1>3, <1>4, <1>5, <1>6, <1>7, NothingDone DEF CopyInv, CopyTypes

LEMMA FailC ==
    ASSUME CopyInv, NEW h \in Hosts, Fail(h) PROVE CopyInv'
<1> DEFINE k == exec[h].kind
<1>1. /\ CopyTypes /\ Called
      /\ UNCHANGED <<transfer, intent, source, destination, tested, made, begun, kills,
                     phase>>
      /\ fails' \in Nat /\ fails' # 0 /\ End(k, "failed")
    BY DEF CopyInv, CopyTypes, Fail, transfer
<1>2. k \in Ops /\ HostOf(k) = h /\ Running(k, exec[h].step)
  <2>1. exec[h] = [kind |-> exec[h].kind, step |-> exec[h].step]
    BY <1>1 DEF CopyTypes, TypeOK
  <2>q. QED BY <1>1, <2>1 DEF Called, Fail, Running
<1>3. /\ exec' \in ExecOf /\ op' \in Journals /\ Called'
      /\ exec'[h] = Idle /\ \A g \in Hosts \ {h} : exec'[g] = exec[g]
      /\ op'[k] = "failed" /\ op[k] = "pending" /\ \A j \in Ops \ {k} : op'[j] = op[j]
    BY <1>1, <1>2, Ended DEF ExecOf, Journals
<1>4. Unused' BY <1>1, <1>3, Hosted DEF CopyInv, Unused
<1>5. \A j \in Ops, s \in {0, 2, 3, 4} : Running(j, s)' => Running(j, s)
  <2>1. SUFFICES ASSUME NEW j \in Ops, NEW s \in {0, 2, 3, 4}, Running(j, s)'
               PROVE  Running(j, s)
    OBVIOUS
  <2>2. HostOf(j) \in Hosts /\ exec'[HostOf(j)] = [kind |-> j, step |-> s]
    BY <2>1, Hosted DEF Running, Hosts
  <2>q. QED BY <1>3, <2>2, NoneIsAbsent DEF Running, Idle
<1>6. \A j \in Ops : Worked(j)' => Worked(j) BY <1>3, <1>5 DEF Worked
<1>q. QED BY <1>1, <1>3, <1>4, <1>5, <1>6, NothingDone DEF CopyInv, CopyTypes

-----------------------------------------------------------------------------
LEMMA InitC == Init => CopyInv
<1>1. SUFFICES ASSUME Init PROVE CopyInv
  OBVIOUS
<1>2. \A k \in Ops, s \in {0, 2, 3, 4} : ~Running(k, s)
  <2>1. \A h \in Hosts : exec[h] = Idle BY <1>1 DEF Init
  <2>2. \A k \in Ops : HostOf(k) \in Hosts BY Hosted DEF Hosts
  <2>q. QED BY <2>1, <2>2, NoneIsAbsent DEF Running, Idle
<1>3. \A k \in Ops : op[k] = "none" /\ ~Worked(k)
  BY <1>1, <1>2 DEF Init, Worked
<1>4. CopyTypes
  <2>1. op \in [Ops -> {"none", "pending", "done", "failed"}] BY <1>1 DEF Init
  <2>2. exec \in [Hosts -> [kind : Ops \cup {None}, step : Steps]]
    BY <1>1 DEF Init, Idle, Steps
  <2>3. 0 \in 0..MaxSnaps BY BackupAssumption
  <2>q. QED BY <1>1, <2>1, <2>2, <2>3 DEF Init, CopyTypes, TypeOK, Phases
<1>5. Called /\ Unused BY <1>1, <1>3, Hosted DEF Init, Called, Unused
<1>6. Prepared /\ Copied BY <1>1, <1>3, Hosted DEF Init, Prepared, Copied
<1>7. Published /\ Rehearsed
  BY <1>1, <1>2, <1>3, Hosted DEF Init, Published, CopyComplete, Rehearsed
<1>8. Readable BY <1>1, <1>2, <1>3, Hosted DEF Init, Readable
<1>q. QED BY <1>4, <1>5, <1>6, <1>7, <1>8 DEF CopyInv

LEMMA StepC == CopyInv /\ [Next]_vars => CopyInv'
<1>1. SUFFICES ASSUME CopyInv, [Next]_vars PROVE CopyInv'
  OBVIOUS
<1>2. CASE UNCHANGED vars
  BY <1>1, <1>2 DEF vars, transfer, source, rehearsal, destination, bounds, CopyInv,
     CopyTypes, TypeOK, Called, Unused, Prepared, Copied, Partial, Offset, Published,
     CopyComplete, Rehearsed, Readable, Worked, Running
<1>3. ASSUME NEW k \in {"snapshot", "restore"}, OrderBackup(k) \/ SettleBackup(k)
      PROVE  CopyInv'
  BY <1>1, <1>3, OrderBackupC, SettleBackupC
<1>4. CASE BeginCopy \/ Advance
  BY <1>1, <1>4, BeginCopyC, AdvanceSourcePrepareC, AdvanceDestinationPrepareC,
     AdvanceCopyingC, AdvanceFinalizeC, AdvanceRecordC, AdvanceCleanupSourceC,
     AdvanceCleanupDestinationC DEF Advance
<1>5. ASSUME NEW k \in Ops, Call(k) PROVE CopyInv'
  BY <1>1, <1>5, CallC
<1>6. CASE SourceStep
  BY <1>1, <1>6, FinishC, SnapshotPublishC, SnapshotManifestC, SnapshotDropReceiptsC,
     RestorePinC, RestoreRehearseC, RestoreReceiptC, ExportPrepareC, ReadChunkC, RecordC,
     CleanSourceC DEF SourceStep, Ops
<1>7. CASE DestinationStep
  BY <1>1, <1>7, FinishC, ImportPrepareC, WriteChunkC, CleanDestinationC, FinalizeBindC,
     FinalizePublishC, FinalizeDropC DEF DestinationStep, Ops
<1>8. ASSUME NEW h \in Hosts, Kill(h) \/ Fail(h) PROVE CopyInv'
  BY <1>1, <1>8, KillC, FailC
<1>q. QED BY <1>1, <1>2, <1>3, <1>4, <1>5, <1>6, <1>7, <1>8 DEF Next

LEMMA Inductive == Spec => []CopyInv
BY InitC, StepC, PTL DEF Spec

-----------------------------------------------------------------------------
(* The records, trees and operations of a copy keep their types.           *)
THEOREM TypeCorrect == Spec => []TypeOK
<1>1. CopyInv => TypeOK BY DEF CopyInv, CopyTypes
<1>q. QED BY <1>1, Inductive, PTL

(* Whatever calls were repeated, resumed, torn by a kill or failed, for    *)
(* every plan, number of transfers, snapshots and faults, the destination  *)
(* holds every byte of the plan when the copy is finalized, and its        *)
(* published snapshot from then on: copy_one_backup_chunk writes a chunk   *)
(* only where the file ends, and finalize_import verifies before it        *)
(* publishes.                                                              *)
THEOREM CopyIsComplete == Spec => []CopyComplete
<1>1. CopyInv => CopyComplete BY DEF CopyInv, Published
<1>q. QED BY <1>1, Inductive, PTL

(* The backup projection of the newest snapshot is true whatever was       *)
(* interrupted, and between snapshot orders it can be read unless an       *)
(* operation met an I/O error: a snapshot drops both receipts before its   *)
(* order ends, and restore tests and copies write theirs only for the      *)
(* newest snapshot.                                                        *)
THEOREM EvidenceIsSound == Spec => []EvidenceSound
<1>1. CopyInv => EvidenceTrue BY DEF CopyInv, Rehearsed, EvidenceTrue
<1>2. CopyInv => EvidenceReadable BY DEF CopyInv, Readable, EvidenceReadable
<1>q. QED BY <1>1, <1>2, Inductive, PTL DEF EvidenceSound
=============================================================================
