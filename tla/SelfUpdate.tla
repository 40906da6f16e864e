------------------------------ MODULE SelfUpdate ------------------------------
(* Replacement of the controller's own executable                             *)
(* (controller/self_update.rs): `self update`, `self rollback`, and the       *)
(* repair of an interrupted replacement that every other command begins with. *)
(*                                                                            *)
(* A release is its version, a positive number, and so are its digest and the *)
(* artifact files named after it; 0 stands for an absent file.  The journal's *)
(* phase is a position in Phases.  A failed step leaves what it did behind,   *)
(* as a kill does: Stop is both.  On Linux current_exe no longer names the    *)
(* install path of a process whose executable was replaced (gone).            *)
EXTENDS Naturals, Sequences, Optional

CONSTANTS Procs,
          MaxVersion,    \* bound on releases
          MaxCommands,   \* bound on update and rollback commands
          MaxMishaps     \* bound on kills, failed steps and failed verifications

ASSUME SelfUpdateAssumption ==
    MaxVersion \in Nat \ {0} /\ {MaxCommands, MaxMishaps} \subseteq Nat

VARIABLES installed,   \* the release at the install path
          trust,       \* trust.json
          rollback,    \* rollback.json
          saved,       \* the rollback-DIGEST artifacts
          staged,      \* the candidate-DIGEST artifacts
          transaction, \* update-transaction.json
          proc,        \* the processes
          commands, mishaps

updateFiles == <<installed, trust, rollback, saved, staged, transaction>>
updateVars == <<updateFiles, proc, commands, mishaps>>

Versions == 1..MaxVersion

\* SelfUpdatePhase
Phases == <<"Intent", "RollbackPrepared", "CandidatePrepared", "CandidateVerified",
            "Installed", "RollbackStateCommitted", "TrustCommitted">>
IsAt(name) == CHOOSE i \in 1..Len(Phases) : Phases[i] = name
Installed == IsAt("Installed")

\* SelfUpdateJournal; the rollback artifact is from's (Update) or to's (Rollback)
Journals == [op : {"Update", "Rollback"}, phase : 1..Len(Phases), from : Versions,
             to : Versions, staged : BOOLEAN]

ASSUME NoneIsNoUpdate == None \notin Journals

\* Every other command only matters for the repair it begins with.
Other == [kind |-> "other", to |-> 0]
Update(v) == [kind |-> "update", to |-> v]
Rollback == [kind |-> "rollback", to |-> 0]

IdleProc == [at |-> "idle", cmd |-> Other, gone |-> FALSE, tx |-> None]

UpdateInit ==
          /\ installed = 1 /\ trust = 0 /\ rollback = 0 /\ saved = {} /\ staged = {}
          /\ transaction = None /\ proc = [p \in Procs |-> IdleProc]
          /\ commands = 0 /\ mishaps = 0

-----------------------------------------------------------------------------
ProcAt(p, step) == proc[p].at = step
Tx(p) == proc[p].tx
ProcGo(p, step) == proc' = [proc EXCEPT ![p].at = step]
Ends(p) == proc' = [proc EXCEPT ![p] = IdleProc]

\* persist_self_update_journal, then the given step
Persist(p, t, step) ==
    /\ transaction' = t
    /\ proc' = [proc EXCEPT ![p].at = step, ![p].tx = t]

\* A journal of the command's own, after which the command ends
Begin(p, t, step) ==
    /\ transaction' = t
    /\ proc' = [proc EXCEPT ![p].at = step, ![p].tx = t, ![p].cmd = Other]

\* persist of the phase, which a resumed journal may be past
Reach(p, name, step) ==
    /\ IF Tx(p).phase < IsAt(name) THEN Persist(p, [Tx(p) EXCEPT !.phase = IsAt(name)], step)
       ELSE ProcGo(p, step) /\ UNCHANGED transaction
    /\ UNCHANGED <<installed, trust, rollback, saved, staged, commands, mishaps>>

\* copy_atomic_from_file over the install path, the executable of every process
Install(p, v, step) ==
    /\ installed' = v
    /\ proc' = [q \in Procs |->
                  IF q = p THEN [proc[p] EXCEPT !.at = step, !.gone = TRUE]
                  ELSE IF proc[q].at = "idle" THEN proc[q]
                  ELSE [proc[q] EXCEPT !.gone = TRUE]]

Start(p) ==
    /\ ProcAt(p, "idle") /\ commands < MaxCommands
    /\ \E c \in {Update(v) : v \in Versions} \cup {Rollback} :
           proc' = [proc EXCEPT ![p] = [IdleProc EXCEPT !.at = "lock", !.cmd = c]]
    /\ commands' = commands + 1
    /\ UNCHANGED <<updateFiles, mishaps>>

\* repair_interrupted_update
StartOther(p) ==
    /\ ProcAt(p, "idle") /\ transaction # None
    /\ proc' = [proc EXCEPT ![p] = [IdleProc EXCEPT !.at = "lock"]]
    /\ UNCHANGED <<updateFiles, commands, mishaps>>

LockFree == \A p \in Procs : proc[p].at \in {"idle", "lock"}

\* The lock is tried, never waited for; then recover_controller_self_operation.
Lock(p) ==
    /\ ProcAt(p, "lock")
    /\ IF ~LockFree THEN Ends(p)
       ELSE IF transaction = None THEN ProcGo(p, "command")
       ELSE IF proc[p].gone THEN Ends(p)
       ELSE proc' = [proc EXCEPT ![p].tx = transaction,
                             ![p].at = IF transaction.op = "Update" THEN "resume" ELSE "back"]
    /\ UNCHANGED <<updateFiles, commands, mishaps>>

\* enforce_controller_trust; without a trust record the running version is the
\* floor.
Floor == IF trust = 0 THEN installed ELSE trust

\* controller_update and controller_rollback, up to their journal
Accepted(p) ==
    LET c == proc[p].cmd IN
    /\ ~proc[p].gone
    /\ \/ c.kind = "update" /\ c.to >= Floor
       \/ c.kind = "rollback" /\ rollback \in saved

Command(p) ==
    /\ ProcAt(p, "command")
    /\ IF ~Accepted(p) THEN Ends(p) /\ UNCHANGED transaction
       ELSE LET back == proc[p].cmd = Rollback
                t == [op |-> IF back THEN "Rollback" ELSE "Update", phase |-> 1,
                      from |-> installed, staged |-> ~back,
                      to |-> IF back THEN rollback ELSE proc[p].cmd.to] IN
            Begin(p, t, IF back THEN "backInstall" ELSE "save")
    /\ UNCHANGED <<installed, trust, rollback, saved, staged, commands, mishaps>>

-----------------------------------------------------------------------------
(* An update, from its journal on.                                           *)

Save(p) ==
    /\ ProcAt(p, "save")
    /\ saved' = saved \cup {Tx(p).from}
    /\ ProcGo(p, "saved")
    /\ UNCHANGED <<installed, trust, rollback, staged, transaction, commands, mishaps>>

Stage(p) ==
    /\ ProcAt(p, "stage")
    /\ staged' = staged \cup {Tx(p).to}
    /\ ProcGo(p, "staged")
    /\ UNCHANGED <<installed, trust, rollback, saved, transaction, commands, mishaps>>

\* verify_candidate_state of the staged candidate, which may refuse
VerifyStaged(p) ==
    /\ ProcAt(p, "verify")
    /\ \/ ProcGo(p, "verified") /\ UNCHANGED mishaps
       \/ mishaps < MaxMishaps /\ mishaps' = mishaps + 1 /\ ProcGo(p, "discard")
    /\ UNCHANGED <<updateFiles, commands>>

Replace(p) ==
    /\ ProcAt(p, "replace")
    /\ Install(p, Tx(p).to, "replaced")
    /\ UNCHANGED <<trust, rollback, saved, staged, transaction, commands, mishaps>>

\* verify_candidate_state of the installed candidate
VerifyInstalled(p) ==
    /\ ProcAt(p, "check")
    /\ \/ ProcGo(p, "checked") /\ UNCHANGED mishaps
       \/ mishaps < MaxMishaps /\ mishaps' = mishaps + 1 /\ ProcGo(p, "reject")
    /\ UNCHANGED <<updateFiles, commands>>

\* commit_controller_rollback_state
CommitRollback(p) ==
    /\ ProcAt(p, "commit") /\ Tx(p).from \in saved
    /\ rollback' = Tx(p).from
    /\ ProcGo(p, "committed")
    /\ UNCHANGED <<installed, trust, saved, staged, transaction, commands, mishaps>>

\* Mutant: an interrupted commit is not repeated.
WriteTrustOnce(p) ==
    /\ ProcAt(p, "trust")
    /\ trust' = IF proc[p].gone THEN Tx(p).to ELSE trust
    /\ ProcGo(p, "trusted")
    /\ UNCHANGED <<installed, rollback, saved, staged, transaction, commands, mishaps>>

\* write_controller_trust
WriteTrust(p) ==
    /\ ProcAt(p, "trust")
    /\ trust' = Tx(p).to
    /\ ProcGo(p, "trusted")
    /\ UNCHANGED <<installed, rollback, saved, staged, transaction, commands, mishaps>>

\* The phases between these steps
Checkpoint(p) ==
    \/ ProcAt(p, "saved") /\ Reach(p, "RollbackPrepared", "stage")
    \/ ProcAt(p, "staged") /\ Reach(p, "CandidatePrepared", "verify")
    \/ ProcAt(p, "verified") /\ Reach(p, "CandidateVerified", "replace")
    \/ ProcAt(p, "replaced") /\ Reach(p, "Installed", "check")
    \/ ProcAt(p, "checked") /\ Reach(p, "Installed", "commit")
    \/ ProcAt(p, "committed") /\ Reach(p, "RollbackStateCommitted", "trust")
    \/ ProcAt(p, "backInstalled") /\ Reach(p, "Installed", "trust")
    \/ ProcAt(p, "trusted") /\ Reach(p, "TrustCommitted", "finish")

\* finish_self_update_journal and discard_unstarted_self_update_journal: the
\* candidate goes first, the journal after it.
RemoveStaged(p) ==
    /\ ProcAt(p, "finish") \/ (ProcAt(p, "discard") /\ installed = Tx(p).from)
    /\ staged' = IF Tx(p).staged THEN staged \ {Tx(p).to} ELSE staged
    /\ ProcGo(p, IF ProcAt(p, "finish") THEN "retire" ELSE "drop")
    /\ UNCHANGED <<installed, trust, rollback, saved, transaction, commands, mishaps>>

\* A finished repair goes on with its command, a refused candidate is an error.
RemoveJournal(p) ==
    /\ ProcAt(p, "retire") \/ ProcAt(p, "drop")
    /\ transaction' = None
    /\ IF ProcAt(p, "retire") THEN proc' = [proc EXCEPT ![p].at = "command", ![p].tx = None]
       ELSE Ends(p)
    /\ UNCHANGED <<installed, trust, rollback, saved, staged, commands, mishaps>>

-----------------------------------------------------------------------------
(* recover_update_journal, restore_rejected_update, recover_rollback_journal. *)

\* Mutant: a journal is only given up before its rollback artifact is saved.
ResumeIntentOnly(p) ==
    LET t == Tx(p) IN
    /\ ProcAt(p, "resume")
    /\ \/ installed = t.to /\ ProcGo(p, "check")
       \/ installed # t.to /\ installed = t.from /\ t.to \in staged /\ ProcGo(p, "verify")
       \/ /\ installed # t.to /\ installed = t.from /\ t.to \notin staged
          /\ t.phase < IsAt("RollbackPrepared") /\ ProcGo(p, "retire")
    /\ UNCHANGED <<updateFiles, commands, mishaps>>

\* The phase is not trusted: what is installed and staged decides.
Resume(p) ==
    LET t == Tx(p) IN
    /\ ProcAt(p, "resume")
    /\ \/ installed = t.to /\ ProcGo(p, "check")
       \/ installed # t.to /\ installed = t.from /\ t.to \in staged /\ ProcGo(p, "verify")
       \/ /\ installed # t.to /\ installed = t.from /\ t.to \notin staged
          /\ t.phase <= IsAt("RollbackPrepared") /\ ProcGo(p, "retire")
    /\ UNCHANGED <<updateFiles, commands, mishaps>>

\* The rejected candidate is removed, then the journal turns into a rollback.
Reject(p) ==
    /\ ProcAt(p, "reject") /\ Tx(p).from \in saved
    /\ staged' = IF Tx(p).staged THEN staged \ {Tx(p).to} ELSE staged
    /\ ProcGo(p, "turn")
    /\ UNCHANGED <<installed, trust, rollback, saved, transaction, commands, mishaps>>

Turn(p) ==
    /\ ProcAt(p, "turn")
    /\ Begin(p, [op |-> "Rollback", phase |-> 1, from |-> Tx(p).to, to |-> Tx(p).from,
                 staged |-> FALSE], "back")
    /\ UNCHANGED <<installed, trust, rollback, saved, staged, commands, mishaps>>

Back(p) ==
    LET t == Tx(p) IN
    /\ ProcAt(p, "back") /\ t.to \in saved /\ installed \in {t.from, t.to}
    /\ ProcGo(p, IF installed = t.to THEN "backInstalled" ELSE "backInstall")
    /\ UNCHANGED <<updateFiles, commands, mishaps>>

BackInstall(p) ==
    /\ ProcAt(p, "backInstall")
    /\ Install(p, Tx(p).to, "backInstalled")
    /\ UNCHANGED <<trust, rollback, saved, staged, transaction, commands, mishaps>>

\* What a resumed journal cannot be recovered from
Stuck(t) ==
    \/ /\ t.op = "Update" /\ installed # t.to
       /\ installed # t.from \/ (t.to \notin staged /\ t.phase > IsAt("RollbackPrepared"))
    \/ t.op = "Update" /\ installed = t.to /\ t.from \notin saved
    \/ t.op = "Rollback" /\ (t.to \notin saved \/ installed \notin {t.from, t.to})

\* A check that refuses is an error of the command.
Refused(p) ==
    LET t == Tx(p) IN
    \/ ProcAt(p, "resume") /\ Stuck(t) /\ installed # t.to
    \/ (ProcAt(p, "commit") \/ ProcAt(p, "reject")) /\ t.from \notin saved
    \/ ProcAt(p, "back") /\ Stuck(t)
    \/ ProcAt(p, "discard") /\ installed # t.from

GiveUp(p) ==
    /\ Refused(p)
    /\ Ends(p)
    /\ UNCHANGED <<updateFiles, commands, mishaps>>

Stop(p) ==
    /\ ~ProcAt(p, "idle") /\ mishaps < MaxMishaps
    /\ mishaps' = mishaps + 1
    /\ Ends(p)
    /\ UNCHANGED <<updateFiles, commands>>

Step(p) ==
    \/ Lock(p) \/ Command(p) \/ Save(p) \/ Stage(p) \/ VerifyStaged(p) \/ Replace(p)
    \/ VerifyInstalled(p) \/ CommitRollback(p) \/ WriteTrust(p) \/ Checkpoint(p)
    \/ RemoveStaged(p) \/ RemoveJournal(p) \/ Resume(p) \/ Reject(p) \/ Turn(p)
    \/ Back(p) \/ BackInstall(p) \/ GiveUp(p)

UpdateNext == \E p \in Procs : Start(p) \/ StartOther(p) \/ Step(p) \/ Stop(p)

UpdateSpec == UpdateInit /\ [][UpdateNext]_updateVars

\* A running command goes on, and the operator goes on using the controller.
UpdateFairSpec == /\ UpdateSpec /\ \A p \in Procs : WF_updateVars(Step(p))
                  /\ WF_updateVars(\E p \in Procs : StartOther(p))

-----------------------------------------------------------------------------
(* Properties.                                                               *)

UpdateTypeOK ==
    /\ installed \in Versions /\ trust \in 0..MaxVersion /\ rollback \in 0..MaxVersion
    /\ saved \subseteq Versions /\ staged \subseteq Versions
    /\ transaction \in Journals \cup {None}
    /\ \A p \in Procs : proc[p].tx \in Journals \cup {None} /\ proc[p].gone \in BOOLEAN
    /\ commands \in 0..MaxCommands /\ mishaps \in 0..MaxMishaps

(* write_controller_trust, commit_controller_rollback_state: without a        *)
(* journal the trust record, which is the anti-downgrade floor, is the        *)
(* installed release, the rollback record has its artifact, and no candidate  *)
(* is left behind.                                                            *)
RestAgrees ==
    transaction = None =>
        /\ trust \in {0, installed}
        /\ rollback # 0 => rollback \in saved
        /\ staged = {}

(* recover_controller_self_operation: an interrupted replacement is finished  *)
(* or undone by the commands that follow, except where it is Stuck: the       *)
(* discarded candidate was removed and the journal was not, or an update to   *)
(* the installed release was cut before it saved its rollback artifact.       *)
RepairSettles == transaction # None ~> transaction = None \/ Stuck(transaction)

(* docs/compatibility.md: normal commands recover interrupted replacement     *)
(* journals.  Refuted by the two Stuck states.                                *)
JournalRecovered == transaction # None ~> transaction = None

===============================================================================
