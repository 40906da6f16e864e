--------------------------- MODULE ControlDispatch ---------------------------
(***************************************************************************)
(* Delivery of signed ControlOperations of one deployment.  Controller     *)
(* processes share a single-slot journal file                              *)
(* (src/controller_identity/journal.rs) and follow                         *)
(* src/controller_identity/dispatch.rs and src/conformance.rs: record the  *)
(* operation, send it, settle the slot by the receipt.  A helper session   *)
(* on the target runs the operation under the deployment's journal lock,   *)
(* replays a stored result, or starts the one-shot operator                *)
(* (src/target/mod.rs, src/target/control_exec.rs).  Sessions outlive the  *)
(* process that started them.  The operator's accept-once record and the   *)
(* set of authorised keys belong to the server and are external.           *)
(***************************************************************************)
EXTENDS Naturals, Optional

CONSTANTS
    Ctls,         \* nazoauthctl processes on the controller machine
    Ids,          \* operation ids
    Cmds,         \* contents of commands
    MaxKids,      \* bound: controller keys, numbered in the order of rotation
    MaxRevision,  \* bound: configuration revisions
    MaxMishaps    \* bound: kills, lost connections and failures

ASSUME DispatchConstants ==
    /\ None \notin Ids /\ None \notin Ctls
    /\ {MaxKids, MaxRevision} \subseteq Nat \ {0} /\ MaxMishaps \in Nat

VARIABLES
    slot,       \* operation-journal.json
    ctl,        \* each process: its step, its prepared operation, the answer
    sessions,   \* requests on their way to the target
    exec,       \* the session that holds the target's journal lock
    stored,     \* the operation's entry in the target journal
    oper,       \* the server's accept-once record
    persisted,  \* the result the caller's callback made durable
    minted,     \* operation ids that were handed out
    key,        \* the controller key the server authorises
    signing,    \* the controller key this machine signs with
    rev,        \* the deployment's configuration revision
    mishaps

dispatchVars == <<slot, ctl, sessions, exec, stored, oper, persisted, minted, key,
                  signing, rev, mishaps>>

Answers  == {"succeeded", "failed", "inprogress", "rejected", "drift", "error"}
Terminal == {"succeeded", "failed"}

(* What has_same_identity compares: the id, the hash of the content (which *)
(* includes the configuration revision) and the signing key.               *)
Signed  == [id : Ids, cmd : Cmds, rev : 1..MaxRevision, kid : 1..MaxKids]
Entries == [op : Signed, state : {"dispatched", "accepted"}]

(* A session that runs, and the process it answers to.                     *)
Runs == [by : Ctls \cup {None}, op : Signed, at : {"run", "collect"}]

ASSUME NoneIsNothing ==
    None \notin Entries \cup Signed \cup Runs \cup Answers \cup {"pending", "accepted"}

Rest == [at |-> "idle", op |-> None, ans |-> None]

DispatchInit ==
            /\ slot = None
            /\ ctl = [c \in Ctls |-> Rest]
            /\ sessions = {}
            /\ exec = None
            /\ stored = [i \in Ids |-> None]
            /\ oper = [i \in Ids |-> None]
            /\ persisted = [i \in Ids |-> None]
            /\ minted = {}
            /\ key = 1 /\ signing = 1 /\ rev = 1
            /\ mishaps = 0

Target == <<exec, stored, oper>>
World  == <<key, signing, rev>>

Fault == mishaps < MaxMishaps /\ mishaps' = mishaps + 1

Matches(op) == slot # None /\ slot.op = op

-----------------------------------------------------------------------------
(* prepare_control_operation.  The slot is read without the lock; a fresh  *)
(* operation takes it later, under the lock.                               *)

Mint(c, m, i) ==
    /\ ctl[c] = Rest /\ slot = None /\ i \notin minted
    /\ minted' = minted \cup {i}
    /\ ctl' = [ctl EXCEPT ![c] =
                 [at |-> "record", ans |-> None,
                  op |-> [id |-> i, cmd |-> m, rev |-> rev, kid |-> signing]]]
    /\ UNCHANGED <<slot, sessions, Target, persisted, World, mishaps>>

(* Another process may have taken the slot since it was read.              *)
record_dispatched(c) ==
    /\ ctl[c].at = "record"
    /\ IF slot = None
       THEN /\ slot' = [op |-> ctl[c].op, state |-> "dispatched"]
            /\ ctl' = [ctl EXCEPT ![c].at = "send"]
       ELSE ctl' = [ctl EXCEPT ![c] = Rest] /\ UNCHANGED slot
    /\ UNCHANGED <<sessions, Target, persisted, minted, World, mishaps>>

(* prepare_entry_resume: the command has the journaled content under the   *)
(* current revision; the stored signed request is sent again.  With other  *)
(* content the command is refused and nothing happens.                     *)
Resume(c, m) ==
    /\ ctl[c] = Rest /\ slot # None
    /\ slot.op.cmd = m /\ slot.op.rev = rev
    /\ ctl' = [ctl EXCEPT ![c] = [at |-> "send", ans |-> None, op |-> slot.op]]
    /\ UNCHANGED <<slot, sessions, Target, persisted, minted, World, mishaps>>

Send(c) ==
    /\ ctl[c].at = "send"
    /\ sessions' = sessions \cup {[by |-> c, op |-> ctl[c].op]}
    /\ ctl' = [ctl EXCEPT ![c].at = "wait"]
    /\ UNCHANGED <<slot, Target, persisted, minted, World, mishaps>>

-----------------------------------------------------------------------------
(* Settling the slot.                                                      *)

(* control_operation_receipt and classify_receipt: every code that does    *)
(* not prove a rejection before acceptance is an error, not a receipt.     *)
classify_receipt(ans) ==
    CASE ans \in Terminal     -> "Terminal"
      [] ans = "inprogress"   -> "InProgressAccepted"
      [] ans = "rejected"     -> "DefinitivelyRejected"
      [] OTHER                -> "Err"

mark_accepted(op) == slot' = [op |-> op, state |-> "accepted"]

clear_if_matches(op) == slot' = IF Matches(op) THEN None ELSE slot

Settle(c) ==
    /\ ctl[c].at = "settle"
    /\ LET op == ctl[c].op
           verdict == classify_receipt(ctl[c].ans)
           accept == /\ Matches(op)
                     /\ verdict \in {"Terminal", "InProgressAccepted"}
       IN /\ IF accept
             THEN mark_accepted(op)
             ELSE IF verdict = "DefinitivelyRejected"
             THEN clear_if_matches(op)
             ELSE UNCHANGED slot
          /\ ctl' = IF accept /\ verdict = "Terminal"
                    THEN [ctl EXCEPT ![c].at = "persist"]
                    ELSE [ctl EXCEPT ![c] = Rest]
    /\ UNCHANGED <<sessions, Target, persisted, minted, World, mishaps>>

(* persist_terminal, the caller's callback.                                *)
Persist(c) ==
    /\ ctl[c].at = "persist"
    /\ persisted' = [persisted EXCEPT ![ctl[c].op.id] = ctl[c].ans]
    /\ ctl' = [ctl EXCEPT ![c].at = "clear"]
    /\ UNCHANGED <<slot, sessions, Target, minted, World, mishaps>>

Clear(c) ==
    /\ ctl[c].at = "clear"
    /\ clear_if_matches(ctl[c].op)
    /\ ctl' = [ctl EXCEPT ![c] = Rest]
    /\ UNCHANGED <<sessions, Target, persisted, minted, World, mishaps>>

(* Equal requests that nobody waits for are one: a second one would meet   *)
(* what a resumed request meets.                                           *)
Orphan(s, c) == IF s.by = c THEN [s EXCEPT !.by = None] ELSE s

(* The process is killed, loses its connection, finds keys.lock taken or   *)
(* fails to write: the command ends, what it sent stays on its way.        *)
Abandon(c) ==
    /\ ctl[c] # Rest /\ Fault
    /\ ctl' = [ctl EXCEPT ![c] = Rest]
    /\ sessions' = {Orphan(s, c) : s \in sessions}
    /\ exec' = IF exec = None THEN None ELSE Orphan(exec, c)
    /\ UNCHANGED <<slot, stored, oper, persisted, minted, World>>

-----------------------------------------------------------------------------
(* The target: one session at a time holds the journal lock.               *)

Reply(by, ans) ==
    ctl' = IF by = None THEN ctl
           ELSE [ctl EXCEPT ![by].at = "settle", ![by].ans = ans]

(* FileLock::acquire does not wait.                                        *)
Busy(s) ==
    /\ s \in sessions /\ exec # None
    /\ sessions' = sessions \ {s}
    /\ Reply(s.by, "error")
    /\ UNCHANGED <<slot, Target, persisted, minted, World, mishaps>>

(* run_journaled: a terminal line is replayed.                             *)
Replay(s) ==
    /\ s \in sessions /\ exec = None
    /\ stored[s.op.id] \notin {None, "pending"}
    /\ sessions' = sessions \ {s}
    /\ Reply(s.by, stored[s.op.id])
    /\ UNCHANGED <<slot, Target, persisted, minted, World, mishaps>>

Admit(s) ==
    /\ s \in sessions /\ exec = None
    /\ stored[s.op.id] \in {None, "pending"}
    /\ sessions' = sessions \ {s}
    /\ stored' = [stored EXCEPT ![s.op.id] = "pending"]
    /\ exec' = [by |-> s.by, op |-> s.op, at |-> "run"]
    /\ UNCHANGED <<slot, ctl, oper, persisted, minted, World, mishaps>>

(* Mutant: an unknown outcome is journaled like a failure.                 *)
Conclude_Unknown(ans) ==
    /\ stored' = [stored EXCEPT ![exec.op.id] = ans]
    /\ Reply(exec.by, ans)
    /\ exec' = None

(* The end of run_journaled: a result and a failure are terminal lines, an *)
(* unknown outcome leaves the entry pending.                               *)
Conclude(ans) ==
    /\ stored' = [stored EXCEPT ![exec.op.id] = IF ans = "error" THEN @ ELSE ans]
    /\ Reply(exec.by, ans)
    /\ exec' = None

(* Mutant: a request the operator could not answer counts as rejected.     *)
operator_rejection_code_Request(class) ==
    IF class = "unavailable" THEN "error" ELSE "rejected"

(* A "request" rejection may come after acceptance and proves nothing.     *)
operator_rejection_code(class) ==
    IF class \in {"authorization", "revision"} THEN "rejected" ELSE "error"

Executes(step) == exec # None /\ exec.at = step

AtRun == Executes("run") /\ UNCHANGED <<slot, sessions, persisted, minted, World>>

(* The operator rejects before it accepts: the key is not authorised, or   *)
(* the operation was signed for another configuration.                     *)
Reject ==
    /\ AtRun /\ oper[exec.op.id] = None
    /\ \E class \in {"authorization", "revision"} :
         /\ class = "authorization" => exec.op.kid # key
         /\ class = "revision" => exec.op.rev # rev
         /\ Conclude(operator_rejection_code(class))
    /\ UNCHANGED <<oper, mishaps>>

AcceptOnce ==
    /\ AtRun /\ oper[exec.op.id] = None
    /\ exec.op.kid = key /\ exec.op.rev = rev
    /\ oper' = [oper EXCEPT ![exec.op.id] = "accepted"]
    /\ exec' = [exec EXCEPT !.at = "collect"]
    /\ UNCHANGED <<ctl, stored, mishaps>>

(* An operation that was accepted before is answered from its record.      *)
Known ==
    /\ AtRun /\ oper[exec.op.id] # None
    /\ Conclude(IF oper[exec.op.id] = "accepted" THEN "inprogress" ELSE oper[exec.op.id])
    /\ UNCHANGED <<oper, mishaps>>

Collect ==
    /\ Executes("collect") /\ oper[exec.op.id] \in Terminal
    /\ Conclude(oper[exec.op.id])
    /\ UNCHANGED <<slot, sessions, oper, persisted, minted, World, mishaps>>

(* The operator task does its work; it outlives the session.               *)
Complete(i) ==
    /\ oper[i] = "accepted"
    /\ \E r \in Terminal : oper' = [oper EXCEPT ![i] = r]
    /\ UNCHANGED <<slot, ctl, sessions, exec, stored, persisted, minted, World, mishaps>>

(* The runtime object is not the recorded one: the operator is not started.*)
Drift ==
    /\ AtRun /\ Fault /\ Conclude("drift") /\ UNCHANGED oper

(* The registry is unavailable before acceptance; or, at any point, the    *)
(* output is lost, the result cannot be encoded, or the session is killed  *)
(* and its process hears of a lost connection.                             *)
NoResult ==
    /\ exec # None /\ Fault
    /\ \E class \in {"unavailable", "request"} :
         /\ class = "unavailable" => oper[exec.op.id] = None
         /\ Conclude(operator_rejection_code(class))
    /\ UNCHANGED <<slot, sessions, oper, persisted, minted, World>>

SessionLost(s) ==
    /\ s \in sessions /\ Fault
    /\ sessions' = sessions \ {s}
    /\ Reply(s.by, "error")
    /\ UNCHANGED <<slot, Target, persisted, minted, World>>

-----------------------------------------------------------------------------
(* The world meanwhile: a rotated key is authorised at the server before   *)
(* it is activated here; an order without a control operation, such as a   *)
(* rollback, advances the configuration revision under the journal lock.   *)

Rotate ==
    /\ key < MaxKids /\ signing = key
    /\ key' = key + 1
    /\ UNCHANGED <<slot, ctl, sessions, Target, persisted, minted, signing, rev, mishaps>>

Activate ==
    /\ signing # key
    /\ signing' = key
    /\ UNCHANGED <<slot, ctl, sessions, Target, persisted, minted, key, rev, mishaps>>

Advance ==
    /\ exec = None /\ rev < MaxRevision
    /\ rev' = rev + 1
    /\ UNCHANGED <<slot, ctl, sessions, Target, persisted, minted, key, signing, mishaps>>

Process(c) == record_dispatched(c) \/ Send(c) \/ Settle(c) \/ Persist(c) \/ Clear(c)

Arrive == \E s \in sessions : Busy(s) \/ Replay(s) \/ Admit(s)

Run == Reject \/ AcceptOnce \/ Known \/ Collect

Rerun == \E c \in Ctls, m \in Cmds : Resume(c, m)

Trouble == Drift \/ NoResult \/ \E s \in sessions : SessionLost(s)

DispatchNext ==
            \/ \E c \in Ctls : Process(c) \/ Abandon(c)
            \/ \E c \in Ctls, m \in Cmds, i \in Ids : Mint(c, m, i)
            \/ Rerun \/ Arrive \/ Run \/ Trouble
            \/ \E i \in Ids : Complete(i)
            \/ Rotate \/ Activate \/ Advance

DispatchSpec == DispatchInit /\ [][DispatchNext]_dispatchVars

(* Processes, sessions and the server's work go on unless they are killed, *)
(* and the operator re-runs the command whose operation is in the slot.    *)
Fairness ==
    /\ \A c \in Ctls : WF_dispatchVars(Process(c))
    /\ WF_dispatchVars(Arrive) /\ WF_dispatchVars(Run) /\ WF_dispatchVars(Rerun)
    /\ \A i \in Ids : WF_dispatchVars(Complete(i))

DispatchFairSpec == DispatchSpec /\ Fairness
-----------------------------------------------------------------------------
(* Properties.                                                             *)

DispatchTypeOK ==
    /\ slot \in Entries \cup {None}
    /\ ctl \in [Ctls -> [at : {"idle", "record", "send", "wait", "settle", "persist",
                               "clear"},
                         op : Signed \cup {None}, ans : Answers \cup {None}]]
    /\ \A c \in Ctls : ctl[c].at # "idle" => ctl[c].op \in Signed
    /\ sessions \subseteq [by : Ctls \cup {None}, op : Signed]
    /\ exec \in Runs \cup {None}
    /\ stored \in [Ids -> (Answers \ {"error"}) \cup {"pending", None}]
    /\ oper \in [Ids -> Terminal \cup {"accepted", None}]
    /\ persisted \in [Ids -> Terminal \cup {None}]
    /\ minted \subseteq Ids
    /\ key \in 1..MaxKids /\ signing \in 1..MaxKids /\ rev \in 1..MaxRevision
    /\ mishaps \in Nat

Held(i) == slot # None /\ slot.op.id = i

(* dispatch.rs: "unknown-outcome operations are never replaced by a new    *)
(* one": an operation the server accepted is in the slot until its result  *)
(* is durable, whichever processes prepare, resume and settle meanwhile.   *)
NeverReplaced ==
    \A i \in Ids : oper[i] # None =>
        persisted[i] # None \/ Held(i)

(* clear_if_matches: the slot is freed only by what is known of the very   *)
(* operation in it: its result is durable, or the target's stored answer   *)
(* is a rejection before acceptance.                                       *)
FreedOnlyWhenKnown ==
    [][slot # None /\ slot' # slot /\ (slot' = None \/ slot'.op # slot.op)
       => persisted[slot.op.id] # None \/ stored[slot.op.id] = "rejected"]_dispatchVars

(* settle_journal: the result a caller persisted is the server's final one.*)
PersistedIsFinal ==
    \A i \in Ids : persisted[i] # None => oper[i] = persisted[i]

(* What keeps an operation in the slot for good: an in-progress answer or a*)
(* drift that the target journal replays, or a revision that has moved on. *)
Stuck(i) ==
    \/ stored[i] \in {"inprogress", "drift"}
    \/ Held(i) /\ slot.op.rev # rev

(* dispatch.rs: re-running the command settles the slot, except in the     *)
(* three cases of Stuck.                                                   *)
SettlesUnlessStuck == \A i \in Ids : Held(i) ~> ~Held(i) \/ Stuck(i)

(* dispatch.rs:111: an accepted operation's journal entry "remains the     *)
(* authorization snapshot for a resumed poll": polling on, the slot is     *)
(* settled once the server has finished.                                   *)
PollSettles == \A i \in Ids : Held(i) /\ oper[i] # None ~> ~Held(i)
=============================================================================
