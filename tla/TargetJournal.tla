---------------------------- MODULE TargetJournal ----------------------------
(***************************************************************************)
(* The durable operation journal of one deployment scope on a target host *)
(* (src/target/journal.rs).  Helper processes run one HostOperation       *)
(* each under run_journaled: take the scope's file lock, repair and       *)
(* compact the file, decide between conflict, replay, resume and fresh    *)
(* admission, append a pending line, execute, append the terminal line.   *)
(* A process can die, or an I/O call can fail, between any two of these   *)
(* steps; a failing append can leave a torn record at the end of the file.*)
(*                                                                         *)
(* The file is a set of records that carry their position, and a torn     *)
(* tail.  A line is described by the operation id, the canonical hash of  *)
(* the request, the status and the number of bytes it takes.              *)
(***************************************************************************)
EXTENDS Integers, FiniteSets, FiniteSetsExt

CONSTANTS
    Procs,            \* helper processes that may open the journal
    NoProc,           \* nobody holds the lock
    Ids,              \* operation ids
    Hashes,           \* canonical request hashes
    KindOf,           \* what run_journaled tells apart about a request
    NoRequest,        \* the process runs no operation
    NoTail,           \* the file ends with a newline
    MaxBytes,         \* JournalBounds.max_bytes
    MaxPendingBytes,  \* JournalBounds.max_pending_bytes
    TargetBytes,      \* JournalBounds.target_bytes
    MinTerminal,      \* JournalBounds.min_terminal_retained
    ReadCap,          \* JournalBounds.read_cap
    PendingSize,      \* bytes of a pending line
    TerminalSizes,    \* bytes a terminal line may take
    MaxAppends,       \* bound: appends in one behaviour
    MaxInterrupts     \* bound: crashes and I/O failures in one behaviour

(* "update" requests may turn out to be no-ops, "retryable" requests are   *)
(* the recovery phases and the uninstall, which run again after a failure. *)
Kinds == {"plain", "update", "retryable"}

Requests == [id : Ids, hash : Hashes]

Statuses == {"pending", "completed", "failed"}

(* One JournalLine; "at" is its position in the file.                      *)
Lines == [at : Nat, id : Ids, hash : Hashes, status : Statuses, size : Nat]

(* A record whose append stopped short: the bytes of "line" that are there.*)
Tails == [line : Lines, bytes : Nat]

ASSUME ProcsAssumption == NoProc \notin Procs

ASSUME RequestAssumption ==
    /\ NoRequest \notin Requests \cup [status : Statuses, hash : Hashes]
    /\ NoTail \notin Tails

ASSUME KindAssumption == KindOf \in [Hashes -> Kinds]

ASSUME BoundsAssumption ==
    /\ {MaxBytes, MaxPendingBytes, TargetBytes, ReadCap} \subseteq Nat
    /\ {MinTerminal, MaxAppends, MaxInterrupts} \subseteq Nat
    /\ PendingSize \in Nat \ {0}
    /\ TerminalSizes \subseteq Nat \ {0}

VARIABLES
    lines,       \* the complete records of the file
    tail,        \* a torn final record, or NoTail
    tip,         \* the position of the last append
    lock,        \* the process that holds the scope's FileLock
    pc,          \* where each process is in run_journaled
    req,         \* the operation each process was asked to run
    outcome,     \* what execute returned
    begun,       \* history: ids whose execution started and is not settled
    interrupts   \* the number of interruptions so far

vars == <<lines, tail, tip, lock, pc, req, outcome, begun, interrupts>>

Outcomes == {"none", "completed", "failed", "noop", "unknown"}

Labels == {"idle", "read", "shrink", "admit", "append", "trim", "execute",
           "settle", "final"}

TypeOK ==
    /\ lines \in SUBSET Lines
    /\ tail \in Tails \cup {NoTail}
    /\ tip \in Nat
    /\ lock \in Procs \cup {NoProc}
    /\ pc \in [Procs -> Labels]
    /\ req \in [Procs -> Requests \cup {NoRequest}]
    /\ outcome \in [Procs -> Outcomes]
    /\ begun \in SUBSET Ids
    /\ interrupts \in Nat

-----------------------------------------------------------------------------
(* What the lines say.                                                     *)

Of(ls, id) == {l \in ls : l.id = id}

IsNewest(ls, l) == \A m \in Of(ls, l.id) : m.at <= l.at

(* The newest line of the operation has one of these statuses.             *)
Newest(ls, id, statuses) ==
    \E l \in Of(ls, id) : l.status \in statuses /\ IsNewest(ls, l)

(* The pending lines no newer line of the same operation settles.          *)
Unsettled(ls) == {l \in ls : l.status = "pending" /\ IsNewest(ls, l)}

Bytes(ls) == MapThenSumSet(LAMBDA l : l.size, ls)

FileBytes == Bytes(lines) + (IF tail = NoTail THEN 0 ELSE tail.bytes)

(* serde_json parses a final record that only lacks its newline and stops  *)
(* with an end-of-file error on every shorter prefix of it.                *)
Whole(t) == t.bytes = t.line.size - 1

Repaired(ls, t) == IF t # NoTail /\ Whole(t) THEN ls \cup {t.line} ELSE ls

LogView == Repaired(lines, tail)

-----------------------------------------------------------------------------
(* compact_lines: unsettled operations are kept first and take their bytes *)
(* from the hard budget; terminal lines are then visited newest to oldest. *)

(* The walk of compact_lines from the newest position (tip) down to n: the *)
(* terminal lines kept so far and what is left of the three budgets.       *)
Walk(ls) ==
    LET start == [kept |-> {}, count |-> 0, budget |-> TargetBytes,
                  hard |-> Max({0, MaxBytes - Bytes(Unsettled(ls))})]
        visit(w, l) ==
            IF /\ w.hard >= l.size
               /\ w.count < MinTerminal \/ w.budget >= l.size
            THEN [kept |-> w.kept \cup {l}, count |-> w.count + 1,
                  budget |-> Max({0, w.budget - l.size}),
                  hard |-> w.hard - l.size]
            ELSE w
        walk[n \in 0..tip] ==
            LET w == IF n = 0 THEN start ELSE walk[n - 1]
                here == {l \in ls : l.at = tip - n /\ l.status # "pending"}
            IN  IF here = {} THEN w ELSE visit(w, CHOOSE l \in here : TRUE)
    IN  walk[tip]

(* Mutants of compact_lines: it forgets to reserve the unsettled lines; it *)
(* ignores the byte budgets; it visits the oldest terminal lines first.    *)
compact_lines_NoReserve(ls) ==
    LET kept == Walk(ls).kept
    IN  {l \in ls : l.status # "pending" /\ l \in kept}

compact_lines_NoBudget(ls) ==
    Unsettled(ls) \cup {l \in ls : l.status # "pending"}

compact_lines_OldestFirst(ls) ==
    LET terminal == {l \in ls : l.status # "pending"}
    IN  Unsettled(ls) \cup
        {l \in terminal : Bytes({m \in terminal : m.at <= l.at}) <= TargetBytes}

compact_lines(ls) ==
    LET kept == Walk(ls).kept
    IN  Unsettled(ls) \cup {l \in ls : l.status # "pending" /\ l \in kept}

-----------------------------------------------------------------------------
(* The steps of run_journaled.                                             *)

Goto(p, label) == pc' = [pc EXCEPT ![p] = label]

(* Returning from run_journaled drops the FileLock.                        *)
Return(p) ==
    /\ lock' = NoProc
    /\ pc' = [pc EXCEPT ![p] = "idle"]
    /\ req' = [req EXCEPT ![p] = NoRequest]
    /\ outcome' = [outcome EXCEPT ![p] = "none"]

Line(p, status, size) ==
    [at |-> tip + 1, id |-> req[p].id, hash |-> req[p].hash,
     status |-> status, size |-> size]

Init ==
    /\ lines = {}
    /\ tail = NoTail
    /\ tip = 0
    /\ lock = NoProc
    /\ pc = [p \in Procs |-> "idle"]
    /\ req = [p \in Procs |-> NoRequest]
    /\ outcome = [p \in Procs |-> "none"]
    /\ begun = {}
    /\ interrupts = 0

(* FileLock::acquire never waits: while another process holds the lock the *)
(* call fails at once and the process is where it was.                     *)
Acquire(p, r) ==
    /\ pc[p] = "idle"
    /\ lock = NoProc
    /\ tip + 2 <= MaxAppends
    /\ lock' = p
    /\ Goto(p, "read")
    /\ req' = [req EXCEPT ![p] = r]
    /\ UNCHANGED <<lines, tail, tip, outcome, begun, interrupts>>

(* Mutant of ReadAndRepair: every torn record is cut off, whole or not.    *)
ReadAndRepair_CutsWhole(p) ==
    /\ pc[p] = "read"
    /\ lines' = lines
    /\ tail' = NoTail
    /\ Goto(p, IF FileBytes > MaxBytes THEN "shrink" ELSE "admit")
    /\ UNCHANGED <<tip, lock, req, outcome, begun, interrupts>>

(* The first read repairs a torn tail.  compact_if_needed decides by the   *)
(* size of the file as it was found.                                       *)
ReadAndRepair(p) ==
    /\ pc[p] = "read"
    /\ lines' = LogView
    /\ tail' = NoTail
    /\ Goto(p, IF FileBytes > MaxBytes THEN "shrink" ELSE "admit")
    /\ UNCHANGED <<tip, lock, req, outcome, begun, interrupts>>

(* read_secure_regular_file refuses a file beyond the read tolerance and   *)
(* the error leaves run_journaled.                                         *)
ReadRefused(p) ==
    /\ pc[p] \in {"read", "trim", "final"}
    /\ Return(p)
    /\ UNCHANGED <<lines, tail, tip, begun, interrupts>>

Read(p) == IF FileBytes <= ReadCap THEN ReadAndRepair(p) ELSE ReadRefused(p)

Shrink(p) ==
    /\ pc[p] = "shrink"
    /\ lines' = compact_lines(lines)
    /\ Goto(p, "admit")
    /\ UNCHANGED <<tail, tip, lock, req, outcome, begun, interrupts>>

-----------------------------------------------------------------------------
(* Admission.                                                              *)

(* Mutant: every failed phase is taken for a retryable one.                *)
RetryFailedPhase_Any(r) == Newest(lines, r.id, {"failed"})

(* Some line of the operation was accepted with another request hash.      *)
Conflicting(r) == \E l \in Of(lines, r.id) : l.hash # r.hash

RetryFailedPhase(r) ==
    /\ KindOf[r.hash] = "retryable"
    /\ Newest(lines, r.id, {"failed"})

AlreadySettled(r) ==
    /\ Newest(lines, r.id, {"completed", "failed"})
    /\ ~RetryFailedPhase(r)

Resumed(r) == Newest(lines, r.id, {"pending"})

FitsPendingBudget == PendingSize + Bytes(Unsettled(lines)) <= MaxPendingBytes

(* The three answers given without executing anything: the id conflict,    *)
(* the stored result, the exhausted admission budget.                      *)
AnswerConflict(p) ==
    /\ pc[p] = "admit"
    /\ Conflicting(req[p])
    /\ Return(p)
    /\ UNCHANGED <<lines, tail, tip, begun, interrupts>>

AnswerReplay(p) ==
    /\ pc[p] = "admit"
    /\ ~Conflicting(req[p])
    /\ AlreadySettled(req[p])
    /\ Return(p)
    /\ UNCHANGED <<lines, tail, tip, begun, interrupts>>

AnswerCapacity(p) ==
    /\ pc[p] = "admit"
    /\ ~Conflicting(req[p])
    /\ ~AlreadySettled(req[p])
    /\ ~Resumed(req[p])
    /\ ~FitsPendingBudget
    /\ Return(p)
    /\ UNCHANGED <<lines, tail, tip, begun, interrupts>>

AdmitResumed(p) ==
    /\ pc[p] = "admit"
    /\ ~Conflicting(req[p])
    /\ Resumed(req[p])
    /\ Goto(p, "execute")
    /\ UNCHANGED <<lines, tail, tip, lock, req, outcome, begun, interrupts>>

AdmitFresh(p) ==
    /\ pc[p] = "admit"
    /\ ~Conflicting(req[p])
    /\ ~AlreadySettled(req[p])
    /\ ~Resumed(req[p])
    /\ FitsPendingBudget
    /\ Goto(p, "append")
    /\ UNCHANGED <<lines, tail, tip, lock, req, outcome, begun, interrupts>>

-----------------------------------------------------------------------------
(* Execution and settlement.                                               *)

AppendPending(p) ==
    /\ pc[p] = "append"
    /\ lines' = lines \cup {Line(p, "pending", PendingSize)}
    /\ tip' = tip + 1
    /\ Goto(p, "trim")
    /\ UNCHANGED <<tail, lock, req, outcome, begun, interrupts>>

(* compact_if_needed after an append: nothing below the cap, a rewrite     *)
(* above it, an error when the file is beyond what a read accepts.         *)
Compacted == IF FileBytes > MaxBytes THEN compact_lines(lines) ELSE lines

TrimPending(p) ==
    /\ pc[p] = "trim"
    /\ lines' = Compacted
    /\ Goto(p, "execute")
    /\ UNCHANGED <<tail, tip, lock, req, outcome, begun, interrupts>>

(* What the request's executor may answer; "unknown" stands for the codes  *)
(* that leave the operation unsettled.                                     *)
Answers(r) ==
    {"completed", "failed", "unknown"} \cup
    (IF KindOf[r.hash] = "update" THEN {"noop"} ELSE {})

Execute(p, o) ==
    /\ pc[p] = "execute"
    /\ o \in Answers(req[p])
    /\ outcome' = [outcome EXCEPT ![p] = o]
    /\ begun' = begun \cup {req[p].id}
    /\ Goto(p, "settle")
    /\ UNCHANGED <<lines, tail, tip, lock, req, interrupts>>

(* A no-op update leaves no record at all (remove_operation).              *)
RemoveNoop(p) ==
    /\ pc[p] = "settle"
    /\ outcome[p] = "noop"
    /\ lines' = lines \ Of(lines, req[p].id)
    /\ begun' = begun \ {req[p].id}
    /\ Return(p)
    /\ UNCHANGED <<tail, tip, interrupts>>

KeepPending(p) ==
    /\ pc[p] = "settle"
    /\ outcome[p] = "unknown"
    /\ Return(p)
    /\ UNCHANGED <<lines, tail, tip, begun, interrupts>>

AppendTerminal(p, size) ==
    /\ pc[p] = "settle"
    /\ outcome[p] \in {"completed", "failed"}
    /\ lines' = lines \cup {Line(p, outcome[p], size)}
    /\ tip' = tip + 1
    /\ begun' = begun \ {req[p].id}
    /\ Goto(p, "final")
    /\ UNCHANGED <<tail, lock, req, outcome, interrupts>>

TrimFinal(p) ==
    /\ pc[p] = "final"
    /\ lines' = Compacted
    /\ Return(p)
    /\ UNCHANGED <<tail, tip, begun, interrupts>>

Trim(p) ==
    /\ pc[p] \in {"trim", "final"}
    /\ IF FileBytes <= ReadCap THEN TrimPending(p) \/ TrimFinal(p) ELSE ReadRefused(p)

-----------------------------------------------------------------------------
(* Interruptions: the process is killed, the host loses power, or an I/O   *)
(* call of the step fails and the error leaves run_journaled.  In each     *)
(* case the lock is released and the file stays as the last write left it. *)

Interrupt(p) ==
    /\ pc[p] # "idle"
    /\ interrupts < MaxInterrupts
    /\ interrupts' = interrupts + 1
    /\ Return(p)
    /\ UNCHANGED <<lines, tail, tip, begun>>

(* The line a process at one of the two appends was writing.               *)
Torn(p, size) ==
    IF pc[p] = "append"
    THEN Line(p, "pending", PendingSize)
    ELSE Line(p, outcome[p], size)

(* An append that stops after some bytes, before the newline.              *)
InterruptAppend(p, size, bytes) ==
    /\ interrupts < MaxInterrupts
    /\ \/ pc[p] = "append"
       \/ pc[p] = "settle" /\ outcome[p] \in {"completed", "failed"}
    /\ bytes \in 1 .. Torn(p, size).size - 1
    /\ interrupts' = interrupts + 1
    /\ tail' = [line |-> Torn(p, size), bytes |-> bytes]
    /\ tip' = tip + 1
    /\ begun' = IF pc[p] = "settle" /\ Whole(tail')
                THEN begun \ {req[p].id} ELSE begun
    /\ Return(p)
    /\ UNCHANGED lines

Step(p) ==
    \/ \E r \in Requests : Acquire(p, r)
    \/ Read(p) \/ Shrink(p)
    \/ AnswerConflict(p) \/ AnswerReplay(p) \/ AnswerCapacity(p)
    \/ AdmitResumed(p) \/ AdmitFresh(p)
    \/ AppendPending(p) \/ Trim(p)
    \/ \E o \in Outcomes : Execute(p, o)
    \/ RemoveNoop(p) \/ KeepPending(p)
    \/ \E size \in TerminalSizes : AppendTerminal(p, size)
    \/ Interrupt(p)
    \/ \E size \in TerminalSizes : \E bytes \in 1 .. size + PendingSize :
            InterruptAppend(p, size, bytes)

Next == \E p \in Procs : Step(p)

Spec == Init /\ [][Next]_vars

-----------------------------------------------------------------------------
(* Properties.                                                             *)

(* The original intent of an operation id is never overwritten: while the  *)
(* journal holds any record of an id, torn or not, every record of that id *)
(* carries one request hash (the OPERATION_ID_CONFLICT rule).              *)
OneHashPerId ==
    \A l, m \in LogView : l.id = m.id => l.hash = m.hash

Final(l) ==
    \/ l.status = "completed"
    \/ l.status = "failed" /\ KindOf[l.hash] # "retryable"

(* Exactly one terminal line: nothing is ever appended for an operation    *)
(* after its completed line, nor after a failure that is not retryable,    *)
(* across replays, crashes, torn tails and compactions.                    *)
SettledIsLast ==
    \A l \in LogView : Final(l) => IsNewest(LogView, l)

(* The resume point survives: from the moment an executor starts until its *)
(* terminal line is durable, the newest record of the operation a reader   *)
(* finds is its pending line, whatever compaction or a torn tail does.     *)
ResumePoint == \A id \in begun : Newest(LogView, id, {"pending"})

(* The file never wedges: whatever crashes happen between an append and    *)
(* its compaction, the next read is below the read tolerance.              *)
NeverWedged == FileBytes <= ReadCap

(* Within the retained window replay is authoritative: a step that leaves  *)
(* any record of a completed operation leaves its completed record newest. *)
ReplayWindow ==
    [][\A l \in lines :
          /\ l.status = "completed"
          /\ IsNewest(lines, l)
          /\ Of(lines', l.id) # {}
          => Newest(lines', l.id, {"completed"})]_vars

PlainStaysNewest(l) ==
    /\ l.status = "completed"
    /\ KindOf[l.hash] # "retryable"
    /\ IsNewest(lines, l)
    /\ Of(lines', l.id) # {}
    => Newest(lines', l.id, {"completed"})

(* The part of ReplayWindow that holds for every size of terminal lines:   *)
(* requests whose failures are final keep it even when budgets run out.    *)
ReplayWindowPlain ==
    [][\A l \in lines : PlainStaysNewest(l)]_vars

(* A receipt survives its own compaction: the terminal line that a process *)
(* just appended is still the newest record of the operation when the      *)
(* answer leaves run_journaled (unsettled lines leave room for it).        *)
ReceiptSurvives ==
    [][\A p \in Procs :
          pc[p] = "final" => Newest(lines', req[p].id, {"completed", "failed"})]_vars

-----------------------------------------------------------------------------
(* The abstract ledger this module implements: an id's entry is its newest *)
(* record in the repaired file, its execution is what "begun" records.     *)

EntryOf(ls, id) ==
    IF Of(ls, id) = {}
    THEN NoRequest
    ELSE LET l == CHOOSE m \in Of(ls, id) : IsNewest(ls, m)
         IN  [status |-> l.status, hash |-> l.hash]

ledgerEntry == [id \in Ids |-> EntryOf(LogView, id)]

Ledger == INSTANCE OperationLedger
            WITH NoEntry <- NoRequest,
                 entry <- ledgerEntry,
                 started <- begun

(* The journal with its file, lock, compaction, crashes and torn writes    *)
(* behaves as the atomic ledger: this is the promise "reconnects resolve   *)
(* through this journal alone" of the module documentation.                *)
ImplementsLedger == Ledger!LedgerSpec

=============================================================================
