------------------------ MODULE TargetJournal_proofs ------------------------
(***************************************************************************)
(* Proofs about TargetJournal for every number of processes, ids and       *)
(* requests, every byte budget and every number of crashes; and that it    *)
(* implements OperationLedger.                                             *)
(***************************************************************************)
EXTENDS TargetJournal, TLAPS, WellFoundedInduction

(* Positions order the file: no two records share one, and a torn record   *)
(* stands after every complete one.                                        *)
Positions ==
    /\ \A l \in lines : l.at <= tip
    /\ \A l, m \in lines : l.at = m.at => l = m
    /\ tail # NoTail => /\ tail.line.at <= tip
                        /\ \A l \in lines : l.at < tail.line.at

(* Only the lock holder is inside run_journaled, and it has a request.     *)
LockHolder ==
    \A p \in Procs : pc[p] # "idle" => lock = p /\ req[p] \in Requests

(* A torn tail is gone once the lock holder has read the file.             *)
TailRepaired ==
    \A p \in Procs : pc[p] \notin {"idle", "read"} => tail = NoTail

(* What admission established still holds when the pending line is written.*)
Admitted ==
    \A p \in Procs : pc[p] = "append" =>
        /\ ~Conflicting(req[p])
        /\ ~AlreadySettled(req[p])
        /\ ~Resumed(req[p])

(* Between the pending line and the terminal line the operation of the     *)
(* lock holder is on record as pending, with the hash of the request.      *)
OnRecord ==
    \A p \in Procs : pc[p] \in {"trim", "execute", "settle"} =>
        /\ Newest(lines, req[p].id, {"pending"})
        /\ ~Conflicting(req[p])

(* What an executor answered is an answer of its request.                  *)
Answered ==
    \A p \in Procs : pc[p] = "settle" =>
        /\ req[p].id \in begun
        /\ outcome[p] \in Answers(req[p])

IndInv ==
    /\ TypeOK
    /\ Positions
    /\ LockHolder
    /\ TailRepaired
    /\ OneHashPerId
    /\ SettledIsLast
    /\ ResumePoint
    /\ Admitted
    /\ OnRecord
    /\ Answered

-----------------------------------------------------------------------------
(* What compact_lines may do to the file.                                  *)

(* Compaction only drops lines, keeps every unsettled pending line, and    *)
(* keeps no pending line that a newer line supersedes.                     *)
LEMMA CompactKeeps ==
    ASSUME NEW ls
    PROVE  /\ compact_lines(ls) \subseteq ls
           /\ Unsettled(ls) \subseteq compact_lines(ls)
           /\ \A l \in compact_lines(ls) :
                 l.status = "pending" => IsNewest(ls, l)
  BY DEF compact_lines, Unsettled

(* A newest line that compaction keeps is still newest afterwards.         *)
LEMMA NewestInSubset ==
    ASSUME NEW ls, NEW ks \in SUBSET ls, NEW l \in ks, IsNewest(ls, l)
    PROVE  IsNewest(ks, l)
  BY DEF IsNewest, Of

(* Compaction never loses the resume point of an operation.                *)
LEMMA CompactKeepsPending ==
    ASSUME NEW ls, NEW id, Newest(ls, id, {"pending"})
    PROVE  Newest(compact_lines(ls), id, {"pending"})
  <1>1. PICK l \in Of(ls, id) : l.status \in {"pending"} /\ IsNewest(ls, l)
    BY DEF Newest
  <1>2. l \in ls /\ l.id = id /\ l \in Unsettled(ls)
    BY <1>1 DEF Of, Unsettled
  <1>3. l \in compact_lines(ls) /\ compact_lines(ls) \subseteq ls
    BY <1>2, CompactKeeps
  <1>4. IsNewest(compact_lines(ls), l)
    BY <1>1, <1>3, NewestInSubset
  <1> QED
    BY <1>1, <1>2, <1>3, <1>4 DEF Newest, Of

-----------------------------------------------------------------------------
(* Type correctness and lock ownership of one step.                        *)

LEMMA TornIsLine ==
    ASSUME TypeOK, NEW p \in Procs, req[p] \in Requests,
           NEW status \in Statuses, NEW size \in Nat
    PROVE  /\ Line(p, status, size) \in Lines
           /\ Line(p, status, size).at = tip + 1
           /\ Line(p, status, size).id = req[p].id
           /\ Line(p, status, size).hash = req[p].hash
           /\ Line(p, status, size).status = status
           /\ Line(p, status, size).size = size
  BY DEF Line, Lines, TypeOK, Requests

LEMMA TypeStep ==
    ASSUME TypeOK, LockHolder, [Next]_vars
    PROVE  TypeOK'
  <1>1. CASE UNCHANGED vars
    BY <1>1 DEF TypeOK, vars
  <1>2. ASSUME NEW p \in Procs, Step(p) PROVE TypeOK'
    <2> USE DEF TypeOK, LockHolder
    <2>0. pc[p] # "idle" => req[p] \in Requests
      OBVIOUS
    <2>1. ASSUME NEW r \in Requests, Acquire(p, r) PROVE TypeOK'
      BY <2>1 DEF Acquire, Goto, Labels
    <2>2. CASE ReadAndRepair(p)
      <3>1. LogView \in SUBSET Lines
        BY DEF LogView, Repaired, Tails
      <3> QED BY <2>2, <3>1 DEF ReadAndRepair, Goto, Labels
    <2>3. CASE ReadRefused(p)
      BY <2>3 DEF ReadRefused, Return, Labels, Outcomes
    <2>4. CASE Shrink(p)
      BY <2>4, CompactKeeps DEF Shrink, Goto, Labels
    <2>5. CASE AnswerConflict(p) \/ AnswerReplay(p) \/ AnswerCapacity(p)
      BY <2>5 DEF AnswerConflict, AnswerReplay, AnswerCapacity, Return, Labels, Outcomes
    <2>6. CASE AdmitResumed(p) \/ AdmitFresh(p)
      BY <2>6 DEF AdmitResumed, AdmitFresh, Goto, Labels
    <2>7. CASE AppendPending(p)
      <3>1. Line(p, "pending", PendingSize) \in Lines
        BY <2>0, <2>7, TornIsLine, BoundsAssumption DEF AppendPending, Statuses
      <3> QED BY <2>7, <3>1 DEF AppendPending, Goto, Labels
    <2>8. CASE TrimPending(p)
      BY <2>8, CompactKeeps DEF TrimPending, Compacted, Goto, Labels
    <2>10. ASSUME NEW o \in Outcomes, Execute(p, o) PROVE TypeOK'
      BY <2>0, <2>10 DEF Execute, Goto, Labels, Requests
    <2>11. CASE RemoveNoop(p)
      BY <2>11 DEF RemoveNoop, Return, Labels, Outcomes
    <2>12. CASE KeepPending(p)
      BY <2>12 DEF KeepPending, Return, Labels, Outcomes
    <2>13. ASSUME NEW size \in TerminalSizes, AppendTerminal(p, size) PROVE TypeOK'
      <3>1. outcome[p] \in Statuses /\ size \in Nat
        BY <2>13, BoundsAssumption DEF AppendTerminal, Statuses
      <3>2. Line(p, outcome[p], size) \in Lines
        BY <2>0, <2>13, <3>1, TornIsLine DEF AppendTerminal
      <3> QED BY <2>13, <3>2 DEF AppendTerminal, Goto, Labels
    <2>14. CASE TrimFinal(p)
      BY <2>14, CompactKeeps DEF TrimFinal, Compacted, Return, Labels, Outcomes
    <2>15. CASE Interrupt(p)
      BY <2>15 DEF Interrupt, Return, Labels, Outcomes
    <2>16. ASSUME NEW size \in TerminalSizes, NEW bytes \in 1 .. size + PendingSize,
                  InterruptAppend(p, size, bytes)
           PROVE  TypeOK'
      <3>1. size \in Nat /\ PendingSize \in Nat /\ bytes \in Nat
        BY <2>16, BoundsAssumption
      <3>2. Torn(p, size) \in Lines
        BY <2>0, <2>16, <3>1, TornIsLine DEF InterruptAppend, Torn, Statuses
      <3>3. tail' \in Tails
        BY <2>16, <3>1, <3>2 DEF InterruptAppend, Tails
      <3> QED BY <2>16, <3>3 DEF InterruptAppend, Return, Labels, Outcomes
    <2> QED
      BY <1>2, <2>1, <2>2, <2>3, <2>4, <2>5, <2>6, <2>7, <2>8, <2>10, <2>11,
         <2>12, <2>13, <2>14, <2>15, <2>16 DEF Step, Read, Trim
  <1> QED BY <1>1, <1>2 DEF Next

-----------------------------------------------------------------------------
(* The control state: who may be where, and when a torn tail may exist.    *)

(* While one process is inside run_journaled all others are outside, and a *)
(* step moves no other process.                                            *)
LEMMA OthersIdle ==
    ASSUME TypeOK, LockHolder, NEW p \in Procs, Step(p), NEW q \in Procs, q # p
    PROVE  pc[q] = "idle" /\ pc'[q] = "idle"
  <1>1. pc[q] = "idle"
    <2>1. \/ lock = NoProc
          \/ pc[p] # "idle"
      BY DEF Step, Read, Trim, Acquire, ReadAndRepair, ReadRefused, Shrink, AnswerConflict,
             AnswerReplay, AnswerCapacity, AdmitResumed, AdmitFresh, AppendPending,
             TrimPending, Execute, RemoveNoop, KeepPending,
             AppendTerminal, TrimFinal, Interrupt, InterruptAppend
    <2> QED BY <2>1, ProcsAssumption DEF LockHolder
  <1>2. pc'[q] = pc[q]
    BY DEF TypeOK, Step, Read, Trim, Acquire, ReadAndRepair, ReadRefused, Shrink, AnswerConflict,
           AnswerReplay, AnswerCapacity, AdmitResumed, AdmitFresh, AppendPending,
           TrimPending, Execute, RemoveNoop, KeepPending,
           AppendTerminal, TrimFinal, Interrupt, InterruptAppend, Goto, Return
  <1> QED BY <1>1, <1>2

LEMMA ControlStep ==
    ASSUME TypeOK, LockHolder, TailRepaired, [Next]_vars
    PROVE  LockHolder' /\ TailRepaired'
  <1>1. CASE UNCHANGED vars
    BY <1>1 DEF LockHolder, TailRepaired, vars
  <1>2. ASSUME NEW p \in Procs, Step(p) PROVE LockHolder' /\ TailRepaired'
    <2>1. \A q \in Procs : q # p => pc'[q] = "idle"
      BY <1>2, OthersIdle
    <2>2. pc'[p] # "idle" => lock' = p /\ req'[p] \in Requests
      BY <1>2 DEF LockHolder, TypeOK, Step, Read, Trim, Acquire, ReadAndRepair, ReadRefused,
             Shrink, AnswerConflict, AnswerReplay, AnswerCapacity, AdmitResumed,
             AdmitFresh, AppendPending, TrimPending, Execute, RemoveNoop,
             KeepPending, AppendTerminal, TrimFinal, Interrupt, InterruptAppend,
             Goto, Return
    <2>3. pc'[p] \notin {"idle", "read"} => tail' = NoTail
      BY <1>2 DEF TailRepaired, TypeOK, Step, Read, Trim, Acquire, ReadAndRepair, ReadRefused,
             Shrink, AnswerConflict, AnswerReplay, AnswerCapacity, AdmitResumed,
             AdmitFresh, AppendPending, TrimPending, Execute, RemoveNoop,
             KeepPending, AppendTerminal, TrimFinal, Interrupt, InterruptAppend,
             Goto, Return
    <2> QED BY <2>1, <2>2, <2>3 DEF LockHolder, TailRepaired
  <1> QED BY <1>1, <1>2 DEF Next

-----------------------------------------------------------------------------
(* The journal's content: how each kind of write preserves it.             *)

Content == Positions /\ OneHashPerId /\ SettledIsLast /\ ResumePoint

(* Without a torn tail the reader sees exactly the complete lines.         *)
LEMMA NoTailView ==
    /\ tail = NoTail => LogView = lines
    /\ tail' = NoTail => LogView' = lines'
  BY DEF LogView, Repaired

LEMMA ContentUnchanged ==
    ASSUME Content, UNCHANGED <<lines, tail, tip, begun>>
    PROVE  Content'
  BY DEF Content, Positions, OneHashPerId, SettledIsLast, ResumePoint, LogView, Repaired

(* Repairing the tail changes the file and not what a reader finds in it.  *)
LEMMA ContentRepaired ==
    ASSUME TypeOK, Content, lines' = LogView, tail' = NoTail, UNCHANGED <<tip, begun>>
    PROVE  Content'
  <1>1. LogView' = LogView
    BY NoTailView
  <1>2. Positions'
    BY RequestAssumption DEF Content, Positions, LogView, Repaired, TypeOK, Tails, Lines
  <1>3. OneHashPerId' /\ SettledIsLast' /\ ResumePoint'
    BY <1>1 DEF Content, OneHashPerId, SettledIsLast, ResumePoint
  <1> QED BY <1>2, <1>3 DEF Content

LEMMA ContentCompacted ==
    ASSUME TypeOK, Content, tail = NoTail, tail' = NoTail,
           lines' = compact_lines(lines), UNCHANGED <<tip, begun>>
    PROVE  Content'
  <1>1. LogView = lines /\ LogView' = compact_lines(lines)
    BY NoTailView
  <1>2. lines' \subseteq lines
    BY CompactKeeps
  <1>3. Positions'
    BY <1>2 DEF Content, Positions
  <1>4. OneHashPerId'
    BY <1>1, <1>2 DEF Content, OneHashPerId
  <1>5. SettledIsLast'
    BY <1>1, <1>2, NewestInSubset DEF Content, SettledIsLast, Final
  <1>6. ResumePoint'
    BY <1>1, CompactKeepsPending DEF Content, ResumePoint
  <1> QED BY <1>3, <1>4, <1>5, <1>6 DEF Content

(* The newest line of an operation is unique.                              *)
LEMMA NewestUnique ==
    ASSUME TypeOK, Positions, NEW l \in lines, NEW m \in lines, l.id = m.id,
           IsNewest(lines, l), IsNewest(lines, m)
    PROVE  l = m
  <1>1. l.at <= m.at /\ m.at <= l.at
    BY DEF IsNewest, Of
  <1>2. l.at \in Nat /\ m.at \in Nat
    BY DEF TypeOK, Lines
  <1>3. l.at = m.at
    BY <1>1, <1>2
  <1> QED BY <1>3 DEF Positions

(* Nothing final is on record for an operation that admission let through. *)
LEMMA AdmittedIsOpen ==
    ASSUME TypeOK, Positions, SettledIsLast, tail = NoTail, NEW r \in Requests,
           ~Conflicting(r), ~AlreadySettled(r)
    PROVE  \A m \in Of(lines, r.id) : ~Final(m)
  <1> SUFFICES ASSUME NEW m \in Of(lines, r.id), Final(m) PROVE FALSE
    OBVIOUS
  <1>1. m \in lines /\ m.id = r.id /\ m.hash = r.hash
    BY DEF Of, Conflicting
  <1>2. IsNewest(lines, m)
    BY <1>1, NoTailView DEF SettledIsLast
  <1>3. Newest(lines, r.id, {"completed", "failed"})
    BY <1>2 DEF Newest, Final
  <1>4. RetryFailedPhase(r)
    BY <1>3 DEF AlreadySettled
  <1>5. PICK n \in Of(lines, r.id) : n.status = "failed" /\ IsNewest(lines, n)
    BY <1>4 DEF RetryFailedPhase, Newest
  <1>6. n = m
    BY <1>1, <1>2, <1>5, NewestUnique DEF Of
  <1> QED
    BY <1>1, <1>4, <1>5, <1>6 DEF Final, RetryFailedPhase

LEMMA PendingIsOpen ==
    ASSUME TypeOK, Positions, SettledIsLast, tail = NoTail, NEW id,
           Newest(lines, id, {"pending"})
    PROVE  \A m \in Of(lines, id) : ~Final(m)
  <1> SUFFICES ASSUME NEW m \in Of(lines, id), Final(m) PROVE FALSE
    OBVIOUS
  <1>1. PICK n \in Of(lines, id) : n.status = "pending" /\ IsNewest(lines, n)
    BY DEF Newest
  <1>2. m \in lines /\ IsNewest(lines, m)
    BY NoTailView DEF Of, SettledIsLast
  <1>3. n = m
    BY <1>1, <1>2, NewestUnique DEF Of
  <1> QED BY <1>1, <1>3 DEF Final

(* Appending one record for an operation with nothing final on record, as  *)
(* a complete line or as a torn one, keeps the journal's content in order. *)
LEMMA ContentAppended ==
    ASSUME TypeOK, Content, tail = NoTail,
           NEW l \in Lines, l.at = tip + 1,
           \A m \in Of(lines, l.id) : m.hash = l.hash /\ ~Final(m),
           tip' = tip + 1,
           \/ lines' = lines \cup {l} /\ tail' = NoTail
           \/ lines' = lines /\ tail' # NoTail /\ tail'.line = l,
           begun' \subseteq begun,
           l.id \in begun' /\ l \in LogView' => l.status = "pending"
    PROVE  Content'
  <1>1. LogView = lines
    BY NoTailView
  <1>2. LogView' = lines \/ LogView' = lines \cup {l}
    BY DEF LogView, Repaired
  <1>3. tip \in Nat /\ \A m \in lines : m \in Lines /\ m.at <= tip
    BY DEF TypeOK, Content, Positions
  <1>4. \A m \in lines : m.at \in Nat /\ m.at < l.at
    BY <1>3 DEF Lines
  <1>5. Positions'
    BY <1>3, <1>4 DEF Content, Positions, Lines
  <1>6. OneHashPerId'
    BY <1>1, <1>2 DEF Content, OneHashPerId, Of
  <1>7. SettledIsLast'
    <2> SUFFICES ASSUME NEW m \in LogView', Final(m) PROVE IsNewest(LogView', m)
      BY DEF SettledIsLast, Final
    <2>1. CASE m = l
      BY <1>2, <1>3, <1>4, <2>1 DEF IsNewest, Of, Lines
    <2>2. CASE m # l
      <3>1. m \in lines /\ IsNewest(lines, m) /\ m.id # l.id
        BY <1>1, <1>2, <2>2 DEF Content, SettledIsLast, Of
      <3> QED BY <1>2, <3>1 DEF IsNewest, Of
    <2> QED BY <2>1, <2>2
  <1>8. ResumePoint'
    <2> SUFFICES ASSUME NEW id \in begun' PROVE Newest(LogView', id, {"pending"})
      BY DEF ResumePoint
    <2>1. PICK n \in Of(lines, id) : n.status \in {"pending"} /\ IsNewest(lines, n)
      BY <1>1 DEF Content, ResumePoint, Newest
    <2>2. CASE l \in LogView' /\ l.id = id
      <3>1. IsNewest(LogView', l)
        BY <1>2, <1>3, <1>4 DEF IsNewest, Of, Lines
      <3> QED BY <2>2, <3>1 DEF Newest, Of
    <2>3. CASE ~(l \in LogView' /\ l.id = id)
      <3>1. Of(LogView', id) = Of(lines, id)
        BY <1>2, <2>3 DEF Of
      <3>2. n.id = id
        BY <2>1 DEF Of
      <3> QED BY <2>1, <3>1, <3>2 DEF Newest, IsNewest
    <2> QED BY <2>2, <2>3
  <1> QED BY <1>5, <1>6, <1>7, <1>8 DEF Content

(* Dropping every record of one operation that is no longer begun.         *)
LEMMA ContentRemoved ==
    ASSUME TypeOK, Content, tail = NoTail, tail' = NoTail, NEW id,
           lines' = lines \ Of(lines, id), begun' = begun \ {id}, tip' = tip
    PROVE  Content'
  <1>1. LogView = lines /\ LogView' = lines' /\ lines' \subseteq lines
    BY NoTailView
  <1>2. Positions' /\ OneHashPerId'
    BY <1>1 DEF Content, Positions, OneHashPerId
  <1>3. SettledIsLast'
    BY <1>1, NewestInSubset DEF Content, SettledIsLast, Final
  <1>4. ResumePoint'
    <2> SUFFICES ASSUME NEW k \in begun' PROVE Newest(lines', k, {"pending"})
      BY <1>1 DEF ResumePoint
    <2>1. k \in begun /\ k # id
      OBVIOUS
    <2>2. PICK n \in Of(lines, k) : n.status \in {"pending"} /\ IsNewest(lines, n)
      BY <1>1, <2>1 DEF Content, ResumePoint, Newest
    <2>3. n \in lines' /\ n.id = k
      BY <2>1, <2>2 DEF Of
    <2>4. IsNewest(lines', n)
      BY <1>1, <2>2, <2>3, NewestInSubset
    <2> QED BY <2>2, <2>3, <2>4 DEF Newest, Of
  <1> QED BY <1>2, <1>3, <1>4 DEF Content

-----------------------------------------------------------------------------
(* One step preserves the content, action by action.                       *)

LEMMA ContentStep ==
    ASSUME IndInv, [Next]_vars
    PROVE  Content'
  <1>0. TypeOK /\ Content
    BY DEF IndInv, Content
  <1>1. CASE UNCHANGED vars
    BY <1>0, <1>1, ContentUnchanged DEF vars
  <1>2. ASSUME NEW p \in Procs, Step(p) PROVE Content'
    <2>0. /\ pc[p] # "idle" => req[p] \in Requests
          /\ pc[p] \notin {"idle", "read"} => tail = NoTail
      BY DEF IndInv, LockHolder, TailRepaired
    <2>1. ASSUME NEW r \in Requests, Acquire(p, r) PROVE Content'
      BY <1>0, <2>1, ContentUnchanged DEF Acquire
    <2>2. CASE ReadAndRepair(p)
      BY <1>0, <2>2, ContentRepaired DEF ReadAndRepair
    <2>3. CASE \/ ReadRefused(p) \/ KeepPending(p)
               \/ AnswerConflict(p) \/ AnswerReplay(p) \/ AnswerCapacity(p)
               \/ AdmitResumed(p) \/ AdmitFresh(p) \/ Interrupt(p)
      BY <1>0, <2>3, ContentUnchanged
         DEF ReadRefused, KeepPending, AnswerConflict, AnswerReplay,
             AnswerCapacity, AdmitResumed, AdmitFresh, Interrupt
    <2>4. CASE Shrink(p)
      BY <1>0, <2>0, <2>4, ContentCompacted DEF Shrink
    <2>5. CASE TrimPending(p) \/ TrimFinal(p)
      <3>1. tail = NoTail /\ tail' = NoTail /\ UNCHANGED <<tip, begun>>
        BY <2>0, <2>5 DEF TrimPending, TrimFinal
      <3>2. lines' = lines \/ lines' = compact_lines(lines)
        BY <2>5 DEF TrimPending, TrimFinal, Compacted
      <3> QED BY <1>0, <3>1, <3>2, ContentCompacted, ContentUnchanged
    <2>6. CASE AppendPending(p)
      <3> DEFINE l == Line(p, "pending", PendingSize)
      <3>1. /\ pc[p] = "append" /\ tail = NoTail /\ tail' = NoTail
            /\ lines' = lines \cup {l} /\ tip' = tip + 1 /\ begun' = begun
        BY <2>0, <2>6 DEF AppendPending
      <3>2. l \in Lines /\ l.at = tip + 1 /\ l.id = req[p].id
            /\ l.hash = req[p].hash /\ l.status = "pending"
        BY <1>0, <2>0, <3>1, TornIsLine, BoundsAssumption DEF Statuses
      <3>3. ~Conflicting(req[p]) /\ ~AlreadySettled(req[p])
        BY <3>1 DEF IndInv, Admitted
      <3>4. \A m \in Of(lines, req[p].id) : ~Final(m) /\ m.hash = req[p].hash
        BY <1>0, <2>0, <3>1, <3>3, AdmittedIsOpen DEF Content, Conflicting
      <3> HIDE DEF l
      <3> QED BY <1>0, <3>1, <3>2, <3>4, ContentAppended
    <2>7. ASSUME NEW o \in Outcomes, Execute(p, o) PROVE Content'
      <3>1. /\ pc[p] = "execute" /\ begun' = begun \cup {req[p].id}
            /\ tail = NoTail /\ UNCHANGED <<lines, tail, tip>>
        BY <2>0, <2>7 DEF Execute
      <3>2. Newest(lines, req[p].id, {"pending"})
        BY <3>1 DEF IndInv, OnRecord
      <3>3. LogView = lines /\ LogView' = lines
        BY <3>1, NoTailView
      <3> QED
        BY <1>0, <3>1, <3>2, <3>3
           DEF Content, Positions, OneHashPerId, SettledIsLast, ResumePoint
    <2>8. CASE RemoveNoop(p)
      BY <1>0, <2>0, <2>8, ContentRemoved DEF RemoveNoop
    <2>9. ASSUME NEW size \in TerminalSizes, AppendTerminal(p, size) PROVE Content'
      <3> DEFINE l == Line(p, outcome[p], size)
      <3>1. /\ pc[p] = "settle" /\ tail = NoTail /\ tail' = NoTail
            /\ outcome[p] \in {"completed", "failed"}
            /\ lines' = lines \cup {l} /\ tip' = tip + 1
            /\ begun' = begun \ {req[p].id}
        BY <2>0, <2>9 DEF AppendTerminal
      <3>2. size \in Nat
        BY BoundsAssumption
      <3>3. l \in Lines /\ l.at = tip + 1 /\ l.id = req[p].id /\ l.hash = req[p].hash
        BY <1>0, <2>0, <3>1, <3>2, TornIsLine DEF Statuses
      <3>4. Newest(lines, req[p].id, {"pending"}) /\ ~Conflicting(req[p])
        BY <3>1 DEF IndInv, OnRecord
      <3>5. \A m \in Of(lines, req[p].id) : ~Final(m) /\ m.hash = req[p].hash
        BY <1>0, <3>1, <3>4, PendingIsOpen DEF Content, Conflicting
      <3> HIDE DEF l
      <3> QED BY <1>0, <3>1, <3>3, <3>5, ContentAppended
    <2>10. ASSUME NEW size \in TerminalSizes, NEW bytes \in 1 .. size + PendingSize,
                  InterruptAppend(p, size, bytes)
           PROVE  Content'
      <3> DEFINE l == Torn(p, size)
      <3>1. size \in Nat /\ PendingSize \in Nat /\ bytes \in Nat
        BY BoundsAssumption
      <3>2. /\ tail = NoTail /\ tail' # NoTail /\ tail'.line = l
            /\ lines' = lines /\ tip' = tip + 1 /\ req[p] \in Requests
        <4>1. req[p] \in Requests /\ tail = NoTail
          BY <2>0, <2>10 DEF InterruptAppend
        <4>2. l \in Lines
          BY <1>0, <2>10, <3>1, <4>1, TornIsLine DEF InterruptAppend, Torn, Statuses
        <4>3. tail' = [line |-> l, bytes |-> bytes]
          BY <2>10 DEF InterruptAppend
        <4>4. tail' \in Tails
          BY <3>1, <4>2, <4>3 DEF Tails
        <4> HIDE DEF l
        <4> QED BY <2>10, <4>1, <4>3, <4>4, RequestAssumption DEF InterruptAppend
      <3>3. CASE pc[p] = "append"
        <4>1. l = Line(p, "pending", PendingSize) /\ begun' = begun
          BY <2>10, <3>3 DEF Torn, InterruptAppend
        <4>2. l \in Lines /\ l.at = tip + 1 /\ l.id = req[p].id
              /\ l.hash = req[p].hash /\ l.status = "pending"
          BY <1>0, <3>1, <3>2, <4>1, TornIsLine DEF Statuses
        <4>3. ~Conflicting(req[p]) /\ ~AlreadySettled(req[p])
          BY <3>3 DEF IndInv, Admitted
        <4>4. \A m \in Of(lines, req[p].id) : ~Final(m) /\ m.hash = req[p].hash
          BY <1>0, <3>2, <4>3, AdmittedIsOpen DEF Content, Conflicting
        <4> HIDE DEF l
        <4> QED BY <1>0, <3>2, <4>1, <4>2, <4>4, ContentAppended
      <3>4. CASE pc[p] # "append"
        <4>1. /\ pc[p] = "settle" /\ outcome[p] \in {"completed", "failed"}
              /\ l = Line(p, outcome[p], size)
              /\ begun' = IF Whole(tail') THEN begun \ {req[p].id} ELSE begun
          BY <2>10, <3>4 DEF Torn, InterruptAppend
        <4>2. l \in Lines /\ l.at = tip + 1 /\ l.id = req[p].id /\ l.hash = req[p].hash
          BY <1>0, <3>1, <3>2, <4>1, TornIsLine DEF Statuses
        <4>3. Newest(lines, req[p].id, {"pending"}) /\ ~Conflicting(req[p])
          BY <4>1 DEF IndInv, OnRecord
        <4>4. \A m \in Of(lines, req[p].id) : ~Final(m) /\ m.hash = req[p].hash
          BY <1>0, <3>2, <4>3, PendingIsOpen DEF Content, Conflicting
        <4>5. l \in LogView' => Whole(tail')
          <5>1. tip \in Nat /\ \A m \in lines : m.at <= tip /\ m.at \in Nat
            BY <1>0 DEF Content, Positions, TypeOK, Lines
          <5>2. l \notin lines
            BY <4>2, <5>1
          <5> QED BY <3>2, <5>2 DEF LogView, Repaired
        <4> HIDE DEF l
        <4>6. l.id \in begun' /\ l \in LogView' => l.status = "pending"
          BY <4>1, <4>2, <4>5
        <4>7. begun' \subseteq begun
          BY <4>1
        <4> QED BY <1>0, <3>2, <4>2, <4>4, <4>6, <4>7, ContentAppended
      <3> QED BY <3>3, <3>4
    <2> QED
      BY <1>2, <2>1, <2>2, <2>3, <2>4, <2>5, <2>6, <2>7, <2>8, <2>9, <2>10 DEF Step, Read, Trim
  <1> QED BY <1>1, <1>2 DEF Next

-----------------------------------------------------------------------------
(* One step preserves what the lock holder relies on.                      *)

(* A pending line that is newest stays newest when other lines go away.    *)
LEMMA HolderStep ==
    ASSUME IndInv, [Next]_vars
    PROVE  Admitted' /\ OnRecord' /\ Answered'
  <1>1. CASE UNCHANGED vars
    BY <1>1 DEF IndInv, Admitted, OnRecord, Answered, Conflicting, AlreadySettled,
                RetryFailedPhase, Resumed, Newest, IsNewest, Of, Answers, vars
  <1>2. ASSUME NEW p \in Procs, Step(p) PROVE Admitted' /\ OnRecord' /\ Answered'
    <2>0. TypeOK /\ LockHolder /\ TypeOK'
      BY <1>2, TypeStep DEF IndInv, Next
    <2>1. \A q \in Procs : q # p => pc'[q] = "idle"
      BY <1>2, <2>0, OthersIdle
    <2>2. SUFFICES /\ pc'[p] = "append" => /\ ~Conflicting(req[p])'
                                           /\ ~AlreadySettled(req[p])'
                                           /\ ~Resumed(req[p])'
                   /\ pc'[p] \in {"trim", "execute", "settle"} =>
                         /\ Newest(lines, req[p].id, {"pending"})'
                         /\ ~Conflicting(req[p])'
                   /\ pc'[p] = "settle" => /\ (req[p].id \in begun)'
                                           /\ (outcome[p] \in Answers(req[p]))'
      BY <2>1 DEF Admitted, OnRecord, Answered
    <2>3. CASE AdmitFresh(p)
      <3>1. pc'[p] = "append" /\ lines' = lines /\ req' = req
        BY <2>0, <2>3 DEF AdmitFresh, Goto, TypeOK
      <3> QED
        BY <2>3, <3>1 DEF AdmitFresh, Conflicting, AlreadySettled, RetryFailedPhase,
                          Resumed, Newest, IsNewest, Of
    <2>4. CASE AdmitResumed(p)
      <3>1. pc'[p] = "execute" /\ lines' = lines /\ req' = req
        BY <2>0, <2>4 DEF AdmitResumed, Goto, TypeOK
      <3> QED
        BY <2>4, <3>1 DEF AdmitResumed, Conflicting, Resumed, Newest, IsNewest, Of
    <2>5. CASE AppendPending(p)
      <3> DEFINE l == Line(p, "pending", PendingSize)
      <3>1. /\ pc[p] = "append" /\ pc'[p] = "trim" /\ req' = req
            /\ lines' = lines \cup {l}
        BY <2>0, <2>5 DEF AppendPending, Goto, TypeOK
      <3>2. req[p] \in Requests /\ ~Conflicting(req[p])
        BY <3>1 DEF IndInv, LockHolder, Admitted
      <3>3. l \in Lines /\ l.at = tip + 1 /\ l.id = req[p].id
            /\ l.hash = req[p].hash /\ l.status = "pending"
        BY <2>0, <3>2, TornIsLine, BoundsAssumption DEF Statuses
      <3>4. tip \in Nat /\ \A m \in lines : m.at \in Nat /\ m.at <= tip
        BY <2>0 DEF IndInv, Positions, TypeOK, Lines
      <3> HIDE DEF l
      <3>5. IsNewest(lines', l) /\ l \in Of(lines', req[p].id)
        BY <3>1, <3>3, <3>4 DEF IsNewest, Of
      <3>6. ~Conflicting(req[p])'
        BY <3>1, <3>2, <3>3 DEF Conflicting, Of
      <3> QED BY <3>1, <3>3, <3>5, <3>6 DEF Newest
    <2>6. CASE TrimPending(p)
      <3>1. pc[p] = "trim" /\ pc'[p] = "execute" /\ req' = req
        BY <2>0, <2>6 DEF TrimPending, Goto, TypeOK
      <3>2. Newest(lines, req[p].id, {"pending"}) /\ ~Conflicting(req[p])
        BY <3>1 DEF IndInv, OnRecord
      <3>3. lines' = lines \/ lines' = compact_lines(lines)
        BY <2>6 DEF TrimPending, Compacted
      <3>4. Newest(lines', req[p].id, {"pending"}) /\ lines' \subseteq lines
        BY <3>2, <3>3, CompactKeepsPending, CompactKeeps
      <3> QED BY <3>1, <3>2, <3>4 DEF Conflicting, Of
    <2>7. ASSUME NEW o \in Outcomes, Execute(p, o)
          PROVE  /\ pc'[p] = "settle" /\ (req[p].id \in begun)'
                 /\ (outcome[p] \in Answers(req[p]))'
                 /\ Newest(lines, req[p].id, {"pending"})'
                 /\ ~Conflicting(req[p])'
      <3>1. /\ pc[p] = "execute" /\ pc'[p] = "settle" /\ req' = req /\ lines' = lines
            /\ begun' = begun \cup {req[p].id} /\ outcome'[p] = o
            /\ o \in Answers(req[p])
        BY <2>0, <2>7 DEF Execute, Goto, TypeOK
      <3>2. Newest(lines, req[p].id, {"pending"}) /\ ~Conflicting(req[p])
        BY <3>1 DEF IndInv, OnRecord
      <3> QED BY <3>1, <3>2 DEF Newest, IsNewest, Of, Conflicting, Answers
    <2>8. CASE ~ \/ AdmitFresh(p) \/ AdmitResumed(p) \/ AppendPending(p)
                 \/ TrimPending(p) \/ \E o \in Outcomes : Execute(p, o)
      <3>1. pc'[p] \in {"idle", "read", "shrink", "admit", "final"}
        BY <1>2, <2>0, <2>8
           DEF Step, Read, Trim, TypeOK, Acquire, ReadAndRepair, ReadRefused, Shrink,
               AnswerConflict, AnswerReplay, AnswerCapacity, RemoveNoop,
               KeepPending, AppendTerminal, TrimFinal, Interrupt, InterruptAppend,
               Goto, Return
      <3> QED BY <3>1
    <2> QED BY <2>3, <2>4, <2>5, <2>6, <2>7, <2>8
  <1> QED BY <1>1, <1>2 DEF Next

-----------------------------------------------------------------------------
(* The theorems.                                                           *)

LEMMA InitInv == Init => IndInv
  BY DEF Init, IndInv, TypeOK, Positions, LockHolder, TailRepaired, OneHashPerId,
         SettledIsLast, ResumePoint, Admitted, OnRecord, Answered, LogView, Repaired,
         Labels, Outcomes

LEMMA StepInv == IndInv /\ [Next]_vars => IndInv'
  BY TypeStep, ControlStep, ContentStep, HolderStep DEF IndInv, Content

(* The state of the journal and of every helper process keeps its type: in *)
(* particular a process that appends always has a request to append for.   *)
THEOREM TypeCorrect == Spec => []TypeOK
  <1>1. IndInv => TypeOK
    BY DEF IndInv
  <1> QED BY <1>1, InitInv, StepInv, PTL DEF Spec

(* An operation id is bound to one request hash for as long as any record  *)
(* of it exists, for every number of crashes, retries and compactions.     *)
THEOREM HashNeverOverwritten == Spec => []OneHashPerId
  <1>1. IndInv => OneHashPerId
    BY DEF IndInv
  <1> QED BY <1>1, InitInv, StepInv, PTL DEF Spec

(* No line follows a completed line, or a failure that is not retryable.   *)
THEOREM OneTerminalLine == Spec => []SettledIsLast
  <1>1. IndInv => SettledIsLast
    BY DEF IndInv
  <1> QED BY <1>1, InitInv, StepInv, PTL DEF Spec

(* Whatever started and is not settled is found as pending by the next     *)
(* reader, so a reconnecting controller always resumes it.                 *)
THEOREM ResumePointSurvives == Spec => []ResumePoint
  <1>1. IndInv => ResumePoint
    BY DEF IndInv
  <1> QED BY <1>1, InitInv, StepInv, PTL DEF Spec

-----------------------------------------------------------------------------
(* The action property: replay answers of ordinary requests stay.          *)

LEMMA PlainStep ==
    ASSUME IndInv, [Next]_vars, NEW l \in lines
    PROVE  PlainStaysNewest(l)
  <1> SUFFICES ASSUME l.status = "completed", KindOf[l.hash] # "retryable",
                      IsNewest(lines, l), Of(lines', l.id) # {}
               PROVE  Newest(lines', l.id, {"completed"})
    BY DEF PlainStaysNewest
  <1>0. TypeOK /\ Positions /\ SettledIsLast /\ OneHashPerId /\ Final(l) /\ LockHolder
    BY DEF IndInv, Final
  <1>1. ASSUME l \in lines', \A m \in lines' \ lines : m.id # l.id
        PROVE  Newest(lines', l.id, {"completed"})
    <2>1. IsNewest(lines', l)
      BY <1>1 DEF IsNewest, Of
    <2> QED BY <1>1, <2>1 DEF Newest, Of
  <1>2. CASE UNCHANGED lines
    BY <1>1, <1>2
  <1>3. CASE tail = NoTail /\ lines' = compact_lines(lines)
    <2>1. LogView = lines /\ lines' \subseteq lines
      BY <1>3, NoTailView, CompactKeeps
    <2>2. PICK m \in lines' : m.id = l.id
      BY DEF Of
    <2>3. m \in lines /\ m.hash = l.hash /\ m.status \in Statuses
      BY <1>0, <2>1, <2>2 DEF OneHashPerId, TypeOK, Lines
    <2>4. IsNewest(lines, m)
      <3>1. CASE m.status = "pending"
        BY <1>3, <2>2, <3>1, CompactKeeps
      <3>2. CASE m.status # "pending"
        <4>1. Final(m)
          BY <2>3, <3>2 DEF Final, Statuses
        <4> QED BY <1>0, <2>1, <2>3, <4>1 DEF SettledIsLast
      <3> QED BY <3>1, <3>2
    <2>5. m = l
      BY <1>0, <2>2, <2>3, <2>4, NewestUnique
    <2> QED BY <1>1, <2>1, <2>2, <2>5
  <1>4. ASSUME NEW p \in Procs, Step(p) PROVE Newest(lines', l.id, {"completed"})
    <2>0. /\ pc[p] # "idle" => req[p] \in Requests
          /\ pc[p] \notin {"idle", "read"} => tail = NoTail
      BY DEF IndInv, LockHolder, TailRepaired
    <2>1. CASE ReadAndRepair(p)
      <3>1. lines' = LogView /\ lines \subseteq LogView
        BY <2>1 DEF ReadAndRepair, LogView, Repaired
      <3>2. IsNewest(LogView, l) /\ l \in LogView
        BY <1>0, <3>1 DEF SettledIsLast
      <3> QED BY <3>1, <3>2 DEF Newest, Of
    <2>2. CASE Shrink(p)
      BY <1>3, <2>0, <2>2 DEF Shrink
    <2>3. CASE TrimPending(p) \/ TrimFinal(p)
      <3>1. tail = NoTail
        BY <2>0, <2>3 DEF TrimPending, TrimFinal
      <3> QED BY <1>2, <1>3, <2>3, <3>1 DEF TrimPending, TrimFinal, Compacted
    <2>4. CASE AppendPending(p)
      <3>1. pc[p] = "append" /\ tail = NoTail /\ req[p] \in Requests
            /\ lines' = lines \cup {Line(p, "pending", PendingSize)}
        BY <2>0, <2>4 DEF AppendPending
      <3>2. \A m \in Of(lines, req[p].id) : ~Final(m)
        BY <1>0, <3>1, AdmittedIsOpen DEF IndInv, Admitted
      <3>3. Line(p, "pending", PendingSize).id # l.id
        BY <1>0, <3>2 DEF Line, Of
      <3> QED BY <1>1, <3>1, <3>3
    <2>5. CASE RemoveNoop(p)
      BY <1>1, <2>5 DEF RemoveNoop, Of
    <2>6. ASSUME NEW size \in TerminalSizes, AppendTerminal(p, size)
          PROVE  Newest(lines', l.id, {"completed"})
      <3>1. pc[p] = "settle" /\ tail = NoTail
            /\ lines' = lines \cup {Line(p, outcome[p], size)}
        BY <2>0, <2>6 DEF AppendTerminal
      <3>2. \A m \in Of(lines, req[p].id) : ~Final(m)
        BY <1>0, <3>1, PendingIsOpen DEF IndInv, OnRecord
      <3>3. Line(p, outcome[p], size).id # l.id
        BY <1>0, <3>2 DEF Line, Of
      <3> QED BY <1>1, <3>1, <3>3
    <2>7. \/ UNCHANGED lines \/ ReadAndRepair(p) \/ Shrink(p) \/ TrimPending(p)
          \/ TrimFinal(p) \/ AppendPending(p) \/ RemoveNoop(p)
          \/ \E size \in TerminalSizes : AppendTerminal(p, size)
      BY <1>4 DEF Step, Read, Trim, Acquire, ReadRefused, KeepPending, AnswerConflict,
                  AnswerReplay, AnswerCapacity, AdmitResumed, AdmitFresh, Interrupt,
                  Execute, InterruptAppend
    <2> QED BY <1>2, <2>1, <2>2, <2>3, <2>4, <2>5, <2>6, <2>7
  <1> QED BY <1>2, <1>4 DEF Next, vars

(* Once an ordinary operation is completed, the journal either answers its *)
(* id with that completion or holds no record of the id at all.            *)
THEOREM PlainReplayAuthoritative == Spec => ReplayWindowPlain
  <1>1. IndInv /\ [Next]_vars => [\A l \in lines : PlainStaysNewest(l)]_vars
    BY PlainStep
  <1>2. Spec => []IndInv
    BY InitInv, StepInv, PTL DEF Spec
  <1> QED BY <1>1, <1>2, PTL DEF Spec, ReplayWindowPlain

-----------------------------------------------------------------------------
(***************************************************************************)
(* TargetJournal implements OperationLedger: every step of the journal     *)
(* with its file, lock, compaction, crashes and torn writes is a step of   *)
(* the atomic ledger or leaves the ledger unchanged.                       *)
(***************************************************************************)

(* A nonempty set of natural numbers has a least element.                  *)
LEMMA LeastNatural ==
    ASSUME NEW T \in SUBSET Nat, T # {}
    PROVE  \E x \in T : \A y \in T : x <= y
  <1>1. \E x \in T : \A y \in T : ~(<<y, x>> \in OpToRel(<, Nat))
    BY NatLessThanWellFounded, WFMin, Zenon
  <1>2. \A x, y \in Nat : y < x => <<y, x>> \in OpToRel(<, Nat)
    BY Zenon DEF OpToRel
  <1>3. \E x \in T : \A y \in T : ~(y < x)
    BY <1>1, <1>2, Zenon
  <1> QED BY <1>3

(* An operation with any line has a newest one.                            *)
LEMMA NewestExists ==
    ASSUME NEW ls \in SUBSET Lines, NEW n \in Nat, \A l \in ls : l.at <= n,
           NEW id, Of(ls, id) # {}
    PROVE  \E l \in Of(ls, id) : IsNewest(ls, l)
  <1> DEFINE T == {n - l.at : l \in Of(ls, id)}
  <1>1. \A l \in Of(ls, id) : l.at \in Nat /\ l.at <= n /\ l.id = id
    BY DEF Of, Lines
  <1>2. T \in SUBSET Nat /\ T # {}
    BY <1>1
  <1>3. PICK x \in T : \A y \in T : x <= y
    BY <1>2, LeastNatural
  <1>4. PICK l \in Of(ls, id) : x = n - l.at
    OBVIOUS
  <1>5. \A m \in Of(ls, id) : n - l.at <= n - m.at
    BY <1>3, <1>4
  <1>6. \A m \in Of(ls, id) : m.at <= l.at
    BY <1>1, <1>5
  <1> QED BY <1>1, <1>6 DEF IsNewest

(* A reader's view is a set of lines ordered by position.                  *)
Ordered(ls, n) ==
    /\ ls \in SUBSET Lines
    /\ \A l \in ls : l.at <= n
    /\ \A l, m \in ls : l.at = m.at => l = m

LEMMA ViewOrdered ==
    ASSUME TypeOK, Positions
    PROVE  Ordered(LogView, tip) /\ tip \in Nat
  <1>1. \A l \in lines : l \in Lines /\ l.at \in Nat
    BY DEF TypeOK, Lines
  <1>2. tail # NoTail => tail.line \in Lines /\ tail.line.at \in Nat
    BY DEF TypeOK, Tails, Lines
  <1>3. tip \in Nat /\ LogView \in SUBSET Lines
    BY <1>1, <1>2 DEF TypeOK, LogView, Repaired
  <1>4. \A l \in LogView : l.at <= tip
    BY DEF Positions, LogView, Repaired
  <1>5. \A l, m \in LogView : l.at = m.at => l = m
    BY <1>1, <1>2 DEF Positions, LogView, Repaired
  <1> QED BY <1>3, <1>4, <1>5 DEF Ordered

(* The ledger entry of an operation is read off its newest line.           *)
LEMMA EntryIs ==
    ASSUME NEW ls, NEW n \in Nat, Ordered(ls, n), NEW l \in ls, IsNewest(ls, l)
    PROVE  EntryOf(ls, l.id) = [status |-> l.status, hash |-> l.hash]
  <1> DEFINE c == CHOOSE m \in Of(ls, l.id) : IsNewest(ls, m)
  <1>1. l \in Of(ls, l.id) /\ Of(ls, l.id) # {}
    BY DEF Of
  <1>2. c \in Of(ls, l.id) /\ IsNewest(ls, c)
    BY <1>1
  <1>3. c \in ls /\ c.id = l.id
    BY <1>2 DEF Of
  <1>4. c.at <= l.at /\ l.at <= c.at
    BY <1>1, <1>2, <1>3 DEF IsNewest
  <1>5. c.at \in Nat /\ l.at \in Nat
    BY <1>3 DEF Ordered, Lines
  <1>6. c = l
    BY <1>3, <1>4, <1>5 DEF Ordered
  <1> QED BY <1>1, <1>6 DEF EntryOf

LEMMA NoEntryIs ==
    ASSUME NEW ls, NEW id, Of(ls, id) = {}
    PROVE  EntryOf(ls, id) = NoRequest
  BY DEF EntryOf

(* Every operation is either unknown or shown by a newest line.            *)
LEMMA EntryCases ==
    ASSUME NEW ls, NEW n \in Nat, Ordered(ls, n), NEW id
    PROVE  \/ Of(ls, id) = {} /\ EntryOf(ls, id) = NoRequest
           \/ \E l \in ls : /\ l.id = id /\ IsNewest(ls, l)
                            /\ EntryOf(ls, id) = [status |-> l.status, hash |-> l.hash]
  <1>1. CASE Of(ls, id) = {}
    BY <1>1, NoEntryIs
  <1>2. CASE Of(ls, id) # {}
    <2>1. PICK l \in Of(ls, id) : IsNewest(ls, l)
      BY <1>2, NewestExists DEF Ordered
    <2>2. l \in ls /\ l.id = id
      BY <2>1 DEF Of
    <2> QED BY <2>1, <2>2, EntryIs
  <1> QED BY <1>1, <1>2

-----------------------------------------------------------------------------
(* What each kind of write does to the ledger.                             *)

(* An operation on record as pending is pending in the ledger.             *)
LEMMA PendingEntry ==
    ASSUME TypeOK, Positions, tail = NoTail, NEW id \in Ids,
           Newest(lines, id, {"pending"})
    PROVE  \E m \in lines :
              m.id = id /\ ledgerEntry[id] = [status |-> "pending", hash |-> m.hash]
  <1>1. PICK m \in Of(lines, id) : m.status = "pending" /\ IsNewest(lines, m)
    BY DEF Newest
  <1>2. m \in lines /\ m.id = id
    BY <1>1 DEF Of
  <1>3. LogView = lines /\ Ordered(lines, tip) /\ tip \in Nat
    BY NoTailView, ViewOrdered
  <1>4. EntryOf(lines, m.id) = [status |-> m.status, hash |-> m.hash]
    BY <1>1, <1>2, <1>3, EntryIs
  <1>5. ledgerEntry[id] = EntryOf(lines, id)
    BY <1>3 DEF ledgerEntry
  <1> QED BY <1>1, <1>2, <1>4, <1>5

LEMMA ViewUnchanged ==
    ASSUME LogView' = LogView, begun' = begun
    PROVE  UNCHANGED Ledger!ledgerVars
  BY DEF Ledger!ledgerVars, ledgerEntry, EntryOf, Of, IsNewest

(* A record appended for one operation changes that entry alone.           *)
LEMMA EntryAppended ==
    ASSUME NEW ls, NEW n \in Nat, Ordered(ls, n), NEW l \in Lines, l.at = n + 1
    PROVE  /\ EntryOf(ls \cup {l}, l.id) = [status |-> l.status, hash |-> l.hash]
           /\ \A id : id # l.id => EntryOf(ls \cup {l}, id) = EntryOf(ls, id)
  <1>1. \A m \in ls : m.at \in Nat /\ m.at <= n
    BY DEF Ordered, Lines
  <1>2. Ordered(ls \cup {l}, n + 1) /\ n + 1 \in Nat
    BY <1>1 DEF Ordered, Lines
  <1>3. IsNewest(ls \cup {l}, l)
    BY <1>1 DEF IsNewest, Of, Lines
  <1>4. EntryOf(ls \cup {l}, l.id) = [status |-> l.status, hash |-> l.hash]
    BY <1>2, <1>3, EntryIs
  <1>5. ASSUME NEW id, id # l.id
        PROVE  EntryOf(ls \cup {l}, id) = EntryOf(ls, id)
    <2>1. Of(ls \cup {l}, id) = Of(ls, id)
      BY <1>5 DEF Of
    <2>2. CASE Of(ls, id) = {}
      BY <2>1, <2>2, NoEntryIs
    <2>3. CASE Of(ls, id) # {}
      <3>1. PICK m \in ls : /\ m.id = id /\ IsNewest(ls, m)
                            /\ EntryOf(ls, id) = [status |-> m.status, hash |-> m.hash]
        BY <2>3, EntryCases
      <3>2. IsNewest(ls \cup {l}, m)
        BY <2>1, <3>1 DEF IsNewest
      <3>3. EntryOf(ls \cup {l}, m.id) = [status |-> m.status, hash |-> m.hash]
        BY <1>2, <3>2, EntryIs
      <3> QED BY <3>1, <3>3
    <2> QED BY <2>2, <2>3
  <1> QED BY <1>4, <1>5

(* The view after an append: with a complete line or a whole torn record.  *)
LEMMA LedgerAppended ==
    ASSUME TypeOK, Positions, NEW l \in Lines, l.at = tip + 1,
           LogView' = LogView \cup {l}
    PROVE  ledgerEntry' = [ledgerEntry EXCEPT ![l.id] =
                              [status |-> l.status, hash |-> l.hash]]
  <1>1. /\ EntryOf(LogView', l.id) = [status |-> l.status, hash |-> l.hash]
        /\ \A id : id # l.id => EntryOf(LogView', id) = EntryOf(LogView, id)
    <2>1. Ordered(LogView, tip) /\ tip \in Nat
      BY ViewOrdered
    <2>2. /\ EntryOf(LogView \cup {l}, l.id) = [status |-> l.status, hash |-> l.hash]
          /\ \A id : id # l.id => EntryOf(LogView \cup {l}, id) = EntryOf(LogView, id)
      BY <2>1, EntryAppended
    <2> QED BY <2>2, Zenon
  <1>2. \A id \in Ids : ledgerEntry'[id] = EntryOf(LogView', id)
    BY DEF ledgerEntry, EntryOf, Of, IsNewest
  <1>3. ledgerEntry' = [id \in Ids |-> ledgerEntry'[id]]
    BY DEF ledgerEntry
  <1> QED BY <1>1, <1>2, <1>3 DEF ledgerEntry

(* Accepting, or taking up again, what admission let through.              *)
LEMMA RefinePending ==
    ASSUME IndInv, NEW p \in Procs, pc[p] = "append",
           NEW l \in Lines, l.at = tip + 1, l.id = req[p].id, l.hash = req[p].hash,
           l.status = "pending", LogView' = LogView \cup {l}, begun' = begun
    PROVE  Ledger!LedgerNext
  <1> DEFINE id == req[p].id
  <1>0. /\ TypeOK /\ Positions /\ tail = NoTail /\ req[p] \in Requests
        /\ ~Conflicting(req[p]) /\ ~AlreadySettled(req[p]) /\ ~Resumed(req[p])
    BY DEF IndInv, LockHolder, TailRepaired, Admitted
  <1>1. id \in Ids /\ l.hash \in Hashes /\ LogView = lines
    BY <1>0, NoTailView DEF Requests, Lines
  <1>2. ledgerEntry' = [ledgerEntry EXCEPT ![id] = [status |-> "pending", hash |-> l.hash]]
    BY <1>0, LedgerAppended
  <1>3. CASE Of(lines, id) = {}
    <2>1. ledgerEntry[id] = NoRequest
      BY <1>1, <1>3, NoEntryIs DEF ledgerEntry
    <2>2. Ledger!Accept(id, l.hash)
      BY <1>2, <2>1 DEF Ledger!Accept
    <2> QED BY <1>1, <2>2 DEF Ledger!LedgerNext
  <1>4. CASE Of(lines, id) # {}
    <2>1. PICK m \in lines : /\ m.id = id /\ IsNewest(lines, m)
                             /\ EntryOf(lines, id) = [status |-> m.status, hash |-> m.hash]
      BY <1>0, <1>1, <1>4, EntryCases, ViewOrdered
    <2>2. m.status \in Statuses /\ m.hash = l.hash /\ m \in Of(lines, id)
      BY <1>0, <2>1 DEF TypeOK, Lines, Conflicting, Of
    <2>3. m.status # "pending"
      BY <1>0, <2>1, <2>2 DEF Resumed, Newest
    <2>4. Newest(lines, id, {"completed", "failed"})
      BY <2>1, <2>2, <2>3 DEF Newest, Statuses
    <2>5. RetryFailedPhase(req[p])
      BY <1>0, <2>4 DEF AlreadySettled
    <2>6. PICK k \in Of(lines, id) : k.status = "failed" /\ IsNewest(lines, k)
      BY <2>5 DEF RetryFailedPhase, Newest
    <2>7. k = m
      BY <1>0, <2>1, <2>6, NewestUnique DEF Of
    <2>8. /\ ledgerEntry[id] = [status |-> "failed", hash |-> l.hash]
          /\ KindOf[l.hash] = "retryable"
      BY <1>1, <2>1, <2>2, <2>5, <2>6, <2>7 DEF ledgerEntry, RetryFailedPhase
    <2>9. ledgerEntry[id] # NoRequest
      BY <1>1, <2>8, RequestAssumption DEF Statuses
    <2>10. Ledger!Now(id, "pending") = [status |-> "pending", hash |-> l.hash]
      BY <2>8 DEF Ledger!Now
    <2>11. Ledger!Has(id, "failed") /\ ledgerEntry[id].hash = l.hash
      BY <2>8, <2>9 DEF Ledger!Has
    <2>12. Ledger!Reopen(id)
      BY <1>2, <2>8, <2>10, <2>11 DEF Ledger!Reopen
    <2> QED BY <1>1, <2>12 DEF Ledger!LedgerNext
  <1> QED BY <1>3, <1>4

(* Settling what is on record as pending and has started.                  *)
LEMMA RefineTerminal ==
    ASSUME IndInv, NEW p \in Procs, pc[p] = "settle",
           outcome[p] \in {"completed", "failed"},
           NEW l \in Lines, l.at = tip + 1, l.id = req[p].id, l.hash = req[p].hash,
           l.status = outcome[p], LogView' = LogView \cup {l},
           begun' = begun \ {req[p].id}
    PROVE  Ledger!LedgerNext
  <1> DEFINE id == req[p].id
  <1>0. /\ TypeOK /\ Positions /\ tail = NoTail /\ req[p] \in Requests
        /\ Newest(lines, id, {"pending"}) /\ ~Conflicting(req[p]) /\ id \in begun
    BY DEF IndInv, LockHolder, TailRepaired, OnRecord, Answered
  <1>1. id \in Ids /\ LogView = lines
    BY <1>0, NoTailView DEF Requests
  <1>2. ledgerEntry' = [ledgerEntry EXCEPT ![id] = [status |-> outcome[p], hash |-> l.hash]]
    BY <1>0, LedgerAppended
  <1>3. PICK m \in lines : /\ m.id = id
                           /\ ledgerEntry[id] = [status |-> "pending", hash |-> m.hash]
    BY <1>0, <1>1, PendingEntry
  <1>4. m.hash = l.hash /\ l.hash \in Hashes
    BY <1>0, <1>3 DEF Conflicting, Of, Lines
  <1>5. ledgerEntry[id] # NoRequest
    BY <1>3, <1>4, RequestAssumption DEF Statuses
  <1>6. /\ Ledger!Now(id, outcome[p]) = [status |-> outcome[p], hash |-> l.hash]
        /\ Ledger!Has(id, "pending")
    BY <1>3, <1>4, <1>5 DEF Ledger!Now, Ledger!Has
  <1>7. Ledger!Settle(id, outcome[p])
    BY <1>0, <1>2, <1>6 DEF Ledger!Settle
  <1> QED BY <1>1, <1>7 DEF Ledger!LedgerNext

(* A no-op update takes its entry, and no other, out of the ledger.        *)
LEMMA RefineRemoved ==
    ASSUME IndInv, NEW p \in Procs, RemoveNoop(p)
    PROVE  Ledger!LedgerNext
  <1> DEFINE id == req[p].id
  <1>0. /\ TypeOK /\ Positions /\ tail = NoTail /\ req[p] \in Requests
        /\ Newest(lines, id, {"pending"}) /\ ~Conflicting(req[p]) /\ id \in begun
        /\ outcome[p] = "noop" /\ outcome[p] \in Answers(req[p])
    BY DEF IndInv, LockHolder, TailRepaired, OnRecord, Answered, RemoveNoop
  <1>1. /\ id \in Ids /\ LogView = lines /\ LogView' = lines \ Of(lines, id)
        /\ begun' = begun \ {id}
    BY <1>0, NoTailView DEF Requests, RemoveNoop
  <1>2. KindOf[req[p].hash] = "update"
    BY <1>0 DEF Answers
  <1>3. PICK m \in lines : /\ m.id = id
                           /\ ledgerEntry[id] = [status |-> "pending", hash |-> m.hash]
    BY <1>0, <1>1, PendingEntry
  <1>4. m.hash = req[p].hash /\ req[p].hash \in Hashes
    BY <1>0, <1>1, <1>3 DEF Conflicting, Of, Requests
  <1>5. Ledger!Has(id, "pending") /\ ledgerEntry[id].hash = req[p].hash
    BY <1>3, <1>4, RequestAssumption DEF Ledger!Has, Statuses
  <1>6. Ordered(lines, tip) /\ tip \in Nat /\ Ordered(lines \ Of(lines, id), tip)
    BY <1>0, <1>1, ViewOrdered DEF Ordered
  <1>7. EntryOf(lines \ Of(lines, id), id) = NoRequest
    BY NoEntryIs DEF Of
  <1>8. ASSUME NEW k \in Ids, k # id
        PROVE  EntryOf(lines \ Of(lines, id), k) = EntryOf(lines, k)
    <2> HIDE DEF id
    <2>1. Of(lines \ Of(lines, id), k) = Of(lines, k)
      BY <1>8 DEF Of
    <2>2. CASE Of(lines, k) = {}
      BY <2>1, <2>2, NoEntryIs
    <2>3. CASE Of(lines, k) # {}
      <3>1. PICK n \in lines : /\ n.id = k /\ IsNewest(lines, n)
                               /\ EntryOf(lines, k) = [status |-> n.status, hash |-> n.hash]
        BY <1>6, <2>3, EntryCases
      <3>2. n \in lines \ Of(lines, id) /\ IsNewest(lines \ Of(lines, id), n)
        BY <1>8, <2>1, <3>1 DEF IsNewest, Of
      <3>3. EntryOf(lines \ Of(lines, id), n.id) = [status |-> n.status, hash |-> n.hash]
        BY <1>6, <3>2, EntryIs
      <3> QED BY <3>1, <3>3
    <2> QED BY <2>2, <2>3
  <1>9. \A k \in Ids : ledgerEntry'[k] = IF k = id THEN NoRequest ELSE ledgerEntry[k]
    <2>1. \A k \in Ids : ledgerEntry'[k] = EntryOf(LogView', k)
      BY DEF ledgerEntry, EntryOf, Of, IsNewest
    <2>2. \A k \in Ids : ledgerEntry'[k] = EntryOf(lines \ Of(lines, id), k)
      BY <1>1, <2>1
    <2> QED BY <1>1, <1>7, <1>8, <2>2 DEF ledgerEntry
  <1>10. ledgerEntry' = [ledgerEntry EXCEPT ![id] = NoRequest]
    <2>1. ledgerEntry' = [k \in Ids |-> ledgerEntry'[k]]
          /\ ledgerEntry = [k \in Ids |-> ledgerEntry[k]]
      BY DEF ledgerEntry
    <2> QED BY <1>9, <2>1
  <1>11. Ledger!Discard(id)
    BY <1>0, <1>1, <1>2, <1>5, <1>10 DEF Ledger!Discard
  <1> QED BY <1>1, <1>11 DEF Ledger!LedgerNext

(* Compaction forgets settled entries, or falls back from a completion to  *)
(* an older failure of a retryable request; nothing else changes.          *)
LEMMA CompactEntry ==
    ASSUME IndInv, tail = NoTail, NEW id \in Ids
    PROVE  \/ EntryOf(compact_lines(lines), id) = ledgerEntry[id]
           \/ /\ EntryOf(compact_lines(lines), id) = NoRequest
              /\ Ledger!Has(id, "completed") \/ Ledger!Has(id, "failed")
           \/ /\ EntryOf(compact_lines(lines), id) = Ledger!Now(id, "failed")
              /\ Ledger!Has(id, "completed")
              /\ KindOf[ledgerEntry[id].hash] = "retryable"
  <1> DEFINE C == compact_lines(lines)
  <1>0. TypeOK /\ Positions /\ SettledIsLast /\ OneHashPerId
    BY DEF IndInv
  <1>1. LogView = lines /\ Ordered(lines, tip) /\ tip \in Nat
    BY <1>0, NoTailView, ViewOrdered
  <1>2. /\ C \subseteq lines /\ Unsettled(lines) \subseteq C
        /\ \A l \in C : l.status = "pending" => IsNewest(lines, l)
    BY CompactKeeps
  <1>3. Ordered(C, tip)
    BY <1>1, <1>2 DEF Ordered
  <1> HIDE DEF C
  <1>4. CASE Of(lines, id) = {}
    <2>1. Of(C, id) = {}
      BY <1>2, <1>4 DEF Of
    <2> QED BY <1>1, <1>4, <2>1, NoEntryIs DEF ledgerEntry, C
  <1>5. CASE Of(lines, id) # {}
    <2>1. PICK n \in lines : /\ n.id = id /\ IsNewest(lines, n)
                             /\ EntryOf(lines, id) = [status |-> n.status, hash |-> n.hash]
      BY <1>1, <1>5, EntryCases
    <2>2. n \in Lines /\ n.status \in Statuses /\ n.hash \in Hashes
      BY <1>0, <2>1 DEF TypeOK, Lines
    <2>3. /\ ledgerEntry[id] = [status |-> n.status, hash |-> n.hash]
          /\ ledgerEntry[id] # NoRequest
          /\ Ledger!Has(id, n.status) /\ ledgerEntry[id].hash = n.hash
      BY <1>1, <2>1, <2>2, RequestAssumption DEF ledgerEntry, Ledger!Has
    <2>4. CASE n \in C
      <3>1. IsNewest(C, n)
        BY <1>2, <2>1, <2>4, NewestInSubset
      <3>2. EntryOf(C, n.id) = [status |-> n.status, hash |-> n.hash]
        BY <1>1, <1>3, <2>4, <3>1, EntryIs
      <3> QED BY <2>1, <2>3, <3>2 DEF C
    <2>5. CASE n \notin C
      <3>1. n.status \in {"completed", "failed"}
        BY <1>2, <2>1, <2>2, <2>5 DEF Unsettled, Statuses
      <3>2. CASE Of(C, id) = {}
        <4>1. EntryOf(C, id) = NoRequest
          BY <3>2, NoEntryIs
        <4> QED BY <2>3, <3>1, <4>1 DEF C
      <3>3. CASE Of(C, id) # {}
        <4>1. PICK m \in C : /\ m.id = id /\ IsNewest(C, m)
                             /\ EntryOf(C, id) = [status |-> m.status, hash |-> m.hash]
          BY <1>1, <1>3, <3>3, EntryCases
        <4>2. m \in lines /\ m # n /\ m.hash = n.hash /\ m.status \in Statuses
          BY <1>0, <1>1, <1>2, <2>1, <2>5, <4>1 DEF OneHashPerId, TypeOK, Lines
        <4>3. ~IsNewest(lines, m)
          BY <1>0, <2>1, <4>1, <4>2, NewestUnique
        <4>4. m.status = "failed" /\ KindOf[m.hash] = "retryable"
          BY <1>0, <1>1, <1>2, <4>1, <4>2, <4>3 DEF SettledIsLast, Final, Statuses
        <4>5. EntryOf(C, id) = [status |-> "failed", hash |-> n.hash]
          BY <4>1, <4>2, <4>4
        <4>6. EntryOf(C, id) = Ledger!Now(id, "failed")
          BY <2>3, <4>5 DEF Ledger!Now
        <4>7. KindOf[ledgerEntry[id].hash] = "retryable"
          BY <2>3, <4>2, <4>4
        <4>8. CASE n.status = "failed"
          BY <2>3, <4>5, <4>8 DEF C
        <4>9. CASE n.status = "completed"
          BY <2>3, <4>6, <4>7, <4>9 DEF C
        <4> QED BY <3>1, <4>8, <4>9
      <3> QED BY <3>2, <3>3
    <2> QED BY <2>4, <2>5
  <1> QED BY <1>4, <1>5

LEMMA RefineCompacted ==
    ASSUME IndInv, tail = NoTail, tail' = NoTail, lines' = compact_lines(lines),
           begun' = begun
    PROVE  Ledger!LedgerNext
  <1> DEFINE e(id) == EntryOf(compact_lines(lines), id)
             gone == {id \in Ids : /\ e(id) # ledgerEntry[id] /\ e(id) = NoRequest
                                   /\ Ledger!Has(id, "completed") \/ Ledger!Has(id, "failed")}
             back == {id \in Ids : /\ e(id) # ledgerEntry[id]
                                   /\ e(id) = Ledger!Now(id, "failed")
                                   /\ Ledger!Has(id, "completed")
                                   /\ KindOf[ledgerEntry[id].hash] = "retryable"} \ gone
  <1>1. LogView' = compact_lines(lines)
    BY NoTailView
  <1>2. \A id \in Ids : ledgerEntry'[id] = EntryOf(LogView', id)
    BY DEF ledgerEntry, EntryOf, Of, IsNewest
  <1>3. \A id \in Ids : ledgerEntry'[id] = e(id)
    BY <1>1, <1>2
  <1>4. \A id \in Ids : e(id) = IF id \in gone THEN NoRequest
                                ELSE IF id \in back THEN Ledger!Now(id, "failed")
                                     ELSE ledgerEntry[id]
    BY CompactEntry
  <1>5. ledgerEntry' = [id \in Ids |-> ledgerEntry'[id]]
    BY DEF ledgerEntry
  <1>6. /\ gone \in SUBSET Ids /\ back \in SUBSET (Ids \ gone)
        /\ \A id \in gone : Ledger!Has(id, "completed") \/ Ledger!Has(id, "failed")
        /\ \A id \in back : /\ Ledger!Has(id, "completed")
                            /\ KindOf[ledgerEntry[id].hash] = "retryable"
    OBVIOUS
  <1>7. ledgerEntry' = [id \in Ids |-> IF id \in gone THEN NoRequest
                                       ELSE IF id \in back THEN Ledger!Now(id, "failed")
                                            ELSE ledgerEntry[id]]
    <2> HIDE DEF gone, back, e
    <2> QED BY <1>3, <1>4, <1>5
  <1>8. Ledger!Forget
    <2> HIDE DEF gone, back, e
    <2> QED BY <1>6, <1>7 DEF Ledger!Forget
  <1> QED BY <1>8 DEF Ledger!LedgerNext

(* Execution starts behind a pending entry.                                *)
LEMMA RefineExecute ==
    ASSUME IndInv, NEW p \in Procs, NEW o \in Outcomes, Execute(p, o)
    PROVE  Ledger!LedgerNext
  <1> DEFINE id == req[p].id
  <1>0. /\ TypeOK /\ Positions /\ tail = NoTail /\ req[p] \in Requests
        /\ Newest(lines, id, {"pending"})
        /\ begun' = begun \cup {id} /\ UNCHANGED <<lines, tail>>
    BY DEF IndInv, LockHolder, TailRepaired, OnRecord, Execute
  <1>1. id \in Ids /\ LogView = lines /\ LogView' = LogView
    BY <1>0, NoTailView DEF Requests
  <1>2. PICK m \in lines : /\ m.id = id
                           /\ ledgerEntry[id] = [status |-> "pending", hash |-> m.hash]
    BY <1>0, <1>1, PendingEntry
  <1>3. m.hash \in Hashes
    BY <1>0, <1>1, <1>2 DEF TypeOK, Lines
  <1>4. Ledger!Has(id, "pending")
    BY <1>2, <1>3, RequestAssumption DEF Ledger!Has, Statuses
  <1>5. ledgerEntry' = ledgerEntry
    BY <1>1 DEF ledgerEntry, EntryOf, Of, IsNewest
  <1>6. Ledger!Start(id)
    BY <1>0, <1>4, <1>5 DEF Ledger!Start
  <1> QED BY <1>1, <1>6 DEF Ledger!LedgerNext

-----------------------------------------------------------------------------
(* Every step of the journal is a step of the ledger or a stutter.         *)

LEMMA RefineStep ==
    ASSUME IndInv, [Next]_vars
    PROVE  [Ledger!LedgerNext]_(Ledger!ledgerVars)
  <1>1. CASE UNCHANGED vars
    <2>1. LogView' = LogView /\ begun' = begun
      BY <1>1 DEF vars, LogView, Repaired
    <2> QED BY <2>1, ViewUnchanged
  <1>2. ASSUME NEW p \in Procs, Step(p)
        PROVE  [Ledger!LedgerNext]_(Ledger!ledgerVars)
    <2>0. /\ TypeOK
          /\ pc[p] # "idle" => req[p] \in Requests
          /\ pc[p] \notin {"idle", "read"} => tail = NoTail
      BY DEF IndInv, LockHolder, TailRepaired
    <2>1. CASE UNCHANGED <<lines, tail, begun>>
      <3>1. LogView' = LogView /\ begun' = begun
        BY <2>1 DEF LogView, Repaired
      <3> QED BY <3>1, ViewUnchanged
    <2>2. CASE ReadAndRepair(p)
      <3>1. LogView' = LogView /\ begun' = begun
        BY <2>2, NoTailView DEF ReadAndRepair
      <3> QED BY <3>1, ViewUnchanged
    <2>3. CASE Shrink(p)
      BY <2>0, <2>3, RefineCompacted DEF Shrink
    <2>4. CASE TrimPending(p) \/ TrimFinal(p)
      <3>1. tail = NoTail /\ tail' = NoTail /\ begun' = begun
        BY <2>0, <2>4 DEF TrimPending, TrimFinal
      <3>2. lines' = lines \/ lines' = compact_lines(lines)
        BY <2>4 DEF TrimPending, TrimFinal, Compacted
      <3> QED BY <2>1, <3>1, <3>2, RefineCompacted
    <2>5. CASE AppendPending(p)
      <3> DEFINE l == Line(p, "pending", PendingSize)
      <3>1. /\ pc[p] = "append" /\ tail = NoTail /\ tail' = NoTail
            /\ lines' = lines \cup {l} /\ begun' = begun
        BY <2>0, <2>5 DEF AppendPending
      <3>2. l \in Lines /\ l.at = tip + 1 /\ l.id = req[p].id
            /\ l.hash = req[p].hash /\ l.status = "pending"
        BY <2>0, <3>1, TornIsLine, BoundsAssumption DEF Statuses
      <3>3. LogView' = LogView \cup {l}
        BY <3>1, NoTailView
      <3> HIDE DEF l
      <3> QED BY <3>1, <3>2, <3>3, RefinePending
    <2>6. ASSUME NEW o \in Outcomes, Execute(p, o) PROVE Ledger!LedgerNext
      BY <2>6, RefineExecute
    <2>7. CASE RemoveNoop(p)
      BY <2>7, RefineRemoved
    <2>8. ASSUME NEW size \in TerminalSizes, AppendTerminal(p, size)
          PROVE  Ledger!LedgerNext
      <3> DEFINE l == Line(p, outcome[p], size)
      <3>1. /\ pc[p] = "settle" /\ tail = NoTail /\ tail' = NoTail
            /\ outcome[p] \in {"completed", "failed"} /\ size \in Nat
            /\ lines' = lines \cup {l} /\ begun' = begun \ {req[p].id}
        BY <2>0, <2>8, BoundsAssumption DEF AppendTerminal
      <3>2. l \in Lines /\ l.at = tip + 1 /\ l.id = req[p].id
            /\ l.hash = req[p].hash /\ l.status = outcome[p]
        BY <2>0, <3>1, TornIsLine DEF Statuses
      <3>3. LogView' = LogView \cup {l}
        BY <3>1, NoTailView
      <3> HIDE DEF l
      <3> QED BY <3>1, <3>2, <3>3, RefineTerminal
    <2>9. ASSUME NEW size \in TerminalSizes, NEW bytes \in 1 .. size + PendingSize,
                 InterruptAppend(p, size, bytes)
          PROVE  [Ledger!LedgerNext]_(Ledger!ledgerVars)
      <3> DEFINE l == Torn(p, size)
      <3>1. size \in Nat /\ PendingSize \in Nat /\ bytes \in Nat
        BY BoundsAssumption
      <3>2. req[p] \in Requests /\ tail = NoTail /\ lines' = lines
            /\ tail' = [line |-> l, bytes |-> bytes]
        BY <2>0, <2>9 DEF InterruptAppend
      <3>3. l \in Lines
        BY <2>0, <2>9, <3>1, <3>2, TornIsLine DEF InterruptAppend, Torn, Statuses
      <3>4. tail' \in Tails /\ tail'.line = l
        BY <3>1, <3>2, <3>3 DEF Tails
      <3>5. tail' # NoTail
        BY <3>4, RequestAssumption
      <3>6. LogView' = IF Whole(tail') THEN LogView \cup {l} ELSE LogView
        BY <3>2, <3>4, <3>5 DEF LogView, Repaired
      <3>7. CASE ~Whole(tail')
        <4>1. LogView' = LogView /\ begun' = begun
          BY <2>9, <3>6, <3>7 DEF InterruptAppend
        <4> QED BY <4>1, ViewUnchanged
      <3>8. CASE Whole(tail') /\ pc[p] = "append"
        <4>1. l = Line(p, "pending", PendingSize) /\ begun' = begun
          BY <2>9, <3>8 DEF InterruptAppend, Torn
        <4>2. l.at = tip + 1 /\ l.id = req[p].id /\ l.hash = req[p].hash
              /\ l.status = "pending"
          BY <2>0, <3>1, <3>2, <4>1, TornIsLine DEF Statuses
        <4> HIDE DEF l
        <4> QED BY <3>3, <3>6, <3>8, <4>1, <4>2, RefinePending
      <3>9. CASE Whole(tail') /\ pc[p] # "append"
        <4>1. /\ pc[p] = "settle" /\ outcome[p] \in {"completed", "failed"}
              /\ l = Line(p, outcome[p], size) /\ begun' = begun \ {req[p].id}
          BY <2>9, <3>9 DEF InterruptAppend, Torn
        <4>2. l.at = tip + 1 /\ l.id = req[p].id /\ l.hash = req[p].hash
              /\ l.status = outcome[p]
          BY <2>0, <3>1, <3>2, <4>1, TornIsLine DEF Statuses
        <4> HIDE DEF l
        <4> QED BY <3>3, <3>6, <3>9, <4>1, <4>2, RefineTerminal
      <3> QED BY <3>7, <3>8, <3>9
    <2>10. \/ UNCHANGED <<lines, tail, begun>>
           \/ ReadAndRepair(p) \/ Shrink(p) \/ TrimPending(p) \/ TrimFinal(p)
           \/ AppendPending(p) \/ (\E o \in Outcomes : Execute(p, o)) \/ RemoveNoop(p)
           \/ \E size \in TerminalSizes : AppendTerminal(p, size)
           \/ \E size \in TerminalSizes : \E bytes \in 1 .. size + PendingSize :
                  InterruptAppend(p, size, bytes)
      BY <1>2 DEF Step, Read, Trim, Acquire, ReadRefused, KeepPending, AnswerConflict,
                  AnswerReplay, AnswerCapacity, AdmitResumed, AdmitFresh, Interrupt
    <2> QED BY <2>1, <2>2, <2>3, <2>4, <2>5, <2>6, <2>7, <2>8, <2>9, <2>10
  <1> QED BY <1>1, <1>2 DEF Next

LEMMA RefineInit == Init => Ledger!LedgerInit
  <1> SUFFICES ASSUME Init PROVE Ledger!LedgerInit
    OBVIOUS
  <1>1. LogView = {} /\ begun = {}
    BY DEF Init, LogView, Repaired
  <1>2. \A id : Of(LogView, id) = {}
    BY <1>1 DEF Of
  <1>3. \A id \in Ids : EntryOf(LogView, id) = NoRequest
    BY <1>2, NoEntryIs
  <1> QED BY <1>1, <1>3 DEF Ledger!LedgerInit, ledgerEntry

(* The target journal is an atomic ledger to everyone who goes through it: *)
(* accepted before executed, one hash per id, settled once, pending never  *)
(* forgotten, whatever the sizes, the budgets and the crashes.             *)
THEOREM JournalImplementsLedger == Spec => ImplementsLedger
  <1>1. Init => Ledger!LedgerInit
    BY RefineInit
  <1>2. IndInv /\ [Next]_vars => [Ledger!LedgerNext]_(Ledger!ledgerVars)
    BY RefineStep
  <1>3. Spec => []IndInv
    BY InitInv, StepInv, PTL DEF Spec
  <1> QED BY <1>1, <1>2, <1>3, PTL DEF Spec, ImplementsLedger, Ledger!LedgerSpec

=============================================================================
