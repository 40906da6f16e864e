--------------------------- MODULE Controller_proofs ---------------------------
(***************************************************************************)
(* Proofs about the controller's keys and about what they sign:            *)
(* ControllerKeys, for every number of processes, keys, slots, identities  *)
(* and failures, and, from DispatchBounds on, ControlDispatch.             *)
(*                                                                         *)
(* Base holds however flows overlap: slots are numbered and their keys are *)
(* generated ones, what flows know of each other's files stays true, and   *)
(* the root is delivered. Lone and Kept hold while flows run one at a time *)
(* and share no key: what the flow at work has seen of the server is still *)
(* so, and no key it retires is one that a slot needs. <Action>B and       *)
(* <Action>K are the lemmas that the action keeps the two.                 *)
(***************************************************************************)
EXTENDS ControllerKeys, ControlDispatch, TLAPS, FiniteSetTheorems, WellFoundedInduction

Tasks == [pc : PCs, flow : Flows \cup {"none"}, rec : Id \cup {None},
          snap : SUBSET Slot, local : SUBSET Kid, kid : 0..MaxKeys \cup {None},
          secret : Secret \cup {None}, id : Id \cup Secret \cup {None},
          changed : BOOLEAN]

Types == TypeOK /\ proc \in [Procs -> Tasks]

(* The slots: numbered without gaps, and no two active ones with one key.     *)
Numbered ==
    /\ IsFiniteSet(slots)
    /\ \A s \in slots : s.id <= Cardinality(slots)
    /\ \A s, t \in slots : s.id = t.id => s = t

LiveUnique == \A s, t \in Live(slots) : s.kid = t.kid => s = t

\* The ids of the slots that hold a key of this machine.
Enrolled == {s.id : s \in {t \in slots : t.kid # Foreign}}

(* Everything names a key that was generated and a slot that was enrolled.    *)
Generated ==
    /\ keys \subseteq 1..kids
    /\ Listed(slots) \subseteq 0..kids
    /\ pendAdd # None => pendAdd <= kids
    /\ pendBind # None => pendBind.kid <= kids
    /\ pendRec # None => pendRec.kid <= kids

Recorded ==
    /\ binding \in Enrolled \cup {None}
    /\ \A a \in accepted : a.id \in Enrolled \cup {None}
    /\ \A a, b \in accepted : a.kid = b.kid => a = b

(* The recovery root.                                                         *)
RootHeld ==
        /\ root # None => root \in delivered
        /\ slots # {} => root # None
        /\ pendRec # None => pendRec.secret \in delivered

Reconciling == {"reconcile", "point", "retire", "proceed"}
Submitting == {"submit", "rejected", "recPoint", "recFields", "clearRec"}
Recovering == {"challenge", "saveRec"} \cup Submitting

(* The flows that have each step.                                             *)
Fits(q) ==
    /\ q.pc = "idle" => q.flow = "none"
    /\ q.pc \in {"list", "unpoint"} => q.flow \in {"bind", "rotate", "add", "revoke", "list"}
    /\ q.pc \in Reconciling => q.flow \in {"bind", "rotate", "add", "list"}
    /\ q.pc \in {"fields", "activate"} => q.flow \in {"bind", "rotate", "add"}
    /\ q.pc = "commit" => q.flow \in {"bind", "rotate", "add", "revoke"}
    /\ q.pc = "approve" => q.flow \in {"bind", "add"}
    /\ q.pc \in {"save", "clear"} => q.flow = "bind"
    /\ q.pc \in {"pending", "clearAdd"} => q.flow = "add"
    /\ q.pc = "retireOld" => q.flow = "rotate"
    /\ q.pc = "revoked" => q.flow = "revoke"
    /\ q.pc \in {"resume"} \cup Recovering => q.flow = "recover"
    /\ q.pc \in {"root", "rootCommit"} => q.flow = "root"

(* What a flow knows at each of its steps, whatever other flows do.           *)
Knows(p) ==
    LET q == proc[p] IN
    /\ Fits(q)
    /\ q.kid # None => q.kid <= kids
    /\ q.rec \in Enrolled \cup {None}
    /\ q.flow \in {"rotate", "add"} => q.rec # None
    /\ \A t \in q.snap : \E s \in slots :
          s.id = t.id /\ (s.kid = Foreign <=> t.kid = Foreign)
    /\ q.pc \in {"point", "retire", "save", "approve", "fields", "activate",
                 "retireOld"} \cup (Recovering \ {"clearRec"}) => q.kid \in Kid
    /\ q.pc = "commit" /\ q.flow # "revoke" => q.kid \in Kid
    /\ q.pc = "revoked" => q.kid # None
    /\ q.pc \in {"fields", "recPoint", "recFields"} => q.id \in Enrolled
    /\ q.pc = "approve" /\ q.flow = "bind" => q.secret # None
    /\ q.pc = "commit" /\ q.flow = "bind" => q.secret \in delivered
    /\ q.pc \in {"saveRec", "rootCommit"} => q.secret \in delivered
    /\ q.pc = "saveRec" => q.id \in Secret
    /\ q.pc \in Submitting => pendRec # None
    /\ q.pc \in {"submit", "rejected", "recPoint"} => q.kid = pendRec.kid

(* recovery.lock                                                              *)
OneRecovery ==
    \A p, q \in Procs :
        proc[p].pc \in Recovering /\ proc[q].pc \in Recovering => p = q

Flowing == OneRecovery /\ \A p \in Procs : Knows(p)

Base == Types /\ PointerLoads /\ Numbered /\ LiveUnique /\ Generated /\ Recorded /\ RootHeld /\ Flowing

(* One flow at a time, and no shared key.                                     *)
Serial == \A p, q \in Procs : proc[p].pc # "idle" /\ proc[q].pc # "idle" => p = q

Good == \E a \in Receipts : a.id # None

\* The key of a recovery that the server did not accept is nobody else's.
Apart ==
    pendRec # None /\ ~Good =>
        /\ pendRec.kid \notin Listed(slots)
        /\ pendRec.kid # active /\ pendRec.kid # pendAdd
        /\ pendBind # None => pendBind.kid # pendRec.kid
        /\ Receipts = {} => pendRec.kid \in keys

Stored == \A s \in Live(slots) : s.kid # Foreign => s.kid \in keys

Surveying == {"pending", "save", "approve", "commit"} \cup Reconciling

\* The slots are those of the snapshot, but for what another machine did.
Surveyed(q) ==
    q.pc \in Surveying =>
         /\ \A t \in q.snap : \E s \in slots : s.id = t.id /\ s.kid = t.kid
         /\ \A s \in Live(slots) : s \in q.snap \/ s.kid = Foreign

\* The proposed key is stored, and no pending recovery depends on it.
Chosen(q) ==
    q.pc \in {"save", "approve"} \/ (q.pc = "commit" /\ q.flow # "revoke") =>
         /\ q.kid \in keys
         /\ pendRec # None /\ ~Good => q.kid # pendRec.kid

\* A rotation replaces the active key, which no other slot has.
Rotating(q) ==
    q.flow = "rotate" =>
         /\ (q.pc = "retire" /\ ~q.changed) \/ q.pc \in {"proceed", "commit"} =>
              \A s \in Live(slots) : s.id = q.rec => s.kid = active
         /\ q.pc = "commit" => q.kid # active
         /\ q.pc = "fields" => active \notin Listed(Live(slots))
         /\ q.pc \in {"activate", "retireOld"} =>
              /\ \A s \in Live(slots) : s.kid \in q.local => s.kid = q.kid
              /\ pendRec # None /\ ~Good => pendRec.kid \notin q.local

\* The key at hand is that of a slot, of none that is active after a revocation.
Enlisted(q) ==
    /\ q.pc \in {"point", "fields", "activate", "revoked"} => q.kid \in Listed(slots)
    /\ q.pc = "revoked" => \A s \in Live(slots) : s.kid # q.kid
    /\ q.pc = "point" => q.changed

\* The staged key of a recovery is nobody else's.
Staged(q) ==
    q.pc \in {"challenge", "saveRec"} =>
         /\ q.kid \in keys \ Listed(slots)
         /\ q.kid # active /\ q.kid # pendAdd
         /\ pendBind # None => pendBind.kid # q.kid

\* The verdict the recovery got.
Answered(q) ==
    /\ q.pc = "rejected" => ~Good /\ Receipts # {}
    /\ q.pc \in {"recPoint", "recFields"} => Good

Alone(q) ==
    /\ Surveyed(q) /\ Chosen(q) /\ Rotating(q)
    /\ Enlisted(q) /\ Staged(q) /\ Answered(q)

Lone == ~overlapped => Serial

Orderly == ~overlapped /\ shared = {}

Kept == Orderly => Apart /\ Stored /\ \A p \in Procs : Alone(proc[p])

KInv == Base /\ Lone /\ Kept

-----------------------------------------------------------------------------
USE KeysAssumption

-----------------------------------------------------------------------------
(* Numbers and sets.                                                         *)

(* A non-empty set of key ids has a newest one.                              *)
LEMMA NewestIsOne ==
  ASSUME NEW S \in SUBSET Kid, S # {}
  PROVE  Max(S) \in S
  <1> DEFINE D == {MaxKeys - k : k \in S}
  <1>1. \A k \in S : k \in Nat /\ MaxKeys - k \in Nat /\ MaxKeys - (MaxKeys - k) = k
    BY DEF Kid
  <1>2. D \in SUBSET Nat /\ D # {}
    BY <1>1
  <1>3. PICK d \in D : \A e \in D : ~(<<e, d>> \in OpToRel(<, Nat))
    <2> HIDE DEF D
    <2> QED BY <1>2, NatLessThanWellFounded, WFMin, Zenon
  <1>4. PICK k \in S : d = MaxKeys - k
    OBVIOUS
  <1>5. ASSUME NEW l \in S PROVE k >= l
    <2>1. MaxKeys - l \in D
      OBVIOUS
    <2>2. ~(MaxKeys - l < MaxKeys - k)
      BY <2>1, <1>1, <1>3, <1>4 DEF OpToRel
    <2> QED BY <2>2, <1>1
  <1> QED BY <1>5 DEF Max

LEMMA NaturalSets ==
  /\ Kid \subseteq Nat /\ Id \subseteq Nat /\ Secret \subseteq Nat
  /\ None \notin Kid /\ None \notin Id /\ None \notin Secret
  /\ Kid \subseteq 0..MaxKeys /\ Foreign \in 0..MaxKeys
  /\ None \notin Nat /\ Foreign \notin Kid /\ Foreign \in Nat
  BY KeysAssumption DEF Kid, Id, Secret, Foreign

-----------------------------------------------------------------------------
(* What a step leaves to the other flows.                                    *)

(* Every slot stays, with the machine it was enrolled from.                  *)
Tracked ==
    \A s \in slots : \E t \in slots' :
        t.id = s.id /\ (t.kid = Foreign <=> s.kid = Foreign)

LEMMA SlotsTracked ==
  ASSUME Tracked
  PROVE  /\ Enrolled \subseteq Enrolled'
         /\ slots # {} => slots' # {}
  BY DEF Tracked, Enrolled

LEMMA SameSlots ==
  ASSUME slots' = slots
  PROVE  Tracked /\ Enrolled' = Enrolled
         /\ (Numbered => Numbered') /\ (LiveUnique => LiveUnique')
  BY DEF Tracked, Enrolled, Numbered, LiveUnique, Live

(* What Knows says of a flow stays true while others move.                   *)
LEMMA BystanderKnows ==
  ASSUME NEW q \in Procs, Knows(q), proc'[q] = proc[q], Tracked, Numbered,
         delivered \subseteq delivered', kids \in Nat, kids' \in Nat, kids <= kids',
         proc[q] \in Tasks,
         pendRec' = pendRec \/ proc[q].pc \notin Submitting
  PROVE  Knows(q)'
  <1>1. Enrolled \subseteq Enrolled'
    BY SlotsTracked
  <1>2. proc[q].kid # None => proc[q].kid \in Nat
    BY NaturalSets DEF Tasks
  <1>3. proc[q].kid # None => proc[q].kid <= kids'
    BY <1>2 DEF Knows
  <1>4. \A t \in proc[q].snap : \E s \in slots' :
          s.id = t.id /\ (s.kid = Foreign <=> t.kid = Foreign)
    BY DEF Knows, Tracked
  <1>5. Fits(proc[q])'
    BY DEF Knows, Fits
  <1>6. proc[q].rec \in Enrolled' \cup {None}
    BY <1>1 DEF Knows
  <1>7. proc[q].pc \in {"fields", "recPoint", "recFields"} => proc[q].id \in Enrolled'
    BY <1>1 DEF Knows
  <1>8. /\ proc[q].pc \in Submitting => pendRec' # None
        /\ proc[q].pc \in {"submit", "rejected", "recPoint"} => proc[q].kid = pendRec'.kid
    BY DEF Knows, Submitting
  <1> QED
    BY <1>3, <1>4, <1>5, <1>6, <1>7, <1>8 DEF Knows

\* What a step of p may do to the others
Considerate(p) ==
    /\ Tracked /\ delivered \subseteq delivered' /\ kids' \in Nat /\ kids <= kids'
    /\ pendRec' = pendRec \/ proc[p].pc \in Recovering

LEMMA FlowsGoOn ==
  ASSUME Base, NEW p \in Procs, NEW r \in Tasks, proc' = [proc EXCEPT ![p] = r],
         Considerate(p), Knows(p)',
         r.pc \in Recovering => proc[p].pc \in Recovering \/ (At(p, "resume") /\ LockFree(p))
  PROVE  Flowing' /\ proc' \in [Procs -> Tasks]
  <1>1. proc \in [Procs -> Tasks] /\ kids \in Nat
    BY DEF Base, Types, TypeOK
  <1>2. proc' \in [Procs -> Tasks]
    BY <1>1
  <1>3. proc'[p] = r /\ \A q \in Procs \ {p} : proc'[q] = proc[q]
    BY <1>1
  <1>4. ASSUME NEW q \in Procs \ {p} PROVE Knows(q)'
    <2>1. pendRec' = pendRec \/ proc[q].pc \notin Submitting
      BY DEF Base, Flowing, OneRecovery, Considerate, Recovering
    <2>2. Knows(q) /\ proc[q] \in Tasks /\ proc'[q] = proc[q]
      BY <1>1, <1>3 DEF Base, Flowing
    <2> QED BY <1>1, <2>1, <2>2, BystanderKnows DEF Base, Considerate
  <1>5. ASSUME NEW q \in Procs \ {p}, r.pc \in Recovering, proc[q].pc \in Recovering
        PROVE  FALSE
    <2>1. proc[p].pc \notin Recovering
      BY <1>5 DEF Base, Flowing, OneRecovery
    <2>2. At(p, "resume") /\ LockFree(p)
      BY <1>5, <2>1
    <2>3. proc[p].flow = "recover" /\ proc[q].flow = "recover"
      BY <1>5, <2>2 DEF Base, Flowing, Knows, Fits, At
    <2> QED BY <1>5, <2>2, <2>3 DEF LockFree, Locked, Recovering, Submitting
  <1>6. OneRecovery'
    BY <1>3, <1>5 DEF Base, Flowing, OneRecovery
  <1> QED BY <1>2, <1>4, <1>6 DEF Flowing

LEMMA IdleRuns == Idle \in Tasks /\ Idle.pc \notin Recovering
  BY DEF Idle, Tasks, PCs, Recovering, Submitting

LEMMA IdleKnows ==
  ASSUME NEW p \in Procs, proc'[p] = Idle
  PROVE  Knows(p)'
  BY DEF Idle, Knows, Fits, Reconciling, Recovering, Submitting

\* The rest of the invariant
Files ==
    /\ keys \subseteq 1..kids /\ kids \in 0..MaxKeys
    /\ active \in keys \cup {None}
    /\ pendBind \in PendingBinds \cup {None} /\ (pendBind # None => pendBind.kid <= kids)
    /\ pendAdd \in Kid \cup {None} /\ (pendAdd # None => pendAdd <= kids)
    /\ pendRec \in PendingRecoveries \cup {None} /\ (pendRec # None => pendRec.kid <= kids)
    /\ binding \in Id \cup {None} /\ binding \in Enrolled \cup {None}

Server ==
    /\ slots \subseteq Slot /\ Listed(slots) \subseteq 0..kids
    /\ Numbered /\ LiveUnique
    /\ root \in Secret \cup {None}
    /\ root # None => root \in delivered
    /\ slots # {} => root # None
    /\ accepted \subseteq [kid : Kid, id : Id \cup {None}]
    /\ \A a \in accepted : a.id \in Enrolled \cup {None}
    /\ \A a, b \in accepted : a.kid = b.kid => a = b

Others ==
      /\ delivered \subseteq Secret /\ secrets \in 0..MaxSecrets /\ faults \in 0..MaxFaults
      /\ pendRec # None => pendRec.secret \in delivered
      /\ shared \subseteq Kid /\ overlapped \in BOOLEAN

LEMMA KidBound == \A n \in 0..MaxKeys : 1..n \subseteq Kid
  BY KeysAssumption DEF Kid

LEMMA Parts ==
  /\ Base => Files /\ Server /\ Others /\ Flowing /\ proc \in [Procs -> Tasks]
  /\ Files /\ Server /\ Others /\ Flowing /\ proc \in [Procs -> Tasks] => Base
  <1>1. ASSUME Base PROVE Files /\ Server /\ Others /\ Flowing /\ proc \in [Procs -> Tasks]
    BY <1>1 DEF Base, Types, TypeOK, PointerLoads, Generated, Recorded, RootHeld, Files, Server,
       Others
  <1>2. ASSUME Files, Server, Others, Flowing, proc \in [Procs -> Tasks] PROVE Base
    <2>1. \A p \in Procs : proc[p].pc \in PCs /\ proc[p].flow \in Flows \cup {"none"}
      BY <1>2 DEF Tasks
    <2>2. keys \subseteq Kid
      BY <1>2, KidBound DEF Files
    <2>3. TypeOK
      BY <1>2, <2>1, <2>2 DEF TypeOK, Files, Server, Others
    <2> QED
      BY <1>2, <2>3 DEF Base, Types, PointerLoads, Generated, Recorded, RootHeld, Files, Server,
         Others
  <1> QED BY <1>1, <1>2

(* A step of a flow keeps Base if it keeps each part.                        *)
LEMMA BaseKept ==
  ASSUME Base, NEW p \in Procs, NEW r \in Tasks, proc' = [proc EXCEPT ![p] = r],
         Considerate(p), Knows(p)',
         r.pc \in Recovering => proc[p].pc \in Recovering \/ (At(p, "resume") /\ LockFree(p)),
         Files', Server', Others'
  PROVE  Base'
  <1>1. Flowing' /\ proc' \in [Procs -> Tasks]
    BY FlowsGoOn
  <1>2. (Files /\ Server /\ Others /\ Flowing /\ proc \in [Procs -> Tasks] => Base)'
    BY Parts, PTL
  <1> QED BY <1>1, <1>2

(* A step that only moves the flow.                                          *)
LEMMA OnlyMoves ==
  ASSUME Base, NEW p \in Procs, NEW r \in Tasks, proc' = [proc EXCEPT ![p] = r],
         UNCHANGED <<machine, server, delivered, kids, secrets, hist>>,
         faults' \in 0..MaxFaults, Knows(p)',
         r.pc \in Recovering => proc[p].pc \in Recovering \/ (At(p, "resume") /\ LockFree(p))
  PROVE  Base'
  <1>1. Files' /\ Server' /\ Others'
    BY Parts, SameSlots DEF Files, Server, Others, machine, server, hist, Listed
  <1>2. Considerate(p)
    BY Parts, SameSlots DEF Considerate, machine, server, Files
  <1> QED BY <1>1, <1>2, BaseKept

(* A flow that ends and leaves everything as it is.                          *)
LEMMA EndsB ==
  ASSUME Base, NEW p \in Procs, Done(p), faults' \in 0..MaxFaults,
         UNCHANGED <<machine, server, delivered, kids, secrets, hist>>
  PROVE  Base'
  <1>1. proc \in [Procs -> Tasks]
    BY Parts
  <1>2. Idle \in Tasks /\ proc' = [proc EXCEPT ![p] = Idle] /\ proc'[p] = Idle
    BY <1>1, IdleRuns DEF Done
  <1> QED BY <1>2, IdleRuns, IdleKnows, OnlyMoves

LEMMA ListSlotsB ==
  ASSUME Base, NEW p \in Procs, ListSlots(p)
  PROVE  Base'
  <1> DEFINE r == proc'[p]
  <1>1. Files /\ Server /\ Others /\ proc \in [Procs -> Tasks] /\ Knows(p) /\ proc[p] \in Tasks
    BY Parts DEF Flowing
  <1>2. r \in Tasks /\ proc' = [proc EXCEPT ![p] = r]
    BY <1>1, NaturalSets DEF ListSlots, At, Goto, Done, Idle, Tasks, PCs, Server
  <1>3. Knows(p)'
    BY <1>1, IdleKnows, SameSlots, NaturalSets DEF ListSlots, At, Goto, Done, Tasks, Knows
  <1>4. r.pc \in Recovering => proc[p].pc \in Recovering \/ (At(p, "resume") /\ LockFree(p))
    BY <1>1, IdleRuns DEF ListSlots, At, Goto, Done, Tasks, Recovering, Submitting
  <1>5. UNCHANGED <<machine, server, delivered, kids, secrets, hist>> /\ faults' \in 0..MaxFaults
    BY <1>1 DEF ListSlots, Others
  <1> HIDE DEF r
  <1> QED BY <1>2, <1>3, <1>4, <1>5, OnlyMoves

LEMMA NothingToReconcileB ==
  ASSUME Base, NEW p \in Procs, NothingToReconcile(p)
  PROVE  Base'
  <1> DEFINE r == proc'[p]
  <1>1. Files /\ Server /\ Others /\ proc \in [Procs -> Tasks] /\ Knows(p) /\ proc[p] \in Tasks
    BY Parts DEF Flowing
  <1>2. r \in Tasks /\ proc' = [proc EXCEPT ![p] = r]
    BY <1>1, NaturalSets DEF NothingToReconcile, At, Goto, Done, Idle, Tasks, PCs, Server
  <1>3. Knows(p)'
    BY <1>1, IdleKnows, SameSlots, NaturalSets DEF NothingToReconcile, At, Goto, Done,
       Tasks, Knows, Fits, Reconciling, Submitting, Recovering, server
  <1>4. r.pc \in Recovering => proc[p].pc \in Recovering \/ (At(p, "resume") /\ LockFree(p))
    BY <1>1, IdleRuns DEF NothingToReconcile, At, Goto, Done, Tasks, Recovering, Submitting
  <1>5. UNCHANGED <<machine, server, delivered, kids, secrets, hist>> /\ faults' \in 0..MaxFaults
    BY <1>1 DEF NothingToReconcile, Others
  <1> HIDE DEF r
  <1> QED BY <1>2, <1>3, <1>4, <1>5, OnlyMoves

LEMMA CommitRefusedB ==
  ASSUME Base, NEW p \in Procs, CommitRefused(p)
  PROVE  Base'
  <1> DEFINE r == proc'[p]
  <1>1. Files /\ Server /\ Others /\ proc \in [Procs -> Tasks] /\ Knows(p) /\ proc[p] \in Tasks
    BY Parts DEF Flowing
  <1>2. r \in Tasks /\ proc' = [proc EXCEPT ![p] = r]
    BY <1>1, NaturalSets DEF CommitRefused, At, Goto, Done, Idle, Tasks, PCs, Server
  <1>3. Knows(p)'
    BY <1>1, IdleKnows, SameSlots, NaturalSets DEF CommitRefused, At, Goto, Done, Tasks,
       Knows
  <1>4. r.pc \in Recovering => proc[p].pc \in Recovering \/ (At(p, "resume") /\ LockFree(p))
    BY <1>1, IdleRuns DEF CommitRefused, At, Goto, Done, Tasks, Recovering, Submitting
  <1>5. UNCHANGED <<machine, server, delivered, kids, secrets, hist>> /\ faults' \in 0..MaxFaults
    BY <1>1 DEF CommitRefused, Others
  <1> HIDE DEF r
  <1> QED BY <1>2, <1>3, <1>4, <1>5, OnlyMoves

LEMMA RefuseB ==
  ASSUME Base, NEW p \in Procs, Refuse(p)
  PROVE  Base'
  <1> DEFINE r == proc'[p]
  <1>1. Files /\ Server /\ Others /\ proc \in [Procs -> Tasks] /\ Knows(p) /\ proc[p] \in Tasks
    BY Parts DEF Flowing
  <1>2. r \in Tasks /\ proc' = [proc EXCEPT ![p] = r]
    BY <1>1, NaturalSets DEF Refuse, At, Goto, Done, Idle, Tasks, PCs, Server, Refuses
  <1>3. Knows(p)'
    BY <1>1, IdleKnows, SameSlots, NaturalSets DEF Refuse, At, Goto, Done, Tasks, Knows, Fits
  <1>4. r.pc \in Recovering => proc[p].pc \in Recovering \/ (At(p, "resume") /\ LockFree(p))
    BY <1>1, IdleRuns DEF Refuse, At, Goto, Done, Tasks, Recovering, Submitting
  <1>5. UNCHANGED <<machine, server, delivered, kids, secrets, hist>> /\ faults' \in 0..MaxFaults
    BY <1>1 DEF Refuse, Others
  <1> HIDE DEF r
  <1> QED BY <1>2, <1>3, <1>4, <1>5, OnlyMoves

LEMMA ResumeRecoveryB ==
  ASSUME Base, NEW p \in Procs, ResumeRecovery(p)
  PROVE  Base'
  <1> DEFINE r == proc'[p]
  <1>1. Files /\ Server /\ Others /\ proc \in [Procs -> Tasks] /\ Knows(p) /\ proc[p] \in Tasks
    BY Parts DEF Flowing
  <1>k. pendRec.kid \in Kid /\ pendRec.kid <= kids
    BY <1>1 DEF ResumeRecovery, Files, PendingRecoveries
  <1>2. r \in Tasks /\ proc' = [proc EXCEPT ![p] = r]
    <2>1. /\ r = [proc[p] EXCEPT !.pc = "submit", !.kid = pendRec.kid]
          /\ proc' = [proc EXCEPT ![p] = r]
      BY <1>1 DEF ResumeRecovery
    <2>2. "submit" \in PCs /\ pendRec.kid \in 0..MaxKeys \cup {None}
      BY <1>k, NaturalSets DEF PCs
    <2> HIDE DEF r
    <2>3. r \in Tasks
      BY <1>1, <2>1, <2>2 DEF Tasks
    <2> QED BY <2>1, <2>3
  <1>3. Knows(p)'
    BY <1>1, IdleKnows, SameSlots, NaturalSets, <1>k DEF ResumeRecovery, At, Goto, Done,
       Tasks, Knows, Fits, Reconciling, machine, server
  <1>4. r.pc \in Recovering => proc[p].pc \in Recovering \/ (At(p, "resume") /\ LockFree(p))
    BY <1>1, IdleRuns, <1>k DEF ResumeRecovery
  <1>5. UNCHANGED <<machine, server, delivered, kids, secrets, hist>> /\ faults' \in 0..MaxFaults
    BY <1>1 DEF ResumeRecovery, Others
  <1> HIDE DEF r
  <1> QED BY <1>2, <1>3, <1>4, <1>5, OnlyMoves

LEMMA ReproposeB ==
  ASSUME Base, NEW p \in Procs, Repropose(p)
  PROVE  Base'
  <1> DEFINE r == proc'[p]
  <1>1. Files /\ Server /\ Others /\ proc \in [Procs -> Tasks] /\ Knows(p) /\ proc[p] \in Tasks
    BY Parts DEF Flowing
  <1>k. /\ pendBind # None => /\ pendBind.kid \in Kid /\ pendBind.kid <= kids
                              /\ pendBind.secret \in Secret
        /\ pendAdd # None => pendAdd \in Kid /\ pendAdd <= kids
    BY <1>1 DEF Files, PendingBinds
  <1>2. r \in Tasks /\ proc' = [proc EXCEPT ![p] = r]
    BY <1>1, NaturalSets, <1>k DEF Repropose, At, Goto, Done, Idle, Tasks, PCs, Server
  <1>3. Knows(p)'
    BY <1>1, IdleKnows, SameSlots, NaturalSets, <1>k DEF Repropose, At, Goto, Done, Tasks,
       Knows, Fits, Submitting, Recovering, server
  <1>4. r.pc \in Recovering => proc[p].pc \in Recovering \/ (At(p, "resume") /\ LockFree(p))
    BY <1>1, IdleRuns, <1>k DEF Repropose, At, Goto, Done, Tasks, Recovering, Submitting
  <1>5. UNCHANGED <<machine, server, delivered, kids, secrets, hist>> /\ faults' \in 0..MaxFaults
    BY <1>1 DEF Repropose, Others
  <1> HIDE DEF r
  <1> QED BY <1>2, <1>3, <1>4, <1>5, OnlyMoves

LEMMA ListForRevokeB ==
  ASSUME Base, NEW p \in Procs, ListForRevoke(p)
  PROVE  Base'
  <1>1. Files /\ Server /\ Others /\ proc \in [Procs -> Tasks] /\ Knows(p) /\ proc[p] \in Tasks
    BY Parts DEF Flowing
  <1>2. UNCHANGED <<machine, server, delivered, kids, secrets, hist>> /\ faults' \in 0..MaxFaults
    BY <1>1 DEF ListForRevoke, Others
  <1>3. CASE Live(slots) = {}
    BY <1>2, <1>3, EndsB DEF ListForRevoke
  <1>4. CASE Live(slots) # {}
    <2>1. PICK s \in Live(slots) : proc' = [proc EXCEPT ![p].snap = slots, ![p].id = s.id,
                                                       ![p].pc = "commit"]
      BY <1>4 DEF ListForRevoke
    <2>2. s.id \in Id
      BY <1>1 DEF Server, Live, Slot
    <2> DEFINE r == [proc[p] EXCEPT !.snap = slots, !.id = s.id, !.pc = "commit"]
    <2>3. r \in Tasks /\ proc' = [proc EXCEPT ![p] = r] /\ proc'[p] = r
      <3>1. "commit" \in PCs /\ slots \in SUBSET Slot
        BY <1>1 DEF PCs, Server
      <3>2. r \in Tasks
        BY <1>1, <2>2, <3>1 DEF Tasks
      <3> QED BY <1>1, <2>1, <3>2
    <2>4. r.pc \notin Recovering
      BY <1>1 DEF Tasks, Recovering, Submitting
    <2>6. /\ r.pc = "commit" /\ r.flow = "revoke" /\ r.snap = slots
          /\ r.rec = proc[p].rec /\ r.kid = proc[p].kid /\ r.id = s.id
      BY <1>1 DEF Tasks, ListForRevoke
    <2>7. kids' = kids /\ slots' = slots
      BY <1>2 DEF server
    <2> HIDE DEF r
    <2>5. Knows(p)'
      <3>1. Fits(r)
        BY <2>6 DEF Fits, Reconciling, Submitting, Recovering
      <3>2. r.kid # None => r.kid <= kids
        BY <1>1, <2>6 DEF Knows
      <3>3. r.rec \in Enrolled \cup {None}
        BY <1>1, <2>6 DEF Knows
      <3>4. Enrolled' = Enrolled
        BY <2>7, SameSlots
      <3> QED BY <2>3, <2>6, <2>7, <3>1, <3>2, <3>3, <3>4 DEF Knows, Submitting, Recovering
    <2> QED BY <1>2, <2>3, <2>4, <2>5, OnlyMoves
  <1> QED BY <1>3, <1>4

LEMMA LoadPendingAddB ==
  ASSUME Base, NEW p \in Procs, LoadPendingAdd(p)
  PROVE  Base'
  <1>1. Files /\ Server /\ Others /\ proc \in [Procs -> Tasks] /\ Knows(p) /\ proc[p] \in Tasks
    BY Parts DEF Flowing
  <1>2. UNCHANGED <<machine, server, delivered, kids, secrets, hist>> /\ faults' \in 0..MaxFaults
    BY <1>1 DEF LoadPendingAdd, Others
  <1>3. \/ Done(p)
        \/ Goto(p, "reconcile")
        \/ \E s \in proc[p].snap :
             /\ s.kid = pendAdd /\ pendAdd \in keys
             /\ proc' = [proc EXCEPT ![p].pc = "fields", ![p].id = s.id, ![p].kid = s.kid]
    BY DEF LoadPendingAdd
  <1>4. CASE Done(p)
    BY <1>2, <1>4, EndsB
  <1>5. CASE Goto(p, "reconcile")
    <2> DEFINE r == [proc[p] EXCEPT !.pc = "reconcile"]
    <2>1. r \in Tasks /\ proc' = [proc EXCEPT ![p] = r] /\ proc'[p] = r
      BY <1>1, <1>5 DEF Tasks, PCs, Goto
    <2>2. r.pc \notin Recovering
      BY <1>1 DEF Tasks, Recovering, Submitting
    <2>4. /\ r.pc = "reconcile" /\ r.flow = proc[p].flow /\ r.snap = proc[p].snap
          /\ r.rec = proc[p].rec /\ r.kid = proc[p].kid
      BY <1>1 DEF Tasks
    <2>5. kids' = kids /\ slots' = slots
      BY <1>2 DEF server
    <2>6. proc[p].pc = "pending"
      BY DEF LoadPendingAdd, At
    <2> HIDE DEF r
    <2>3. Knows(p)'
      <3>1. Fits(r)
        BY <1>1, <2>4, <2>6 DEF Knows, Fits, Reconciling, Submitting, Recovering
      <3>2. Enrolled' = Enrolled
        BY <2>5, SameSlots
      <3> QED BY <1>1, <2>1, <2>4, <2>5, <3>1, <3>2 DEF Knows, Submitting, Recovering
    <2> QED BY <1>2, <2>1, <2>2, <2>3, OnlyMoves
  <1>6. ASSUME NEW s \in proc[p].snap, s.kid = pendAdd, pendAdd \in keys,
               proc' = [proc EXCEPT ![p].pc = "fields", ![p].id = s.id, ![p].kid = s.kid]
        PROVE  Base'
    <2> DEFINE r == [proc[p] EXCEPT !.pc = "fields", !.id = s.id, !.kid = s.kid]
    <2>1. s.kid \in Kid /\ s.kid <= kids /\ s.id \in Id
      BY <1>1, <1>6, NaturalSets DEF Files, Tasks, Slot
    <2>2. r \in Tasks /\ proc' = [proc EXCEPT ![p] = r] /\ proc'[p] = r
      BY <1>1, <1>6, <2>1, NaturalSets DEF Tasks, PCs
    <2>3. r.pc \notin Recovering
      BY <1>1 DEF Tasks, Recovering, Submitting
    <2>4. s.id \in Enrolled
      BY <1>1, <2>1, NaturalSets DEF Knows, Enrolled
    <2>a. /\ r.pc = "fields" /\ r.flow = "add" /\ proc[p].flow = "add" /\ r.rec = proc[p].rec
          /\ r.snap = proc[p].snap /\ r.kid = s.kid /\ r.id = s.id
      BY <1>1 DEF LoadPendingAdd, At, Tasks, Knows, Fits
    <2> HIDE DEF r
    <2>5. Knows(p)'
      BY <1>1, <1>2, <2>1, <2>2, <2>4, <2>a, SameSlots DEF Knows, Fits, Submitting,
         Recovering, server
    <2> QED BY <1>2, <2>2, <2>3, <2>5, OnlyMoves
  <1> QED BY <1>3, <1>4, <1>5, <1>6

LEMMA AbortB ==
  ASSUME Base, NEW p \in Procs, Abort(p)
  PROVE  Base'
  <1>1. faults' \in 0..MaxFaults
    BY Parts, KeysAssumption DEF Abort, Others
  <1> QED BY <1>1, EndsB DEF Abort, machine, server, hist

LEMMA StartB ==
  ASSUME Base, NEW p \in Procs, NEW f \in Flows, Start(p, f)
  PROVE  Base'
  <1>1. Files /\ Server /\ Others /\ proc \in [Procs -> Tasks] /\ Knows(p) /\ proc[p] \in Tasks
    BY Parts DEF Flowing
  <1> DEFINE r == proc'[p]
  <1>2. r = [Idle EXCEPT !.pc = CASE f = "recover" -> "resume" [] f = "root" -> "root"
                                  [] OTHER -> "list", !.flow = f, !.rec = binding]
    BY <1>1 DEF Start
  <1>a. /\ r.pc \in {"list", "resume", "root"} /\ r.flow = f /\ r.rec = binding
        /\ f = "recover" <=> r.pc = "resume"
        /\ f = "root" <=> r.pc = "root"
    BY <1>2 DEF Idle
  <1>b. r = [Idle EXCEPT !.pc = r.pc, !.flow = f, !.rec = binding]
    BY <1>2 DEF Idle
  <1>3. r \in Tasks /\ proc' = [proc EXCEPT ![p] = r]
    <2>1. proc' = [proc EXCEPT ![p] = r]
      BY <1>1, <1>2 DEF Start
    <2>2. r.pc \in PCs
      BY <1>a DEF PCs
    <2> HIDE DEF r
    <2>3. r \in Tasks
      BY <1>1, <1>a, <1>b, <2>2, IdleRuns DEF Files, Tasks
    <2> QED BY <2>1, <2>3
  <1>4. r.pc \notin Recovering
    BY <1>2 DEF Idle, Recovering, Submitting
  <1>5. Enrolled' = Enrolled /\ UNCHANGED <<machine, server, delivered, kids, secrets, faults, shared>>
    BY SameSlots DEF Start, server
  <1>6. Knows(p)'
    BY <1>1, <1>2, <1>5 DEF Start, Files, Knows, Fits, Idle, Flows, Recovering, Submitting,
       Reconciling
  <1>7. Files' /\ Server' /\ Others'
    BY <1>1, <1>5, SameSlots DEF Files, Server, Others, machine, server, Listed, Start
  <1>8. Considerate(p)
    BY <1>1, <1>5, SameSlots DEF Considerate, machine, server, Files
  <1> HIDE DEF r
  <1> QED BY <1>3, <1>4, <1>6, <1>7, <1>8, BaseKept

LEMMA ServerSame ==
  ASSUME Server, UNCHANGED server, kids \in Nat, kids' \in Nat, kids <= kids',
         delivered \subseteq delivered'
  PROVE  Server'
  <1>1. 0..kids \subseteq 0..kids'
    OBVIOUS
  <1> QED BY <1>1, SameSlots DEF Server, server, Listed

LEMMA EnrolledIds ==
  ASSUME Server
  PROVE  Enrolled \subseteq Id
  BY DEF Server, Enrolled, Slot

LEMMA KeysAreKids ==
  ASSUME Files
  PROVE  /\ keys \subseteq Kid /\ active \in Kid \cup {None}
         /\ kids \in Nat /\ \A n \in keys : n \in Nat /\ n <= kids
  BY KidBound, NaturalSets DEF Files

LEMMA AdoptPointerOn ==
  ASSUME Base, NEW p \in Procs, AdoptPointer(p), proc[p].kid \in keys
  PROVE  Base'
  <1> DEFINE r == proc'[p]
  <1>1. Files /\ Server /\ Others /\ proc \in [Procs -> Tasks] /\ Knows(p) /\ proc[p] \in Tasks
    BY Parts DEF Flowing
  <1>2. r \in Tasks /\ proc' = [proc EXCEPT ![p] = r]
    BY <1>1, NaturalSets DEF AdoptPointer, At, Goto, Done, Idle, Tasks, PCs
  <1>3. Knows(p)'
    BY <1>1, IdleKnows, SameSlots, NaturalSets DEF AdoptPointer, At, Goto, Done, Tasks,
       Knows, Fits, Reconciling, Submitting, Recovering, server
  <1>4. r.pc \in Recovering => proc[p].pc \in Recovering \/ (At(p, "resume") /\ LockFree(p))
    BY <1>1, IdleRuns DEF AdoptPointer, At, Goto, Done, Tasks, Recovering, Submitting
  <1>5. Considerate(p)
    BY <1>1, SameSlots DEF AdoptPointer, Considerate, server, Files
  <1>6. Files'
    BY <1>1, SameSlots, NaturalSets DEF AdoptPointer, Files, server, machine
  <1>7. Server'
    BY <1>1, ServerSame DEF AdoptPointer, machine, Files
  <1>8. Others'
    BY <1>1 DEF AdoptPointer, Others, machine, hist
  <1> HIDE DEF r
  <1> QED BY <1>2, <1>3, <1>4, <1>5, <1>6, <1>7, <1>8, BaseKept

LEMMA AdoptPointerB ==
  ASSUME Base, NEW p \in Procs, AdoptPointer(p)
  PROVE  Base'
  <1>1. CASE proc[p].kid \in keys
    BY <1>1, AdoptPointerOn
  <1>2. CASE ~(proc[p].kid \in keys)
    BY <1>2, Parts, EndsB DEF AdoptPointer, machine, server, hist, Others
  <1> QED BY <1>1, <1>2

LEMMA ActivatePointerOn ==
  ASSUME Base, NEW p \in Procs, ActivatePointer(p), proc[p].kid \in keys
  PROVE  Base'
  <1> DEFINE r == proc'[p]
  <1>1. Files /\ Server /\ Others /\ proc \in [Procs -> Tasks] /\ Knows(p) /\ proc[p] \in Tasks
    BY Parts DEF Flowing
  <1>k. /\ proc[p].flow \in {"bind", "rotate", "add"} /\ proc[p].pc = "activate"
        /\ \E c \in {"clear", "clearAdd", "retireOld"} : proc' = [proc EXCEPT ![p].pc = c]
    BY <1>1 DEF ActivatePointer, At, Goto, Knows, Fits
  <1>2. r \in Tasks /\ proc' = [proc EXCEPT ![p] = r]
    BY <1>1, NaturalSets, <1>k DEF ActivatePointer, At, Goto, Done, Idle, Tasks, PCs
  <1>3. Knows(p)'
    BY <1>1, IdleKnows, SameSlots, NaturalSets DEF ActivatePointer, At, Goto, Done, Tasks,
       Knows, Fits, Submitting, Recovering, server
  <1>4. r.pc \in Recovering => proc[p].pc \in Recovering \/ (At(p, "resume") /\ LockFree(p))
    BY <1>1, <1>k DEF Tasks, Recovering, Submitting
  <1>5. Considerate(p)
    BY <1>1, SameSlots DEF ActivatePointer, Considerate, server, Files
  <1>6. Files'
    BY <1>1, SameSlots, NaturalSets DEF ActivatePointer, Files, server, machine
  <1>7. Server'
    BY <1>1, ServerSame DEF ActivatePointer, machine, Files
  <1>8. Others'
    BY <1>1 DEF ActivatePointer, Others, machine, hist
  <1> HIDE DEF r
  <1> QED BY <1>2, <1>3, <1>4, <1>5, <1>6, <1>7, <1>8, BaseKept

LEMMA ActivatePointerB ==
  ASSUME Base, NEW p \in Procs, ActivatePointer(p)
  PROVE  Base'
  <1>1. CASE proc[p].kid \in keys
    BY <1>1, ActivatePointerOn
  <1>2. CASE ~(proc[p].kid \in keys)
    BY <1>2, Parts, EndsB DEF ActivatePointer, machine, server, hist, Others
  <1> QED BY <1>1, <1>2

LEMMA RecoveryPointerOn ==
  ASSUME Base, NEW p \in Procs, RecoveryPointer(p), proc[p].kid \in keys
  PROVE  Base'
  <1> DEFINE r == proc'[p]
  <1>1. Files /\ Server /\ Others /\ proc \in [Procs -> Tasks] /\ Knows(p) /\ proc[p] \in Tasks
    BY Parts DEF Flowing
  <1>2. r \in Tasks /\ proc' = [proc EXCEPT ![p] = r]
    BY <1>1, NaturalSets DEF RecoveryPointer, At, Goto, Done, Idle, Tasks, PCs
  <1>3. Knows(p)'
    BY <1>1, IdleKnows, SameSlots, NaturalSets DEF RecoveryPointer, At, Goto, Done, Tasks,
       Knows, Fits, Reconciling, Submitting, Recovering, server
  <1>4. r.pc \in Recovering => proc[p].pc \in Recovering \/ (At(p, "resume") /\ LockFree(p))
    BY <1>1, IdleRuns DEF RecoveryPointer, At, Goto, Done, Tasks, Recovering, Submitting
  <1>5. Considerate(p)
    BY <1>1, SameSlots DEF RecoveryPointer, Considerate, server, Files
  <1>6. Files'
    BY <1>1, SameSlots, NaturalSets DEF RecoveryPointer, Files, server, machine
  <1>7. Server'
    BY <1>1, ServerSame DEF RecoveryPointer, machine, Files
  <1>8. Others'
    BY <1>1 DEF RecoveryPointer, Others, machine, hist
  <1> HIDE DEF r
  <1> QED BY <1>2, <1>3, <1>4, <1>5, <1>6, <1>7, <1>8, BaseKept

LEMMA RecoveryPointerB ==
  ASSUME Base, NEW p \in Procs, RecoveryPointer(p)
  PROVE  Base'
  <1>1. CASE proc[p].kid \in keys
    BY <1>1, RecoveryPointerOn
  <1>2. CASE ~(proc[p].kid \in keys)
    BY <1>2, Parts, EndsB DEF RecoveryPointer, machine, server, hist, Others
  <1> QED BY <1>1, <1>2

LEMMA ForgetFieldsB ==
  ASSUME Base, NEW p \in Procs, ForgetFields(p)
  PROVE  Base'
  <1> DEFINE r == proc'[p]
  <1>1. Files /\ Server /\ Others /\ proc \in [Procs -> Tasks] /\ Knows(p) /\ proc[p] \in Tasks
    BY Parts DEF Flowing
  <1>2. r \in Tasks /\ proc' = [proc EXCEPT ![p] = r]
    BY <1>1, NaturalSets DEF ForgetFields, At, Goto, Done, Idle, Tasks, PCs
  <1>3. Knows(p)'
    BY <1>1, IdleKnows, SameSlots, NaturalSets DEF ForgetFields, At, Goto, Done, Tasks,
       Knows, Fits, Reconciling, Submitting, Recovering, server
  <1>4. r.pc \in Recovering => proc[p].pc \in Recovering \/ (At(p, "resume") /\ LockFree(p))
    BY <1>1, IdleRuns DEF ForgetFields, At, Goto, Done, Tasks, Recovering, Submitting
  <1>5. Considerate(p)
    BY <1>1, SameSlots DEF ForgetFields, Considerate, server, Files
  <1>6. Files'
    BY <1>1, SameSlots, NaturalSets DEF ForgetFields, Files, server, machine
  <1>7. Server'
    BY <1>1, ServerSame DEF ForgetFields, machine, Files
  <1>8. Others'
    BY <1>1 DEF ForgetFields, Others, machine, hist
  <1> HIDE DEF r
  <1> QED BY <1>2, <1>3, <1>4, <1>5, <1>6, <1>7, <1>8, BaseKept

LEMMA ClearBindB ==
  ASSUME Base, NEW p \in Procs, ClearBind(p)
  PROVE  Base'
  <1> DEFINE r == proc'[p]
  <1>1. Files /\ Server /\ Others /\ proc \in [Procs -> Tasks] /\ Knows(p) /\ proc[p] \in Tasks
    BY Parts DEF Flowing
  <1>2. r \in Tasks /\ proc' = [proc EXCEPT ![p] = r]
    BY <1>1, NaturalSets DEF ClearBind, At, Goto, Done, Idle, Tasks, PCs
  <1>3. Knows(p)'
    BY <1>1, IdleKnows, SameSlots, NaturalSets DEF ClearBind, At, Goto, Done, Tasks
  <1>4. r.pc \in Recovering => proc[p].pc \in Recovering \/ (At(p, "resume") /\ LockFree(p))
    BY <1>1, IdleRuns DEF ClearBind, At, Goto, Done, Tasks, Recovering, Submitting
  <1>5. Considerate(p)
    BY <1>1, SameSlots DEF ClearBind, Considerate, server, Files
  <1>6. Files'
    BY <1>1, SameSlots, NaturalSets DEF ClearBind, Files, server, machine
  <1>7. Server'
    BY <1>1, ServerSame DEF ClearBind, machine, Files
  <1>8. Others'
    BY <1>1 DEF ClearBind, Others, machine, hist
  <1> HIDE DEF r
  <1> QED BY <1>2, <1>3, <1>4, <1>5, <1>6, <1>7, <1>8, BaseKept

LEMMA ClearAddB ==
  ASSUME Base, NEW p \in Procs, ClearAdd(p)
  PROVE  Base'
  <1> DEFINE r == proc'[p]
  <1>1. Files /\ Server /\ Others /\ proc \in [Procs -> Tasks] /\ Knows(p) /\ proc[p] \in Tasks
    BY Parts DEF Flowing
  <1>2. r \in Tasks /\ proc' = [proc EXCEPT ![p] = r]
    BY <1>1, NaturalSets DEF ClearAdd, At, Goto, Done, Idle, Tasks, PCs
  <1>3. Knows(p)'
    BY <1>1, IdleKnows, SameSlots, NaturalSets DEF ClearAdd, At, Goto, Done, Tasks
  <1>4. r.pc \in Recovering => proc[p].pc \in Recovering \/ (At(p, "resume") /\ LockFree(p))
    BY <1>1, IdleRuns DEF ClearAdd, At, Goto, Done, Tasks, Recovering, Submitting
  <1>5. Considerate(p)
    BY <1>1, SameSlots DEF ClearAdd, Considerate, server, Files
  <1>6. Files'
    BY <1>1, SameSlots, NaturalSets DEF ClearAdd, Files, server, machine
  <1>7. Server'
    BY <1>1, ServerSame DEF ClearAdd, machine, Files
  <1>8. Others'
    BY <1>1 DEF ClearAdd, Others, machine, hist
  <1> HIDE DEF r
  <1> QED BY <1>2, <1>3, <1>4, <1>5, <1>6, <1>7, <1>8, BaseKept

LEMMA ClearRecoveryB ==
  ASSUME Base, NEW p \in Procs, ClearRecovery(p)
  PROVE  Base'
  <1> DEFINE r == proc'[p]
  <1>1. Files /\ Server /\ Others /\ proc \in [Procs -> Tasks] /\ Knows(p) /\ proc[p] \in Tasks
    BY Parts DEF Flowing
  <1>2. r \in Tasks /\ proc' = [proc EXCEPT ![p] = r]
    BY <1>1, NaturalSets DEF ClearRecovery, At, Goto, Done, Idle, Tasks, PCs
  <1>3. Knows(p)'
    BY <1>1, IdleKnows, SameSlots, NaturalSets DEF ClearRecovery, At, Goto, Done, Tasks
  <1>4. r.pc \in Recovering => proc[p].pc \in Recovering \/ (At(p, "resume") /\ LockFree(p))
    BY <1>1, IdleRuns DEF ClearRecovery, At, Goto, Done, Tasks, Recovering, Submitting
  <1>5. Considerate(p)
    BY <1>1, SameSlots DEF ClearRecovery, Considerate, server, Files, At, Recovering,
       Submitting
  <1>6. Files'
    BY <1>1, SameSlots, NaturalSets DEF ClearRecovery, Files, server, machine
  <1>7. Server'
    BY <1>1, ServerSame DEF ClearRecovery, machine, Files
  <1>8. Others'
    BY <1>1 DEF ClearRecovery, Others, machine, hist
  <1> HIDE DEF r
  <1> QED BY <1>2, <1>3, <1>4, <1>5, <1>6, <1>7, <1>8, BaseKept

LEMMA ForgetPointerB ==
  ASSUME Base, NEW p \in Procs, ForgetPointer(p)
  PROVE  Base'
  <1> DEFINE r == proc'[p]
  <1>1. Files /\ Server /\ Others /\ proc \in [Procs -> Tasks] /\ Knows(p) /\ proc[p] \in Tasks
    BY Parts DEF Flowing
  <1>k. proc' = [proc EXCEPT ![p] = Idle] \/ proc' = [proc EXCEPT ![p].pc = "clear"]
    BY DEF ForgetPointer, Goto, Done
  <1>2. r \in Tasks /\ proc' = [proc EXCEPT ![p] = r]
    BY <1>1, NaturalSets, <1>k, IdleRuns DEF Tasks, PCs
  <1>3. Knows(p)'
    BY <1>1, IdleKnows, SameSlots, NaturalSets DEF ForgetPointer, At, Goto, Done, Tasks,
       Knows, Fits, Submitting, Recovering, server
  <1>4. r.pc \in Recovering => proc[p].pc \in Recovering \/ (At(p, "resume") /\ LockFree(p))
    BY <1>1, IdleRuns DEF ForgetPointer, At, Goto, Done, Tasks, Recovering, Submitting
  <1>5. Considerate(p)
    BY <1>1, SameSlots DEF ForgetPointer, Considerate, server, Files
  <1>6. Files'
    BY <1>1, SameSlots, NaturalSets DEF ForgetPointer, Files, server, machine
  <1>7. Server'
    BY <1>1, ServerSame DEF ForgetPointer, machine, Files
  <1>8. Others'
    BY <1>1 DEF ForgetPointer, Others, machine, hist
  <1> HIDE DEF r
  <1> QED BY <1>2, <1>3, <1>4, <1>5, <1>6, <1>7, <1>8, BaseKept

LEMMA SaveBindB ==
  ASSUME Base, NEW p \in Procs, SaveBind(p)
  PROVE  Base'
  <1> DEFINE r == proc'[p]
  <1>1. Files /\ Server /\ Others /\ proc \in [Procs -> Tasks] /\ Knows(p) /\ proc[p] \in Tasks
    BY Parts DEF Flowing
  <1>k. /\ secrets + 1 \in Secret /\ secrets + 1 \in 0..MaxSecrets /\ secrets + 1 # None
        /\ [kid |-> proc[p].kid, secret |-> secrets + 1] \in PendingBinds
        /\ proc[p].kid \in Kid /\ proc[p].kid <= kids /\ proc[p].pc = "save"
    BY <1>1, KeysAssumption, NaturalSets DEF SaveBind, At, Others, Secret, PendingBinds, Knows
  <1>2. r \in Tasks /\ proc' = [proc EXCEPT ![p] = r]
    BY <1>1, NaturalSets, <1>k DEF SaveBind, At, Goto, Done, Idle, Tasks, PCs
  <1>3. Knows(p)'
    BY <1>1, IdleKnows, SameSlots, NaturalSets, <1>k DEF SaveBind, At, Goto, Done, Tasks,
       Knows, Fits, Submitting, Recovering, server
  <1>4. r.pc \in Recovering => proc[p].pc \in Recovering \/ (At(p, "resume") /\ LockFree(p))
    BY <1>1, IdleRuns DEF SaveBind, At, Goto, Done, Tasks, Recovering, Submitting
  <1>5. Considerate(p)
    BY <1>1, SameSlots DEF SaveBind, Considerate, server, Files
  <1>6. Files'
    BY <1>1, SameSlots, NaturalSets, <1>k DEF SaveBind, Files, server, machine
  <1>7. Server'
    BY <1>1, ServerSame DEF SaveBind, machine, Files
  <1>8. Others'
    BY <1>1, <1>k DEF SaveBind, Others, machine, hist
  <1> HIDE DEF r
  <1> QED BY <1>2, <1>3, <1>4, <1>5, <1>6, <1>7, <1>8, BaseKept

LEMMA DeliverBindB ==
  ASSUME Base, NEW p \in Procs, DeliverBind(p)
  PROVE  Base'
  <1> DEFINE r == proc'[p]
  <1>1. Files /\ Server /\ Others /\ proc \in [Procs -> Tasks] /\ Knows(p) /\ proc[p] \in Tasks
    BY Parts DEF Flowing
  <1>k. proc[p].secret \in Secret
    BY <1>1 DEF DeliverBind, At, Knows, Tasks
  <1>2. r \in Tasks /\ proc' = [proc EXCEPT ![p] = r]
    BY <1>1, NaturalSets, <1>k DEF DeliverBind, At, Goto, Done, Idle, Tasks, PCs
  <1>3. Knows(p)'
    BY <1>1, IdleKnows, SameSlots, NaturalSets, <1>k DEF DeliverBind, At, Goto, Done, Tasks,
       Knows, Fits, Submitting, Recovering, server
  <1>4. r.pc \in Recovering => proc[p].pc \in Recovering \/ (At(p, "resume") /\ LockFree(p))
    BY <1>1, IdleRuns DEF DeliverBind, At, Goto, Done, Tasks, Recovering, Submitting
  <1>5. Considerate(p)
    BY <1>1, SameSlots DEF DeliverBind, Considerate, server, machine, Files
  <1>6. Files'
    BY <1>1, SameSlots, NaturalSets, <1>k DEF DeliverBind, Files, server, machine
  <1>7. Server'
    BY <1>1, ServerSame DEF DeliverBind, machine, Files
  <1>8. Others'
    BY <1>1, <1>k DEF DeliverBind, Others, machine, hist
  <1> HIDE DEF r
  <1> QED BY <1>2, <1>3, <1>4, <1>5, <1>6, <1>7, <1>8, BaseKept

LEMMA SaveAddB ==
  ASSUME Base, NEW p \in Procs, SaveAdd(p)
  PROVE  Base'
  <1> DEFINE r == proc'[p]
  <1>1. Files /\ Server /\ Others /\ proc \in [Procs -> Tasks] /\ Knows(p) /\ proc[p] \in Tasks
    BY Parts DEF Flowing
  <1>k. proc[p].kid \in Kid /\ proc[p].kid <= kids
    BY <1>1, NaturalSets DEF SaveAdd, At, Knows
  <1>2. r \in Tasks /\ proc' = [proc EXCEPT ![p] = r]
    BY <1>1, NaturalSets, <1>k DEF SaveAdd, At, Goto, Done, Idle, Tasks, PCs
  <1>3. Knows(p)'
    BY <1>1, IdleKnows, SameSlots, NaturalSets, <1>k DEF SaveAdd, At, Goto, Done, Tasks,
       Knows, Fits, Submitting, Recovering, server
  <1>4. r.pc \in Recovering => proc[p].pc \in Recovering \/ (At(p, "resume") /\ LockFree(p))
    BY <1>1, IdleRuns DEF SaveAdd, At, Goto, Done, Tasks, Recovering, Submitting
  <1>5. Considerate(p)
    BY <1>1, SameSlots DEF SaveAdd, Considerate, server, Files
  <1>6. Files'
    BY <1>1, SameSlots, NaturalSets, <1>k DEF SaveAdd, Files, server, machine
  <1>7. Server'
    BY <1>1, ServerSame DEF SaveAdd, machine, Files
  <1>8. Others'
    BY <1>1, <1>k DEF SaveAdd, Others, machine, hist
  <1> HIDE DEF r
  <1> QED BY <1>2, <1>3, <1>4, <1>5, <1>6, <1>7, <1>8, BaseKept

LEMMA ActivateFieldsB ==
  ASSUME Base, NEW p \in Procs, ActivateFields(p)
  PROVE  Base'
  <1> DEFINE r == proc'[p]
  <1>1. Files /\ Server /\ Others /\ proc \in [Procs -> Tasks] /\ Knows(p) /\ proc[p] \in Tasks
    BY Parts DEF Flowing
  <1>k. /\ {active} \ {None} \in SUBSET Kid
        /\ proc[p].id \in Enrolled /\ proc[p].id \in Id
    BY <1>1, KeysAreKids, EnrolledIds DEF ActivateFields, At, Knows
  <1>2. r \in Tasks /\ proc' = [proc EXCEPT ![p] = r]
    BY <1>1, NaturalSets, <1>k DEF ActivateFields, At, Goto, Done, Idle, Tasks, PCs
  <1>3. Knows(p)'
    BY <1>1, IdleKnows, SameSlots, NaturalSets, <1>k DEF ActivateFields, At, Goto, Done,
       Tasks, Knows, Fits, Submitting, Recovering, server
  <1>4. r.pc \in Recovering => proc[p].pc \in Recovering \/ (At(p, "resume") /\ LockFree(p))
    BY <1>1, IdleRuns DEF ActivateFields, At, Goto, Done, Tasks, Recovering, Submitting
  <1>5. Considerate(p)
    BY <1>1, SameSlots DEF ActivateFields, Considerate, server, Files
  <1>6. Files'
    BY <1>1, SameSlots, NaturalSets, <1>k DEF ActivateFields, Files, server, machine
  <1>7. Server'
    BY <1>1, ServerSame DEF ActivateFields, machine, Files
  <1>8. Others'
    BY <1>1, <1>k DEF ActivateFields, Others, machine, hist
  <1> HIDE DEF r
  <1> QED BY <1>2, <1>3, <1>4, <1>5, <1>6, <1>7, <1>8, BaseKept

LEMMA RetireOldB ==
  ASSUME Base, NEW p \in Procs, RetireOld(p)
  PROVE  Base'
  <1> DEFINE r == proc'[p]
  <1>1. Files /\ Server /\ Others /\ proc \in [Procs -> Tasks] /\ Knows(p) /\ proc[p] \in Tasks
    BY Parts DEF Flowing
  <1>2. r \in Tasks /\ proc' = [proc EXCEPT ![p] = r]
    BY <1>1, NaturalSets DEF RetireOld, At, Goto, Done, Idle, Tasks, PCs
  <1>3. Knows(p)'
    BY <1>1, IdleKnows, SameSlots, NaturalSets DEF RetireOld, At, Goto, Done, Tasks
  <1>4. r.pc \in Recovering => proc[p].pc \in Recovering \/ (At(p, "resume") /\ LockFree(p))
    BY <1>1, IdleRuns DEF RetireOld, At, Goto, Done, Tasks, Recovering, Submitting
  <1>5. Considerate(p)
    BY <1>1, SameSlots DEF RetireOld, Considerate, server, Files
  <1>6. Files'
    BY <1>1, SameSlots, NaturalSets DEF RetireOld, Files, server, machine, Retirable
  <1>7. Server'
    BY <1>1, ServerSame DEF RetireOld, machine, Files
  <1>8. Others'
    BY <1>1 DEF RetireOld, Others, machine, hist
  <1> HIDE DEF r
  <1> QED BY <1>2, <1>3, <1>4, <1>5, <1>6, <1>7, <1>8, BaseKept

LEMMA AfterRevokeB ==
  ASSUME Base, NEW p \in Procs, AfterRevoke(p)
  PROVE  Base'
  <1> DEFINE r == proc'[p]
  <1>1. Files /\ Server /\ Others /\ proc \in [Procs -> Tasks] /\ Knows(p) /\ proc[p] \in Tasks
    BY Parts DEF Flowing
  <1>k. \/ proc' = [proc EXCEPT ![p] = Idle] /\ keys' = keys \ Retirable({proc[p].kid}) /\ binding' = binding
        \/ proc' = [proc EXCEPT ![p].pc = "unpoint"] /\ keys' = keys /\ binding' = None
    BY DEF AfterRevoke, Goto, Done
  <1>2. r \in Tasks /\ proc' = [proc EXCEPT ![p] = r]
    BY <1>1, NaturalSets, <1>k, IdleRuns DEF Tasks, PCs
  <1>3. Knows(p)'
    BY <1>1, IdleKnows, SameSlots, NaturalSets DEF AfterRevoke, At, Goto, Done, Tasks,
       Knows, Fits, Reconciling, Submitting, Recovering, server
  <1>4. r.pc \in Recovering => proc[p].pc \in Recovering \/ (At(p, "resume") /\ LockFree(p))
    BY <1>1, IdleRuns DEF AfterRevoke, At, Goto, Done, Tasks, Recovering, Submitting
  <1>5. Considerate(p)
    BY <1>1, SameSlots DEF AfterRevoke, Considerate, server, Files
  <1>6. Files'
    BY <1>1, SameSlots, NaturalSets DEF AfterRevoke, Files, server, Retirable
  <1>7. Server'
    BY <1>1, ServerSame DEF AfterRevoke, machine, Files
  <1>8. Others'
    BY <1>1 DEF AfterRevoke, Others, machine, hist
  <1> HIDE DEF r
  <1> QED BY <1>2, <1>3, <1>4, <1>5, <1>6, <1>7, <1>8, BaseKept

LEMMA StageRecoveryB ==
  ASSUME Base, NEW p \in Procs, StageRecovery(p)
  PROVE  Base'
  <1> DEFINE r == proc'[p]
  <1>1. Files /\ Server /\ Others /\ proc \in [Procs -> Tasks] /\ Knows(p) /\ proc[p] \in Tasks
    BY Parts DEF Flowing
  <1>k. /\ kids \in Nat /\ kids + 1 \in Nat /\ kids + 1 \in Kid /\ kids + 1 \in 0..MaxKeys /\ kids <= kids + 1
        /\ 1..kids \cup {kids + 1} \subseteq 1..(kids + 1)
    BY <1>1, KeysAssumption DEF Files, StageRecovery, Kid
  <1>2. r \in Tasks /\ proc' = [proc EXCEPT ![p] = r]
    BY <1>1, NaturalSets, <1>k DEF StageRecovery, At, Goto, Done, Idle, Tasks, PCs
  <1>3. Knows(p)'
    BY <1>1, IdleKnows, SameSlots, NaturalSets, <1>k DEF StageRecovery, At, Goto, Done,
       Tasks, Knows
  <1>4. r.pc \in Recovering => proc[p].pc \in Recovering \/ (At(p, "resume") /\ LockFree(p))
    BY <1>1, IdleRuns DEF StageRecovery, At, Goto, Done, Tasks, Recovering, Submitting
  <1>5. Considerate(p)
    BY <1>1, SameSlots DEF StageRecovery, Considerate, server, Files
  <1>6. Files'
    <2>1. keys' \subseteq 1..kids' /\ kids' \in 0..MaxKeys /\ active' \in keys' \cup {None}
      BY <1>1, <1>k DEF StageRecovery, Files
    <2>2. \A n \in Nat : n <= kids => n <= kids'
      BY <1>k DEF StageRecovery
    <2>3. /\ pendBind # None => pendBind.kid \in Nat
          /\ pendAdd # None => pendAdd \in Nat
          /\ pendRec # None => pendRec.kid \in Nat
      BY <1>1, NaturalSets DEF Files, PendingBinds, PendingRecoveries
    <2> QED BY <1>1, <2>1, <2>2, <2>3, SameSlots DEF StageRecovery, Files, server, machine
  <1>7. Server'
    BY <1>1, ServerSame DEF StageRecovery, machine, Files
  <1>8. Others'
    BY <1>1, <1>k DEF StageRecovery, Others, machine, hist
  <1> HIDE DEF r
  <1> QED BY <1>2, <1>3, <1>4, <1>5, <1>6, <1>7, <1>8, BaseKept

LEMMA SaveRecoveryB ==
  ASSUME Base, NEW p \in Procs, SaveRecovery(p)
  PROVE  Base'
  <1> DEFINE r == proc'[p]
  <1>1. Files /\ Server /\ Others /\ proc \in [Procs -> Tasks] /\ Knows(p) /\ proc[p] \in Tasks
    BY Parts DEF Flowing
  <1>j. /\ proc[p].kid \in Kid /\ proc[p].kid <= kids /\ proc[p].id \in Secret
        /\ proc[p].secret \in delivered /\ proc[p].secret \in Secret
    BY <1>1, NaturalSets DEF SaveRecovery, At, Knows, Others, Recovering, Submitting
  <1>k. /\ [kid |-> proc[p].kid, old |-> proc[p].id, secret |-> proc[p].secret] \in PendingRecoveries
        /\ proc[p].kid <= kids /\ proc[p].secret \in delivered
        /\ pendRec' = [kid |-> proc[p].kid, old |-> proc[p].id, secret |-> proc[p].secret]
        /\ pendRec' # None
    BY <1>1, <1>j, NoneIsAbsent DEF SaveRecovery, PendingRecoveries
  <1>2. r \in Tasks /\ proc' = [proc EXCEPT ![p] = r]
    BY <1>1, NaturalSets, <1>k DEF SaveRecovery, At, Goto, Done, Idle, Tasks, PCs
  <1>3. Knows(p)'
    BY <1>1, IdleKnows, SameSlots, NaturalSets, <1>k DEF SaveRecovery, At, Goto, Done,
       Tasks, Knows, Fits, Reconciling, Recovering, server
  <1>4. r.pc \in Recovering => proc[p].pc \in Recovering \/ (At(p, "resume") /\ LockFree(p))
    BY <1>1, IdleRuns DEF SaveRecovery, At, Goto, Done, Tasks, Recovering, Submitting
  <1>5. Considerate(p)
    BY <1>1, SameSlots DEF SaveRecovery, Considerate, server, Files, At, Recovering
  <1>6. Files'
    BY <1>1, SameSlots, NaturalSets, <1>k DEF SaveRecovery, Files, server, machine
  <1>7. Server'
    BY <1>1, ServerSame DEF SaveRecovery, machine, Files
  <1>8. Others'
    BY <1>1, <1>k DEF SaveRecovery, Others, machine, hist
  <1> HIDE DEF r
  <1> QED BY <1>2, <1>3, <1>4, <1>5, <1>6, <1>7, <1>8, BaseKept

LEMMA RetireRejectedB ==
  ASSUME Base, NEW p \in Procs, RetireRejected(p)
  PROVE  Base'
  <1> DEFINE r == proc'[p]
  <1>1. Files /\ Server /\ Others /\ proc \in [Procs -> Tasks] /\ Knows(p) /\ proc[p] \in Tasks
    BY Parts DEF Flowing
  <1>2. r \in Tasks /\ proc' = [proc EXCEPT ![p] = r]
    BY <1>1, NaturalSets DEF RetireRejected, At, Goto, Done, Idle, Tasks, PCs
  <1>3. Knows(p)'
    BY <1>1, IdleKnows, SameSlots, NaturalSets DEF RetireRejected, At, Goto, Done, Tasks,
       Knows, Fits, Reconciling, Submitting, Recovering, server
  <1>4. r.pc \in Recovering => proc[p].pc \in Recovering \/ (At(p, "resume") /\ LockFree(p))
    BY <1>1, IdleRuns DEF RetireRejected, At, Goto, Done, Tasks, Recovering, Submitting
  <1>5. Considerate(p)
    BY <1>1, SameSlots DEF RetireRejected, Considerate, server, Files
  <1>6. Files'
    BY <1>1, SameSlots, NaturalSets DEF RetireRejected, Files, server, machine, Retirable
  <1>7. Server'
    BY <1>1, ServerSame DEF RetireRejected, machine, Files
  <1>8. Others'
    BY <1>1 DEF RetireRejected, Others, machine, hist
  <1> HIDE DEF r
  <1> QED BY <1>2, <1>3, <1>4, <1>5, <1>6, <1>7, <1>8, BaseKept

LEMMA RecoveryFieldsB ==
  ASSUME Base, NEW p \in Procs, RecoveryFields(p)
  PROVE  Base'
  <1> DEFINE r == proc'[p]
  <1>1. Files /\ Server /\ Others /\ proc \in [Procs -> Tasks] /\ Knows(p) /\ proc[p] \in Tasks
    BY Parts DEF Flowing
  <1>k. proc[p].id \in Enrolled /\ proc[p].id \in Id
    BY <1>1, EnrolledIds DEF RecoveryFields, At, Knows
  <1>2. r \in Tasks /\ proc' = [proc EXCEPT ![p] = r]
    BY <1>1, NaturalSets, <1>k DEF RecoveryFields, At, Goto, Done, Idle, Tasks, PCs
  <1>3. Knows(p)'
    BY <1>1, IdleKnows, SameSlots, NaturalSets, <1>k DEF RecoveryFields, At, Goto, Done,
       Tasks, Knows, Fits, Reconciling, Submitting, Recovering, server
  <1>4. r.pc \in Recovering => proc[p].pc \in Recovering \/ (At(p, "resume") /\ LockFree(p))
    BY <1>1, IdleRuns DEF RecoveryFields, At, Goto, Done, Tasks, Recovering, Submitting
  <1>5. Considerate(p)
    BY <1>1, SameSlots DEF RecoveryFields, Considerate, server, Files
  <1>6. Files'
    BY <1>1, SameSlots, NaturalSets, <1>k DEF RecoveryFields, Files, server, machine
  <1>7. Server'
    BY <1>1, ServerSame DEF RecoveryFields, machine, Files
  <1>8. Others'
    BY <1>1, <1>k DEF RecoveryFields, Others, machine, hist
  <1> HIDE DEF r
  <1> QED BY <1>2, <1>3, <1>4, <1>5, <1>6, <1>7, <1>8, BaseKept

LEMMA DeliverRootB ==
  ASSUME Base, NEW p \in Procs, DeliverRoot(p)
  PROVE  Base'
  <1> DEFINE r == proc'[p]
  <1>1. Files /\ Server /\ Others /\ proc \in [Procs -> Tasks] /\ Knows(p) /\ proc[p] \in Tasks
    BY Parts DEF Flowing
  <1>k. secrets + 1 \in Secret /\ secrets + 1 \in 0..MaxSecrets /\ secrets + 1 # None
    BY <1>1, KeysAssumption, NaturalSets DEF DeliverRoot, Others, Secret
  <1>2. r \in Tasks /\ proc' = [proc EXCEPT ![p] = r]
    BY <1>1, NaturalSets, <1>k DEF DeliverRoot, At, Goto, Done, Idle, Tasks, PCs
  <1>3. Knows(p)'
    BY <1>1, IdleKnows, SameSlots, NaturalSets, <1>k DEF DeliverRoot, At, Goto, Done, Tasks,
       Knows, Fits, Reconciling, Submitting, Recovering, server
  <1>4. r.pc \in Recovering => proc[p].pc \in Recovering \/ (At(p, "resume") /\ LockFree(p))
    BY <1>1, IdleRuns DEF DeliverRoot, At, Goto, Done, Tasks, Recovering, Submitting
  <1>5. Considerate(p)
    BY <1>1, SameSlots DEF DeliverRoot, Considerate, server, machine, Files
  <1>6. Files'
    BY <1>1, SameSlots, NaturalSets, <1>k DEF DeliverRoot, Files, server, machine
  <1>7. Server'
    BY <1>1, ServerSame DEF DeliverRoot, machine, Files
  <1>8. Others'
    BY <1>1, <1>k DEF DeliverRoot, Others, machine, hist
  <1> HIDE DEF r
  <1> QED BY <1>2, <1>3, <1>4, <1>5, <1>6, <1>7, <1>8, BaseKept

LEMMA RetireUnlistedB ==
  ASSUME Base, NEW p \in Procs, RetireUnlisted(p)
  PROVE  Base'
  <1> DEFINE r == proc'[p]
  <1>1. Files /\ Server /\ Others /\ proc \in [Procs -> Tasks] /\ Knows(p) /\ proc[p] \in Tasks
    BY Parts DEF Flowing
  <1>k. keys \subseteq Kid /\ active \notin Retirable(proc[p].local \ Listed(proc[p].snap)) /\ Retirable(proc[p].local \ Listed(proc[p].snap)) \subseteq keys
    <2>1. keys \subseteq Kid
      BY <1>1, KeysAreKids
    <2> QED BY <2>1 DEF Retirable
  <1>2. r \in Tasks /\ proc' = [proc EXCEPT ![p] = r]
    <2>1. /\ r = IF ~proc[p].changed
                 THEN [proc[p] EXCEPT !.pc = "proceed", !.kid = None, !.local = {}]
                 ELSE IF proc[p].flow = "bind" THEN [proc[p] EXCEPT !.pc = "clear"] ELSE Idle
          /\ proc' = [proc EXCEPT ![p] = r]
      BY <1>1 DEF RetireUnlisted
    <2>2. "proceed" \in PCs /\ "clear" \in PCs
      BY DEF PCs
    <2>3. /\ [proc[p] EXCEPT !.pc = "proceed", !.kid = None, !.local = {}] \in Tasks
          /\ [proc[p] EXCEPT !.pc = "clear"] \in Tasks
      BY <1>1, <2>2 DEF Tasks
    <2> HIDE DEF r
    <2> QED BY <2>1, <2>3, IdleRuns
  <1>3. Knows(p)'
    BY <1>1, IdleKnows, SameSlots, NaturalSets, <1>k DEF RetireUnlisted, At, Goto, Done,
       Tasks, Knows, Fits, Reconciling, Submitting, Recovering, server
  <1>4. r.pc \in Recovering => proc[p].pc \in Recovering \/ (At(p, "resume") /\ LockFree(p))
    BY <1>1, IdleRuns DEF RetireUnlisted, At, Goto, Done, Tasks, Recovering, Submitting
  <1>5. Considerate(p)
    BY <1>1, SameSlots DEF RetireUnlisted, Considerate, server, Files
  <1>6. Files'
    BY <1>1, SameSlots, NaturalSets, <1>k DEF RetireUnlisted, Files, server, machine
  <1>7. Server'
    BY <1>1, ServerSame DEF RetireUnlisted, machine, Files
  <1>8. Others'
    BY <1>1, <1>k DEF RetireUnlisted, Others, machine, hist
  <1> HIDE DEF r
  <1> QED BY <1>2, <1>3, <1>4, <1>5, <1>6, <1>7, <1>8, BaseKept

LEMMA DeliverReplacementOn ==
  ASSUME Base, NEW p \in Procs, DeliverReplacement(p), root \in delivered
  PROVE  Base'
  <1> DEFINE r == proc'[p]
  <1>1. Files /\ Server /\ Others /\ proc \in [Procs -> Tasks] /\ Knows(p) /\ proc[p] \in Tasks
    BY Parts DEF Flowing
  <1>k. /\ secrets + 1 \in Secret /\ secrets + 1 \in 0..MaxSecrets /\ secrets + 1 # None
        /\ root \in Secret
    BY <1>1, KeysAssumption, NaturalSets DEF DeliverReplacement, Others, Secret, Server
  <1>2. r \in Tasks /\ proc' = [proc EXCEPT ![p] = r]
    BY <1>1, NaturalSets, <1>k DEF DeliverReplacement, At, Goto, Done, Idle, Tasks, PCs
  <1>3. Knows(p)'
    BY <1>1, IdleKnows, SameSlots, NaturalSets, <1>k DEF DeliverReplacement, At, Goto,
       Done, Tasks, Knows, Fits, Reconciling, Submitting, Recovering, server
  <1>4. r.pc \in Recovering => proc[p].pc \in Recovering \/ (At(p, "resume") /\ LockFree(p))
    BY <1>1, IdleRuns DEF DeliverReplacement, At, Goto, Done, Tasks, Recovering, Submitting
  <1>5. Considerate(p)
    BY <1>1, SameSlots DEF DeliverReplacement, Considerate, server, machine, Files
  <1>6. Files'
    BY <1>1, SameSlots, NaturalSets, <1>k DEF DeliverReplacement, Files, server, machine
  <1>7. Server'
    BY <1>1, ServerSame DEF DeliverReplacement, machine, Files
  <1>8. Others'
    BY <1>1, <1>k DEF DeliverReplacement, Others, machine, hist
  <1> HIDE DEF r
  <1> QED BY <1>2, <1>3, <1>4, <1>5, <1>6, <1>7, <1>8, BaseKept

LEMMA DeliverReplacementB ==
  ASSUME Base, NEW p \in Procs, DeliverReplacement(p)
  PROVE  Base'
  <1>1. CASE root \in delivered
    BY <1>1, DeliverReplacementOn
  <1>2. CASE ~(root \in delivered)
    BY <1>2, Parts, EndsB DEF DeliverReplacement, machine, server, hist, Others
  <1> QED BY <1>1, <1>2

(* What a reconciliation adopts.                                             *)
LEMMA Adoption ==
  ASSUME Base, NEW p \in Procs, AdoptFields(p)
  PROVE  \E s \in Mine(p), c \in {"point", "retire"}, d \in BOOLEAN :
           /\ binding' = IF proc[p].rec # s.id THEN s.id ELSE binding
           /\ c = "point" <=> active # s.kid
           /\ d <=> (proc[p].rec # s.id \/ active # s.kid)
           /\ proc' = [proc EXCEPT ![p].pc = c, ![p].kid = s.kid, ![p].local = keys,
                                   ![p].changed = d]
  <1>1. PICK s \in Mine(p) :
          /\ binding' = IF proc[p].rec # s.id THEN s.id ELSE binding
          /\ proc' = [proc EXCEPT ![p].pc = IF active # s.kid THEN "point" ELSE "retire",
                                  ![p].kid = s.kid, ![p].local = keys,
                                  ![p].changed = proc[p].rec # s.id \/ active # s.kid]
    BY DEF AdoptFields
  <1>2. PICK c \in {"point", "retire"} : c = IF active # s.kid THEN "point" ELSE "retire"
    OBVIOUS
  <1>3. PICK d \in BOOLEAN : d = (proc[p].rec # s.id \/ active # s.kid)
    OBVIOUS
  <1> QED BY <1>1, <1>2, <1>3

LEMMA AdoptFieldsB ==
  ASSUME Base, NEW p \in Procs, AdoptFields(p)
  PROVE  Base'
  <1>1. Files /\ Server /\ Others /\ proc \in [Procs -> Tasks] /\ Knows(p) /\ proc[p] \in Tasks
    BY Parts DEF Flowing
  <1>2. PICK s \in Mine(p), c \in {"point", "retire"}, d \in BOOLEAN :
           /\ binding' = IF proc[p].rec # s.id THEN s.id ELSE binding
           /\ c = "point" <=> active # s.kid
           /\ d <=> (proc[p].rec # s.id \/ active # s.kid)
           /\ proc' = [proc EXCEPT ![p].pc = c, ![p].kid = s.kid, ![p].local = keys,
                                   ![p].changed = d]
    BY Adoption
  <1>3. s \in proc[p].snap /\ s.kid \in Kid /\ s.kid <= kids /\ s.id \in Id
    BY <1>1, <1>2, KeysAreKids DEF Mine, Live, Tasks, Slot
  <1>4. s.id \in Enrolled
    BY <1>1, <1>3, NaturalSets DEF Knows, Enrolled
  <1> DEFINE r == proc'[p]
  <1>5. r \in Tasks /\ proc' = [proc EXCEPT ![p] = r]
    <2>1. s.kid \in 0..MaxKeys \cup {None} /\ keys \in SUBSET Kid /\ c \in PCs
      BY <1>1, <1>3, KeysAreKids, NaturalSets DEF PCs
    <2>2. r = [proc[p] EXCEPT !.pc = c, !.kid = s.kid, !.local = keys, !.changed = d]
      BY <1>1, <1>2
    <2>3. proc' = [proc EXCEPT ![p] = r]
      BY <1>1, <1>2
    <2> HIDE DEF r
    <2>4. r \in Tasks
      BY <1>1, <2>1, <2>2 DEF Tasks
    <2> QED BY <2>3, <2>4
  <1>6. /\ r.pc = c /\ r.kid = s.kid
        /\ r.rec = proc[p].rec /\ r.snap = proc[p].snap
        /\ r.flow = proc[p].flow /\ proc[p].flow \in {"bind", "rotate", "add", "list"}
    BY <1>1, <1>2 DEF AdoptFields, At, Knows, Fits, Reconciling, Tasks
  <1>7. UNCHANGED <<keys, active, pendBind, pendAdd, pendRec, server, delivered, kids,
                    secrets, faults, hist>>
    BY DEF AdoptFields
  <1>8. Knows(p)'
    BY <1>1, <1>2, <1>3, <1>6, <1>7, SameSlots
    DEF Knows, Fits, Reconciling, Recovering, Submitting, server
  <1>9. Files' /\ Server' /\ Others'
    BY <1>1, <1>2, <1>3, <1>4, <1>7, SameSlots, ServerSame DEF Files, Others, server, hist
  <1>10. Considerate(p) /\ r.pc \notin Recovering
    BY <1>1, <1>6, <1>7, SameSlots DEF Considerate, server, Files, Recovering, Submitting
  <1> HIDE DEF r
  <1> QED BY <1>5, <1>8, <1>9, <1>10, BaseKept

(* What a proposal consists of.                                              *)
LEMMA Proposal ==
  ASSUME Base, NEW p \in Procs, Propose(p)
  PROVE  \E k \in Kid, c \in {"save", "approve", "commit"} :
           /\ proc' = [proc EXCEPT ![p].pc = c, ![p].kid = k]
           /\ \/ c = "save" /\ proc[p].flow = "bind"
              \/ c = "approve" /\ proc[p].flow = "add"
              \/ c = "commit" /\ proc[p].flow = "rotate"
           /\ \/ /\ k \in Candidates(p) /\ UNCHANGED <<keys, kids>>
                 /\ shared' = shared \cup ({k} \cap PendingKids)
              \/ /\ k = kids + 1 /\ kids' = k /\ keys' = keys \cup {k}
                 /\ UNCHANGED shared
  <1>1. Files /\ proc \in [Procs -> Tasks]
    BY Parts
  <1>2. proc[p].flow \in {"bind", "add", "rotate"}
    BY DEF Propose, Unproposed
  <1>3. PICK c \in {"save", "approve", "commit"} :
          /\ \/ c = "save" /\ proc[p].flow = "bind"
             \/ c = "approve" /\ proc[p].flow = "add"
             \/ c = "commit" /\ proc[p].flow = "rotate"
          /\ c = CASE proc[p].flow = "bind" -> "save"
                   [] proc[p].flow = "add" -> "approve"
                   [] proc[p].flow = "rotate" -> "commit"
    BY <1>2
  <1>4. CASE Candidates(p) # {}
    <2>1. Max(Candidates(p)) \in Candidates(p) /\ Candidates(p) \subseteq Kid
      BY <1>1, <1>4, KeysAreKids, NewestIsOne DEF Candidates
    <2>2. /\ proc' = [proc EXCEPT ![p].pc = c, ![p].kid = Max(Candidates(p))]
          /\ shared' = shared \cup ({Max(Candidates(p))} \cap PendingKids)
          /\ UNCHANGED <<keys, kids>>
      BY <1>3, <1>4 DEF Propose
    <2> QED BY <1>3, <2>1, <2>2
  <1>5. CASE Candidates(p) = {}
    <2>1. /\ kids + 1 \in Kid /\ kids' = kids + 1 /\ keys' = keys \cup {kids + 1}
          /\ UNCHANGED shared
          /\ proc' = [proc EXCEPT ![p].pc = c, ![p].kid = kids + 1]
      BY <1>1, <1>3, <1>5, KeysAssumption DEF Propose, Files, Kid
    <2> QED BY <1>3, <2>1
  <1> QED BY <1>4, <1>5

LEMMA ProposeB ==
  ASSUME Base, NEW p \in Procs, Propose(p)
  PROVE  Base'
  <1>1. Files /\ Server /\ Others /\ proc \in [Procs -> Tasks] /\ Knows(p) /\ proc[p] \in Tasks
    BY Parts DEF Flowing
  <1>2. PICK k \in Kid, c \in {"save", "approve", "commit"} :
           /\ proc' = [proc EXCEPT ![p].pc = c, ![p].kid = k]
           /\ \/ c = "save" /\ proc[p].flow = "bind"
              \/ c = "approve" /\ proc[p].flow = "add"
              \/ c = "commit" /\ proc[p].flow = "rotate"
           /\ \/ /\ k \in Candidates(p) /\ UNCHANGED <<keys, kids>>
                 /\ shared' = shared \cup ({k} \cap PendingKids)
              \/ /\ k = kids + 1 /\ kids' = k /\ keys' = keys \cup {k}
                 /\ UNCHANGED shared
    BY Proposal
  <1>3. UNCHANGED <<active, binding, pendBind, pendAdd, pendRec, server, delivered,
                    secrets, faults, overlapped>>
    BY DEF Propose
  <1>4. /\ k <= kids' /\ kids \in Nat /\ kids' \in 0..MaxKeys /\ kids' \in Nat /\ kids <= kids'
        /\ k \in Nat /\ keys' \subseteq 1..kids' /\ keys \subseteq keys'
    <2>1. CASE k \in Candidates(p) /\ UNCHANGED <<keys, kids>>
      BY <1>1, <2>1, NaturalSets, KeysAreKids DEF Files, Candidates
    <2>2. CASE k = kids + 1 /\ kids' = k /\ keys' = keys \cup {k}
      <3>1. kids \in Nat /\ k \in 1..MaxKeys /\ MaxKeys \in Nat
        BY <1>1, KeysAssumption DEF Files, Kid
      <3>2. keys \subseteq 1..kids
        BY <1>1 DEF Files
      <3> QED BY <2>2, <3>1, <3>2
    <2> QED BY <1>2, <2>1, <2>2
  <1> DEFINE r == proc'[p]
  <1>5. r \in Tasks /\ proc' = [proc EXCEPT ![p] = r]
    <2>1. r = [proc[p] EXCEPT !.pc = c, !.kid = k] /\ proc' = [proc EXCEPT ![p] = r]
      BY <1>1, <1>2
    <2>2. c \in PCs /\ k \in 0..MaxKeys \cup {None}
      BY NaturalSets DEF PCs
    <2> HIDE DEF r
    <2>3. r \in Tasks
      BY <1>1, <2>1, <2>2 DEF Tasks
    <2> QED BY <2>1, <2>3
  <1>6. /\ r.pc = c /\ r.kid = k /\ r.rec = proc[p].rec /\ r.snap = proc[p].snap
        /\ r.flow = proc[p].flow
    BY <1>1, <1>2 DEF Tasks
  <1> HIDE DEF r
  <1>7. Knows(p)'
    BY <1>1, <1>2, <1>3, <1>4, <1>6, SameSlots
    DEF Knows, Fits, Reconciling, Recovering, Submitting, server
  <1>8. Files'
    <2>1. \A n \in Nat : n <= kids => n <= kids'
      BY <1>4
    <2>2. /\ pendBind # None => pendBind.kid \in Nat
          /\ pendAdd # None => pendAdd \in Nat
          /\ pendRec # None => pendRec.kid \in Nat
      BY <1>1, NaturalSets DEF Files, PendingBinds, PendingRecoveries
    <2> QED BY <1>1, <1>3, <1>4, <2>1, <2>2, SameSlots DEF Files, server
  <1>9. Server' /\ Others'
    BY <1>1, <1>2, <1>3, <1>4, ServerSame DEF Others
  <1>10. Considerate(p) /\ r.pc \notin Recovering
    BY <1>1, <1>2, <1>3, <1>4, <1>6, SameSlots DEF Considerate, server, Recovering,
       Submitting
  <1> QED BY <1>5, <1>7, <1>8, <1>9, <1>10, BaseKept

LEMMA CommitRootB ==
  ASSUME Base, NEW p \in Procs, CommitRoot(p)
  PROVE  Base'
  <1>1. Files /\ Server /\ Others /\ proc \in [Procs -> Tasks] /\ Knows(p) /\ proc[p] \in Tasks
    BY Parts DEF Flowing
  <1>2. proc[p].secret \in delivered /\ proc[p].secret \in Secret /\ root' = proc[p].secret
    BY <1>1 DEF CommitRoot, At, Knows, Others
  <1>3. Idle \in Tasks /\ proc' = [proc EXCEPT ![p] = Idle] /\ proc'[p] = Idle
    BY <1>1, IdleRuns DEF CommitRoot, Done
  <1>4. UNCHANGED <<machine, slots, accepted, delivered, kids, secrets, faults, hist>>
    BY DEF CommitRoot
  <1>5. Files' /\ Server' /\ Others'
    BY <1>1, <1>2, <1>4, SameSlots, NaturalSets DEF Files, Server, Others, machine, hist
  <1>6. Considerate(p)
    BY <1>1, <1>4, SameSlots DEF Considerate, machine, Files
  <1> QED BY <1>3, <1>5, <1>6, IdleRuns, IdleKnows, BaseKept

\* The slots, as Server has them
Slots ==
    slots \subseteq Slot /\ Listed(slots) \subseteq 0..kids /\ Numbered /\ LiveUnique

LEMMA SlotNumbers ==
  ASSUME Slots
  PROVE  /\ Cardinality(slots) \in Nat /\ Fresh \in Nat \ {0}
         /\ \A s \in slots : s.id \in Nat /\ s.id # Fresh /\ s.id < Fresh
  <1>1. Cardinality(slots) \in Nat
    BY FS_CardinalityType DEF Slots, Numbered
  <1>2. \A s \in slots : s.id \in Nat /\ s.id <= Cardinality(slots)
    BY NaturalSets DEF Slots, Numbered, Slot
  <1> QED BY <1>1, <1>2 DEF Fresh

(* A slot with a key that no active slot has is enrolled.                     *)
LEMMA SlotEnrolled ==
  ASSUME Slots, UNCHANGED kids, NEW k \in (Kid \cup {Foreign}) \cap 0..kids,
         \A s \in Live(slots) : s.kid # k, Fresh <= MaxIds,
         NEW t, t = [id |-> Fresh, kid |-> k, live |-> TRUE], slots' = slots \cup {t}
  PROVE  Slots' /\ Tracked
  <1>1. Numbered'
    <2>1. t.id = Fresh /\ t \notin slots
      BY SlotNumbers
    <2>2. IsFiniteSet(slots') /\ Cardinality(slots') = Fresh
      BY <2>1, FS_AddElement, FS_CardinalityType DEF Slots, Numbered, Fresh
    <2>3. \A s \in slots' : s = t \/ (s \in slots /\ s.id < Fresh)
      BY SlotNumbers
    <2>4. \A s, u \in slots : s.id = u.id => s = u
      BY DEF Slots, Numbered
    <2>5. \A s \in slots' : s.id <= Fresh
      BY <2>1, <2>3, SlotNumbers
    <2>6. \A s, u \in slots' : s.id = u.id => s = u
      <3>1. ASSUME NEW s \in slots', NEW u \in slots', s.id = u.id PROVE s = u
        <4>1. Fresh \in Nat /\ \A v \in slots : v.id # Fresh
          BY SlotNumbers
        <4> QED BY <2>1, <2>3, <2>4, <3>1, <4>1
      <3> QED BY <3>1
    <2>7. \A s \in slots' : s.id <= Cardinality(slots')
      BY <2>2, <2>5
    <2> QED BY <2>2, <2>6, <2>7 DEF Numbered
  <1>2. t \in Slot
    BY SlotNumbers, KeysAssumption DEF Slot, Id
  <1>3. LiveUnique'
    <2>1. \A s \in Live(slots)' : s = t \/ s \in Live(slots)
      BY DEF Live
    <2>2. t.kid = k
      OBVIOUS
    <2>3. \A s, u \in Live(slots) : s.kid = u.kid => s = u
      BY DEF LiveUnique, Slots
    <2> QED BY <2>1, <2>2, <2>3 DEF LiveUnique
  <1>4. Tracked
    BY DEF Tracked
  <1>5. Listed(slots') \subseteq 0..kids'
    BY DEF Slots, Listed
  <1> QED BY <1>1, <1>2, <1>3, <1>4, <1>5 DEF Slots

(* A slot that changes keeps its number, and its new key is its own.          *)
LEMMA SlotChanged ==
  ASSUME Slots, UNCHANGED kids, NEW s \in slots, NEW t \in Slot, t.id = s.id,
         t.live => s.live, t.kid \in 0..kids,
         t.kid = s.kid \/ \A u \in Live(slots) : u.kid # t.kid,
         t.kid = Foreign <=> s.kid = Foreign,
         slots' = (slots \ {s}) \cup {t}
  PROVE  Slots' /\ Tracked
  <1>1. Numbered'
    <2>1. t \notin slots \ {s}
      BY DEF Slots, Numbered
    <2>2. IsFiniteSet(slots \ {s}) /\ Cardinality(slots \ {s}) = Cardinality(slots) - 1
      BY FS_RemoveElement DEF Slots, Numbered
    <2>3. /\ IsFiniteSet((slots \ {s}) \cup {t})
          /\ Cardinality((slots \ {s}) \cup {t}) = Cardinality(slots \ {s}) + 1
      BY <2>1, <2>2, FS_AddElement
    <2>4. IsFiniteSet(slots') /\ Cardinality(slots') = Cardinality(slots)
      <3>1. Cardinality(slots) \in Nat
        BY SlotNumbers
      <3> QED BY <2>2, <2>3, <3>1
    <2>5. \A u \in slots : u.id <= Cardinality(slots)
      BY DEF Slots, Numbered
    <2>6. \A u, v \in slots : u.id = v.id => u = v
      BY DEF Slots, Numbered
    <2>7. \A u \in slots' : u = t \/ (u \in slots /\ u # s)
      OBVIOUS
    <2>8. \A u \in slots' : u.id <= Cardinality(slots)
      BY <2>5, <2>7
    <2>9. \A u, v \in slots' : u.id = v.id => u = v
      BY <2>6, <2>7
    <2> QED BY <2>4, <2>8, <2>9 DEF Numbered
  <1>2. \A u, v \in slots : u.id = v.id => u = v
    BY DEF Slots, Numbered
  <1>3. LiveUnique'
    <2>1. \A u \in Live(slots) : u # s => ~t.live \/ u.kid # t.kid
      BY DEF LiveUnique, Slots, Live
    <2> QED BY <2>1 DEF LiveUnique, Slots, Live
  <1>4. Tracked
    BY DEF Tracked
  <1> QED BY <1>1, <1>3, <1>4 DEF Slots, Listed

\* A revoked slot
Ended(s) == [s EXCEPT !.live = FALSE]

LEMMA SlotEnded ==
  ASSUME NEW s \in Slot
  PROVE  Ended(s) \in Slot /\ Ended(s).id = s.id /\ Ended(s).kid = s.kid /\ ~Ended(s).live
  BY DEF Ended, Slot

(* A recovery revokes every slot and adds one.                                *)
LEMMA SlotsReplaced ==
  ASSUME Slots, UNCHANGED kids, NEW k \in Kid, k <= kids, Fresh <= MaxIds,
         NEW t, t = [id |-> Fresh, kid |-> k, live |-> TRUE],
         slots' = {[s EXCEPT !.live = FALSE] : s \in slots} \cup {t}
  PROVE  Slots' /\ Tracked
  <1> DEFINE R == {Ended(s) : s \in slots}
             f == [s \in slots |-> Ended(s)]
  <1>1. \A s \in slots : s \in Slot /\ Ended(s) \in Slot /\ Ended(s).id = s.id
                         /\ Ended(s).kid = s.kid /\ ~Ended(s).live
    BY SlotEnded DEF Slots
  <1>2. \A s, u \in slots : Ended(s).id = Ended(u).id => s = u
    BY <1>1 DEF Slots, Numbered
  <1>3. f \in Bijection(slots, R)
    <2>1. f \in [slots -> R] /\ (\A s \in slots : f[s] = Ended(s))
      OBVIOUS
    <2>2. \A r \in R : \E s \in slots : f[s] = r
      BY <2>1
    <2>3. \A s, u \in slots : f[s] = f[u] => s = u
      BY <1>2, <2>1
    <2> HIDE DEF f, R
    <2> QED BY <2>1, <2>2, <2>3 DEF Bijection, Injection, Surjection, IsInjective
  <1>4. slots' = R \cup {t} /\ \A r \in R : \E s \in slots : r = Ended(s)
    BY DEF Ended
  <1>5. \A s \in slots : Ended(s) \in R
    OBVIOUS
  <1> HIDE DEF f, R
  <1>6. IsFiniteSet(R) /\ Cardinality(R) = Cardinality(slots)
    <2>1. ExistsBijection(slots, R) /\ IsFiniteSet(slots)
      BY <1>3 DEF ExistsBijection, Slots, Numbered
    <2> QED BY <2>1, FS_Bijection
  <1>7. t.id = Fresh /\ t.kid = k /\ t \notin R
    BY <1>1, <1>4, SlotNumbers
  <1>8. IsFiniteSet(slots') /\ Cardinality(slots') = Fresh
    <2>1. IsFiniteSet(R \cup {t}) /\ Cardinality(R \cup {t}) = Cardinality(R) + 1
      BY <1>6, <1>7, FS_AddElement
    <2> QED BY <1>4, <1>6, <2>1 DEF Fresh
  <1>9. \A r \in R : r.id \in Nat /\ r.id < Fresh /\ r.kid \in 0..kids /\ r \in Slot /\ ~r.live
    BY <1>1, <1>4, SlotNumbers DEF Slots, Listed
  <1>10. Numbered'
    <2>1. \A r, u \in R : r.id = u.id => r = u
      BY <1>2, <1>4
    <2>2. ASSUME NEW u \in slots' PROVE u.id <= Fresh
      <3>1. Fresh \in Nat
        BY SlotNumbers
      <3>2. CASE u = t
        BY <1>7, <3>1, <3>2
      <3>3. CASE u \in R
        BY <1>9, <3>1, <3>3
      <3> QED BY <1>4, <3>2, <3>3
    <2>3. \A r, u \in slots' : r.id = u.id => r = u
      <3>1. \A r \in R : r.id # Fresh
        BY <1>9, SlotNumbers
      <3>2. ASSUME NEW r \in slots', NEW u \in slots', r.id = u.id PROVE r = u
        <4>1. r \in R \cup {t} /\ u \in R \cup {t}
          BY <1>4
        <4> QED BY <1>7, <2>1, <3>1, <3>2, <4>1
      <3> QED BY <3>2
    <2>4. \A u \in slots' : u.id <= Cardinality(slots')
      BY <1>8, <2>2
    <2> QED BY <1>8, <2>3, <2>4 DEF Numbered
  <1>11. t \in Slot /\ k \in 0..kids
    BY SlotNumbers, NaturalSets, KeysAssumption DEF Slot, Id, Kid
  <1>12. LiveUnique'
    BY <1>4, <1>9 DEF LiveUnique, Live
  <1>13. Tracked
    BY <1>1, <1>4, <1>5 DEF Tracked
  <1>14. slots' \subseteq Slot /\ Listed(slots') \subseteq 0..kids
    BY <1>4, <1>7, <1>9, <1>11 DEF Listed
  <1> QED BY <1>10, <1>12, <1>13, <1>14 DEF Slots, Listed

(* The three ways in which the server accepts a commit.                       *)
Enrols(p, s) ==
    /\ proc[p].flow \in {"bind", "add"} /\ Fresh <= MaxIds
    /\ s = [id |-> Fresh, kid |-> proc[p].kid, live |-> TRUE]
    /\ slots' = slots \cup {s}
    /\ \A t \in Live(slots) : t.kid # proc[p].kid

Rekeys(p, t, s) ==
    /\ proc[p].flow = "rotate" /\ t \in Live(slots) /\ t.id = proc[p].rec
    /\ proc[p].kid \notin Listed(slots)
    /\ s = [t EXCEPT !.kid = proc[p].kid]
    /\ slots' = (slots \ {t}) \cup {s}

Withdraws(p, t, s) ==
    /\ proc[p].flow = "revoke" /\ t \in Live(slots)
    /\ s = [t EXCEPT !.live = FALSE]
    /\ slots' = (slots \ {t}) \cup {s}

LEMMA Commitment ==
  ASSUME Base, NEW p \in Procs, At(p, "commit"), NEW s \in Accepts(p),
         slots' = {t \in slots : t.id # s.id} \cup {s}
  PROVE  Enrols(p, s) \/ \E t \in slots : Rekeys(p, t, s) \/ Withdraws(p, t, s)
  <1>1. proc[p].flow \in {"bind", "add", "rotate", "revoke"}
    BY DEF Base, Flowing, Knows, Fits, At
  <1>2. Slots
    BY Parts DEF Server, Slots
  <1>3. CASE proc[p].flow \in {"bind", "add"}
    <2>1. /\ Fresh <= MaxIds /\ s = [id |-> Fresh, kid |-> proc[p].kid, live |-> TRUE]
          /\ \A t \in Live(slots) : t.kid # proc[p].kid
      BY <1>3 DEF Accepts, Listed, Live
    <2>2. \A t \in slots : t.id # s.id
      BY <1>2, <2>1, SlotNumbers
    <2> QED BY <1>3, <2>1, <2>2 DEF Enrols
  <1>4. CASE proc[p].flow = "rotate"
    <2>1. PICK t \in Live(slots) : /\ t.id = proc[p].rec /\ proc[p].kid \notin Listed(slots)
                                   /\ s = [t EXCEPT !.kid = proc[p].kid]
      BY <1>4 DEF Accepts
    <2>2. t \in Slot /\ t \in slots /\ s.id = t.id
      BY <1>2, <2>1 DEF Slots, Slot, Live
    <2>3. {u \in slots : u.id # s.id} = slots \ {t}
      BY <1>2, <2>2 DEF Slots, Numbered
    <2> QED BY <1>4, <2>1, <2>2, <2>3 DEF Rekeys
  <1>5. CASE proc[p].flow = "revoke"
    <2>1. PICK t \in Live(slots) : s = [t EXCEPT !.live = FALSE]
      BY <1>5 DEF Accepts
    <2>2. t \in Slot /\ t \in slots /\ s.id = t.id
      BY <1>2, <2>1 DEF Slots, Slot, Live
    <2>3. {u \in slots : u.id # s.id} = slots \ {t}
      BY <1>2, <2>2 DEF Slots, Numbered
    <2> QED BY <1>5, <2>1, <2>2, <2>3 DEF Withdraws
  <1> QED BY <1>1, <1>3, <1>4, <1>5

LEMMA CommittedSlots ==
  ASSUME Base, NEW p \in Procs, At(p, "commit"), NEW s \in Accepts(p), UNCHANGED kids,
         slots' = {t \in slots : t.id # s.id} \cup {s}
  PROVE  /\ Slots' /\ Tracked /\ s \in slots' /\ s \in Slot /\ s.kid <= kids
         /\ proc[p].flow # "revoke" => s.kid = proc[p].kid /\ s.kid \in Kid /\ s.live
         /\ proc[p].flow # "bind" => slots # {}
  <1>1. Files /\ Slots /\ proc \in [Procs -> Tasks] /\ Knows(p) /\ proc[p] \in Tasks
    BY Parts DEF Flowing, Server, Slots
  <1>2. /\ proc[p].flow # "revoke" => proc[p].kid \in Kid /\ proc[p].kid \in 0..kids
        /\ kids \in Nat
    <2>1. kids \in Nat
      BY <1>1, KeysAreKids
    <2>2. ASSUME proc[p].flow # "revoke" PROVE proc[p].kid \in Kid /\ proc[p].kid \in 0..kids
      <3>1. proc[p].kid \in Kid /\ proc[p].kid # None
        BY <1>1, <2>2, NaturalSets DEF Knows, At
      <3>2. proc[p].kid <= kids
        BY <1>1, <3>1 DEF Knows
      <3>3. proc[p].kid \in Nat
        BY <3>1, NaturalSets
      <3> QED BY <2>1, <3>1, <3>2, <3>3
    <2> QED BY <2>1, <2>2
  <1>3. CASE Enrols(p, s)
    <2>1. Slots' /\ Tracked
      BY <1>1, <1>2, <1>3, SlotEnrolled DEF Enrols
    <2>2. proc[p].flow = "add" => slots # {}
      BY <1>1, NaturalSets DEF Knows, Enrolled
    <2> QED BY <1>1, <1>2, <1>3, <2>1, <2>2, NaturalSets DEF Enrols, Slots
  <1>4. ASSUME NEW t \in slots, Rekeys(p, t, s)
        PROVE  /\ Slots' /\ Tracked /\ s \in slots' /\ s \in Slot
               /\ s.kid = proc[p].kid /\ s.live /\ proc[p].flow = "rotate"
    <2>1. t \in Slot /\ t.live /\ proc[p].flow # "revoke"
      BY <1>1, <1>4 DEF Slots, Rekeys, Live
    <2>2. s \in Slot /\ s.id = t.id /\ s.kid = proc[p].kid /\ s.live
      BY <1>2, <1>4, <2>1 DEF Rekeys, Slot
    <2>3. \A u \in Live(slots) : u.kid # s.kid
      BY <1>4, <2>2 DEF Rekeys, Listed, Live
    <2>4. t.kid # Foreign
      BY <1>1, <1>4, NaturalSets DEF Knows, Rekeys, Enrolled, Slots, Numbered
    <2>5. s.kid # Foreign
      BY <1>2, <2>1, <2>2, NaturalSets
    <2>6. Slots' /\ Tracked
      BY <1>1, <1>2, <1>4, <2>1, <2>2, <2>3, <2>4, <2>5, SlotChanged DEF Rekeys
    <2> QED BY <1>4, <2>2, <2>6 DEF Rekeys
  <1>5. ASSUME NEW t \in slots, Withdraws(p, t, s)
        PROVE  Slots' /\ Tracked /\ s \in slots' /\ s \in Slot /\ proc[p].flow = "revoke" /\ s.kid <= kids
    <2>1. t \in Slot /\ t.live /\ t.kid \in 0..kids
      BY <1>1, <1>5 DEF Slots, Withdraws, Live, Listed
    <2>2. s \in Slot /\ s.id = t.id /\ s.kid = t.kid
      BY <1>5, <2>1 DEF Withdraws, Slot
    <2>3. Slots' /\ Tracked
      BY <1>1, <1>5, <2>1, <2>2, SlotChanged DEF Withdraws
    <2> QED BY <1>5, <2>1, <2>2, <2>3 DEF Withdraws
  <1> QED BY <1>2, <1>3, <1>4, <1>5, Commitment, NaturalSets

LEMMA CommitB ==
  ASSUME Base, NEW p \in Procs, Commit(p)
  PROVE  Base'
  <1>1. Files /\ Server /\ Others /\ proc \in [Procs -> Tasks] /\ Knows(p) /\ proc[p] \in Tasks
    BY Parts DEF Flowing
  <1>2. PICK s \in Accepts(p) :
         /\ slots' = {t \in slots : t.id # s.id} \cup {s}
         /\ root' = IF proc[p].flow = "bind" THEN proc[p].secret ELSE root
         /\ \/ /\ proc' = [proc EXCEPT ![p].id = s.id, ![p].kid = s.kid,
                                       ![p].pc = IF proc[p].flow = "revoke"
                                                 THEN "revoked" ELSE "fields"]
               /\ UNCHANGED faults
            \/ /\ faults < MaxFaults /\ faults' = faults + 1
               /\ Done(p)
    BY DEF Commit
  <1>3. UNCHANGED <<machine, accepted, delivered, kids, secrets, hist>>
    BY DEF Commit
  <1>4. /\ Slots' /\ Tracked /\ s \in slots' /\ s \in Slot /\ s.kid <= kids
        /\ proc[p].flow # "revoke" => s.kid = proc[p].kid /\ s.kid \in Kid /\ s.live
        /\ proc[p].flow # "bind" => slots # {}
    BY <1>2, <1>3, CommittedSlots DEF Commit
  <1>5. proc[p].flow = "bind" => proc[p].secret \in delivered /\ proc[p].secret \in Secret
    BY <1>1 DEF Commit, At, Knows, Others
  <1>6. Files'
    BY <1>1, <1>3, <1>4, SlotsTracked DEF Files, machine
  <1>7. Server'
    BY <1>1, <1>2, <1>3, <1>4, <1>5, SlotsTracked, NaturalSets DEF Server, Slots
  <1>8. Others'
    BY <1>1, <1>2, <1>3, KeysAssumption DEF Others, machine, hist
  <1>9. Considerate(p)
    BY <1>1, <1>3, <1>4 DEF Considerate, Files, machine
  <1>10. CASE Done(p)
    <2>1. Idle \in Tasks /\ proc' = [proc EXCEPT ![p] = Idle] /\ proc'[p] = Idle
      BY <1>1, <1>10, IdleRuns DEF Done
    <2> QED BY <1>6, <1>7, <1>8, <1>9, <2>1, IdleRuns, IdleKnows, BaseKept
  <1>11. CASE proc' = [proc EXCEPT ![p].id = s.id, ![p].kid = s.kid,
                                   ![p].pc = IF proc[p].flow = "revoke"
                                             THEN "revoked" ELSE "fields"]
    <2>1. PICK c \in {"revoked", "fields"} :
            c = IF proc[p].flow = "revoke" THEN "revoked" ELSE "fields"
      OBVIOUS
    <2> DEFINE r == [proc[p] EXCEPT !.id = s.id, !.kid = s.kid, !.pc = c]
    <2>2. proc' = [proc EXCEPT ![p] = r] /\ proc'[p] = r
      BY <1>1, <1>11, <2>1
    <2>3. s.kid \in 0..MaxKeys /\ s.id \in Id /\ c \in PCs /\ s.kid # None
      BY <1>4, NaturalSets DEF Slot, PCs
    <2>4. r \in Tasks
      BY <1>1, <2>3 DEF Tasks
    <2>5. /\ r.pc = c /\ r.id = s.id /\ r.kid = s.kid /\ r.rec = proc[p].rec
          /\ r.snap = proc[p].snap /\ r.flow = proc[p].flow
          /\ proc[p].flow \in {"bind", "add", "rotate", "revoke"}
      BY <1>1 DEF Tasks, Commit, At, Knows, Fits
    <2> HIDE DEF r
    <2>6. proc[p].flow # "revoke" => s.id \in Enrolled'
      BY <1>4, NaturalSets DEF Enrolled
    <2>7. Enrolled \subseteq Enrolled'
      BY <1>4, SlotsTracked
    <2>8. \A t \in proc[p].snap : \E u \in slots' :
            u.id = t.id /\ (u.kid = Foreign <=> t.kid = Foreign)
      BY <1>1, <1>4 DEF Knows, Tracked
    <2>9. Knows(p)'
      BY <1>1, <1>3, <1>4, <2>1, <2>2, <2>3, <2>5, <2>6, <2>7, <2>8
      DEF Knows, Fits, Reconciling, Recovering, Submitting
    <2>10. r.pc \notin Recovering
      BY <2>5 DEF Recovering, Submitting
    <2> QED BY <1>6, <1>7, <1>8, <1>9, <2>2, <2>4, <2>9, <2>10, BaseKept
  <1> QED BY <1>2, <1>10, <1>11

(* What the server does with a recovery answer.                               *)
LEMMA RecoveredSlots ==
  ASSUME Base, pendRec # None, CommitRecovery, UNCHANGED <<pendRec, kids, delivered>>
  PROVE  /\ Slots' /\ Tracked /\ Server'
         /\ \E s \in slots' : s.id = Fresh /\ s.kid = pendRec.kid /\ s.kid \in Kid
         /\ Fresh \in Id /\ Fresh \in Enrolled'
  <1>1. Files /\ Server /\ Others
    BY Parts
  <1>2. pendRec \in PendingRecoveries /\ pendRec.kid \in Kid /\ pendRec.kid <= kids
        /\ pendRec.secret \in Secret /\ pendRec.secret \in delivered
    BY <1>1 DEF Files, Others, PendingRecoveries
  <1> DEFINE t == [id |-> Fresh, kid |-> pendRec.kid, live |-> TRUE]
  <1>3. Slots
    BY <1>1 DEF Server, Slots
  <1>4. slots' = {[s EXCEPT !.live = FALSE] : s \in slots} \cup {t} /\ Fresh <= MaxIds
    BY DEF CommitRecovery
  <1>5. t.id = Fresh /\ t.kid = pendRec.kid /\ t \in slots'
    BY <1>4
  <1>6. Slots' /\ Tracked
    <2> HIDE DEF t
    <2>1. t = [id |-> Fresh, kid |-> pendRec.kid, live |-> TRUE]
      BY DEF t
    <2> QED BY <1>2, <1>3, <1>4, <2>1, SlotsReplaced
  <1> HIDE DEF t
  <1>7. Fresh \in Id
    BY <1>3, <1>4, SlotNumbers, KeysAssumption DEF Id
  <1>8. Fresh \in Enrolled'
    BY <1>2, <1>5, NaturalSets DEF Enrolled
  <1>9. root' = pendRec.secret /\ accepted' = accepted \cup {[kid |-> pendRec.kid, id |-> Fresh]}
        /\ \A a \in accepted : a.kid # pendRec.kid
    BY DEF CommitRecovery, Receipts
  <1>10. Server'
    <2>1. \A a \in accepted' : a.id \in Enrolled' \cup {None}
      BY <1>1, <1>6, <1>8, <1>9, SlotsTracked DEF Server
    <2>2. \A a, b \in accepted' : a.kid = b.kid => a = b
      BY <1>1, <1>9 DEF Server
    <2>3. accepted' \subseteq [kid : Kid, id : Id \cup {None}]
      BY <1>1, <1>2, <1>7, <1>9 DEF Server
    <2> QED BY <1>1, <1>2, <1>6, <1>9, <2>1, <2>2, <2>3, NaturalSets DEF Slots, Server
  <1> QED BY <1>2, <1>5, <1>6, <1>7, <1>8, <1>10

LEMMA Receipt ==
  ASSUME Base, NEW p \in Procs, SubmitRecovery(p)
  PROVE  /\ Slots' /\ Tracked /\ Server'
         /\ \A a \in accepted' : a.kid = pendRec.kid => a.id \in Enrolled' /\ a.id \in Id
  <1>1. Files /\ Server /\ Others /\ Knows(p)
    BY Parts DEF Flowing
  <1>2. UNCHANGED <<machine, delivered, kids>> /\ UNCHANGED pendRec /\ pendRec # None
    BY <1>1 DEF SubmitRecovery, Knows, Submitting, At, machine
  <1>3. CASE CommitRecovery
    <2>1. /\ Slots' /\ Tracked /\ Server' /\ Fresh \in Id /\ Fresh \in Enrolled'
      BY <1>2, <1>3, RecoveredSlots
    <2>2. \A a \in accepted' : a.kid = pendRec.kid => a.id = Fresh
      BY <1>3 DEF CommitRecovery, Receipts
    <2> QED BY <2>1, <2>2
  <1>4. CASE AnswerAgain
    <2>1. PICK b \in accepted : b.kid = pendRec.kid /\ b.id # None
      BY <1>4 DEF AnswerAgain, Receipts
    <2>2. UNCHANGED server
      BY <1>4 DEF AnswerAgain
    <2>3. \A a \in accepted : a.kid = pendRec.kid => a.id \in Enrolled
      BY <1>1, <2>1 DEF Server
    <2>4. Slots' /\ Tracked /\ Server' /\ Enrolled' = Enrolled
      BY <1>1, <1>2, <2>2, ServerSame, SameSlots, KeysAreKids DEF server, Slots, Server
    <2> QED BY <1>1, <2>2, <2>3, <2>4, EnrolledIds DEF server
  <1> QED BY <1>3, <1>4 DEF SubmitRecovery

LEMMA SubmitRecoveryB ==
  ASSUME Base, NEW p \in Procs, SubmitRecovery(p)
  PROVE  Base'
  <1>1. Files /\ Server /\ Others /\ proc \in [Procs -> Tasks] /\ Knows(p) /\ proc[p] \in Tasks
    BY Parts DEF Flowing
  <1>2. UNCHANGED <<machine, delivered, kids, secrets, hist>>
        /\ pendRec # None /\ proc[p].kid = pendRec.kid /\ proc[p].pc = "submit"
    BY <1>1 DEF SubmitRecovery, Knows, Submitting, At
  <1>3. /\ Slots' /\ Tracked /\ Server'
        /\ \A a \in accepted' : a.kid = pendRec.kid => a.id \in Enrolled' /\ a.id \in Id
    BY Receipt
  <1>4. Files'
    BY <1>1, <1>2, <1>3, SlotsTracked DEF Files, machine
  <1>5. Others'
    BY <1>1, <1>2, KeysAssumption DEF SubmitRecovery, Others, machine, hist
  <1>6. Considerate(p)
    BY <1>1, <1>2, <1>3 DEF Considerate, Files, machine
  <1>7. CASE Done(p)
    <2>1. Idle \in Tasks /\ proc' = [proc EXCEPT ![p] = Idle] /\ proc'[p] = Idle
      BY <1>1, <1>7, IdleRuns DEF Done
    <2> QED BY <1>3, <1>4, <1>5, <1>6, <2>1, IdleRuns, IdleKnows, BaseKept
  <1>8. ASSUME NEW a \in accepted', a.kid = pendRec.kid,
               proc' = [proc EXCEPT ![p].pc = "recPoint", ![p].id = a.id]
        PROVE  Base'
    <2> DEFINE r == [proc[p] EXCEPT !.pc = "recPoint", !.id = a.id]
    <2>1. a.id \in Enrolled' /\ a.id \in Id
      BY <1>3, <1>8
    <2>2. proc' = [proc EXCEPT ![p] = r] /\ proc'[p] = r
      BY <1>1, <1>8
    <2>3. r \in Tasks
      BY <1>1, <2>1 DEF Tasks, PCs
    <2>4. /\ r.pc = "recPoint" /\ r.id = a.id /\ r.kid = proc[p].kid /\ r.rec = proc[p].rec
          /\ r.snap = proc[p].snap /\ r.flow = "recover"
          /\ proc[p].kid \in Kid
      BY <1>1, <1>2 DEF Tasks, Knows, Fits, Submitting, Recovering
    <2> HIDE DEF r
    <2>5. Enrolled \subseteq Enrolled'
      BY <1>3, SlotsTracked
    <2>6. \A t \in proc[p].snap : \E u \in slots' :
            u.id = t.id /\ (u.kid = Foreign <=> t.kid = Foreign)
      BY <1>1, <1>3 DEF Knows, Tracked
    <2>7. Knows(p)'
      BY <1>1, <1>2, <2>1, <2>2, <2>4, <2>5, <2>6
      DEF Knows, Fits, Reconciling, Recovering, Submitting, machine
    <2>8. proc[p].pc \in Recovering
      BY <1>2 DEF Recovering, Submitting
    <2> QED BY <1>3, <1>4, <1>5, <1>6, <2>2, <2>3, <2>7, <2>8, BaseKept
  <1> QED BY <1>7, <1>8 DEF SubmitRecovery

LEMMA RecoveryRejectedB ==
  ASSUME Base, NEW p \in Procs, RecoveryRejected(p)
  PROVE  Base'
  <1>1. Files /\ Server /\ Others /\ proc \in [Procs -> Tasks] /\ Knows(p) /\ proc[p] \in Tasks
    BY Parts DEF Flowing
  <1>2. UNCHANGED <<machine, slots, root, delivered, kids, secrets, hist>>
        /\ pendRec # None /\ proc[p].kid = pendRec.kid /\ proc[p].pc = "submit"
        /\ accepted' = accepted \cup {[kid |-> pendRec.kid, id |-> None]}
        /\ \A a \in accepted : a.kid = pendRec.kid => a.id = None
    BY <1>1 DEF RecoveryRejected, RejectRecovery, Receipts, Knows, Submitting, At
  <1>3. Files' /\ Others'
    BY <1>1, <1>2, SameSlots DEF RecoveryRejected, Files, Others, machine, hist
  <1>4. Server'
    <2>1. pendRec.kid \in Kid
      BY <1>1, <1>2 DEF Files, PendingRecoveries
    <2>2. accepted' \subseteq [kid : Kid, id : Id \cup {None}]
      BY <1>1, <1>2, <2>1 DEF Server
    <2>3. \A a, b \in accepted' : a.kid = b.kid => a = b
      <3>1. \A a \in accepted : a = [kid |-> a.kid, id |-> a.id]
        BY <1>1 DEF Server
      <3>2. \A a \in accepted : a.kid = pendRec.kid => a = [kid |-> pendRec.kid, id |-> None]
        BY <1>2, <3>1
      <3> QED BY <1>1, <1>2, <3>2 DEF Server
    <2> QED BY <1>1, <1>2, <2>2, <2>3, SameSlots DEF Server, Listed
  <1>5. Considerate(p)
    BY <1>1, <1>2, SameSlots DEF Considerate, Files, machine
  <1> DEFINE r == [proc[p] EXCEPT !.pc = "rejected"]
  <1>6. proc' = [proc EXCEPT ![p] = r] /\ proc'[p] = r
    BY <1>1 DEF RecoveryRejected, Goto
  <1>7. r \in Tasks
    BY <1>1 DEF Tasks, PCs
  <1>8. Knows(p)'
    BY <1>1, <1>2, <1>6, SameSlots
    DEF Knows, Fits, Reconciling, Recovering, Submitting, machine, Tasks
  <1>9. proc[p].pc \in Recovering
    BY <1>2 DEF Recovering, Submitting
  <1> HIDE DEF r
  <1> QED BY <1>3, <1>4, <1>5, <1>6, <1>7, <1>8, <1>9, BaseKept

(* Another machine moves.                                                     *)
LEMMA ElsewhereSlots ==
  ASSUME Base, Elsewhere
  PROVE  /\ Slots' /\ Tracked /\ slots # {}
         /\ \/ \E s \in Live(slots) : slots' = (slots \ {s}) \cup {[s EXCEPT !.live = FALSE]}
            \/ slots' = slots \cup {[id |-> Fresh, kid |-> Foreign, live |-> TRUE]}
  <1>1. Slots /\ UNCHANGED kids /\ kids \in Nat
    BY Parts, KeysAreKids DEF Server, Slots, Elsewhere
  <1>2. ASSUME NEW s \in Live(slots), slots' = (slots \ {s}) \cup {[s EXCEPT !.live = FALSE]}
        PROVE  Slots' /\ Tracked /\ slots # {}
    <2>1. s \in slots /\ s \in Slot /\ s.kid \in 0..kids
      BY <1>1, <1>2 DEF Live, Slots, Listed
    <2>2. /\ [s EXCEPT !.live = FALSE] \in Slot /\ [s EXCEPT !.live = FALSE].id = s.id
          /\ [s EXCEPT !.live = FALSE].kid = s.kid /\ ~[s EXCEPT !.live = FALSE].live
      BY <2>1 DEF Slot
    <2> DEFINE t == [s EXCEPT !.live = FALSE]
    <2>3. t \in Slot /\ t.id = s.id /\ t.kid = s.kid /\ ~t.live /\ slots' = (slots \ {s}) \cup {t}
      BY <1>2, <2>2
    <2> HIDE DEF t
    <2> QED BY <1>1, <2>1, <2>3, SlotChanged
  <1>3. ASSUME slots' = slots \cup {[id |-> Fresh, kid |-> Foreign, live |-> TRUE]},
               Live(slots) # {}, Fresh <= MaxIds, Foreign \notin Listed(slots)
        PROVE  Slots' /\ Tracked /\ slots # {}
    <2>1. Foreign \in (Kid \cup {Foreign}) \cap 0..kids
      BY <1>1 DEF Foreign
    <2>2. \A s \in Live(slots) : s.kid # Foreign
      BY <1>3 DEF Live, Listed
    <2>3. Slots' /\ Tracked
      BY <1>1, <1>3, <2>1, <2>2, SlotEnrolled
    <2> QED BY <1>3, <2>3 DEF Live
  <1> QED BY <1>2, <1>3 DEF Elsewhere

LEMMA ElsewhereB ==
  ASSUME Base, Elsewhere
  PROVE  Base'
  <1>1. Files /\ Server /\ Others /\ proc \in [Procs -> Tasks] /\ Flowing
    BY Parts
  <1>2. Slots' /\ Tracked /\ slots # {}
    BY ElsewhereSlots
  <1>3. UNCHANGED <<machine, root, accepted, delivered, proc, kids, secrets, hist>>
    BY DEF Elsewhere
  <1>4. Files' /\ Others'
    BY <1>1, <1>2, <1>3, SlotsTracked DEF Elsewhere, Files, Others, machine, hist
  <1>5. Server'
    BY <1>1, <1>2, <1>3, SlotsTracked DEF Server, Slots
  <1>6. Flowing'
    <2>1. kids \in Nat
      BY <1>1, KeysAreKids
    <2>2. ASSUME NEW q \in Procs PROVE Knows(q)'
      BY <1>1, <1>2, <1>3, <2>1, BystanderKnows DEF Flowing, machine, Server
    <2> QED BY <1>1, <1>3, <2>2 DEF Flowing, OneRecovery
  <1>7. (Files /\ Server /\ Others /\ Flowing /\ proc \in [Procs -> Tasks] => Base)'
    BY Parts, PTL
  <1> QED BY <1>1, <1>3, <1>4, <1>5, <1>6, <1>7

LEMMA InitB ==
  ASSUME Init
  PROVE  Base
  <1>1. Files /\ Others
    <2>1. 0 \in 0..MaxKeys /\ 0 \in 0..MaxSecrets /\ 0 \in 0..MaxFaults
      BY KeysAssumption
    <2> QED BY <2>1 DEF Init, Files, Others
  <1>2. Server
    BY FS_EmptySet DEF Init, Server, Numbered, LiveUnique, Live, Listed
  <1>3. proc \in [Procs -> Tasks]
    BY IdleRuns DEF Init
  <1>4. \A p \in Procs : proc[p] = Idle
    BY DEF Init
  <1>5. Flowing
    BY <1>4 DEF Flowing, OneRecovery, Idle, Knows, Fits, Reconciling, Recovering, Submitting
  <1> QED BY <1>1, <1>2, <1>3, <1>5, Parts

LEMMA BaseStep ==
  ASSUME Base, [Next]_vars
  PROVE  Base'
  <1>1. ASSUME NEW p \in Procs, Step(p) PROVE Base'
    BY <1>1, ListSlotsB, ListForRevokeB, LoadPendingAddB, AdoptFieldsB, AdoptPointerB,
       RetireUnlistedB, ForgetFieldsB, ForgetPointerB, NothingToReconcileB, RefuseB,
       ReproposeB, ProposeB, SaveBindB, DeliverBindB, SaveAddB, CommitB, CommitRefusedB,
       ActivateFieldsB, ActivatePointerB, RetireOldB, ClearBindB, ClearAddB, AfterRevokeB,
       ResumeRecoveryB, StageRecoveryB, DeliverReplacementB, SaveRecoveryB,
       SubmitRecoveryB, RecoveryRejectedB, RetireRejectedB, RecoveryPointerB,
       RecoveryFieldsB, ClearRecoveryB, DeliverRootB, CommitRootB DEF Step
  <1>2. CASE UNCHANGED vars
    <2>1. UNCHANGED <<machine, server, delivered, proc, kids, secrets, faults, hist>>
      BY <1>2 DEF vars
    <2>2. Files' /\ Server' /\ Others' /\ (proc \in [Procs -> Tasks])'
      BY <2>1, Parts, SameSlots DEF Files, Server, Others, machine, server, hist, Listed
    <2>3. Flowing'
      BY <2>1, Parts, SameSlots DEF Flowing, OneRecovery, Knows, Fits, machine, server
    <2>4. (Files /\ Server /\ Others /\ Flowing /\ proc \in [Procs -> Tasks] => Base)'
      BY Parts, PTL
    <2> QED BY <2>2, <2>3, <2>4
  <1> QED BY <1>1, <1>2, AbortB, StartB, ElsewhereB DEF Next

LEMMA IdleAlone == Alone(Idle)
  BY DEF Alone, Surveyed, Chosen, Rotating, Enlisted, Staged, Answered, Idle, Surveying,
     Reconciling

LEMMA StoresSame ==
  ASSUME UNCHANGED <<keys, active, pendBind, pendAdd, pendRec, slots, accepted>>
  PROVE  (Apart => Apart') /\ (Stored => Stored') /\ Good' = Good /\ Receipts' = Receipts
         /\ (\A q : Alone(q) => Alone(q)')
  BY DEF Apart, Stored, Good, Receipts, Alone, Surveyed, Chosen, Rotating, Enlisted,
     Staged, Answered

LEMMA DoneAlone ==
  ASSUME NEW p \in Procs, proc \in [Procs -> Tasks], Done(p)
  PROVE  Alone(proc[p])'
  <1>1. proc'[p] = Idle
    BY DEF Done
  <1> QED BY <1>1 DEF Alone, Surveyed, Chosen, Rotating, Enlisted, Staged, Answered, Idle,
             Surveying, Reconciling

LEMMA PendingNames ==
  ASSUME Base
  PROVE  /\ pendRec # None => pendRec.kid \in Kid /\ pendRec.kid # None /\ pendRec.kid \in Nat
         /\ pendBind # None => pendBind.kid \in Kid /\ pendBind.kid # None /\ pendBind.kid \in Nat
         /\ pendAdd # None => pendAdd \in Kid /\ pendAdd \in Nat
  BY Parts, NaturalSets DEF Files, PendingBinds, PendingRecoveries

(* Ids tell the slots apart.                                                  *)
LEMMA SlotOfId ==
  ASSUME Base
  PROVE  /\ \A s, t \in slots : s.id = t.id => s = t
         /\ \A s \in slots : s \in Slot /\ (s.id \in Enrolled => s.kid # Foreign)
  BY Parts DEF Server, Numbered, Enrolled

LEMMA RefuseK ==
  ASSUME Base, Apart, Stored, NEW p \in Procs, Alone(proc[p]), Refuse(p)
  PROVE  Apart' /\ Stored' /\ Alone(proc[p])'
  <1>1. Files /\ Server /\ Others /\ proc \in [Procs -> Tasks] /\ Knows(p) /\ proc[p] \in Tasks
    BY Parts DEF Flowing
  <1>2. UNCHANGED <<keys, active, pendBind, pendAdd, pendRec, slots, accepted>>
    BY DEF Refuse, machine, server
  <1>3. Apart' /\ Stored'
    BY <1>2, StoresSame
  <1>4. Alone(proc[p])'
    BY <1>1, <1>2, IdleAlone, StoresSame DEF Refuse, At, Goto, Done, Tasks, Alone, Surveyed,
       Chosen
  <1> QED BY <1>3, <1>4

LEMMA CommitRefusedK ==
  ASSUME Base, Apart, Stored, NEW p \in Procs, Alone(proc[p]), CommitRefused(p)
  PROVE  Apart' /\ Stored' /\ Alone(proc[p])'
  <1>1. Files /\ Server /\ Others /\ proc \in [Procs -> Tasks] /\ Knows(p) /\ proc[p] \in Tasks
    BY Parts DEF Flowing
  <1>2. UNCHANGED <<keys, active, pendBind, pendAdd, pendRec, slots, accepted>>
    BY DEF CommitRefused, machine, server
  <1>3. Apart' /\ Stored'
    BY <1>2, StoresSame
  <1>4. Alone(proc[p])'
    BY <1>1, <1>2, IdleAlone, StoresSame DEF CommitRefused, At, Goto, Done, Tasks, Alone,
       Surveyed, Chosen
  <1> QED BY <1>3, <1>4

LEMMA ListSlotsK ==
  ASSUME Base, Apart, Stored, NEW p \in Procs, Alone(proc[p]), ListSlots(p)
  PROVE  Apart' /\ Stored' /\ Alone(proc[p])'
  <1>1. Files /\ Server /\ Others /\ proc \in [Procs -> Tasks] /\ Knows(p) /\ proc[p] \in Tasks
    BY Parts DEF Flowing
  <1>2. UNCHANGED <<keys, active, pendBind, pendAdd, pendRec, slots, accepted>>
    BY DEF ListSlots, machine, server
  <1>3. Apart' /\ Stored'
    BY <1>2, StoresSame
  <1>4. Alone(proc[p])'
    BY <1>1, <1>2, IdleAlone, StoresSame DEF ListSlots, At, Goto, Done, Tasks, Alone,
       Surveyed, Chosen
  <1> QED BY <1>3, <1>4

LEMMA ResumeRecoveryK ==
  ASSUME Base, Apart, Stored, NEW p \in Procs, Alone(proc[p]), ResumeRecovery(p)
  PROVE  Apart' /\ Stored' /\ Alone(proc[p])'
  <1>1. Files /\ Server /\ Others /\ proc \in [Procs -> Tasks] /\ Knows(p) /\ proc[p] \in Tasks
    BY Parts DEF Flowing
  <1>2. UNCHANGED <<keys, active, pendBind, pendAdd, pendRec, slots, accepted>>
    BY DEF ResumeRecovery, machine, server
  <1>3. Apart' /\ Stored'
    BY <1>2, StoresSame
  <1>4. Alone(proc[p])'
    BY <1>1, <1>2, IdleAlone, StoresSame DEF ResumeRecovery, At, Goto, Done, Tasks, Alone,
       Surveyed, Chosen, Rotating, Enlisted, Staged, Answered, Surveying, Reconciling
  <1> QED BY <1>3, <1>4

LEMMA DeliverBindK ==
  ASSUME Base, Apart, Stored, NEW p \in Procs, Alone(proc[p]), DeliverBind(p)
  PROVE  Apart' /\ Stored' /\ Alone(proc[p])'
  <1>1. Files /\ Server /\ Others /\ proc \in [Procs -> Tasks] /\ Knows(p) /\ proc[p] \in Tasks
    BY Parts DEF Flowing
  <1>2. UNCHANGED <<keys, active, pendBind, pendAdd, pendRec, slots, accepted>>
    BY DEF DeliverBind, machine, server
  <1>3. Apart' /\ Stored'
    BY <1>2, StoresSame
  <1>4. Alone(proc[p])'
    BY <1>1, <1>2, IdleAlone, StoresSame DEF DeliverBind, At, Goto, Done, Tasks, Alone,
       Surveyed, Chosen, Rotating, Enlisted, Staged, Answered, Surveying
  <1> QED BY <1>3, <1>4

LEMMA DeliverReplacementK ==
  ASSUME Base, Apart, Stored, NEW p \in Procs, Alone(proc[p]), DeliverReplacement(p)
  PROVE  Apart' /\ Stored' /\ Alone(proc[p])'
  <1>1. Files /\ Server /\ Others /\ proc \in [Procs -> Tasks] /\ Knows(p) /\ proc[p] \in Tasks
    BY Parts DEF Flowing
  <1>2. UNCHANGED <<keys, active, pendBind, pendAdd, pendRec, slots, accepted>>
    BY DEF DeliverReplacement, machine, server
  <1>3. Apart' /\ Stored'
    BY <1>2, StoresSame
  <1>4. Alone(proc[p])'
    BY <1>1, <1>2, IdleAlone, StoresSame DEF DeliverReplacement, At, Goto, Done, Tasks,
       Alone, Surveyed, Chosen, Rotating, Enlisted, Staged, Answered, Surveying,
       Reconciling
  <1> QED BY <1>3, <1>4

LEMMA DeliverRootK ==
  ASSUME Base, Apart, Stored, NEW p \in Procs, Alone(proc[p]), DeliverRoot(p)
  PROVE  Apart' /\ Stored' /\ Alone(proc[p])'
  <1>1. Files /\ Server /\ Others /\ proc \in [Procs -> Tasks] /\ Knows(p) /\ proc[p] \in Tasks
    BY Parts DEF Flowing
  <1>2. UNCHANGED <<keys, active, pendBind, pendAdd, pendRec, slots, accepted>>
    BY DEF DeliverRoot, machine, server
  <1>3. Apart' /\ Stored'
    BY <1>2, StoresSame
  <1>4. Alone(proc[p])'
    BY <1>1, <1>2, IdleAlone, StoresSame DEF DeliverRoot, At, Goto, Done, Tasks, Alone,
       Surveyed, Chosen, Rotating, Enlisted, Staged, Answered, Surveying, Reconciling
  <1> QED BY <1>3, <1>4

LEMMA CommitRootK ==
  ASSUME Base, Apart, Stored, NEW p \in Procs, Alone(proc[p]), CommitRoot(p)
  PROVE  Apart' /\ Stored' /\ Alone(proc[p])'
  <1>1. Files /\ Server /\ Others /\ proc \in [Procs -> Tasks] /\ Knows(p) /\ proc[p] \in Tasks
    BY Parts DEF Flowing
  <1>2. UNCHANGED <<keys, active, pendBind, pendAdd, pendRec, slots, accepted>>
    BY DEF CommitRoot, machine, server
  <1>3. Apart' /\ Stored'
    BY <1>2, StoresSame
  <1>4. Alone(proc[p])'
    BY <1>1, <1>2, IdleAlone, StoresSame DEF CommitRoot, At, Goto, Done, Tasks, Alone,
       Surveyed, Chosen
  <1> QED BY <1>3, <1>4

LEMMA AbortK ==
  ASSUME Base, Apart, Stored, NEW p \in Procs, Alone(proc[p]), Abort(p)
  PROVE  Apart' /\ Stored' /\ Alone(proc[p])'
  <1>1. Files /\ Server /\ Others /\ proc \in [Procs -> Tasks] /\ Knows(p) /\ proc[p] \in Tasks
    BY Parts DEF Flowing
  <1>2. UNCHANGED <<keys, active, pendBind, pendAdd, pendRec, slots, accepted>>
    BY DEF Abort, machine, server
  <1>3. Apart' /\ Stored'
    BY <1>2, StoresSame
  <1>4. Alone(proc[p])'
    BY <1>1, <1>2, IdleAlone, StoresSame DEF Abort, At, Goto, Done, Tasks, Alone, Surveyed,
       Chosen
  <1> QED BY <1>3, <1>4

LEMMA RecoveryFieldsK ==
  ASSUME Base, Apart, Stored, NEW p \in Procs, Alone(proc[p]), RecoveryFields(p)
  PROVE  Apart' /\ Stored' /\ Alone(proc[p])'
  <1>1. Files /\ Server /\ Others /\ proc \in [Procs -> Tasks] /\ Knows(p) /\ proc[p] \in Tasks
    BY Parts DEF Flowing
  <1>2. UNCHANGED <<keys, active, pendBind, pendAdd, pendRec, slots, accepted>>
    BY DEF RecoveryFields, machine, server
  <1>3. Apart' /\ Stored'
    BY <1>2, StoresSame
  <1>4. Alone(proc[p])'
    BY <1>1, <1>2, IdleAlone, StoresSame DEF RecoveryFields, At, Goto, Done, Tasks, Alone,
       Surveyed, Chosen, Rotating, Enlisted, Staged, Answered, Surveying, Reconciling
  <1> QED BY <1>3, <1>4

LEMMA ForgetFieldsK ==
  ASSUME Base, Apart, Stored, NEW p \in Procs, Alone(proc[p]), ForgetFields(p)
  PROVE  Apart' /\ Stored' /\ Alone(proc[p])'
  <1>1. Files /\ Server /\ Others /\ proc \in [Procs -> Tasks] /\ Knows(p) /\ proc[p] \in Tasks
    BY Parts DEF Flowing
  <1>2. UNCHANGED <<keys, active, pendBind, pendAdd, pendRec, slots, accepted>>
    BY DEF ForgetFields, machine, server
  <1>3. Apart' /\ Stored'
    BY <1>2, StoresSame
  <1>4. Alone(proc[p])'
    BY <1>1, <1>2, IdleAlone, StoresSame DEF ForgetFields, At, Goto, Done, Tasks, Alone,
       Surveyed, Chosen, Rotating, Enlisted, Staged, Answered, Surveying, Reconciling
  <1> QED BY <1>3, <1>4

LEMMA ListForRevokeK ==
  ASSUME Base, Apart, Stored, NEW p \in Procs, Alone(proc[p]), ListForRevoke(p)
  PROVE  Apart' /\ Stored' /\ Alone(proc[p])'
  <1>1. Files /\ Server /\ Others /\ proc \in [Procs -> Tasks] /\ Knows(p) /\ proc[p] \in Tasks
    BY Parts DEF Flowing
  <1>2. UNCHANGED <<keys, active, pendBind, pendAdd, pendRec, slots, accepted>>
    BY DEF ListForRevoke, machine, server
  <1>3. Apart' /\ Stored'
    BY <1>2, StoresSame
  <1>4. ASSUME NEW s \in Live(slots),
               proc' = [proc EXCEPT ![p].snap = slots, ![p].id = s.id, ![p].pc = "commit"]
        PROVE  Alone(proc[p])'
    <2> DEFINE r == proc'[p]
    <2>1. r.pc = "commit" /\ r.flow = "revoke" /\ r.snap = slots
      BY <1>1, <1>4 DEF ListForRevoke, Tasks
    <2> HIDE DEF r
    <2>2. Alone(r)
      BY <2>1 DEF Alone, Surveyed, Chosen, Rotating, Enlisted, Staged, Answered, Live
    <2> QED BY <1>2, <2>2, StoresSame DEF r
  <1> QED BY <1>1, <1>3, <1>4, DoneAlone DEF ListForRevoke

LEMMA LoadPendingAddK ==
  ASSUME Base, Apart, Stored, NEW p \in Procs, Alone(proc[p]), LoadPendingAdd(p)
  PROVE  Apart' /\ Stored' /\ Alone(proc[p])'
  <1>1. Files /\ Server /\ Others /\ proc \in [Procs -> Tasks] /\ Knows(p) /\ proc[p] \in Tasks
    BY Parts DEF Flowing
  <1>2. UNCHANGED <<keys, active, pendBind, pendAdd, pendRec, slots, accepted>>
    BY DEF LoadPendingAdd, machine, server
  <1>3. Apart' /\ Stored'
    BY <1>2, StoresSame
  <1>4. \/ Done(p)
        \/ Goto(p, "reconcile")
        \/ \E s \in proc[p].snap :
             /\ s.kid = pendAdd /\ pendAdd \in keys
             /\ proc' = [proc EXCEPT ![p].pc = "fields", ![p].id = s.id, ![p].kid = s.kid]
    BY DEF LoadPendingAdd
  <1>5. proc[p].pc = "pending" /\ proc[p].flow = "add"
    BY <1>1 DEF LoadPendingAdd, At, Knows, Fits
  <1> DEFINE r == proc'[p]
  <1>6. CASE Goto(p, "reconcile")
    <2>1. r.pc = "reconcile" /\ r.snap = proc[p].snap /\ r.flow = "add"
      BY <1>1, <1>5, <1>6 DEF Goto, Tasks
    <2> HIDE DEF r
    <2>2. Alone(r)
      BY <1>5, <2>1 DEF Alone, Surveyed, Chosen, Rotating, Enlisted, Staged, Answered,
         Surveying
    <2> QED BY <1>2, <2>2, StoresSame DEF r
  <1>7. ASSUME NEW s \in proc[p].snap,
               proc' = [proc EXCEPT ![p].pc = "fields", ![p].id = s.id, ![p].kid = s.kid]
        PROVE  Alone(proc[p])'
    <2>1. r.pc = "fields" /\ r.kid = s.kid /\ r.flow = "add"
      BY <1>1, <1>5, <1>7 DEF Tasks
    <2>2. s.kid \in Listed(slots)
      BY <1>5 DEF Alone, Surveyed, Surveying, Listed
    <2> HIDE DEF r
    <2>3. Alone(r)
      BY <2>1, <2>2 DEF Alone, Surveyed, Chosen, Rotating, Enlisted, Staged, Answered,
         Surveying, Reconciling
    <2> QED BY <1>2, <2>3, StoresSame DEF r
  <1> QED BY <1>1, <1>3, <1>4, <1>6, <1>7, DoneAlone

LEMMA NothingToReconcileK ==
  ASSUME Base, Apart, Stored, NEW p \in Procs, Alone(proc[p]), NothingToReconcile(p)
  PROVE  Apart' /\ Stored' /\ Alone(proc[p])'
  <1>1. Files /\ Server /\ Others /\ proc \in [Procs -> Tasks] /\ Knows(p) /\ proc[p] \in Tasks
    BY Parts DEF Flowing
  <1>2. UNCHANGED <<keys, active, pendBind, pendAdd, pendRec, slots, accepted>>
    BY DEF NothingToReconcile, machine, server
  <1>3. Apart' /\ Stored'
    BY <1>2, StoresSame
  <1> DEFINE r == proc'[p]
  <1>4. /\ r.pc = "proceed" /\ r.snap = proc[p].snap /\ r.rec = proc[p].rec
        /\ r.flow = proc[p].flow /\ proc[p].pc = "reconcile"
    BY <1>1 DEF NothingToReconcile, Goto, At, Tasks
  <1>5. Surveyed(r)
    BY <1>4 DEF Alone, Surveyed, Surveying, Reconciling
  <1>6. ASSUME proc[p].flow = "rotate", NEW s \in Live(slots), s.id = proc[p].rec
        PROVE  FALSE
    <2>1. s \in slots /\ s.live /\ s.kid # Foreign /\ s \in Slot
      BY <1>1, <1>6, SlotOfId, NaturalSets DEF Knows, Live, Slot
    <2>2. s.kid \in keys /\ s \in proc[p].snap
      BY <1>4, <1>6, <2>1 DEF Stored, Alone, Surveyed, Surveying, Reconciling
    <2>3. s \in Mine(p)
      BY <1>6, <2>1, <2>2 DEF Mine, Live
    <2>4. ASSUME NEW u \in Mine(p) PROVE u = s
      <3>1. u \in proc[p].snap /\ u.live /\ u \in Slot
        BY <1>1 DEF Mine, Live, Tasks
      <3>2. u.id = s.id
        BY <1>1, <1>6, SlotOfId, NaturalSets DEF Mine, Knows
      <3>3. u.kid = s.kid
        BY <1>4, <2>1, <3>1, <3>2, SlotOfId DEF Alone, Surveyed, Surveying, Reconciling
      <3> QED BY <2>1, <3>1, <3>2, <3>3 DEF Slot
    <2>5. Mine(p) = {s}
      BY <2>3, <2>4
    <2>6. Cardinality(Mine(p)) = 1
      BY <2>5, FS_Singleton
    <2> QED BY <2>6 DEF NothingToReconcile, Adoptable
  <1> HIDE DEF r
  <1>7. Alone(r)
    BY <1>4, <1>5, <1>6 DEF Alone, Chosen, Rotating, Enlisted, Staged, Answered
  <1>8. Alone(proc[p])'
    BY <1>2, <1>7, StoresSame DEF r
  <1> QED BY <1>3, <1>8

LEMMA ReproposeK ==
  ASSUME Base, Apart, Stored, NEW p \in Procs, Alone(proc[p]), Repropose(p)
  PROVE  Apart' /\ Stored' /\ Alone(proc[p])'
  <1>1. Files /\ Server /\ Others /\ proc \in [Procs -> Tasks] /\ Knows(p) /\ proc[p] \in Tasks
    BY Parts DEF Flowing
  <1>2. UNCHANGED <<keys, active, pendBind, pendAdd, pendRec, slots, accepted>>
    BY DEF Repropose, machine, server
  <1>3. Apart' /\ Stored'
    BY <1>2, StoresSame
  <1> DEFINE r == proc'[p]
  <1>4. /\ r.pc = "approve" /\ r.snap = proc[p].snap /\ r.flow = proc[p].flow
        /\ proc[p].pc = "proceed" /\ r.flow \in {"bind", "add"}
        /\ \/ pendBind # None /\ r.kid = pendBind.kid /\ r.flow = "bind"
           \/ pendAdd # None /\ r.kid = pendAdd /\ r.flow = "add"
    BY <1>1 DEF Repropose, At, Tasks
  <1>5. r.kid \in keys
    BY <1>4 DEF Repropose, Refuses
  <1>6. pendRec # None /\ ~Good => r.kid # pendRec.kid
    BY <1>4 DEF Apart
  <1> HIDE DEF r
  <1>7. Alone(r)
    BY <1>4, <1>5, <1>6 DEF Alone, Surveyed, Chosen, Rotating, Enlisted, Staged, Answered,
       Surveying, Reconciling
  <1>8. Alone(proc[p])'
    BY <1>2, <1>7, StoresSame DEF r
  <1> QED BY <1>3, <1>8

LEMMA AdoptFieldsK ==
  ASSUME Base, Apart, Stored, NEW p \in Procs, Alone(proc[p]), AdoptFields(p)
  PROVE  Apart' /\ Stored' /\ Alone(proc[p])'
  <1>1. Files /\ Server /\ Others /\ proc \in [Procs -> Tasks] /\ Knows(p) /\ proc[p] \in Tasks
    BY Parts DEF Flowing
  <1>2. PICK s \in Mine(p), c \in {"point", "retire"}, d \in BOOLEAN :
           /\ binding' = IF proc[p].rec # s.id THEN s.id ELSE binding
           /\ c = "point" <=> active # s.kid
           /\ d <=> (proc[p].rec # s.id \/ active # s.kid)
           /\ proc' = [proc EXCEPT ![p].pc = c, ![p].kid = s.kid, ![p].local = keys,
                                   ![p].changed = d]
    BY Adoption
  <1>3. UNCHANGED <<keys, active, pendBind, pendAdd, pendRec, slots, accepted>>
    BY DEF AdoptFields, server
  <1>4. s \in proc[p].snap
    BY DEF Mine, Live
  <1> DEFINE r == proc'[p]
  <1>5. /\ r.pc = c /\ r.kid = s.kid /\ r.changed = d /\ r.rec = proc[p].rec
        /\ r.snap = proc[p].snap /\ proc[p].pc = "reconcile"
    BY <1>1, <1>2 DEF AdoptFields, At, Tasks
  <1> HIDE DEF r
  <1>6. Surveyed(r)
    BY <1>5 DEF Alone, Surveyed, Surveying, Reconciling
  <1>7. s.kid \in Listed(slots) /\ \E v \in slots : v.id = s.id /\ v.kid = s.kid
    BY <1>4, <1>5 DEF Alone, Surveyed, Surveying, Reconciling, Listed
  <1>8. ASSUME ~d, NEW u \in Live(slots), u.id = r.rec
        PROVE  u.kid = active
    BY <1>2, <1>5, <1>7, <1>8, SlotOfId DEF Live
  <1>9. Alone(r)
    BY <1>2, <1>5, <1>6, <1>7, <1>8 DEF Alone, Chosen, Rotating, Enlisted, Staged, Answered
  <1> QED BY <1>3, <1>9, StoresSame DEF r

LEMMA AdoptPointerK ==
  ASSUME Base, Apart, Stored, NEW p \in Procs, Alone(proc[p]), AdoptPointer(p)
  PROVE  Apart' /\ Stored' /\ Alone(proc[p])'
  <1>1. Files /\ Server /\ Others /\ proc \in [Procs -> Tasks] /\ Knows(p) /\ proc[p] \in Tasks
    BY Parts DEF Flowing
  <1>2. UNCHANGED <<keys, pendBind, pendAdd, pendRec, slots, accepted>>
    BY DEF AdoptPointer, server
  <1>3. CASE proc[p].kid \notin keys
    <2>1. UNCHANGED active /\ Done(p)
      BY <1>3 DEF AdoptPointer
    <2> QED BY <1>1, <1>2, <2>1, StoresSame, DoneAlone
  <1>4. CASE proc[p].kid \in keys
    <2>1. /\ active' = proc[p].kid /\ proc' = [proc EXCEPT ![p].pc = "retire"]
          /\ proc[p].pc = "point"
      BY <1>4 DEF AdoptPointer, Goto, At
    <2>2. proc[p].kid \in Listed(slots) /\ proc[p].changed
      BY <2>1 DEF Alone, Enlisted
    <2>3. Apart'
      BY <1>2, <2>1, <2>2 DEF Apart, Good, Receipts
    <2>4. Stored'
      BY <1>2 DEF Stored
    <2> DEFINE r == proc'[p]
    <2>5. r.pc = "retire" /\ r.changed /\ r.snap = proc[p].snap
      BY <1>1, <2>1, <2>2 DEF Tasks
    <2>6. Alone(proc[p])'
      BY <1>2, <2>1, <2>5 DEF Alone, Surveyed, Chosen, Rotating, Enlisted, Staged,
         Answered, Surveying, Reconciling
    <2> QED BY <2>3, <2>4, <2>6 DEF r
  <1> QED BY <1>3, <1>4

LEMMA ActivatePointerK ==
  ASSUME Base, Apart, Stored, NEW p \in Procs, Alone(proc[p]), ActivatePointer(p)
  PROVE  Apart' /\ Stored' /\ Alone(proc[p])'
  <1>1. Files /\ Server /\ Others /\ proc \in [Procs -> Tasks] /\ Knows(p) /\ proc[p] \in Tasks
    BY Parts DEF Flowing
  <1>2. UNCHANGED <<keys, pendBind, pendAdd, pendRec, slots, accepted>>
    BY DEF ActivatePointer, server
  <1>3. CASE proc[p].kid \notin keys
    <2>1. UNCHANGED active /\ Done(p)
      BY <1>3 DEF ActivatePointer
    <2> QED BY <1>1, <1>2, <2>1, StoresSame, DoneAlone
  <1>4. CASE proc[p].kid \in keys
    <2>1. /\ active' = proc[p].kid /\ proc[p].pc = "activate"
          /\ proc[p].flow \in {"bind", "add", "rotate"}
      BY <1>1, <1>4 DEF ActivatePointer, At, Knows, Fits
    <2>2. proc[p].kid \in Listed(slots)
      BY <2>1 DEF Alone, Enlisted
    <2>3. Apart'
      BY <1>2, <2>1, <2>2 DEF Apart, Good, Receipts
    <2>4. Stored'
      BY <1>2 DEF Stored
    <2> DEFINE r == proc'[p]
    <2>5. \E c \in {"clear", "clearAdd", "retireOld"} :
            proc' = [proc EXCEPT ![p].pc = c] /\ (c = "retireOld" => proc[p].flow = "rotate")
      BY <1>4, <2>1 DEF ActivatePointer, Goto
    <2>6. /\ r.pc \in {"clear", "clearAdd", "retireOld"} /\ r.local = proc[p].local
          /\ r.kid = proc[p].kid /\ r.flow = proc[p].flow
      BY <1>1, <2>5 DEF Tasks
    <2>7. Alone(proc[p])'
      BY <1>2, <2>1, <2>6 DEF Alone, Surveyed, Chosen, Rotating, Enlisted, Staged,
         Answered, Surveying, Reconciling, Good, Receipts
    <2> QED BY <2>3, <2>4, <2>7 DEF r
  <1> QED BY <1>3, <1>4

LEMMA RecoveryPointerK ==
  ASSUME Base, Apart, Stored, NEW p \in Procs, Alone(proc[p]), RecoveryPointer(p)
  PROVE  Apart' /\ Stored' /\ Alone(proc[p])'
  <1>1. Files /\ Server /\ Others /\ proc \in [Procs -> Tasks] /\ Knows(p) /\ proc[p] \in Tasks
    BY Parts DEF Flowing
  <1>2. UNCHANGED <<keys, pendBind, pendAdd, pendRec, slots, accepted>>
    BY DEF RecoveryPointer, server
  <1>3. CASE proc[p].kid \notin keys
    <2>1. UNCHANGED active /\ Done(p)
      BY <1>3 DEF RecoveryPointer
    <2> QED BY <1>1, <1>2, <2>1, StoresSame, DoneAlone
  <1>4. CASE proc[p].kid \in keys
    <2>1. /\ active' = proc[p].kid /\ proc' = [proc EXCEPT ![p].pc = "recFields"]
          /\ proc[p].pc = "recPoint"
      BY <1>4 DEF RecoveryPointer, Goto, At
    <2>2. Good /\ Good'
      BY <1>2, <2>1 DEF Alone, Answered, Good, Receipts
    <2>3. Apart' /\ Stored'
      BY <1>2, <2>2 DEF Apart, Stored
    <2> DEFINE r == proc'[p]
    <2>4. r.pc = "recFields" /\ r.flow = "recover"
      BY <1>1, <2>1 DEF Tasks, Knows, Fits, Recovering, Submitting
    <2>5. Alone(proc[p])'
      BY <2>2, <2>4 DEF Alone, Surveyed, Chosen, Rotating, Enlisted, Staged, Answered,
         Surveying, Reconciling
    <2> QED BY <2>3, <2>5 DEF r
  <1> QED BY <1>3, <1>4

LEMMA ForgetPointerK ==
  ASSUME Base, Apart, Stored, NEW p \in Procs, Alone(proc[p]), ForgetPointer(p)
  PROVE  Apart' /\ Stored' /\ Alone(proc[p])'
  <1>1. Files /\ Server /\ Others /\ proc \in [Procs -> Tasks] /\ Knows(p) /\ proc[p] \in Tasks
    BY Parts DEF Flowing
  <1>2. UNCHANGED <<keys, pendBind, pendAdd, pendRec, slots, accepted>> /\ active' = None
    BY DEF ForgetPointer, server
  <1>3. Apart' /\ Stored'
    BY <1>2, PendingNames DEF Apart, Stored, Good, Receipts
  <1>4. Done(p) \/ (Goto(p, "clear") /\ proc[p].flow = "bind")
    BY DEF ForgetPointer
  <1>5. CASE Goto(p, "clear") /\ proc[p].flow = "bind"
    <2> DEFINE r == proc'[p]
    <2>1. r.pc = "clear" /\ r.flow = "bind"
      BY <1>1, <1>5 DEF Goto, Tasks
    <2>2. Alone(proc[p])'
      BY <2>1 DEF Alone, Surveyed, Chosen, Rotating, Enlisted, Staged, Answered, Surveying,
         Reconciling
    <2> QED BY <1>3, <2>2 DEF r
  <1> QED BY <1>1, <1>3, <1>4, <1>5, DoneAlone

LEMMA ClearBindK ==
  ASSUME Base, Apart, Stored, NEW p \in Procs, Alone(proc[p]), ClearBind(p)
  PROVE  Apart' /\ Stored' /\ Alone(proc[p])'
  <1>1. Files /\ Server /\ Others /\ proc \in [Procs -> Tasks] /\ Knows(p) /\ proc[p] \in Tasks
    BY Parts DEF Flowing
  <1>2. UNCHANGED <<keys, active, pendAdd, pendRec, slots, accepted>> /\ pendBind' = None /\ Done(p)
    BY DEF ClearBind, server
  <1>3. Apart' /\ Stored'
    BY <1>2, PendingNames DEF Apart, Stored, Good, Receipts
  <1> QED BY <1>1, <1>2, <1>3, DoneAlone

LEMMA ClearAddK ==
  ASSUME Base, Apart, Stored, NEW p \in Procs, Alone(proc[p]), ClearAdd(p)
  PROVE  Apart' /\ Stored' /\ Alone(proc[p])'
  <1>1. Files /\ Server /\ Others /\ proc \in [Procs -> Tasks] /\ Knows(p) /\ proc[p] \in Tasks
    BY Parts DEF Flowing
  <1>2. UNCHANGED <<keys, active, pendBind, pendRec, slots, accepted>> /\ pendAdd' = None /\ Done(p)
    BY DEF ClearAdd, server
  <1>3. Apart' /\ Stored'
    BY <1>2, PendingNames DEF Apart, Stored, Good, Receipts
  <1> QED BY <1>1, <1>2, <1>3, DoneAlone

LEMMA ClearRecoveryK ==
  ASSUME Base, Apart, Stored, NEW p \in Procs, Alone(proc[p]), ClearRecovery(p)
  PROVE  Apart' /\ Stored' /\ Alone(proc[p])'
  <1>1. Files /\ Server /\ Others /\ proc \in [Procs -> Tasks] /\ Knows(p) /\ proc[p] \in Tasks
    BY Parts DEF Flowing
  <1>2. UNCHANGED <<keys, active, pendBind, pendAdd, slots, accepted>> /\ pendRec' = None /\ Done(p)
    BY DEF ClearRecovery, server
  <1>3. Apart' /\ Stored'
    BY <1>2, PendingNames DEF Apart, Stored, Good, Receipts
  <1> QED BY <1>1, <1>2, <1>3, DoneAlone

LEMMA SaveBindK ==
  ASSUME Base, Apart, Stored, NEW p \in Procs, Alone(proc[p]), SaveBind(p)
  PROVE  Apart' /\ Stored' /\ Alone(proc[p])'
  <1>1. Files /\ Server /\ Others /\ proc \in [Procs -> Tasks] /\ Knows(p) /\ proc[p] \in Tasks
    BY Parts DEF Flowing
  <1>2. /\ UNCHANGED <<keys, active, pendAdd, pendRec, slots, accepted>>
        /\ pendBind' = [kid |-> proc[p].kid, secret |-> secrets + 1] /\ proc[p].pc = "save"
        /\ proc' = [proc EXCEPT ![p].pc = "approve", ![p].secret = secrets + 1]
    BY DEF SaveBind, server, At
  <1>3. pendBind'.kid = proc[p].kid /\ (pendRec # None /\ ~Good => proc[p].kid # pendRec.kid)
        /\ proc[p].kid \in keys
    BY <1>2 DEF Alone, Chosen
  <1>4. Apart' /\ Stored'
    BY <1>2, <1>3 DEF Apart, Stored, Good, Receipts
  <1> DEFINE r == proc'[p]
  <1>5. r.pc = "approve" /\ r.snap = proc[p].snap /\ r.kid = proc[p].kid /\ r.flow = "bind"
    BY <1>1, <1>2 DEF Tasks, Knows, Fits
  <1>6. Surveyed(proc[p])'
    BY <1>2, <1>5 DEF Alone, Surveyed, Surveying, Reconciling
  <1>7. Chosen(proc[p])'
    BY <1>2, <1>3, <1>5 DEF Chosen, Good, Receipts
  <1>8. Rotating(proc[p])' /\ Enlisted(proc[p])' /\ Staged(proc[p])' /\ Answered(proc[p])'
    BY <1>5 DEF Rotating, Enlisted, Staged, Answered
  <1> QED BY <1>4, <1>6, <1>7, <1>8 DEF Alone

LEMMA SaveAddK ==
  ASSUME Base, Apart, Stored, NEW p \in Procs, Alone(proc[p]), SaveAdd(p)
  PROVE  Apart' /\ Stored' /\ Alone(proc[p])'
  <1>1. Files /\ Server /\ Others /\ proc \in [Procs -> Tasks] /\ Knows(p) /\ proc[p] \in Tasks
    BY Parts DEF Flowing
  <1>2. /\ UNCHANGED <<keys, active, pendBind, pendRec, slots, accepted>>
        /\ pendAdd' = proc[p].kid /\ proc[p].pc = "approve" /\ proc[p].flow = "add"
        /\ proc' = [proc EXCEPT ![p].pc = "commit"]
    BY DEF SaveAdd, server, At, Goto
  <1>3. (pendRec # None /\ ~Good => proc[p].kid # pendRec.kid) /\ proc[p].kid \in keys
    BY <1>2 DEF Alone, Chosen
  <1>4. Apart' /\ Stored'
    BY <1>2, <1>3 DEF Apart, Stored, Good, Receipts
  <1> DEFINE r == proc'[p]
  <1>5. r.pc = "commit" /\ r.snap = proc[p].snap /\ r.kid = proc[p].kid /\ r.flow = "add"
    BY <1>1, <1>2 DEF Tasks
  <1>6. Alone(proc[p])'
    BY <1>2, <1>3, <1>5 DEF Alone, Surveyed, Chosen, Rotating, Enlisted, Staged, Answered,
       Surveying, Good, Receipts
  <1> QED BY <1>4, <1>6 DEF r

LEMMA ActivateFieldsK ==
  ASSUME Base, Apart, Stored, NEW p \in Procs, Alone(proc[p]), ActivateFields(p)
  PROVE  Apart' /\ Stored' /\ Alone(proc[p])'
  <1>1. Files /\ Server /\ Others /\ proc \in [Procs -> Tasks] /\ Knows(p) /\ proc[p] \in Tasks
    BY Parts DEF Flowing
  <1>2. /\ UNCHANGED <<keys, active, pendBind, pendAdd, pendRec, slots, accepted>>
        /\ proc' = [proc EXCEPT ![p].pc = "activate", ![p].local = {active} \ {None}]
        /\ proc[p].pc = "fields"
    BY DEF ActivateFields, server, At
  <1>3. Apart' /\ Stored'
    BY <1>2, StoresSame
  <1> DEFINE r == proc'[p]
  <1>4. /\ r.pc = "activate" /\ r.kid = proc[p].kid /\ r.flow = proc[p].flow
        /\ r.local = {active} \ {None}
    BY <1>1, <1>2 DEF Tasks
  <1> HIDE DEF r
  <1>5. proc[p].flow = "rotate" => \A s \in Live(slots) : s.kid # active
    BY <1>2 DEF Alone, Rotating, Listed
  <1>6. pendRec # None /\ ~Good => pendRec.kid # active
    BY DEF Apart
  <1>7. Alone(r)
    BY <1>2, <1>4, <1>5, <1>6 DEF Alone, Surveyed, Chosen, Rotating, Enlisted, Staged,
       Answered, Surveying, Reconciling
  <1> QED BY <1>2, <1>3, <1>7, StoresSame DEF r

LEMMA RetireUnlistedK ==
  ASSUME Base, Apart, Stored, NEW p \in Procs, Alone(proc[p]), RetireUnlisted(p), shared' = {}
  PROVE  Apart' /\ Stored' /\ Alone(proc[p])'
  <1>1. Files /\ Server /\ Others /\ proc \in [Procs -> Tasks] /\ Knows(p) /\ proc[p] \in Tasks
    BY Parts DEF Flowing
  <1> DEFINE gone == Retirable(proc[p].local \ Listed(proc[p].snap))
             r == proc'[p]
  <1>2. /\ keys' = keys \ gone /\ gone \cap PendingKids = {} /\ proc[p].pc = "retire"
        /\ gone \cap Listed(proc[p].snap) = {}
        /\ UNCHANGED <<active, pendBind, pendAdd, pendRec, slots, accepted>>
    BY DEF RetireUnlisted, At, server, Retirable
  <1>3. pendRec # None => pendRec.kid \in PendingKids
    BY PendingNames DEF PendingKids
  <1>4. Apart'
    BY <1>2, <1>3 DEF Apart, Good, Receipts
  <1>5. \A s \in Live(slots) : s.kid # Foreign => s.kid \in Listed(proc[p].snap)
    BY <1>2 DEF Alone, Surveyed, Surveying, Reconciling, Listed
  <1> HIDE DEF gone
  <1>6. Stored'
    BY <1>2, <1>5 DEF Stored
  <1>7. \/ Done(p)
        \/ proc[p].flow = "bind" /\ proc' = [proc EXCEPT ![p] = [proc[p] EXCEPT !.pc = "clear"]]
        \/ /\ ~proc[p].changed
           /\ proc' = [proc EXCEPT ![p] = [proc[p] EXCEPT !.pc = "proceed", !.kid = None,
                                                          !.local = {}]]
    BY DEF RetireUnlisted, Done
  <1>8. CASE /\ proc[p].flow = "bind"
             /\ proc' = [proc EXCEPT ![p] = [proc[p] EXCEPT !.pc = "clear"]]
    <2>1. r.pc = "clear" /\ r.flow = "bind"
      BY <1>1, <1>8 DEF Tasks
    <2>2. Alone(proc[p])'
      BY <2>1 DEF Alone, Surveyed, Chosen, Rotating, Enlisted, Staged, Answered, Surveying,
         Reconciling
    <2> QED BY <1>4, <1>6, <2>2
  <1>9. CASE /\ ~proc[p].changed
             /\ proc' = [proc EXCEPT ![p] = [proc[p] EXCEPT !.pc = "proceed", !.kid = None,
                                                            !.local = {}]]
    <2>1. /\ r.pc = "proceed" /\ r.snap = proc[p].snap /\ r.rec = proc[p].rec
          /\ r.flow = proc[p].flow
      BY <1>1, <1>9 DEF Tasks
    <2>2. Surveyed(proc[p])'
      BY <1>2, <2>1 DEF Alone, Surveyed, Surveying, Reconciling
    <2>3. Rotating(proc[p])'
      BY <1>2, <1>9, <2>1 DEF Alone, Rotating
    <2>4. Chosen(proc[p])' /\ Enlisted(proc[p])' /\ Staged(proc[p])' /\ Answered(proc[p])'
      BY <2>1 DEF Chosen, Enlisted, Staged, Answered
    <2> QED BY <1>4, <1>6, <2>2, <2>3, <2>4 DEF Alone
  <1> QED BY <1>1, <1>4, <1>6, <1>7, <1>8, <1>9, DoneAlone

LEMMA ProposeK ==
  ASSUME Base, Apart, Stored, NEW p \in Procs, Alone(proc[p]), Propose(p), shared' = {}
  PROVE  Apart' /\ Stored' /\ Alone(proc[p])'
  <1>1. Files /\ Server /\ Others /\ proc \in [Procs -> Tasks] /\ Knows(p) /\ proc[p] \in Tasks
    BY Parts DEF Flowing
  <1>2. PICK k \in Kid, c \in {"save", "approve", "commit"} :
           /\ proc' = [proc EXCEPT ![p].pc = c, ![p].kid = k]
           /\ \/ c = "save" /\ proc[p].flow = "bind"
              \/ c = "approve" /\ proc[p].flow = "add"
              \/ c = "commit" /\ proc[p].flow = "rotate"
           /\ \/ /\ k \in Candidates(p) /\ UNCHANGED <<keys, kids>>
                 /\ shared' = shared \cup ({k} \cap PendingKids)
              \/ /\ k = kids + 1 /\ kids' = k /\ keys' = keys \cup {k}
                 /\ UNCHANGED shared
    BY Proposal
  <1>3. UNCHANGED <<active, pendBind, pendAdd, pendRec, slots, accepted>> /\ proc[p].pc = "proceed"
    BY DEF Propose, server, At
  <1>4. k \in keys' /\ keys \subseteq keys'
    BY <1>2 DEF Candidates
  <1>5. k # active
    BY <1>1, <1>2, KeysAreKids, NaturalSets DEF Candidates, Files
  <1>6. pendRec # None => k # pendRec.kid
    <2>1. CASE k \in Candidates(p) /\ shared' = shared \cup ({k} \cap PendingKids)
      BY <2>1, PendingNames DEF PendingKids
    <2>2. CASE k = kids + 1
      BY <1>1, <2>2, PendingNames, KeysAreKids DEF Files
    <2> QED BY <1>2, <2>1, <2>2
  <1>7. Apart' /\ Stored'
    BY <1>3, <1>4 DEF Apart, Stored, Good, Receipts
  <1> DEFINE r == proc'[p]
  <1>8. /\ r.pc = c /\ r.kid = k /\ r.snap = proc[p].snap /\ r.rec = proc[p].rec
        /\ r.flow = proc[p].flow
    BY <1>1, <1>2 DEF Tasks
  <1>9. Surveyed(proc[p])'
    BY <1>3, <1>8 DEF Alone, Surveyed, Surveying, Reconciling
  <1>10. Chosen(proc[p])'
    BY <1>3, <1>4, <1>6, <1>8 DEF Chosen
  <1>11. Rotating(proc[p])'
    BY <1>2, <1>3, <1>5, <1>8 DEF Alone, Rotating
  <1>12. Enlisted(proc[p])' /\ Staged(proc[p])' /\ Answered(proc[p])'
    BY <1>8 DEF Enlisted, Staged, Answered
  <1> QED BY <1>7, <1>9, <1>10, <1>11, <1>12 DEF Alone

LEMMA RetireOldK ==
  ASSUME Base, Apart, Stored, NEW p \in Procs, Alone(proc[p]), RetireOld(p)
  PROVE  Apart' /\ Stored' /\ Alone(proc[p])'
  <1>1. Files /\ Server /\ Others /\ proc \in [Procs -> Tasks] /\ Knows(p) /\ proc[p] \in Tasks
    BY Parts DEF Flowing
  <1>2. /\ UNCHANGED <<active, pendBind, pendAdd, pendRec, slots, accepted>> /\ Done(p)
        /\ keys' = keys \ Retirable(proc[p].local \ {proc[p].kid})
        /\ proc[p].pc = "retireOld" /\ proc[p].flow = "rotate"
    BY <1>1 DEF RetireOld, At, server, Knows, Fits
  <1>3. /\ \A s \in Live(slots) : s.kid \in proc[p].local => s.kid = proc[p].kid
        /\ pendRec # None /\ ~Good => pendRec.kid \notin proc[p].local
    BY <1>2 DEF Alone, Rotating
  <1>4. Apart'
    BY <1>2, <1>3 DEF Apart, Good, Receipts, Retirable
  <1>5. Stored'
    BY <1>2, <1>3 DEF Stored, Retirable
  <1> QED BY <1>1, <1>2, <1>4, <1>5, DoneAlone

LEMMA AfterRevokeK ==
  ASSUME Base, Apart, Stored, NEW p \in Procs, Alone(proc[p]), AfterRevoke(p)
  PROVE  Apart' /\ Stored' /\ Alone(proc[p])'
  <1>1. Files /\ Server /\ Others /\ proc \in [Procs -> Tasks] /\ Knows(p) /\ proc[p] \in Tasks
    BY Parts DEF Flowing
  <1>2. /\ UNCHANGED <<active, pendBind, pendAdd, pendRec, slots, accepted>>
        /\ proc[p].pc = "revoked" /\ proc[p].flow = "revoke"
        /\ \/ Done(p) /\ keys' = keys \ Retirable({proc[p].kid})
           \/ Goto(p, "unpoint") /\ keys' = keys
    BY <1>1 DEF AfterRevoke, At, server, Knows, Fits
  <1>3. proc[p].kid \in Listed(slots) /\ \A s \in Live(slots) : s.kid # proc[p].kid
    BY <1>2 DEF Alone, Enlisted
  <1>4. Apart'
    BY <1>2, <1>3 DEF Apart, Good, Receipts, Retirable
  <1>5. Stored'
    BY <1>2, <1>3 DEF Stored, Retirable
  <1>6. CASE Goto(p, "unpoint")
    <2> DEFINE r == proc'[p]
    <2>1. r.pc = "unpoint" /\ r.flow = "revoke"
      BY <1>1, <1>2, <1>6 DEF Goto, Tasks
    <2>2. Alone(proc[p])'
      BY <2>1 DEF Alone, Surveyed, Chosen, Rotating, Enlisted, Staged, Answered, Surveying,
         Reconciling
    <2> QED BY <1>4, <1>5, <2>2
  <1> QED BY <1>1, <1>2, <1>4, <1>5, <1>6, DoneAlone

LEMMA StageRecoveryK ==
  ASSUME Base, Apart, Stored, NEW p \in Procs, Alone(proc[p]), StageRecovery(p)
  PROVE  Apart' /\ Stored' /\ Alone(proc[p])'
  <1>1. Files /\ Server /\ Others /\ proc \in [Procs -> Tasks] /\ Knows(p) /\ proc[p] \in Tasks
    BY Parts DEF Flowing
  <1>2. /\ UNCHANGED <<active, pendBind, pendAdd, pendRec, slots, accepted>>
        /\ keys' = keys \cup {kids + 1} /\ pendRec = None
        /\ proc' = [proc EXCEPT ![p].pc = "challenge", ![p].kid = kids + 1]
        /\ proc[p].pc = "resume" /\ proc[p].flow = "recover"
    BY <1>1 DEF StageRecovery, At, server, Knows, Fits
  <1>3. Apart' /\ Stored'
    BY <1>2 DEF Apart, Stored
  <1>4. /\ kids + 1 \notin Listed(slots) /\ kids + 1 # active /\ kids + 1 # pendAdd
        /\ pendBind # None => pendBind.kid # kids + 1
    BY <1>1, PendingNames, KeysAreKids, NaturalSets DEF Files, Server
  <1> DEFINE r == proc'[p]
  <1>5. r.pc = "challenge" /\ r.kid = kids + 1 /\ r.flow = "recover"
    BY <1>1, <1>2 DEF Tasks
  <1>6. Staged(proc[p])'
    BY <1>2, <1>4, <1>5 DEF Staged
  <1>7. Surveyed(proc[p])' /\ Chosen(proc[p])' /\ Rotating(proc[p])' /\ Enlisted(proc[p])'
        /\ Answered(proc[p])'
    BY <1>5 DEF Surveyed, Surveying, Reconciling, Chosen, Rotating, Enlisted, Answered
  <1> QED BY <1>3, <1>6, <1>7 DEF Alone

LEMMA SaveRecoveryK ==
  ASSUME Base, Apart, Stored, NEW p \in Procs, Alone(proc[p]), SaveRecovery(p)
  PROVE  Apart' /\ Stored' /\ Alone(proc[p])'
  <1>1. Files /\ Server /\ Others /\ proc \in [Procs -> Tasks] /\ Knows(p) /\ proc[p] \in Tasks
    BY Parts DEF Flowing
  <1>2. /\ UNCHANGED <<keys, active, pendBind, pendAdd, slots, accepted>>
        /\ pendRec'.kid = proc[p].kid
        /\ proc' = [proc EXCEPT ![p].pc = "submit"]
        /\ proc[p].pc = "saveRec" /\ proc[p].flow = "recover"
    BY <1>1 DEF SaveRecovery, Goto, At, server, Knows, Fits, Recovering
  <1>3. Apart' /\ Stored'
    BY <1>2 DEF Alone, Staged, Apart, Stored
  <1> DEFINE r == proc'[p]
  <1>4. r.pc = "submit" /\ r.flow = "recover"
    BY <1>1, <1>2 DEF Tasks
  <1>5. Alone(proc[p])'
    BY <1>4 DEF Alone, Surveyed, Chosen, Rotating, Enlisted, Staged, Answered, Surveying,
       Reconciling
  <1> QED BY <1>3, <1>5

LEMMA RecoveryRejectedK ==
  ASSUME Base, Apart, Stored, NEW p \in Procs, Alone(proc[p]), RecoveryRejected(p)
  PROVE  Apart' /\ Stored' /\ Alone(proc[p])'
  <1>1. Files /\ Server /\ Others /\ proc \in [Procs -> Tasks] /\ Knows(p) /\ proc[p] \in Tasks
    BY Parts DEF Flowing
  <1>2. /\ UNCHANGED <<keys, active, pendBind, pendAdd, pendRec, slots>>
        /\ accepted' = accepted \cup {[kid |-> pendRec.kid, id |-> None]}
        /\ \A a \in Receipts : a.id = None
        /\ proc' = [proc EXCEPT ![p].pc = "rejected"]
        /\ proc[p].pc = "submit" /\ proc[p].flow = "recover"
    BY <1>1 DEF RecoveryRejected, RejectRecovery, Goto, At, Knows, Fits, Recovering,
       Submitting, machine
  <1>3. ~Good /\ ~Good' /\ (Receipts # {})'
    <2> DEFINE v == [kid |-> pendRec.kid, id |-> None]
    <2>1. v.kid = pendRec.kid /\ v.id = None /\ accepted' = accepted \cup {v}
      BY <1>2
    <2> HIDE DEF v
    <2>2. Receipts' = Receipts \cup {v}
      BY <1>2, <2>1 DEF Receipts
    <2> QED BY <1>2, <2>1, <2>2 DEF Good
  <1>4. Apart' /\ Stored'
    BY <1>2, <1>3 DEF Apart, Stored
  <1> DEFINE r == proc'[p]
  <1>5. r.pc = "rejected" /\ r.flow = "recover"
    BY <1>1, <1>2 DEF Tasks
  <1>6. Alone(proc[p])'
    BY <1>3, <1>5 DEF Alone, Surveyed, Chosen, Rotating, Enlisted, Staged, Answered,
       Surveying, Reconciling
  <1> QED BY <1>4, <1>6

LEMMA RetireRejectedK ==
  ASSUME Base, Apart, Stored, NEW p \in Procs, Alone(proc[p]), RetireRejected(p)
  PROVE  Apart' /\ Stored' /\ Alone(proc[p])'
  <1>1. Files /\ Server /\ Others /\ proc \in [Procs -> Tasks] /\ Knows(p) /\ proc[p] \in Tasks
    BY Parts DEF Flowing
  <1>2. /\ UNCHANGED <<active, pendBind, pendAdd, pendRec, slots, accepted>>
        /\ keys' = keys \ Retirable({proc[p].kid})
        /\ proc' = [proc EXCEPT ![p].pc = "clearRec"]
        /\ proc[p].pc = "rejected" /\ proc[p].kid = pendRec.kid /\ pendRec # None
    BY <1>1 DEF RetireRejected, Goto, At, server, Knows, Submitting
  <1>3. ~Good /\ Receipts # {} /\ pendRec.kid \notin Listed(slots)
    BY <1>2 DEF Alone, Answered, Apart
  <1>4. Apart'
    BY <1>2, <1>3 DEF Apart, Good, Receipts
  <1>5. Stored'
    BY <1>2, <1>3 DEF Stored, Retirable, Listed, Live
  <1> DEFINE r == proc'[p]
  <1>6. r.pc = "clearRec" /\ r.flow = proc[p].flow /\ proc[p].flow = "recover"
    BY <1>1, <1>2 DEF Tasks, Knows, Fits, Recovering, Submitting
  <1>7. Alone(proc[p])'
    BY <1>6 DEF Alone, Surveyed, Chosen, Rotating, Enlisted, Staged, Answered, Surveying,
       Reconciling
  <1> QED BY <1>4, <1>5, <1>7

LEMMA SubmitRecoveryK ==
  ASSUME Base, Apart, Stored, NEW p \in Procs, Alone(proc[p]), SubmitRecovery(p)
  PROVE  Apart' /\ Stored' /\ Alone(proc[p])'
  <1>1. Files /\ Server /\ Others /\ proc \in [Procs -> Tasks] /\ Knows(p) /\ proc[p] \in Tasks
    BY Parts DEF Flowing
  <1>2. /\ UNCHANGED <<keys, active, pendBind, pendAdd, pendRec>> /\ pendRec # None
        /\ proc[p].pc = "submit" /\ proc[p].flow = "recover"
    BY <1>1 DEF SubmitRecovery, At, machine, Knows, Fits, Recovering, Submitting
  <1>3. Good' /\ Stored'
    <2>1. CASE CommitRecovery
      <3>1. accepted' = accepted \cup {[kid |-> pendRec.kid, id |-> Fresh]} /\ Receipts = {}
        BY <2>1 DEF CommitRecovery
      <3>2. Slots
        BY <1>1 DEF Server, Slots
      <3>3. Fresh # None
        BY <3>2, SlotNumbers, NaturalSets
      <3>4. Good'
        <4> DEFINE v == [kid |-> pendRec.kid, id |-> Fresh]
        <4>1. v.kid = pendRec.kid /\ v.id = Fresh /\ v \in accepted'
          BY <3>1
        <4> HIDE DEF v
        <4> QED BY <1>2, <3>3, <4>1 DEF Good, Receipts
      <3>5. pendRec.kid \in keys
        BY <1>2, <3>1 DEF Apart, Good
      <3>6. \A s \in Live(slots)' : s.kid = pendRec.kid
        <4>1. \A s \in slots : ~[s EXCEPT !.live = FALSE].live
          BY <3>2 DEF Slots, Slot
        <4> DEFINE v == [id |-> Fresh, kid |-> pendRec.kid, live |-> TRUE]
        <4>2. slots' = {[s EXCEPT !.live = FALSE] : s \in slots} \cup {v}
          BY <2>1 DEF CommitRecovery
        <4>3. \A s \in slots' : s.live => s = v
          BY <4>1, <4>2
        <4> QED BY <4>3 DEF Live
      <3> QED BY <1>2, <3>4, <3>5, <3>6 DEF Stored
    <2>2. CASE AnswerAgain
      BY <1>2, <2>2 DEF AnswerAgain, server, Good, Receipts, Stored
    <2> QED BY <2>1, <2>2 DEF SubmitRecovery
  <1>4. Apart'
    BY <1>3 DEF Apart
  <1>5. Done(p) \/ \E a \in accepted' : proc' = [proc EXCEPT ![p].pc = "recPoint", ![p].id = a.id]
    BY DEF SubmitRecovery
  <1>6. ASSUME NEW i, proc' = [proc EXCEPT ![p].pc = "recPoint", ![p].id = i]
        PROVE  Alone(proc[p])'
    <2> DEFINE r == proc'[p]
    <2>1. r.pc = "recPoint" /\ r.flow = "recover"
      BY <1>1, <1>2, <1>6 DEF Tasks
    <2> QED BY <1>3, <2>1 DEF Alone, Surveyed, Chosen, Rotating, Enlisted, Staged,
               Answered, Surveying, Reconciling
  <1> QED BY <1>1, <1>3, <1>4, <1>5, <1>6, DoneAlone

LEMMA CommitK ==
  ASSUME Base, Apart, Stored, NEW p \in Procs, Alone(proc[p]), Commit(p)
  PROVE  Apart' /\ Stored' /\ Alone(proc[p])'
  <1>1. Files /\ Server /\ Others /\ proc \in [Procs -> Tasks] /\ Knows(p) /\ proc[p] \in Tasks
    BY Parts DEF Flowing
  <1>2. PICK s \in Accepts(p) :
         /\ slots' = {t \in slots : t.id # s.id} \cup {s}
         /\ \/ proc' = [proc EXCEPT ![p].id = s.id, ![p].kid = s.kid,
                                    ![p].pc = IF proc[p].flow = "revoke"
                                              THEN "revoked" ELSE "fields"]
            \/ Done(p)
    BY DEF Commit
  <1>3. UNCHANGED <<keys, active, pendBind, pendAdd, pendRec, accepted, kids>>
        /\ proc[p].pc = "commit" /\ At(p, "commit")
    BY DEF Commit, machine, At
  <1>4. /\ s \in slots'
        /\ proc[p].flow # "revoke" => s.kid = proc[p].kid
    BY <1>2, <1>3, CommittedSlots
  <1>5. Enrols(p, s) \/ \E t \in slots : Rekeys(p, t, s) \/ Withdraws(p, t, s)
    BY <1>2, <1>3, Commitment
  <1>6. proc[p].flow # "revoke" =>
          proc[p].kid \in keys /\ (pendRec # None /\ ~Good => proc[p].kid # pendRec.kid)
    BY <1>3 DEF Alone, Chosen
  <1>7. ASSUME NEW t \in slots, Rekeys(p, t, s) \/ Withdraws(p, t, s)
        PROVE  /\ slots' = (slots \ {t}) \cup {s} /\ t \in Slot /\ t \in Live(slots)
               /\ \A u \in Live(slots) : u.kid = t.kid => u = t
               /\ Rekeys(p, t, s) => s.kid = proc[p].kid /\ proc[p].flow = "rotate"
               /\ Withdraws(p, t, s) => s.kid = t.kid /\ ~s.live /\ proc[p].flow = "revoke"
    BY <1>1, <1>7, SlotOfId DEF Rekeys, Withdraws, Server, LiveUnique, Slot
  <1>8. \A u \in slots' : u = s \/ u \in slots
    BY <1>2
  <1>9. \/ proc[p].flow # "revoke" /\ s.kid = proc[p].kid
        \/ ~s.live /\ \E t \in slots : s.kid = t.kid
    BY <1>4, <1>5, <1>7 DEF Enrols
  <1>10. Apart'
    BY <1>3, <1>6, <1>8, <1>9 DEF Apart, Listed, Good, Receipts
  <1>11. Stored'
    BY <1>3, <1>6, <1>8, <1>9 DEF Stored, Live
  <1>12. ASSUME proc' = [proc EXCEPT ![p].id = s.id, ![p].kid = s.kid,
                                     ![p].pc = IF proc[p].flow = "revoke"
                                               THEN "revoked" ELSE "fields"]
         PROVE  Alone(proc[p])'
    <2> DEFINE r == proc'[p]
    <2>1. /\ r.pc = IF proc[p].flow = "revoke" THEN "revoked" ELSE "fields"
          /\ r.kid = s.kid /\ r.flow = proc[p].flow
      BY <1>1, <1>12 DEF Tasks
    <2>2. s.kid \in Listed(slots')
      BY <1>4 DEF Listed
    <2>3. proc[p].flow = "revoke" => \A u \in Live(slots)' : u.kid # s.kid
      <3>1. SUFFICES ASSUME proc[p].flow = "revoke", NEW u \in slots', u.live PROVE u.kid # s.kid
        BY DEF Live
      <3>2. PICK t \in slots : Withdraws(p, t, s)
        BY <1>5, <3>1 DEF Enrols, Rekeys
      <3> QED BY <1>7, <3>1, <3>2 DEF Live
    <2>4. proc[p].flow = "rotate" => \A u \in Live(slots)' : u.kid # active
      <3>1. SUFFICES ASSUME proc[p].flow = "rotate", NEW u \in slots', u.live PROVE u.kid # active
        BY DEF Live
      <3>2. PICK t \in slots : Rekeys(p, t, s)
        BY <1>5, <3>1 DEF Enrols, Withdraws
      <3>3. t.kid = active /\ proc[p].kid # active
        BY <1>3, <3>1, <3>2 DEF Alone, Rotating, Rekeys
      <3> QED BY <1>7, <3>1, <3>2, <3>3 DEF Live
    <2>5. Enlisted(proc[p])'
      BY <2>1, <2>2, <2>3 DEF Enlisted
    <2>6. Rotating(proc[p])'
      BY <1>3, <2>1, <2>4 DEF Rotating, Listed
    <2>7. Surveyed(proc[p])' /\ Chosen(proc[p])' /\ Staged(proc[p])' /\ Answered(proc[p])'
      BY <2>1 DEF Surveyed, Surveying, Reconciling, Chosen, Staged, Answered
    <2> QED BY <2>5, <2>6, <2>7 DEF Alone
  <1> QED BY <1>1, <1>2, <1>10, <1>11, <1>12, DoneAlone

(* What another machine can do to the slots.                                  *)
LEMMA Elsewhere1 ==
  ASSUME Base, Elsewhere
  PROVE  /\ \A s \in slots : \E t \in slots' : t.id = s.id /\ t.kid = s.kid
         /\ \A t \in Live(slots') : \/ t \in Live(slots)
                                    \/ t.kid = Foreign /\ t.id = Fresh /\ Foreign \notin Listed(slots)
         /\ \A k \in Listed(slots') : k \in Listed(slots) \/ k = Foreign
  <1>1. \A s \in slots : s \in Slot
    BY SlotOfId
  <1>2. ASSUME NEW s \in Live(slots), slots' = (slots \ {s}) \cup {[s EXCEPT !.live = FALSE]}
        PROVE  /\ \A u \in slots : \E t \in slots' : t.id = u.id /\ t.kid = u.kid
               /\ \A t \in Live(slots') : t \in Live(slots)
               /\ \A k \in Listed(slots') : k \in Listed(slots)
    <2> DEFINE e == [s EXCEPT !.live = FALSE]
    <2>1. s \in slots /\ e.id = s.id /\ e.kid = s.kid /\ ~e.live /\ slots' = (slots \ {s}) \cup {e}
      BY <1>1, <1>2 DEF Live, Slot
    <2> HIDE DEF e
    <2> QED BY <2>1 DEF Live, Listed
  <1>3. ASSUME slots' = slots \cup {[id |-> Fresh, kid |-> Foreign, live |-> TRUE]},
               Foreign \notin Listed(slots)
        PROVE  /\ \A u \in slots : \E t \in slots' : t.id = u.id /\ t.kid = u.kid
               /\ \A t \in Live(slots') : t \in Live(slots) \/ (t.kid = Foreign /\ t.id = Fresh)
               /\ \A k \in Listed(slots') : k \in Listed(slots) \/ k = Foreign
    BY <1>3 DEF Live, Listed
  <1> QED BY <1>2, <1>3 DEF Elsewhere

LEMMA ElsewhereK ==
  ASSUME Base, Apart, Stored, Elsewhere, \A q \in Procs : Alone(proc[q])
  PROVE  Apart' /\ Stored' /\ \A q \in Procs : Alone(proc[q])'
  <1>1. Files /\ Server /\ proc \in [Procs -> Tasks] /\ Flowing
    BY Parts
  <1>2. /\ \A s \in slots : \E t \in slots' : t.id = s.id /\ t.kid = s.kid
        /\ \A t \in Live(slots') : \/ t \in Live(slots)
                                   \/ t.kid = Foreign /\ t.id = Fresh /\ Foreign \notin Listed(slots)
        /\ \A k \in Listed(slots') : k \in Listed(slots) \/ k = Foreign
    BY Elsewhere1
  <1>3. UNCHANGED <<keys, active, pendBind, pendAdd, pendRec, accepted, proc>>
    BY DEF Elsewhere, machine
  <1>4. Good' = Good /\ Receipts' = Receipts
    BY <1>3 DEF Good, Receipts
  <1>5. Apart'
    BY <1>2, <1>3, <1>4, PendingNames, NaturalSets DEF Apart
  <1>6. Stored'
    BY <1>2, <1>3 DEF Stored
  <1>7. ASSUME NEW q \in Procs PROVE Alone(proc[q])'
    <2>1. proc[q] \in Tasks /\ Knows(q) /\ Alone(proc[q]) /\ proc'[q] = proc[q]
      BY <1>1, <1>3 DEF Flowing
    <2>2. Surveyed(proc[q])'
      <3>1. SUFFICES ASSUME proc[q].pc \in Surveying PROVE Surveyed(proc[q])'
        BY <2>1 DEF Surveyed
      <3>2. \A t \in proc[q].snap : \E s \in slots' : s.id = t.id /\ s.kid = t.kid
        BY <1>2, <2>1, <3>1 DEF Alone, Surveyed
      <3>3. \A s \in Live(slots') : s \in proc[q].snap \/ s.kid = Foreign
        BY <1>2, <2>1, <3>1 DEF Alone, Surveyed
      <3> QED BY <2>1, <3>2, <3>3 DEF Surveyed
    <2>3. Rotating(proc[q])'
      <3>1. SUFFICES ASSUME proc[q].flow = "rotate" PROVE Rotating(proc[q])'
        BY <2>1 DEF Rotating
      <3>2. proc[q].rec # Fresh
        <4>1. Slots
          BY <1>1 DEF Server, Slots
        <4>2. proc[q].rec \in Enrolled
          BY <2>1, <3>1 DEF Knows
        <4> QED BY <4>1, <4>2, SlotNumbers DEF Enrolled
      <3>3. active # Foreign /\ Foreign \notin proc[q].local
        BY <1>1, <2>1, KeysAreKids, NaturalSets DEF Tasks
      <3>4. (proc[q].pc = "retire" /\ ~proc[q].changed) \/ proc[q].pc \in {"proceed", "commit"} =>
              \A s \in Live(slots') : s.id = proc[q].rec => s.kid = active
        BY <1>2, <2>1, <3>1, <3>2 DEF Alone, Rotating
      <3>5. proc[q].pc = "fields" => active \notin Listed(Live(slots'))
        BY <1>2, <2>1, <3>1, <3>3 DEF Alone, Rotating, Listed
      <3>6. proc[q].pc \in {"activate", "retireOld"} =>
              \A s \in Live(slots') : s.kid \in proc[q].local => s.kid = proc[q].kid
        BY <1>2, <2>1, <3>1, <3>3 DEF Alone, Rotating
      <3> QED BY <1>3, <1>4, <2>1, <3>1, <3>4, <3>5, <3>6 DEF Alone, Rotating
    <2>4. Enlisted(proc[q])'
      <3>1. Listed(slots) \subseteq Listed(slots')
        BY <1>2 DEF Listed
      <3> QED BY <1>2, <2>1, <3>1 DEF Alone, Enlisted
    <2>5. Staged(proc[q])'
      BY <1>1, <1>2, <1>3, <2>1, KeysAreKids, NaturalSets DEF Alone, Staged
    <2>6. Chosen(proc[q])' /\ Answered(proc[q])'
      BY <1>3, <1>4, <2>1 DEF Alone, Chosen, Answered
    <2> QED BY <2>2, <2>3, <2>4, <2>5, <2>6 DEF Alone
  <1> QED BY <1>5, <1>6, <1>7

(* A step of a flow that has the machine to itself.                          *)
LEMMA StepK ==
  ASSUME Base, Apart, Stored, NEW p \in Procs, Alone(proc[p]), Step(p) \/ Abort(p),
         shared' = {}
  PROVE  Apart' /\ Stored' /\ Alone(proc[p])'
  <1>1. CASE Step(p)
    BY <1>1, AdoptFieldsK, AdoptPointerK, RetireUnlistedK, ForgetFieldsK, ForgetPointerK,
       NothingToReconcileK, RefuseK, ReproposeK, ProposeK, SaveBindK, DeliverBindK,
       SaveAddK, CommitK, CommitRefusedK, ActivateFieldsK, ActivatePointerK, RetireOldK,
       ClearBindK, ClearAddK, AfterRevokeK, ResumeRecoveryK, StageRecoveryK,
       DeliverReplacementK, SaveRecoveryK, SubmitRecoveryK, RecoveryRejectedK,
       RetireRejectedK, RecoveryPointerK, RecoveryFieldsK, ClearRecoveryK, DeliverRootK,
       CommitRootK, ListSlotsK, ListForRevokeK, LoadPendingAddK DEF Step
  <1> QED BY <1>1, AbortK

(* What a step of a flow leaves of the histories and of the other flows.     *)
LEMMA OthersStay ==
  ASSUME NEW p \in Procs, proc \in [Procs -> Tasks], Step(p) \/ Abort(p)
  PROVE  /\ shared \subseteq shared' /\ overlapped' = overlapped /\ proc[p].pc # "idle"
         /\ \A q \in Procs \ {p} : proc'[q] = proc[q]
  <1>1. CASE ListSlots(p) \/ ListForRevoke(p) \/ LoadPendingAdd(p)
    BY <1>1 DEF ListSlots, ListForRevoke, LoadPendingAdd, At, Goto, Done, hist
  <1>2. CASE AdoptFields(p) \/ AdoptPointer(p) \/ RetireUnlisted(p)
    BY <1>2 DEF AdoptFields, AdoptPointer, RetireUnlisted, At, Goto, Done, hist
  <1>3. CASE ForgetFields(p) \/ ForgetPointer(p) \/ NothingToReconcile(p)
    BY <1>3 DEF ForgetFields, ForgetPointer, NothingToReconcile, At, Goto, Done, hist
  <1>4. CASE Refuse(p) \/ Repropose(p) \/ Propose(p)
    BY <1>4 DEF Refuse, Repropose, Propose, At, Goto, Done, hist
  <1>5. CASE SaveBind(p) \/ DeliverBind(p) \/ SaveAdd(p)
    BY <1>5 DEF SaveBind, DeliverBind, SaveAdd, At, Goto, Done, hist
  <1>6. CASE Commit(p) \/ CommitRefused(p) \/ ActivateFields(p)
    BY <1>6 DEF Commit, CommitRefused, ActivateFields, At, Goto, Done, hist
  <1>7. CASE ActivatePointer(p) \/ RetireOld(p) \/ ClearBind(p)
    BY <1>7 DEF ActivatePointer, RetireOld, ClearBind, At, Goto, Done, hist
  <1>8. CASE ClearAdd(p) \/ AfterRevoke(p) \/ ResumeRecovery(p)
    BY <1>8 DEF ClearAdd, AfterRevoke, ResumeRecovery, At, Goto, Done, hist
  <1>9. CASE StageRecovery(p) \/ DeliverReplacement(p) \/ SaveRecovery(p)
    BY <1>9 DEF StageRecovery, DeliverReplacement, SaveRecovery, At, Goto, Done, hist
  <1>10. CASE SubmitRecovery(p) \/ RecoveryRejected(p) \/ RetireRejected(p)
    BY <1>10 DEF SubmitRecovery, RecoveryRejected, RetireRejected, At, Goto, Done, hist
  <1>11. CASE RecoveryPointer(p) \/ RecoveryFields(p) \/ ClearRecovery(p)
    BY <1>11 DEF RecoveryPointer, RecoveryFields, ClearRecovery, At, Goto, Done, hist
  <1>12. CASE DeliverRoot(p) \/ CommitRoot(p)
    BY <1>12 DEF DeliverRoot, CommitRoot, At, Goto, Done, hist
  <1>13. CASE Abort(p)
    BY <1>13 DEF Abort, At, Done, hist
  <1> QED BY <1>1, <1>2, <1>3, <1>4, <1>5, <1>6, <1>7, <1>8, <1>9, <1>10, <1>11, <1>12,
             <1>13 DEF Step

(* Unless two flows overlapped, there is at most one.                        *)
LEMMA LoneStep ==
  ASSUME Base, Lone, [Next]_vars
  PROVE  Lone'
  <1>1. proc \in [Procs -> Tasks] /\ overlapped \in BOOLEAN
    BY Parts DEF Others
  <1>2. ASSUME NEW p \in Procs, Step(p) \/ Abort(p) PROVE Lone'
    BY <1>1, <1>2, OthersStay DEF Lone, Serial
  <1>3. ASSUME NEW p \in Procs, NEW f \in Flows, Start(p, f) PROVE Lone'
    <2>1. ~overlapped' => \A q \in Procs : proc[q].pc = "idle"
      BY <1>3 DEF Start, At
    <2>2. \A q \in Procs \ {p} : proc'[q] = proc[q]
      BY <1>1, <1>3 DEF Start
    <2> QED BY <2>1, <2>2 DEF Lone, Serial
  <1>4. ASSUME Elsewhere \/ UNCHANGED vars PROVE Lone'
    BY <1>4 DEF Elsewhere, vars, hist, Lone, Serial
  <1> QED BY <1>2, <1>3, <1>4 DEF Next

(* A flow that is not running has no obligations.                            *)
LEMMA RestingAlone ==
  ASSUME NEW q \in Procs, proc'[q].pc = "idle", proc'[q].flow # "rotate"
  PROVE  Alone(proc[q])'
  BY DEF Alone, Surveyed, Chosen, Rotating, Enlisted, Staged, Answered, Surveying,
         Reconciling

LEMMA KeptByStep ==
  ASSUME Base, Lone, Kept, NEW p \in Procs, Step(p) \/ Abort(p)
  PROVE  Kept'
  <1>1. proc \in [Procs -> Tasks] /\ \A q \in Procs : Knows(q)
    BY Parts DEF Flowing
  <1>2. SUFFICES ASSUME Orderly' PROVE (Apart /\ Stored /\ \A q \in Procs : Alone(proc[q]))'
    BY DEF Kept
  <1>3. Orderly /\ shared' = {} /\ proc[p].pc # "idle"
        /\ \A q \in Procs \ {p} : proc'[q] = proc[q]
    BY <1>1, <1>2, OthersStay DEF Orderly
  <1>4. Apart /\ Stored /\ Alone(proc[p]) /\ Serial
    BY <1>3 DEF Kept, Orderly, Lone
  <1>5. Apart' /\ Stored' /\ Alone(proc[p])'
    BY <1>3, <1>4, StepK
  <1>6. ASSUME NEW q \in Procs \ {p} PROVE Alone(proc[q])'
    <2>1. proc'[q].pc = "idle" /\ proc'[q].flow = "none"
      BY <1>1, <1>3, <1>4 DEF Serial, Knows, Fits
    <2> QED BY <2>1, RestingAlone
  <1> QED BY <1>5, <1>6

LEMMA KeptByStart ==
  ASSUME Base, Kept, NEW p \in Procs, NEW f \in Flows, Start(p, f)
  PROVE  Kept'
  <1>1. proc \in [Procs -> Tasks]
    BY Parts
  <1>2. SUFFICES ASSUME Orderly' PROVE (Apart /\ Stored /\ \A q \in Procs : Alone(proc[q]))'
    BY DEF Kept
  <1>3. Orderly /\ UNCHANGED <<keys, active, pendBind, pendAdd, pendRec, slots, accepted>>
    BY <1>2 DEF Start, Orderly, machine, server
  <1>4. Apart' /\ Stored' /\ \A q : Alone(q) => Alone(q)'
    BY <1>3, StoresSame DEF Kept
  <1>5. proc'[p].pc \in {"list", "resume", "root"}
    BY <1>1 DEF Start
  <1>6. Alone(proc[p])'
    BY <1>5 DEF Alone, Surveyed, Chosen, Rotating, Enlisted, Staged, Answered, Surveying,
                Reconciling
  <1>7. ASSUME NEW q \in Procs \ {p} PROVE Alone(proc[q])'
    <2>1. proc'[q] = proc[q] /\ Alone(proc[q])
      BY <1>1, <1>3 DEF Start, Kept
    <2> QED BY <1>4, <2>1
  <1> QED BY <1>4, <1>6, <1>7

LEMMA KeptElsewhere ==
  ASSUME Base, Kept, Elsewhere \/ UNCHANGED vars
  PROVE  Kept'
  <1>1. SUFFICES ASSUME Orderly' PROVE (Apart /\ Stored /\ \A q \in Procs : Alone(proc[q]))'
    BY DEF Kept
  <1>2. Orderly
    BY <1>1 DEF Orderly, Elsewhere, vars, hist
  <1>3. CASE Elsewhere
    BY <1>2, <1>3, ElsewhereK DEF Kept
  <1>4. CASE UNCHANGED vars
    BY <1>2, <1>4, StoresSame DEF Kept, vars, machine, server
  <1> QED BY <1>3, <1>4

(* The invariant is inductive.                                               *)
LEMMA InvariantHolds == Spec => []KInv
  <1>1. Init => KInv
    <2>1. ASSUME Init PROVE Lone /\ Kept
      <3>1. \A q \in Procs : proc[q] = Idle
        BY <2>1 DEF Init
      <3>2. Apart /\ Stored
        BY <2>1 DEF Init, Apart, Stored, Live
      <3> QED BY <3>1, <3>2, IdleAlone DEF Lone, Serial, Kept, Idle
    <2> QED BY <2>1, InitB DEF KInv
  <1>2. KInv /\ [Next]_vars => KInv'
    <2>1. SUFFICES ASSUME Base, Lone, Kept, [Next]_vars PROVE Base' /\ Lone' /\ Kept'
      BY DEF KInv
    <2>2. Base' /\ Lone'
      BY <2>1, BaseStep, LoneStep
    <2>3. Kept'
      BY <2>1, KeptByStep, KeptByStart, KeptElsewhere DEF Next
    <2> QED BY <2>2, <2>3
  <1> QED BY <1>1, <1>2, PTL DEF Spec

(* The key store, the pending files, the server's slots and the flows keep  *)
(* their types.                                                              *)
THEOREM KeysTyped == Spec => []TypeOK
  <1>1. KInv => TypeOK
    BY DEF KInv, Base, Types
  <1> QED BY <1>1, InvariantHolds, PTL

(* bind_flow, recover_controller_identity, rotate_root_with_new_secret: the  *)
(* secret of the recovery root is in the operator's hands before the server  *)
(* commits it, so that an active slot can always be recovered.               *)
THEOREM RecoveryPossible == Spec => []RootRecoverable
  <1>1. KInv => RootRecoverable
    BY NaturalSets DEF KInv, Base, RootHeld, RootRecoverable, Live
  <1> QED BY <1>1, InvariantHolds, PTL

(* reconcile_from_snapshot, retire_kid, set_active_kid: the pointer names a  *)
(* stored key, and flows that run one at a time and share no key never       *)
(* remove the private key of an active slot, wherever they are killed.       *)
THEOREM NoKeyLost == Spec => []KeysKept
  <1>1. KInv => KeysKept
    BY DEF KInv, Base, Kept, Orderly, Stored, KeysKept, SlotKeyKept
  <1> QED BY <1>1, InvariantHolds, PTL

-----------------------------------------------------------------------------
(* The other use of the keys: signed operations of one deployment.           *)
(* ControlDispatch, for every number of processes, operations, commands,     *)
(* keys, revisions and failures.                                             *)

(* What ControlDispatch assumes of its constants; its runs evaluate it.      *)
DispatchBounds == DispatchConstants /\ NoneIsNothing

LEMMA DispatchAssumed == DispatchBounds
  BY DispatchConstants, NoneIsNothing DEF DispatchBounds

Spots == [at : {"idle", "record", "send", "wait", "settle", "persist", "clear"},
          op : Signed \cup {None}, ans : Answers \cup {None}]

Sessions == [by : Ctls \cup {None}, op : Signed]

(* The outcome of the operation is known for good.                         *)
Resolved(i) == persisted[i] # None \/ stored[i] = "rejected"

(* What is on its way to the server is in the slot or resolved.            *)
Anchored ==
    /\ \A s \in sessions : Held(s.op.id) \/ Resolved(s.op.id)
    /\ \A c \in Ctls : ctl[c].at = "send" => Held(ctl[c].op.id) \/ Resolved(ctl[c].op.id)
    /\ exec # None => Held(exec.op.id)

(* The target executes only what its journal has as pending.               *)
Executing == exec # None => stored[exec.op.id] = "pending"

(* A stored answer is the truth about the server's record.                 *)
StoredIsTrue ==
    \A i \in Ids : /\ stored[i] \in Terminal => oper[i] = stored[i]
                   /\ stored[i] = "rejected" => oper[i] = None

(* An answer a process holds is the stored one, or no answer at all.       *)
AnswerIsStored ==
    \A c \in Ctls :
        /\ ctl[c].at \in {"settle", "persist", "clear"} =>
             /\ ctl[c].ans \in Answers
             /\ ctl[c].ans = "error" \/ stored[ctl[c].op.id] = ctl[c].ans
        /\ ctl[c].at \in {"persist", "clear"} => ctl[c].ans \in Terminal
        /\ ctl[c].at = "clear" => persisted[ctl[c].op.id] # None

PersistedIsStored ==
    \A i \in Ids : persisted[i] # None => stored[i] = persisted[i]

(* A session that has somebody to answer to is the only one of a process   *)
(* that waits for the very operation.                                      *)
Waiting ==
    /\ \A s \in sessions : s.by # None =>
         ctl[s.by].at = "wait" /\ ctl[s.by].op = s.op
    /\ exec # None /\ exec.by # None =>
         /\ ctl[exec.by].at = "wait" /\ ctl[exec.by].op = exec.op
         /\ \A s \in sessions : s.by # exec.by

DispatchInv ==
    /\ DispatchBounds /\ DispatchTypeOK /\ NeverReplaced
    /\ Anchored /\ Executing /\ StoredIsTrue /\ AnswerIsStored /\ PersistedIsStored
    /\ Waiting

USE DEF DispatchBounds, DispatchConstants, NoneIsNothing

-----------------------------------------------------------------------------
(* Types of the records.                                                   *)

LEMMA DispatchTypes ==
  ASSUME DispatchBounds, DispatchTypeOK
  PROVE  /\ ctl \in [Ctls -> Spots]
         /\ \A c \in Ctls : ctl[c].at # "idle" => ctl[c].op \in Signed /\ ctl[c].op.id \in Ids
         /\ slot # None => slot.op \in Signed /\ slot.op.id \in Ids
         /\ \A s \in sessions : /\ s \in Sessions /\ s.by \in Ctls \cup {None}
                                /\ s.op \in Signed /\ s.op.id \in Ids
         /\ exec # None => /\ exec \in Runs /\ exec.by \in Ctls \cup {None}
                           /\ exec.op \in Signed /\ exec.op.id \in Ids
  BY DEF DispatchTypeOK, Spots, Sessions, Runs, Signed, Entries

(* Three ways in which a process moves.                                    *)
LEMMA Rests ==
  ASSUME DispatchBounds, ctl \in [Ctls -> Spots], NEW c \in Ctls, ctl' = [ctl EXCEPT ![c] = Rest]
  PROVE  /\ ctl' \in [Ctls -> Spots]
         /\ ctl'[c].at = "idle"
         /\ \A d \in Ctls : d # c => ctl'[d] = ctl[d]
  BY DEF Rest, Spots

LEMMA Moves ==
  ASSUME DispatchBounds, ctl \in [Ctls -> Spots], NEW c \in Ctls,
         NEW step \in {"idle", "record", "send", "wait", "settle", "persist", "clear"},
         ctl' = [ctl EXCEPT ![c].at = step]
  PROVE  /\ ctl' \in [Ctls -> Spots]
         /\ ctl'[c].at = step /\ ctl'[c].op = ctl[c].op /\ ctl'[c].ans = ctl[c].ans
         /\ \A d \in Ctls : d # c => ctl'[d] = ctl[d]
  BY DEF Spots

LEMMA Replies ==
  ASSUME DispatchBounds, ctl \in [Ctls -> Spots], NEW by \in Ctls \cup {None}, NEW ans \in Answers,
         Reply(by, ans)
  PROVE  /\ ctl' \in [Ctls -> Spots]
         /\ by # None => /\ ctl'[by].at = "settle" /\ ctl'[by].op = ctl[by].op
                         /\ ctl'[by].ans = ans
         /\ \A d \in Ctls : d # by => ctl'[d] = ctl[d]
  BY DEF Spots, Reply

-----------------------------------------------------------------------------
(* Steps of the controller's processes.                                    *)

LEMMA MintKeeps ==
  ASSUME DispatchBounds, DispatchInv, NEW c \in Ctls, NEW m \in Cmds, NEW i \in Ids, Mint(c, m, i)
  PROVE  DispatchInv'
  <1> DEFINE new == [id |-> i, cmd |-> m, rev |-> rev, kid |-> signing]
  <1>1. ctl \in [Ctls -> Spots] /\ new \in Signed /\ ctl[c].at = "idle"
    BY DispatchTypes DEF DispatchInv, DispatchTypeOK, Signed, Mint, Rest
  <1>2. /\ ctl' \in [Ctls -> Spots]
        /\ ctl'[c].at = "record" /\ ctl'[c].op = new
        /\ \A d \in Ctls : d # c => ctl'[d] = ctl[d]
    BY <1>1 DEF Mint, Spots
  <1>3. DispatchTypeOK'
    BY <1>1, <1>2 DEF DispatchInv, DispatchTypeOK, Mint, Target, World, Spots
  <1>4. Anchored' /\ NeverReplaced' /\ Executing' /\ StoredIsTrue' /\ PersistedIsStored'
    BY <1>1, <1>2 DEF DispatchInv, Mint, Target, Anchored, NeverReplaced, Executing,
       StoredIsTrue,
                      PersistedIsStored, Held, Resolved
  <1>5. AnswerIsStored'
    BY <1>1, <1>2 DEF DispatchInv, Mint, Target, AnswerIsStored
  <1>6. Waiting'
    BY <1>1, <1>2, DispatchTypes DEF DispatchInv, Mint, Target, Waiting
  <1> QED
    BY <1>3, <1>4, <1>5, <1>6 DEF DispatchInv

LEMMA RecordKeeps ==
  ASSUME DispatchBounds, DispatchInv, NEW c \in Ctls, record_dispatched(c)
  PROVE  DispatchInv'
  <1>1. /\ ctl \in [Ctls -> Spots] /\ ctl[c].at = "record"
        /\ ctl[c].op \in Signed /\ ctl[c].op.id \in Ids
    BY DispatchTypes DEF DispatchInv, record_dispatched
  <1>2. CASE slot = None
    <2>1. slot' = [op |-> ctl[c].op, state |-> "dispatched"] /\ slot' \in Entries
      BY <1>1, <1>2 DEF record_dispatched, Entries
    <2>2. /\ ctl' \in [Ctls -> Spots] /\ ctl'[c].at = "send" /\ ctl'[c].op = ctl[c].op
          /\ \A d \in Ctls : d # c => ctl'[d] = ctl[d]
      BY <1>1, <1>2, Moves DEF record_dispatched
    <2>3. DispatchTypeOK'
      BY <1>1, <2>1, <2>2 DEF DispatchInv, DispatchTypeOK, record_dispatched, Target,
         World, Spots
    <2>4. Anchored' /\ NeverReplaced' /\ Executing' /\ StoredIsTrue' /\ PersistedIsStored'
      BY <1>1, <1>2, <2>1, <2>2 DEF DispatchInv, record_dispatched, Target, Anchored,
         NeverReplaced,
             Executing, StoredIsTrue, PersistedIsStored, Held, Resolved
    <2>5. AnswerIsStored'
      BY <1>1, <2>2 DEF DispatchInv, record_dispatched, Target, AnswerIsStored
    <2>6. Waiting'
      BY <1>1, <2>2, DispatchTypes DEF DispatchInv, record_dispatched, Target, Waiting
    <2> QED
      BY <2>3, <2>4, <2>5, <2>6 DEF DispatchInv
  <1>3. CASE slot # None
    <2>1. /\ ctl' \in [Ctls -> Spots] /\ ctl'[c].at = "idle" /\ slot' = slot
          /\ \A d \in Ctls : d # c => ctl'[d] = ctl[d]
      BY <1>1, <1>3, Rests DEF record_dispatched
    <2>2. DispatchTypeOK'
      BY <1>1, <2>1 DEF DispatchInv, DispatchTypeOK, record_dispatched, Target, World, Spots
    <2>3. Anchored' /\ NeverReplaced' /\ Executing' /\ StoredIsTrue' /\ PersistedIsStored'
      BY <1>1, <2>1 DEF DispatchInv, record_dispatched, Target, Anchored,
         NeverReplaced,
             Executing, StoredIsTrue, PersistedIsStored, Held, Resolved
    <2>4. AnswerIsStored'
      BY <1>1, <2>1 DEF DispatchInv, record_dispatched, Target, AnswerIsStored
    <2>5. Waiting'
      BY <1>1, <2>1, DispatchTypes DEF DispatchInv, record_dispatched, Target, Waiting
    <2> QED
      BY <2>2, <2>3, <2>4, <2>5 DEF DispatchInv
  <1> QED
    BY <1>2, <1>3

LEMMA ResumeKeeps ==
  ASSUME DispatchBounds, DispatchInv, NEW c \in Ctls, NEW m \in Cmds, Resume(c, m)
  PROVE  DispatchInv'
  <1>1. /\ ctl \in [Ctls -> Spots] /\ ctl[c].at = "idle"
        /\ slot # None /\ slot.op \in Signed /\ slot.op.id \in Ids
    BY DispatchTypes DEF DispatchInv, Resume, Rest
  <1>2. /\ ctl' \in [Ctls -> Spots] /\ ctl'[c].at = "send" /\ ctl'[c].op = slot.op
        /\ \A d \in Ctls : d # c => ctl'[d] = ctl[d]
    BY <1>1 DEF Resume, Spots
  <1>3. DispatchTypeOK'
    BY <1>1, <1>2 DEF DispatchInv, DispatchTypeOK, Resume, Target, World, Spots
  <1>4. Anchored' /\ NeverReplaced' /\ Executing' /\ StoredIsTrue' /\ PersistedIsStored'
    BY <1>1, <1>2 DEF DispatchInv, Resume, Target, Anchored, NeverReplaced,
       Executing, StoredIsTrue,
                      PersistedIsStored, Held, Resolved
  <1>5. AnswerIsStored'
    BY <1>1, <1>2 DEF DispatchInv, Resume, Target, AnswerIsStored
  <1>6. Waiting'
    BY <1>1, <1>2, DispatchTypes DEF DispatchInv, Resume, Target, Waiting
  <1> QED
    BY <1>3, <1>4, <1>5, <1>6 DEF DispatchInv

LEMMA SendKeeps ==
  ASSUME DispatchBounds, DispatchInv, NEW c \in Ctls, Send(c)
  PROVE  DispatchInv'
  <1> DEFINE new == [by |-> c, op |-> ctl[c].op]
  <1>1. /\ ctl \in [Ctls -> Spots] /\ ctl[c].at = "send"
        /\ ctl[c].op \in Signed /\ ctl[c].op.id \in Ids
    BY DispatchTypes DEF DispatchInv, Send
  <1>2. /\ ctl' \in [Ctls -> Spots] /\ ctl'[c].at = "wait" /\ ctl'[c].op = ctl[c].op
        /\ \A d \in Ctls : d # c => ctl'[d] = ctl[d]
    BY <1>1, Moves DEF Send
  <1>3. sessions' = sessions \cup {new} /\ new \in Sessions
    BY <1>1 DEF Send, Sessions
  <1>4. DispatchTypeOK'
    BY <1>1, <1>2, <1>3 DEF DispatchInv, DispatchTypeOK, Send, Target, World, Spots,
       Sessions
  <1>5. Anchored'
    BY <1>1, <1>2, <1>3 DEF DispatchInv, Send, Target, Anchored, Held, Resolved
  <1>6. NeverReplaced' /\ Executing' /\ StoredIsTrue' /\ PersistedIsStored'
    BY DEF DispatchInv, Send, Target, NeverReplaced, Executing, StoredIsTrue,
           PersistedIsStored, Held
  <1>7. AnswerIsStored'
    BY <1>1, <1>2 DEF DispatchInv, Send, Target, AnswerIsStored
  <1>8. Waiting'
    BY <1>1, <1>2, <1>3, DispatchTypes DEF DispatchInv, Send, Target, Waiting
  <1> QED
    BY <1>4, <1>5, <1>6, <1>7, <1>8 DEF DispatchInv

(* A slot that is freed only for a resolved operation, while nothing but   *)
(* the slot and one process changes, keeps what the slot anchors.          *)
LEMMA FreeingKeeps ==
  ASSUME DispatchBounds, DispatchInv, NEW c \in Ctls, ctl' \in [Ctls -> Spots],
         \A d \in Ctls : d # c => ctl'[d] = ctl[d],
         ctl[c].at \in {"settle", "clear"}, ctl'[c].at \in {"idle", "persist"},
         ctl'[c].at = "persist" => /\ ctl'[c].op = ctl[c].op /\ ctl'[c].ans = ctl[c].ans
                                   /\ ctl[c].ans \in Terminal,
         slot' \in Entries \cup {None},
         \A i \in Ids : Held(i) => Held(i)' \/ Resolved(i),
         UNCHANGED <<sessions, exec, stored, oper, persisted, minted, key, signing, rev, mishaps>>
  PROVE  DispatchInv'
  <1>1. DispatchTypeOK'
    BY DEF DispatchInv, DispatchTypeOK, Spots
  <1>2. \A i \in Ids : Resolved(i) => stored[i] # "pending" /\ (oper[i] # None => persisted[i] # None)
    BY DEF DispatchInv, Resolved, PersistedIsStored, StoredIsTrue, DispatchTypeOK, Terminal
  <1>3. NeverReplaced'
    BY <1>2 DEF DispatchInv, NeverReplaced
  <1>4. Anchored'
    <2>1. \A s \in sessions : Held(s.op.id)' \/ Resolved(s.op.id)
      BY DispatchTypes DEF DispatchInv, Anchored
    <2>2. \A d \in Ctls : ctl'[d].at = "send" => Held(ctl[d].op.id)' \/ Resolved(ctl[d].op.id)
      BY DispatchTypes DEF DispatchInv, Anchored
    <2>3. \A d \in Ctls : ctl'[d].at = "send" => ctl'[d].op = ctl[d].op
      OBVIOUS
    <2>4. exec # None => Held(exec.op.id)'
      BY <1>2, DispatchTypes DEF DispatchInv, Anchored, Executing
    <2>5. \A i \in Ids : Resolved(i) => Resolved(i)'
      BY DEF Resolved
    <2>6. \A s \in sessions' : (Held(s.op.id) \/ Resolved(s.op.id))'
      BY <2>1, <2>5, DispatchTypes DEF DispatchInv, Held, Resolved
    <2>7. \A d \in Ctls : ctl'[d].at = "send" => (Held(ctl[d].op.id) \/ Resolved(ctl[d].op.id))'
      BY <2>2, <2>3 DEF Held, Resolved
    <2> QED
      BY <2>4, <2>6, <2>7 DEF Anchored, Held
  <1>5. Executing' /\ StoredIsTrue' /\ PersistedIsStored'
    BY DEF DispatchInv, Executing, StoredIsTrue, PersistedIsStored
  <1>6. AnswerIsStored'
    BY DEF DispatchInv, AnswerIsStored
  <1>7. Waiting'
    BY DispatchTypes DEF DispatchInv, Waiting
  <1> QED
    BY <1>1, <1>3, <1>4, <1>5, <1>6, <1>7 DEF DispatchInv

(* What clear_if_matches frees.                                            *)
LEMMA Clearing ==
  ASSUME DispatchBounds, DispatchTypeOK, NEW op, Resolved(op.id), clear_if_matches(op)
  PROVE  /\ slot' \in Entries \cup {None}
         /\ \A i \in Ids : Held(i) => Held(i)' \/ Resolved(i)
  BY DEF DispatchTypeOK, clear_if_matches, Matches, Held

LEMMA SettleKeeps ==
  ASSUME DispatchBounds, DispatchInv, NEW c \in Ctls, Settle(c)
  PROVE  DispatchInv'
  <1> DEFINE op == ctl[c].op
             ans == ctl[c].ans
             verdict == classify_receipt(ans)
             accept == /\ Matches(op)
                       /\ verdict \in {"Terminal", "InProgressAccepted"}
  <1>1. /\ ctl \in [Ctls -> Spots] /\ ctl[c].at = "settle"
        /\ op \in Signed /\ op.id \in Ids
    BY DispatchTypes DEF DispatchInv, Settle
  <1>2. /\ UNCHANGED <<sessions, exec, stored, oper, persisted, minted, key, signing, rev, mishaps>>
        /\ IF accept THEN mark_accepted(op)
           ELSE IF verdict = "DefinitivelyRejected" THEN clear_if_matches(op)
           ELSE UNCHANGED slot
        /\ ctl' = IF accept /\ verdict = "Terminal"
                  THEN [ctl EXCEPT ![c].at = "persist"]
                  ELSE [ctl EXCEPT ![c] = Rest]
    BY DEF Settle, Target, World
  <1>3. slot' \in Entries \cup {None} /\ \A i \in Ids : Held(i) => Held(i)' \/ Resolved(i)
    <2>1. CASE accept
      BY <1>1, <1>2, <2>1 DEF mark_accepted, Matches, Held, Entries
    <2>2. CASE ~accept /\ verdict = "DefinitivelyRejected"
      <3>1. ans = "rejected"
        BY <2>2 DEF classify_receipt
      <3>2. Resolved(op.id)
        BY <1>1, <3>1 DEF DispatchInv, AnswerIsStored, Resolved
      <3> QED
        BY <1>2, <2>2, <3>2, Clearing DEF DispatchInv
    <2>3. CASE ~accept /\ verdict # "DefinitivelyRejected"
      BY <1>2, <2>3 DEF Held, DispatchInv, DispatchTypeOK
    <2> QED
      BY <2>1, <2>2, <2>3
  <1>4. CASE accept /\ verdict = "Terminal"
    <2>1. ans \in Terminal
      BY <1>4 DEF classify_receipt
    <2>2. /\ ctl' \in [Ctls -> Spots] /\ ctl'[c].at = "persist"
          /\ ctl'[c].op = op /\ ctl'[c].ans = ans
          /\ \A d \in Ctls : d # c => ctl'[d] = ctl[d]
      BY <1>1, <1>2, <1>4, Moves
    <2> QED
      BY <1>1, <1>2, <1>3, <2>1, <2>2, FreeingKeeps
  <1>5. CASE ~(accept /\ verdict = "Terminal")
    <2>1. /\ ctl' \in [Ctls -> Spots] /\ ctl'[c].at = "idle"
          /\ \A d \in Ctls : d # c => ctl'[d] = ctl[d]
      BY <1>1, <1>2, <1>5, Rests
    <2> QED
      BY <1>1, <1>2, <1>3, <2>1, FreeingKeeps
  <1> QED
    BY <1>4, <1>5

LEMMA ClearKeeps ==
  ASSUME DispatchBounds, DispatchInv, NEW c \in Ctls, Clear(c)
  PROVE  DispatchInv'
  <1>1. /\ ctl \in [Ctls -> Spots] /\ ctl[c].at = "clear" /\ ctl[c].op.id \in Ids
    BY DispatchTypes DEF DispatchInv, Clear
  <1>2. /\ ctl' \in [Ctls -> Spots] /\ ctl'[c].at = "idle"
        /\ \A d \in Ctls : d # c => ctl'[d] = ctl[d]
    BY <1>1, Rests DEF Clear
  <1>3. slot' \in Entries \cup {None} /\ \A i \in Ids : Held(i) => Held(i)' \/ Resolved(i)
    <2>1. Resolved(ctl[c].op.id)
      BY <1>1 DEF DispatchInv, AnswerIsStored, Resolved
    <2> QED
      BY <2>1, Clearing DEF DispatchInv, Clear
  <1> QED
    BY <1>1, <1>2, <1>3, FreeingKeeps DEF Clear, Target, World

LEMMA PersistKeeps ==
  ASSUME DispatchBounds, DispatchInv, NEW c \in Ctls, Persist(c)
  PROVE  DispatchInv'
  <1> DEFINE id == ctl[c].op.id
  <1>1. /\ ctl \in [Ctls -> Spots] /\ ctl[c].at = "persist" /\ ctl[c].op \in Signed /\ id \in Ids
        /\ ctl[c].ans \in Terminal /\ stored[id] = ctl[c].ans
    BY DispatchTypes DEF DispatchInv, Persist, AnswerIsStored, Terminal
  <1>2. /\ ctl' \in [Ctls -> Spots] /\ ctl'[c].at = "clear" /\ ctl'[c].op = ctl[c].op
        /\ ctl'[c].ans = ctl[c].ans
        /\ \A d \in Ctls : d # c => ctl'[d] = ctl[d]
    BY <1>1, Moves DEF Persist
  <1>3. /\ persisted' \in [Ids -> Terminal \cup {None}] /\ persisted'[id] = ctl[c].ans
        /\ \A i \in Ids : i # id => persisted'[i] = persisted[i]
    BY <1>1 DEF DispatchInv, DispatchTypeOK, Persist
  <1>4. None \notin Terminal
    BY DEF Terminal, Answers
  <1>5. DispatchTypeOK'
    BY <1>1, <1>2, <1>3 DEF DispatchInv, DispatchTypeOK, Persist, Target, World, Spots
  <1>6. \A i \in Ids : persisted[i] # None => persisted'[i] # None
    BY <1>1, <1>3, <1>4
  <1>7. NeverReplaced' /\ Executing' /\ StoredIsTrue'
    BY <1>6 DEF DispatchInv, Persist, Target, NeverReplaced, Executing, StoredIsTrue,
       Held
  <1>8. Anchored'
    BY <1>1, <1>2, <1>6, DispatchTypes DEF DispatchInv, Persist, Target, Anchored,
       Held, Resolved
  <1>9. PersistedIsStored'
    BY <1>1, <1>3 DEF DispatchInv, Persist, Target, PersistedIsStored
  <1>10. AnswerIsStored'
    BY <1>1, <1>2, <1>3, <1>4, <1>6, DispatchTypes DEF DispatchInv, Persist, Target,
       AnswerIsStored
  <1>11. Waiting'
    BY <1>1, <1>2, DispatchTypes DEF DispatchInv, Persist, Target, Waiting
  <1> QED
    BY <1>5, <1>7, <1>8, <1>9, <1>10, <1>11 DEF DispatchInv

LEMMA AbandonKeeps ==
  ASSUME DispatchBounds, DispatchInv, NEW c \in Ctls, Abandon(c)
  PROVE  DispatchInv'
  <1>1. ctl \in [Ctls -> Spots]
    BY DispatchTypes DEF DispatchInv
  <1>2. /\ ctl' \in [Ctls -> Spots] /\ ctl'[c].at = "idle"
        /\ \A d \in Ctls : d # c => ctl'[d] = ctl[d]
    BY <1>1, Rests DEF Abandon
  <1>3. \A s \in Sessions : /\ Orphan(s, c) \in Sessions /\ Orphan(s, c).op = s.op
                            /\ Orphan(s, c).by # c
                            /\ Orphan(s, c).by # None => Orphan(s, c) = s
    BY DEF Orphan, Sessions
  <1>4. exec # None => /\ exec' \in Runs /\ exec' # None /\ exec'.op = exec.op
                       /\ exec'.by # c /\ (exec'.by # None => exec' = exec)
    <2> HAVE exec # None
    <2>1. exec \in Runs /\ exec' = Orphan(exec, c)
      BY DispatchTypes DEF DispatchInv, Abandon
    <2>2. /\ exec' \in Runs /\ exec'.op = exec.op
          /\ exec'.by # c /\ (exec'.by # None => exec' = exec)
      BY <2>1 DEF Orphan, Runs
    <2>3. exec' # None
      BY <2>2
    <2> QED
      BY <2>2, <2>3
  <1>5. sessions' = {Orphan(s, c) : s \in sessions} /\ \A s \in sessions : s \in Sessions
    BY DispatchTypes DEF DispatchInv, Abandon
  <1>6. exec = None => exec' = None
    BY DEF Abandon
  <1>7. DispatchTypeOK'
    BY <1>2, <1>3, <1>4, <1>5, <1>6 DEF DispatchInv, DispatchTypeOK, Abandon, World, Spots,
       Sessions, Runs, Fault
  <1>8. NeverReplaced' /\ StoredIsTrue' /\ PersistedIsStored'
    BY DEF DispatchInv, Abandon, NeverReplaced, StoredIsTrue, PersistedIsStored, Held
  <1>9. Executing'
    BY <1>4, <1>6 DEF DispatchInv, Abandon, Executing
  <1>10. Anchored'
    BY <1>2, <1>3, <1>4, <1>5, <1>6, DispatchTypes DEF DispatchInv, Abandon, Anchored,
       Held, Resolved
  <1>11. AnswerIsStored'
    BY <1>2 DEF DispatchInv, Abandon, AnswerIsStored
  <1>12. Waiting'
    BY <1>2, <1>3, <1>4, <1>5, <1>6, DispatchTypes DEF DispatchInv, Waiting
  <1> QED
    BY <1>7, <1>8, <1>9, <1>10, <1>11, <1>12 DEF DispatchInv

-----------------------------------------------------------------------------
(* Steps of the sessions on the target.                                    *)

(* A session leaves the way with the stored answer or none.                *)
LEMMA AnswerKeeps ==
  ASSUME DispatchBounds, DispatchInv, NEW s \in sessions, sessions' = sessions \ {s},
         NEW ans \in Answers, Reply(s.by, ans),
         ans = "error" \/ stored[s.op.id] = ans,
         UNCHANGED <<slot, exec, stored, oper, persisted, minted, key, signing, rev>>,
         mishaps' \in Nat
  PROVE  DispatchInv'
  <1>1. ctl \in [Ctls -> Spots] /\ s \in Sessions /\ s.by \in Ctls \cup {None}
    BY DispatchTypes DEF DispatchInv
  <1>2. /\ ctl' \in [Ctls -> Spots]
        /\ s.by # None => /\ ctl'[s.by].at = "settle" /\ ctl'[s.by].op = ctl[s.by].op
                          /\ ctl'[s.by].ans = ans
        /\ \A d \in Ctls : d # s.by => ctl'[d] = ctl[d]
    BY <1>1, Replies
  <1>3. s.by # None => ctl[s.by].at = "wait" /\ ctl[s.by].op = s.op
    BY DEF DispatchInv, Waiting
  <1>4. DispatchTypeOK'
    BY <1>1, <1>2, <1>3 DEF DispatchInv, DispatchTypeOK, Spots
  <1>5. NeverReplaced' /\ StoredIsTrue' /\ PersistedIsStored' /\ Executing'
    BY DEF DispatchInv, NeverReplaced, StoredIsTrue, PersistedIsStored, Executing, Held
  <1>6. Anchored'
    BY <1>1, <1>2, <1>3 DEF DispatchInv, Anchored, Held, Resolved
  <1>7. AnswerIsStored'
    BY <1>1, <1>2, <1>3 DEF DispatchInv, AnswerIsStored
  <1>8. \A t \in sessions' : t.by # None => t.by # s.by
    <2> SUFFICES ASSUME NEW t \in sessions', t.by # None, t.by = s.by PROVE FALSE
      OBVIOUS
    <2>1. t.op = s.op
      BY <1>3 DEF DispatchInv, Waiting
    <2>2. t \in Sessions /\ t = [by |-> t.by, op |-> t.op]
      BY DispatchTypes DEF DispatchInv, Sessions
    <2>3. s = [by |-> s.by, op |-> s.op]
      BY <1>1 DEF Sessions
    <2> QED
      BY <2>1, <2>2, <2>3
  <1>9. exec # None /\ exec.by # None => exec.by # s.by
    BY DEF DispatchInv, Waiting
  <1>10. Waiting'
    BY <1>1, <1>2, <1>8, <1>9, DispatchTypes DEF DispatchInv, Waiting
  <1> QED
    BY <1>4, <1>5, <1>6, <1>7, <1>10 DEF DispatchInv

LEMMA BusyKeeps ==
  ASSUME DispatchBounds, DispatchInv, NEW s \in sessions, Busy(s)
  PROVE  DispatchInv'
  BY AnswerKeeps DEF Busy, Target, World, Answers, DispatchInv, DispatchTypeOK

LEMMA ReplayKeeps ==
  ASSUME DispatchBounds, DispatchInv, NEW s \in sessions, Replay(s)
  PROVE  DispatchInv'
  <1>1. stored[s.op.id] \in Answers
    BY DispatchTypes DEF DispatchInv, DispatchTypeOK, Replay
  <1> QED
    BY <1>1, AnswerKeeps DEF Replay, Target, World, DispatchInv, DispatchTypeOK

LEMMA SessionLostKeeps ==
  ASSUME DispatchBounds, DispatchInv, NEW s \in sessions, SessionLost(s)
  PROVE  DispatchInv'
  BY AnswerKeeps DEF SessionLost, Target, World, Answers, DispatchInv, DispatchTypeOK,
     Fault

LEMMA AdmitKeeps ==
  ASSUME DispatchBounds, DispatchInv, NEW s \in sessions, Admit(s)
  PROVE  DispatchInv'
  <1> DEFINE id == s.op.id
  <1>1. /\ ctl \in [Ctls -> Spots] /\ s \in Sessions /\ s.by \in Ctls \cup {None}
        /\ s.op \in Signed /\ id \in Ids
    BY DispatchTypes DEF DispatchInv
  <1>2. /\ exec' = [by |-> s.by, op |-> s.op, at |-> "run"] /\ exec' \in Runs
        /\ exec'.by = s.by /\ exec'.op = s.op
    BY <1>1 DEF Admit, Runs
  <1>3. /\ stored' \in [Ids -> (Answers \ {"error"}) \cup {"pending", None}]
        /\ stored'[id] = "pending"
        /\ \A i \in Ids : i # id => stored'[i] = stored[i]
    BY <1>1 DEF Admit, DispatchInv, DispatchTypeOK
  <1>4. stored[id] \in {None, "pending"} /\ stored[id] \notin Terminal /\ stored[id] # "rejected"
    BY DEF Admit, Terminal, Answers
  <1>5. persisted[id] = None
    BY <1>1, <1>4 DEF DispatchInv, DispatchTypeOK, PersistedIsStored
  <1>6. Held(id)
    BY <1>4, <1>5 DEF DispatchInv, Anchored, Resolved
  <1>7. DispatchTypeOK'
    BY <1>2, <1>3 DEF DispatchInv, DispatchTypeOK, Admit, World, Spots, Sessions, Runs
  <1>8. NeverReplaced'
    BY DEF DispatchInv, Admit, NeverReplaced, Held
  <1>9. Executing'
    BY <1>2, <1>3 DEF Executing
  <1>10. StoredIsTrue' /\ PersistedIsStored'
    BY <1>3, <1>5 DEF DispatchInv, Admit, StoredIsTrue, PersistedIsStored, Terminal
  <1>11. Anchored'
    <2>1. \A i \in Ids : Resolved(i) => Resolved(i)'
      BY <1>3, <1>4 DEF Resolved, Admit
    <2>2. \A i \in Ids : Held(i) => Held(i)'
      BY DEF Held, Admit
    <2>3. Held(exec.op.id)'
      BY <1>2, <1>6 DEF Held, Admit
    <2>4. \A t \in sessions' : (Held(t.op.id) \/ Resolved(t.op.id))'
      <3> SUFFICES ASSUME NEW t \in sessions' PROVE Held(t.op.id)' \/ Resolved(t.op.id)'
        OBVIOUS
      <3>1. t \in sessions /\ t.op.id \in Ids
        BY DispatchTypes DEF DispatchInv, Admit
      <3> QED
        BY <2>1, <2>2, <3>1 DEF DispatchInv, Anchored, Held, Resolved
    <2>5. \A c \in Ctls : ctl'[c].at = "send" =>
                            (Held(ctl[c].op.id) \/ Resolved(ctl[c].op.id))'
      <3> SUFFICES ASSUME NEW c \in Ctls, ctl'[c].at = "send"
                   PROVE  Held(ctl[c].op.id)' \/ Resolved(ctl[c].op.id)'
        OBVIOUS
      <3>1. ctl' = ctl /\ ctl[c].op.id \in Ids
        BY DispatchTypes DEF DispatchInv, Admit
      <3> QED
        BY <2>1, <2>2, <3>1 DEF DispatchInv, Anchored, Held, Resolved
    <2> QED
      BY <2>3, <2>4, <2>5 DEF Anchored
  <1>12. AnswerIsStored'
    <2>1. "pending" \notin Answers
      BY DEF Answers
    <2> QED
      BY <1>3, <1>4, <2>1, DispatchTypes DEF DispatchInv, Admit, AnswerIsStored
  <1>13. Waiting'
    <2>1. \A t \in sessions' : t.by # None => t.by # s.by
      <3> SUFFICES ASSUME NEW t \in sessions', t.by # None, t.by = s.by PROVE FALSE
        OBVIOUS
      <3>1. t \in sessions /\ t # s /\ t.op = s.op
        BY DEF DispatchInv, Waiting, Admit
      <3>2. t = [by |-> t.by, op |-> t.op] /\ s = [by |-> s.by, op |-> s.op]
        BY <3>1, DispatchTypes DEF DispatchInv, Sessions
      <3> QED
        BY <3>1, <3>2
    <2> QED
      BY <1>2, <2>1 DEF DispatchInv, Waiting, Admit
  <1> QED
    BY <1>7, <1>8, <1>9, <1>10, <1>11, <1>12, <1>13 DEF DispatchInv

(* The session that runs gives its lock back, and an answer that is true.  *)
LEMMA EndKeeps ==
  ASSUME DispatchBounds, DispatchInv, exec # None, exec' = None, NEW ans \in Answers, Reply(exec.by, ans),
         stored' \in [Ids -> (Answers \ {"error"}) \cup {"pending", None}],
         \A i \in Ids : i # exec.op.id => stored'[i] = stored[i],
         stored'[exec.op.id] = IF ans = "error" THEN "pending" ELSE ans,
         ans \in Terminal => oper[exec.op.id] = ans,
         ans = "rejected" => oper[exec.op.id] = None,
         UNCHANGED <<slot, sessions, oper, persisted, minted, key, signing, rev>>,
         mishaps' \in Nat
  PROVE  DispatchInv'
  <1> DEFINE id == exec.op.id
  <1>1. /\ ctl \in [Ctls -> Spots] /\ exec.by \in Ctls \cup {None}
        /\ exec.op \in Signed /\ id \in Ids
    BY DispatchTypes DEF DispatchInv
  <1>2. /\ ctl' \in [Ctls -> Spots]
        /\ exec.by # None => /\ ctl'[exec.by].at = "settle"
                             /\ ctl'[exec.by].op = ctl[exec.by].op
                             /\ ctl'[exec.by].ans = ans
        /\ \A d \in Ctls : d # exec.by => ctl'[d] = ctl[d]
    BY <1>1, Replies
  <1>3. exec.by # None => ctl[exec.by].at = "wait" /\ ctl[exec.by].op = exec.op
    BY DEF DispatchInv, Waiting
  <1>4. stored[id] = "pending" /\ "pending" \notin Answers
    BY DEF DispatchInv, Executing, Answers
  <1>5. persisted[id] = None
    BY <1>1, <1>4 DEF DispatchInv, PersistedIsStored, DispatchTypeOK, Terminal
  <1>6. DispatchTypeOK'
    BY <1>1, <1>2, <1>3 DEF DispatchInv, DispatchTypeOK, Spots
  <1>7. NeverReplaced' /\ Executing'
    BY DEF DispatchInv, NeverReplaced, Executing, Held
  <1>8. StoredIsTrue'
    BY <1>1 DEF DispatchInv, StoredIsTrue, Terminal
  <1>9. PersistedIsStored'
    BY <1>1, <1>5 DEF DispatchInv, PersistedIsStored
  <1>10. Anchored'
    <2>1. \A i \in Ids : Resolved(i) => Resolved(i)'
      BY <1>1, <1>4, <1>5 DEF Resolved
    <2>2. \A i \in Ids : Held(i) => Held(i)'
      BY DEF Held
    <2>3. \A t \in sessions' : (Held(t.op.id) \/ Resolved(t.op.id))'
      BY <2>1, <2>2, DispatchTypes DEF DispatchInv, Anchored, Held, Resolved
    <2>4. \A c \in Ctls : ctl'[c].at = "send" =>
                            (Held(ctl[c].op.id) \/ Resolved(ctl[c].op.id))'
      <3> SUFFICES ASSUME NEW c \in Ctls, ctl'[c].at = "send"
                   PROVE  Held(ctl[c].op.id)' \/ Resolved(ctl[c].op.id)'
        OBVIOUS
      <3>1. ctl'[c] = ctl[c]
        BY <1>1, <1>2
      <3>2. ctl[c].op.id \in Ids
        BY <3>1, DispatchTypes DEF DispatchInv
      <3> QED
        BY <2>1, <2>2, <3>1, <3>2 DEF DispatchInv, Anchored, Held, Resolved
    <2> QED
      BY <2>3, <2>4 DEF Anchored
  <1>11. AnswerIsStored'
    <2> SUFFICES ASSUME NEW c \in Ctls
                 PROVE  /\ ctl'[c].at \in {"settle", "persist", "clear"} =>
                             /\ ctl'[c].ans \in Answers
                             /\ ctl'[c].ans = "error" \/ stored'[ctl'[c].op.id] = ctl'[c].ans
                        /\ ctl'[c].at \in {"persist", "clear"} => ctl'[c].ans \in Terminal
                        /\ ctl'[c].at = "clear" => persisted'[ctl'[c].op.id] # None
      BY DEF AnswerIsStored
    <2>1. CASE c = exec.by
      BY <1>2, <1>3, <2>1
    <2>2. CASE c # exec.by
      <3>1. ctl'[c] = ctl[c]
        BY <1>2, <2>2
      <3>2. ctl[c].at \in {"settle", "persist", "clear"} => ctl[c].op.id \in Ids
        BY DispatchTypes DEF DispatchInv
      <3> QED
        BY <1>4, <3>1, <3>2 DEF DispatchInv, AnswerIsStored
    <2> QED
      BY <2>1, <2>2
  <1>12. Waiting'
    BY <1>2, DispatchTypes DEF DispatchInv, Waiting
  <1> QED
    BY <1>6, <1>7, <1>8, <1>9, <1>10, <1>11, <1>12 DEF DispatchInv

LEMMA ConcludeKeeps ==
  ASSUME DispatchBounds, DispatchInv, exec # None, NEW ans \in Answers, Conclude(ans),
         ans \in Terminal => oper[exec.op.id] = ans,
         ans = "rejected" => oper[exec.op.id] = None,
         UNCHANGED <<slot, sessions, oper, persisted, minted, key, signing, rev>>,
         mishaps' \in Nat
  PROVE  DispatchInv'
  <1>1. exec.op.id \in Ids /\ stored[exec.op.id] = "pending"
    BY DispatchTypes DEF DispatchInv, Executing
  <1>2. /\ stored' \in [Ids -> (Answers \ {"error"}) \cup {"pending", None}]
        /\ \A i \in Ids : i # exec.op.id => stored'[i] = stored[i]
        /\ stored'[exec.op.id] = IF ans = "error" THEN "pending" ELSE ans
    BY <1>1 DEF DispatchInv, DispatchTypeOK, Conclude
  <1> QED
    BY <1>2, EndKeeps DEF Conclude

LEMMA RunKeeps ==
  ASSUME DispatchBounds, DispatchInv, Reject \/ Known \/ Collect
  PROVE  DispatchInv'
  <1>1. ASSUME exec # None PROVE oper[exec.op.id] \in Terminal \cup {"accepted", None}
    BY <1>1, DispatchTypes DEF DispatchInv, DispatchTypeOK
  <1>2. CASE Reject
    <2>1. PICK class \in {"authorization", "revision"} :
             Conclude(operator_rejection_code(class))
      BY <1>2 DEF Reject
    <2>2. operator_rejection_code(class) = "rejected"
      BY DEF operator_rejection_code
    <2> QED
      BY <1>2, <2>1, <2>2, ConcludeKeeps DEF Reject, AtRun, Executes, World, Answers,
         Terminal,
                                           DispatchInv, DispatchTypeOK
  <1>3. CASE Known
    BY <1>1, <1>3, ConcludeKeeps DEF Known, AtRun, Executes, World, Answers,
       Terminal, DispatchInv, DispatchTypeOK
  <1>4. CASE Collect
    BY <1>4, ConcludeKeeps DEF Collect, Executes, World, Answers, Terminal,
       DispatchInv, DispatchTypeOK
  <1> QED
    BY <1>2, <1>3, <1>4

LEMMA TroubleKeeps ==
  ASSUME DispatchBounds, DispatchInv, Drift \/ NoResult
  PROVE  DispatchInv'
  <1>1. CASE Drift
    BY <1>1, ConcludeKeeps DEF Drift, AtRun, Executes, World, Answers, Terminal,
       DispatchInv, DispatchTypeOK, Fault
  <1>2. CASE NoResult
    <2>1. PICK class \in {"unavailable", "request"} :
             Conclude(operator_rejection_code(class))
      BY <1>2 DEF NoResult
    <2>2. operator_rejection_code(class) = "error"
      BY DEF operator_rejection_code
    <2> QED
      BY <1>2, <2>1, <2>2, ConcludeKeeps DEF NoResult, World, Answers, Terminal,
         DispatchInv,
                                             DispatchTypeOK, Fault
  <1> QED
    BY <1>1, <1>2

(* The server's record changes only for what is in the slot.               *)
LEMMA ServerKeeps ==
  ASSUME DispatchBounds, DispatchInv, AcceptOnce \/ \E i \in Ids : Complete(i)
  PROVE  DispatchInv'
  <1>1. CASE AcceptOnce
    <2> DEFINE id == exec.op.id
    <2>1. /\ exec # None /\ exec \in Runs /\ id \in Ids /\ oper[id] = None /\ stored[id] = "pending"
          /\ exec' = [exec EXCEPT !.at = "collect"]
          /\ oper' = [oper EXCEPT ![id] = "accepted"]
          /\ UNCHANGED <<slot, ctl, sessions, stored, persisted, minted, key, signing, rev, mishaps>>
      BY <1>1, DispatchTypes DEF AcceptOnce, AtRun, Executes, World, DispatchInv,
         Executing
    <2>2. exec' \in Runs /\ exec' # None /\ exec'.op = exec.op /\ exec'.by = exec.by
      BY <2>1 DEF Runs
    <2>3. DispatchTypeOK'
      BY <2>1, <2>2 DEF DispatchInv, DispatchTypeOK
    <2>4. NeverReplaced'
      BY <2>1 DEF DispatchInv, NeverReplaced, Anchored, Held, DispatchTypeOK
    <2>5. StoredIsTrue'
      BY <2>1 DEF DispatchInv, StoredIsTrue, DispatchTypeOK, Terminal
    <2>6. Executing' /\ PersistedIsStored' /\ AnswerIsStored'
      BY <2>1, <2>2 DEF DispatchInv, Executing, PersistedIsStored, AnswerIsStored
    <2>7. Anchored' /\ Waiting'
      BY <2>1, <2>2 DEF DispatchInv, Anchored, Waiting, Held, Resolved
    <2> QED
      BY <2>3, <2>4, <2>5, <2>6, <2>7 DEF DispatchInv
  <1>2. ASSUME NEW i \in Ids, Complete(i) PROVE DispatchInv'
    <2>1. /\ oper[i] = "accepted"
          /\ UNCHANGED <<slot, ctl, sessions, exec, stored, persisted, minted, key, signing,
                         rev, mishaps>>
      BY <1>2 DEF Complete, World
    <2>2. PICK r \in Terminal : oper' = [oper EXCEPT ![i] = r]
      BY <1>2 DEF Complete
    <2>3. DispatchTypeOK'
      BY <2>1, <2>2 DEF DispatchInv, DispatchTypeOK
    <2>4. "accepted" # None /\ "accepted" \notin Terminal
      BY DEF Terminal
    <2>5. NeverReplaced'
      BY <2>1, <2>2, <2>4 DEF DispatchInv, NeverReplaced, Held, DispatchTypeOK
    <2>6. StoredIsTrue'
      BY <2>1, <2>2, <2>4 DEF DispatchInv, StoredIsTrue, DispatchTypeOK
    <2>7. Executing' /\ PersistedIsStored' /\ AnswerIsStored' /\ Anchored' /\ Waiting'
      BY <2>1 DEF DispatchInv, Executing, PersistedIsStored, AnswerIsStored, Anchored,
         Waiting,
                  Held, Resolved
    <2> QED
      BY <2>3, <2>5, <2>6, <2>7 DEF DispatchInv
  <1> QED
    BY <1>1, <1>2

LEMMA WorldKeeps ==
  ASSUME DispatchBounds, DispatchInv, Rotate \/ Activate \/ Advance \/ UNCHANGED dispatchVars
  PROVE  DispatchInv'
  <1>1. /\ UNCHANGED <<slot, ctl, sessions, exec, stored, oper, persisted, minted, mishaps>>
        /\ key' \in 1..MaxKids /\ signing' \in 1..MaxKids /\ rev' \in 1..MaxRevision
    BY DEF Rotate, Activate, Advance, dispatchVars, Target, World, DispatchInv, DispatchTypeOK
  <1>2. DispatchTypeOK'
    BY <1>1 DEF DispatchInv, DispatchTypeOK
  <1>3. NeverReplaced' /\ StoredIsTrue' /\ Executing' /\ PersistedIsStored' /\ AnswerIsStored'
    BY <1>1 DEF DispatchInv, NeverReplaced, StoredIsTrue, Executing, PersistedIsStored,
                AnswerIsStored, Held
  <1>4. Anchored' /\ Waiting'
    BY <1>1 DEF DispatchInv, Anchored, Waiting, Held, Resolved
  <1> QED
    BY <1>2, <1>3, <1>4 DEF DispatchInv

-----------------------------------------------------------------------------
(* The theorems.                                                           *)

LEMMA DispatchStarts == DispatchBounds /\ DispatchInit => DispatchInv
  <1> SUFFICES ASSUME DispatchBounds, DispatchInit PROVE DispatchInv
    OBVIOUS
  <1>1. DispatchTypeOK
    <2>1. ctl \in [Ctls -> Spots] /\ \A c \in Ctls : ctl[c].at = "idle"
      BY DEF DispatchInit, Rest, Spots
    <2>2. 1 \in 1..MaxKids /\ 1 \in 1..MaxRevision /\ 0 \in Nat
      OBVIOUS
    <2> QED
      BY <2>1, <2>2 DEF DispatchInit, DispatchTypeOK, Spots
  <1>2. \A c \in Ctls : ctl[c].at = "idle"
    BY DEF DispatchInit, Rest
  <1>3. None \notin Terminal
    BY DEF Terminal, Answers
  <1>4. NeverReplaced /\ Anchored /\ Executing /\ PersistedIsStored /\ AnswerIsStored /\ Waiting
    BY <1>2 DEF DispatchInit, NeverReplaced, Anchored, Executing, PersistedIsStored,
       AnswerIsStored,
                Waiting
  <1>5. StoredIsTrue
    BY <1>3 DEF DispatchInit, StoredIsTrue
  <1> QED
    BY <1>1, <1>4, <1>5 DEF DispatchInv

LEMMA DispatchStep == DispatchInv /\ [DispatchNext]_dispatchVars => DispatchInv'
  <1> SUFFICES ASSUME DispatchBounds, DispatchInv, [DispatchNext]_dispatchVars PROVE DispatchInv'
    BY DEF DispatchInv
  <1>1. ASSUME NEW c \in Ctls, Process(c) \/ Abandon(c) PROVE DispatchInv'
    BY <1>1, RecordKeeps, SendKeeps, SettleKeeps, PersistKeeps, ClearKeeps, AbandonKeeps
       DEF Process
  <1>2. ASSUME NEW c \in Ctls, NEW m \in Cmds, NEW i \in Ids, Mint(c, m, i) PROVE DispatchInv'
    BY <1>2, MintKeeps
  <1>3. CASE Rerun
    BY <1>3, ResumeKeeps DEF Rerun
  <1>4. CASE Arrive
    BY <1>4, BusyKeeps, ReplayKeeps, AdmitKeeps DEF Arrive
  <1>5. CASE Run
    BY <1>5, RunKeeps, ServerKeeps DEF Run
  <1>6. CASE Trouble
    BY <1>6, TroubleKeeps, SessionLostKeeps DEF Trouble
  <1>7. CASE \E i \in Ids : Complete(i)
    BY <1>7, ServerKeeps
  <1>8. CASE Rotate \/ Activate \/ Advance \/ UNCHANGED dispatchVars
    BY <1>8, WorldKeeps
  <1> QED
    BY <1>1, <1>2, <1>3, <1>4, <1>5, <1>6, <1>7, <1>8 DEF DispatchNext

(* The state of dispatch keeps its type.                                   *)
THEOREM DispatchTyped == DispatchSpec => []DispatchTypeOK
  <1>1. DispatchInv => DispatchTypeOK
    BY DEF DispatchInv
  <1> QED
    BY DispatchAssumed, DispatchStarts, DispatchStep, <1>1, PTL DEF DispatchSpec

(* prepare_control_operation, settle_journal, run_journaled: an accepted   *)
(* operation stays in the slot until its result is durable.                *)
THEOREM AcceptedNeverReplaced == DispatchSpec => []NeverReplaced
  <1>1. DispatchInv => NeverReplaced
    BY DEF DispatchInv
  <1> QED
    BY DispatchAssumed, DispatchStarts, DispatchStep, <1>1, PTL DEF DispatchSpec

(* settle_journal: a persisted result is the server's final one.           *)
THEOREM PersistedFinal == DispatchSpec => []PersistedIsFinal
  <1>1. DispatchInv => PersistedIsFinal
    BY DEF DispatchInv, PersistedIsFinal, PersistedIsStored, StoredIsTrue, DispatchTypeOK
  <1> QED
    BY DispatchAssumed, DispatchStarts, DispatchStep, <1>1, PTL DEF DispatchSpec

Freed == slot # None /\ slot' # slot /\ (slot' = None \/ slot'.op # slot.op)

(* Only two steps free the slot, and both know the operation's outcome.    *)
LEMMA FreedStep ==
  ASSUME DispatchBounds, DispatchInv, [DispatchNext]_dispatchVars, Freed
  PROVE  persisted[slot.op.id] # None \/ stored[slot.op.id] = "rejected"
  <1>1. CASE UNCHANGED slot
    BY <1>1 DEF Freed
  <1>2. ASSUME NEW c \in Ctls, record_dispatched(c)
        PROVE  FALSE
    BY <1>2 DEF record_dispatched, Freed
  <1>3. ASSUME NEW c \in Ctls, Settle(c)
        PROVE  stored[slot.op.id] = "rejected"
    <2>0. ~mark_accepted(ctl[c].op) \/ ~Matches(ctl[c].op)
      <3> SUFFICES ASSUME mark_accepted(ctl[c].op), Matches(ctl[c].op) PROVE FALSE
        OBVIOUS
      <3>1. ctl[c].op \in Signed
        BY <1>3 DEF Settle, DispatchInv, DispatchTypeOK
      <3>2. slot' \in Entries
        BY <3>1 DEF mark_accepted, Entries
      <3>3. slot'.op = slot.op
        BY DEF mark_accepted, Matches
      <3> QED
        BY <3>2, <3>3 DEF Freed
    <2>1. Matches(ctl[c].op) /\ classify_receipt(ctl[c].ans) = "DefinitivelyRejected"
      BY <1>3, <2>0 DEF Settle, Freed, clear_if_matches
    <2>2. slot.op = ctl[c].op
      BY <2>1 DEF Matches
    <2>3. ctl[c].ans = "rejected"
      <3> DEFINE a == ctl[c].ans
      <3>1. CASE a \in Terminal
        BY <2>1, <3>1 DEF classify_receipt
      <3>2. CASE a \notin Terminal /\ a # "rejected"
        BY <2>1, <3>2 DEF classify_receipt
      <3> QED
        BY <3>1, <3>2 DEF Terminal
    <2> QED
      BY <1>3, <2>2, <2>3 DEF Settle, DispatchInv, AnswerIsStored
  <1>4. ASSUME NEW c \in Ctls, Clear(c)
        PROVE  persisted[slot.op.id] # None
    BY <1>4 DEF Clear, clear_if_matches, Matches, Freed, DispatchInv, AnswerIsStored
  <1>5. CASE Rerun \/ Arrive \/ Run \/ Trouble \/ \E i \in Ids : Complete(i)
    BY <1>1, <1>5 DEF Rerun, Resume, Arrive, Busy, Replay, Admit, Run,
       Reject, AcceptOnce, Known,
               Collect, Trouble, Drift, NoResult, SessionLost, AtRun, Complete
  <1>6. CASE Rotate \/ Activate \/ Advance \/ UNCHANGED dispatchVars
    BY <1>1, <1>6 DEF Rotate, Activate, Advance, dispatchVars
  <1>7. ASSUME NEW c \in Ctls, Send(c) \/ Persist(c) \/ Abandon(c)
        PROVE  UNCHANGED slot
    BY <1>7 DEF Send, Persist, Abandon
  <1>8. ASSUME NEW c \in Ctls, NEW m \in Cmds, NEW i \in Ids, Mint(c, m, i)
        PROVE  UNCHANGED slot
    BY <1>8 DEF Mint
  <1> QED
    BY <1>1, <1>2, <1>3, <1>4, <1>5, <1>6, <1>7, <1>8 DEF DispatchNext, Process

(* clear_if_matches, record_dispatched: the slot is given up only for an   *)
(* operation whose outcome is known.                                       *)
THEOREM SlotFreedWhenKnown == DispatchSpec => FreedOnlyWhenKnown
  <1>1. DispatchInv /\ [DispatchNext]_dispatchVars =>
          [slot # None /\ slot' # slot /\ (slot' = None \/ slot'.op # slot.op)
           => persisted[slot.op.id] # None \/ stored[slot.op.id] = "rejected"]_dispatchVars
    BY DispatchAssumed, FreedStep DEF Freed
  <1> QED
    BY DispatchAssumed, DispatchStarts, DispatchStep, <1>1, PTL DEF DispatchSpec,
       FreedOnlyWhenKnown

=============================================================================
