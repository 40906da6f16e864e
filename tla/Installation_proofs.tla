-------------------------- MODULE Installation_proofs --------------------------
(* Proofs about Installation for every number of deployments, changed orders  *)
(* and faults, and, from UpdateConstants on, about SelfUpdate.                *)
EXTENDS Installation, SelfUpdate, Sequences, TLAPS

Execs == [dep : 0..MaxIds,
          at : {"idle"} \cup InstallSteps \cup UndoSteps \cup UninstallSteps,
          did : SUBSET {"dirs", "config", "marker", "secret", "runtime", "started"}]

Types ==
    /\ TypeOK /\ minted \in Nat
    /\ request <= changes /\ changes \in 0..MaxChanges /\ next \in 1..(MaxIds + 1)
    /\ exec.at = "idle" <=> exec = Idle
    /\ exec # Idle => Dep \in Ids

(* A database that was begun keeps its key until an uninstall begins.         *)
Bound ==
    \A d \in Ids : dbKey[d] # 0 =>
        /\ dbStarted[d]
        /\ uninstall[d] = "none" => secret[d] = dbKey[d]

(* A helper at an install works on a pending order; it migrates under the     *)
(* mark and with a key, and what it undoes has no mark.                       *)
Installing ==
    exec.at \in InstallSteps \cup UndoSteps =>
        /\ install[Dep].status = "pending"
        /\ exec.at \in {"mark", "migrate"} => secret[Dep] # 0
        /\ exec.at = "migrate" => dbStarted[Dep]
        /\ exec.at \in UndoSteps \ {"undo"} => ~dbStarted[Dep]

(* A helper at an uninstall works on the stored order of a registered         *)
(* deployment, and what its steps removed stays removed.                      *)
Removing ==
    exec.at \in UninstallSteps =>
        /\ pending # None /\ pending.dep = Dep /\ ~pending.done
        /\ uninstall[Dep] = "pending" /\ Dep \in registry
        /\ exec.at \notin {"dropState", "uninstalled"} => ~completion[Dep]
        /\ exec.at \notin {"dropState", "uninstalled", "remove"} => runtime[Dep] = "absent"
        /\ exec.at \in {"removeConfig", "removeMarker", "complete"} =>
              dirs[Dep] = "none" /\ secret[Dep] = 0
        /\ exec.at = "complete" => config[Dep] = "none"
        /\ exec.at \in {"dropState", "uninstalled"} => completion[Dep]
        /\ exec.at = "uninstalled" => ~state[Dep]

Removed(d) == runtime[d] = "absent" /\ dirs[d] = "none" /\ config[d] = "none" /\ secret[d] = 0

(* What is registered or uninstalled was installed; a completion record says  *)
(* the truth, and a settled uninstall leaves no local record but a revived    *)
(* one.                                                                       *)
Settled ==
    \A d \in Ids :
        /\ d \in registry \/ uninstall[d] # "none" => install[d].status = "completed"
        /\ completion[d] => uninstall[d] # "none" /\ Removed(d)
        /\ uninstall[d] = "completed" =>
             /\ completion[d] /\ ~state[d]
             /\ pending = None \/ pending.dep # d => d \notin (registry \cup keys) \ revived

(* An answered uninstall is complete.                                         *)
Answered == pending # None /\ pending.done => uninstall[pending.dep] = "completed"

IInv == Types /\ Bound /\ Installing /\ Removing /\ Settled /\ Answered

-----------------------------------------------------------------------------
(* Moves of the helper.                                                      *)

USE InstallationAssumption, NoneIsAbsent

Steps == {"idle"} \cup InstallSteps \cup UndoSteps \cup UninstallSteps

LEMMA StepSets ==
  /\ "idle" \notin InstallSteps \cup UndoSteps \cup UninstallSteps
  /\ \A s \in InstallSteps : s \notin UndoSteps /\ s \notin UninstallSteps
  /\ \A s \in UndoSteps : s \notin InstallSteps /\ s \notin UninstallSteps
  /\ \A s \in UninstallSteps : s \notin InstallSteps /\ s \notin UndoSteps
  BY DEF InstallSteps, UndoSteps, UninstallSteps

LEMMA GoMoves ==
  ASSUME Types, exec.at # "idle", NEW step \in Steps \ {"idle"}, Go(step)
  PROVE  /\ exec' \in Execs /\ exec'.at = step /\ exec'.dep = exec.dep
         /\ exec' # Idle /\ Dep \in Ids
  BY DEF Types, TypeOK, Execs, Steps, Go, Idle

LEMMA DidMoves ==
  ASSUME Types, exec.at # "idle", NEW step \in Steps \ {"idle"},
         NEW what \in {"dirs", "config", "marker", "secret", "runtime", "started"},
         Did(what, step)
  PROVE  /\ exec' \in Execs /\ exec'.at = step /\ exec'.dep = exec.dep
         /\ exec' # Idle /\ Dep \in Ids
  <1>1. exec \in Execs
    BY DEF Types, TypeOK, Execs
  <1>2. exec' = [exec EXCEPT !.at = step, !.did = exec.did \cup {what}]
    BY DEF Did
  <1>3. exec.did \cup {what} \in SUBSET {"dirs", "config", "marker", "secret", "runtime", "started"}
    BY <1>1 DEF Execs
  <1>4. exec' \in Execs /\ exec'.at = step /\ exec'.dep = exec.dep
    BY <1>1, <1>2, <1>3 DEF Execs, Steps
  <1> QED BY <1>4 DEF Types, Idle

(* At work the helper has a deployment, and an install works on a deployment  *)
(* that is neither registered nor being uninstalled.                          *)
LEMMA AtWork ==
  ASSUME IInv, exec.at # "idle"
  PROVE  /\ Types /\ exec # Idle /\ Dep \in Ids /\ exec \in Execs
         /\ exec.at \in InstallSteps \cup UndoSteps =>
              /\ install[Dep].status = "pending" /\ uninstall[Dep] = "none"
              /\ Dep \notin registry /\ ~completion[Dep]
  <1>1. Types /\ exec # Idle /\ Dep \in Ids /\ exec \in Execs
    BY DEF IInv, Types, TypeOK, Execs
  <1> QED BY <1>1 DEF IInv, Installing, Settled

LEMMA IdleMoves ==
  ASSUME exec' = Idle
  PROVE  exec' \in Execs /\ exec'.at = "idle"
  BY DEF Idle, Execs

(* A step of an install touches its own deployment only, which is neither     *)
(* registered nor uninstalled.                                                *)
LEMMA InstallFrame ==
  ASSUME IInv, exec.at \in InstallSteps \cup UndoSteps,
         UNCHANGED <<controller, uninstall, completion, revived>>,
         \A d \in Ids : d # Dep =>
            /\ runtime'[d] = runtime[d] /\ dirs'[d] = dirs[d] /\ config'[d] = config[d]
            /\ secret'[d] = secret[d] /\ state'[d] = state[d] /\ install'[d] = install[d],
         exec'.at \notin UninstallSteps
  PROVE  Settled' /\ Answered' /\ Removing'
  <1>1. exec.at # "idle"
    BY StepSets
  <1>2. /\ uninstall[Dep] = "none" /\ Dep \notin registry /\ ~completion[Dep]
    BY <1>1, AtWork
  <1>3. Settled'
    BY <1>2 DEF IInv, Settled, Removed, controller
  <1>4. Answered'
    BY DEF IInv, Answered, controller
  <1> QED BY <1>3, <1>4 DEF Removing

(* A step of an install that leaves key, mark and database alone.             *)
LEMMA InstallMoves ==
  ASSUME IInv, exec.at \in InstallSteps \cup UndoSteps,
         exec' \in Execs, exec'.at \in InstallSteps \cup UndoSteps, exec'.dep = exec.dep,
         UNCHANGED <<controller, journal, completion, secret, dbStarted, dbKey, minted, revived,
                     bounds>>,
         TypeOK',
         \A d \in Ids : d # Dep =>
            /\ runtime'[d] = runtime[d] /\ dirs'[d] = dirs[d] /\ config'[d] = config[d]
            /\ state'[d] = state[d],
         exec'.at \in {"mark", "migrate"} => secret[Dep] # 0,
         exec'.at = "migrate" => dbStarted[Dep],
         exec'.at \in UndoSteps \ {"undo"} => ~dbStarted[Dep]
  PROVE  IInv'
  <1>1. exec.at # "idle" /\ exec'.at # "idle" /\ exec'.at \notin UninstallSteps
    BY StepSets
  <1>2. Types'
    BY <1>1, AtWork DEF Types, controller, bounds, Idle, Dep
  <1>3. Bound'
    BY DEF IInv, Bound, journal
  <1>4. Installing'
    BY <1>1, AtWork DEF Installing, journal, Dep
  <1>5. Settled' /\ Answered' /\ Removing'
    BY <1>1, InstallFrame DEF journal
  <1> QED BY <1>2, <1>3, <1>4, <1>5 DEF IInv

-----------------------------------------------------------------------------
(* The install executor.                                                     *)

LEMMA CheckKeeps ==
  ASSUME IInv, Check
  PROVE  IInv'
  <1> DEFINE step == IF dirs[Dep] = "bare" \/ config[Dep] \in {"bare", "marker"}
                     THEN "undo" ELSE "dirs"
  <1>1. exec.at = "check" /\ exec.at # "idle" /\ exec.at \in InstallSteps \cup UndoSteps
    BY DEF Check, At, InstallSteps, UndoSteps
  <1>2. Types /\ Dep \in Ids
    BY <1>1, AtWork
  <1>3. /\ Go(step) /\ step \in Steps \ {"idle"} /\ step \in InstallSteps \cup UndoSteps
        /\ step \in {"undo", "dirs"}
    BY DEF Check, Steps, InstallSteps, UndoSteps
  <1> HIDE DEF step
  <1>4. exec' \in Execs /\ exec'.at = step /\ exec'.dep = exec.dep
    BY <1>1, <1>2, <1>3, GoMoves
  <1>5. TypeOK'
    BY <1>2, <1>4 DEF Check, controller, journal, target, files, bounds, Types, TypeOK, Execs
  <1>6. /\ UNCHANGED <<controller, journal, completion, secret, dbStarted, dbKey, minted, revived,
                     bounds>>
        /\ \A d \in Ids : d # Dep =>
              /\ runtime'[d] = runtime[d] /\ dirs'[d] = dirs[d] /\ config'[d] = config[d]
              /\ state'[d] = state[d]
    BY <1>2 DEF Check, Set, target, files, Types, TypeOK
  <1> QED
    BY <1>1, <1>3, <1>4, <1>5, <1>6, InstallMoves DEF UndoSteps

LEMMA MakeDirsKeeps ==
  ASSUME IInv, MakeDirs
  PROVE  IInv'
  <1>1. exec.at = "dirs" /\ exec.at # "idle" /\ exec.at \in InstallSteps \cup UndoSteps
    BY DEF MakeDirs, At, InstallSteps, UndoSteps
  <1>2. Types /\ Dep \in Ids /\ exec \in Execs
    BY <1>1, AtWork
  <1>3. /\ "config" \in Steps \ {"idle"}
        /\ {"config", "dirs"} \subseteq InstallSteps \cup UndoSteps
    BY DEF Steps, InstallSteps, UndoSteps
  <1>4. exec' \in Execs /\ exec'.at \in {"config", "dirs"} /\ exec'.dep = exec.dep
    BY <1>1, <1>2, <1>3, DidMoves DEF MakeDirs
  <1>5. TypeOK'
    <2>1. dirs \in [Ids -> {"none", "bare", "owned"}]
      BY <1>2 DEF Types, TypeOK
    <2>2. \E v \in {"bare", "owned"} : dirs' = [dirs EXCEPT ![Dep] = v]
      BY DEF MakeDirs, Set
    <2>3. dirs' \in [Ids -> {"none", "bare", "owned"}]
      BY <2>1, <2>2
    <2>4. UNCHANGED <<controller, journal, config, secret, dbStarted, dbKey, runtime, state,
                      completion, minted, revived, bounds>>
      BY DEF MakeDirs
    <2> QED
      BY <1>2, <1>4, <2>3, <2>4 DEF controller, journal, bounds, Types, TypeOK, Execs
  <1>6. /\ UNCHANGED <<controller, journal, completion, secret, dbStarted, dbKey, minted, revived,
                     bounds>>
        /\ \A d \in Ids : d # Dep =>
              /\ runtime'[d] = runtime[d] /\ dirs'[d] = dirs[d] /\ config'[d] = config[d]
              /\ state'[d] = state[d]
    BY <1>2 DEF MakeDirs, Set, target, files, Types, TypeOK
  <1> QED
    BY <1>1, <1>3, <1>4, <1>5, <1>6, InstallMoves DEF UndoSteps

LEMMA WriteConfigKeeps ==
  ASSUME IInv, WriteConfig
  PROVE  IInv'
  <1>1. exec.at = "config" /\ exec.at # "idle" /\ exec.at \in InstallSteps \cup UndoSteps
    BY DEF WriteConfig, At, InstallSteps, UndoSteps
  <1>2. Types /\ Dep \in Ids
    BY <1>1, AtWork
  <1>3. Did("config", "marker") /\ "marker" \in Steps \ {"idle"} /\ "marker" \in InstallSteps \cup UndoSteps
    BY DEF WriteConfig, Steps, InstallSteps, UndoSteps
  <1>4. exec' \in Execs /\ exec'.at = "marker" /\ exec'.dep = exec.dep
    BY <1>1, <1>2, <1>3, DidMoves
  <1>5. TypeOK'
    BY <1>1, <1>2, <1>4 DEF WriteConfig, Set, controller, journal, files, bounds, Types,
       TypeOK, Execs
  <1>6. /\ UNCHANGED <<controller, journal, completion, secret, dbStarted, dbKey, minted, revived,
                     bounds>>
        /\ \A d \in Ids : d # Dep =>
              /\ runtime'[d] = runtime[d] /\ dirs'[d] = dirs[d] /\ config'[d] = config[d]
              /\ state'[d] = state[d]
    BY <1>2 DEF WriteConfig, Set, target, files, Types, TypeOK
  <1> QED
    BY <1>1, <1>3, <1>4, <1>5, <1>6, InstallMoves DEF UndoSteps

LEMMA WriteMarkerKeeps ==
  ASSUME IInv, WriteMarker
  PROVE  IInv'
  <1>1. exec.at = "marker" /\ exec.at # "idle" /\ exec.at \in InstallSteps \cup UndoSteps
    BY DEF WriteMarker, At, InstallSteps, UndoSteps
  <1>2. Types /\ Dep \in Ids
    BY <1>1, AtWork
  <1>3. Did("marker", "secret") /\ "secret" \in Steps \ {"idle"} /\ "secret" \in InstallSteps \cup UndoSteps
    BY DEF WriteMarker, Steps, InstallSteps, UndoSteps
  <1>4. exec' \in Execs /\ exec'.at = "secret" /\ exec'.dep = exec.dep
    BY <1>1, <1>2, <1>3, DidMoves
  <1>5. TypeOK'
    BY <1>1, <1>2, <1>4 DEF WriteMarker, Set, controller, journal, files, bounds, Types,
       TypeOK, Execs
  <1>6. /\ UNCHANGED <<controller, journal, completion, secret, dbStarted, dbKey, minted, revived,
                     bounds>>
        /\ \A d \in Ids : d # Dep =>
              /\ runtime'[d] = runtime[d] /\ dirs'[d] = dirs[d] /\ config'[d] = config[d]
              /\ state'[d] = state[d]
    BY <1>2 DEF WriteMarker, Set, target, files, Types, TypeOK
  <1> QED
    BY <1>1, <1>3, <1>4, <1>5, <1>6, InstallMoves DEF UndoSteps

LEMMA CreateRuntimeKeeps ==
  ASSUME IInv, CreateRuntime
  PROVE  IInv'
  <1>1. exec.at = "create" /\ exec.at # "idle" /\ exec.at \in InstallSteps \cup UndoSteps
    BY DEF CreateRuntime, At, InstallSteps, UndoSteps
  <1>2. Types /\ Dep \in Ids
    BY <1>1, AtWork
  <1>3. Did("runtime", "start") /\ "start" \in Steps \ {"idle"} /\ "start" \in InstallSteps \cup UndoSteps
    BY DEF CreateRuntime, Steps, InstallSteps, UndoSteps
  <1>4. exec' \in Execs /\ exec'.at = "start" /\ exec'.dep = exec.dep
    BY <1>1, <1>2, <1>3, DidMoves
  <1>5. TypeOK'
    BY <1>1, <1>2, <1>4 DEF CreateRuntime, Set, controller, journal, files, bounds, Types,
       TypeOK, Execs
  <1>6. /\ UNCHANGED <<controller, journal, completion, secret, dbStarted, dbKey, minted, revived,
                     bounds>>
        /\ \A d \in Ids : d # Dep =>
              /\ runtime'[d] = runtime[d] /\ dirs'[d] = dirs[d] /\ config'[d] = config[d]
              /\ state'[d] = state[d]
    BY <1>2 DEF CreateRuntime, Set, target, files, Types, TypeOK
  <1> QED
    BY <1>1, <1>3, <1>4, <1>5, <1>6, InstallMoves DEF UndoSteps

LEMMA StartRuntimeKeeps ==
  ASSUME IInv, StartRuntime
  PROVE  IInv'
  <1>1. exec.at = "start" /\ exec.at # "idle" /\ exec.at \in InstallSteps \cup UndoSteps
    BY DEF StartRuntime, At, InstallSteps, UndoSteps
  <1>2. Types /\ Dep \in Ids
    BY <1>1, AtWork
  <1>3. Did("started", "commit") /\ "commit" \in Steps \ {"idle"} /\ "commit" \in InstallSteps \cup UndoSteps
    BY DEF StartRuntime, Steps, InstallSteps, UndoSteps
  <1>4. exec' \in Execs /\ exec'.at = "commit" /\ exec'.dep = exec.dep
    BY <1>1, <1>2, <1>3, DidMoves
  <1>5. TypeOK'
    BY <1>1, <1>2, <1>4 DEF StartRuntime, Set, controller, journal, files, bounds, Types,
       TypeOK, Execs
  <1>6. /\ UNCHANGED <<controller, journal, completion, secret, dbStarted, dbKey, minted, revived,
                     bounds>>
        /\ \A d \in Ids : d # Dep =>
              /\ runtime'[d] = runtime[d] /\ dirs'[d] = dirs[d] /\ config'[d] = config[d]
              /\ state'[d] = state[d]
    BY <1>2 DEF StartRuntime, Set, target, files, Types, TypeOK
  <1> QED
    BY <1>1, <1>3, <1>4, <1>5, <1>6, InstallMoves DEF UndoSteps

LEMMA CommitStateKeeps ==
  ASSUME IInv, CommitState
  PROVE  IInv'
  <1>1. exec.at = "commit" /\ exec.at # "idle" /\ exec.at \in InstallSteps \cup UndoSteps
    BY DEF CommitState, At, InstallSteps, UndoSteps
  <1>2. Types /\ Dep \in Ids
    BY <1>1, AtWork
  <1>3. Go("finish") /\ "finish" \in Steps \ {"idle"} /\ "finish" \in InstallSteps \cup UndoSteps
    BY DEF CommitState, Steps, InstallSteps, UndoSteps
  <1>4. exec' \in Execs /\ exec'.at = "finish" /\ exec'.dep = exec.dep
    BY <1>1, <1>2, <1>3, GoMoves
  <1>5. TypeOK'
    BY <1>1, <1>2, <1>4 DEF CommitState, Set, controller, journal, files, bounds, Types,
       TypeOK, Execs
  <1>6. /\ UNCHANGED <<controller, journal, completion, secret, dbStarted, dbKey, minted, revived,
                     bounds>>
        /\ \A d \in Ids : d # Dep =>
              /\ runtime'[d] = runtime[d] /\ dirs'[d] = dirs[d] /\ config'[d] = config[d]
              /\ state'[d] = state[d]
    BY <1>2 DEF CommitState, Set, target, files, Types, TypeOK
  <1> QED
    BY <1>1, <1>3, <1>4, <1>5, <1>6, InstallMoves DEF UndoSteps

(* A secret that exists keeps its value; a database bound to none waits.      *)
LEMMA WriteSecretKeeps ==
  ASSUME IInv, WriteSecret
  PROVE  IInv'
  <1>1. exec.at = "secret" /\ exec.at # "idle" /\ exec.at \in InstallSteps \cup UndoSteps
    BY DEF WriteSecret, At, InstallSteps, UndoSteps
  <1>2. Types /\ Dep \in Ids /\ install[Dep].status = "pending"
    BY <1>1, AtWork
  <1>3. Did("secret", "mark") /\ "mark" \in Steps \ {"idle"}
        /\ "mark" \notin UndoSteps \cup UninstallSteps
    BY DEF WriteSecret, Steps, InstallSteps, UndoSteps, UninstallSteps
  <1>4. exec' \in Execs /\ exec'.at = "mark" /\ exec'.dep = exec.dep /\ exec' # Idle
    BY <1>1, <1>2, <1>3, DidMoves
  <1>5. /\ UNCHANGED <<controller, journal, dirs, config, dbStarted, dbKey, runtime, state,
                       completion, revived, bounds>>
        /\ minted' \in Nat /\ minted <= minted' /\ secret' \in [Ids -> 0..minted']
        /\ secret'[Dep] # 0
        /\ \A d \in Ids : secret[d] # 0 \/ d # Dep => secret'[d] = secret[d]
    <2>1. CASE secret[Dep] = 0
      <3>1. secret' = [secret EXCEPT ![Dep] = minted + 1] /\ minted' = minted + 1
        BY <2>1 DEF WriteSecret, Set
      <3>2. secret' \in [Ids -> 0..(minted + 1)]
        BY <1>2, <3>1 DEF Types, TypeOK
      <3> QED BY <1>2, <2>1, <3>1, <3>2 DEF WriteSecret, Types, TypeOK
    <2>2. CASE secret[Dep] # 0
      BY <1>2, <2>2 DEF WriteSecret, Types, TypeOK
    <2> QED BY <2>1, <2>2
  <1>6. TypeOK'
    <2>1. dbKey' \in [Ids -> 0..minted']
      BY <1>2, <1>5 DEF Types, TypeOK
    <2> QED BY <1>2, <1>4, <1>5, <2>1 DEF controller, journal, Types, TypeOK, Execs
  <1>7. Types'
    BY <1>2, <1>4, <1>5, <1>6 DEF Types, controller, bounds, Idle, Dep
  <1>8. Bound'
    <2>1. \A d \in Ids : dbKey[d] # 0 /\ uninstall[d] = "none" => secret[d] # 0
      BY <1>2 DEF IInv, Bound, Types, TypeOK
    <2> QED BY <1>5, <2>1 DEF IInv, Bound, journal
  <1>9. Installing'
    BY <1>2, <1>3, <1>4, <1>5 DEF Installing, journal, Dep
  <1>10. Settled' /\ Answered' /\ Removing'
    BY <1>1, <1>3, <1>4, <1>5, InstallFrame DEF journal
  <1> QED BY <1>7, <1>8, <1>9, <1>10 DEF IInv

LEMMA MarkDatabaseKeeps ==
  ASSUME IInv, MarkDatabase
  PROVE  IInv'
  <1>1. exec.at = "mark" /\ exec.at # "idle" /\ exec.at \in InstallSteps \cup UndoSteps
    BY DEF MarkDatabase, At, InstallSteps, UndoSteps
  <1>2. Types /\ Dep \in Ids /\ install[Dep].status = "pending" /\ secret[Dep] # 0
    BY <1>1, AtWork DEF IInv, Installing
  <1>3. Go("migrate") /\ "migrate" \in Steps \ {"idle"}
        /\ "migrate" \notin UndoSteps \cup UninstallSteps
    BY DEF MarkDatabase, Steps, InstallSteps, UndoSteps, UninstallSteps
  <1>4. exec' \in Execs /\ exec'.at = "migrate" /\ exec'.dep = exec.dep /\ exec' # Idle
    BY <1>1, <1>2, <1>3, GoMoves
  <1>5. /\ UNCHANGED <<controller, journal, dirs, config, secret, dbKey, runtime, state,
                       completion, minted, revived, bounds>>
        /\ dbStarted' \in [Ids -> BOOLEAN] /\ dbStarted'[Dep] = TRUE
        /\ \A d \in Ids : dbStarted[d] => dbStarted'[d]
    BY <1>2 DEF MarkDatabase, Set, Types, TypeOK
  <1>6. TypeOK'
    BY <1>2, <1>4, <1>5 DEF controller, journal, Types, TypeOK, Execs
  <1>7. Types'
    BY <1>2, <1>4, <1>5, <1>6 DEF Types, controller, bounds, Idle, Dep
  <1>8. Bound'
    BY <1>5 DEF IInv, Bound, journal
  <1>9. Installing'
    BY <1>2, <1>3, <1>4, <1>5 DEF Installing, journal, Dep
  <1>10. Settled' /\ Answered' /\ Removing'
    BY <1>1, <1>3, <1>4, <1>5, InstallFrame DEF journal
  <1> QED BY <1>7, <1>8, <1>9, <1>10 DEF IInv

(* The rows are bound to the key that is there, under the mark.               *)
LEMMA MigrateKeeps ==
  ASSUME IInv, Migrate
  PROVE  IInv'
  <1>1. exec.at = "migrate" /\ exec.at # "idle" /\ exec.at \in InstallSteps \cup UndoSteps
    BY DEF Migrate, At, InstallSteps, UndoSteps
  <1>2. /\ Types /\ Dep \in Ids /\ install[Dep].status = "pending"
        /\ secret[Dep] # 0 /\ dbStarted[Dep]
    BY <1>1, AtWork DEF IInv, Installing
  <1>3. Go("create") /\ "create" \in Steps \ {"idle"}
        /\ "create" \notin UndoSteps \cup UninstallSteps
    BY DEF Migrate, Steps, InstallSteps, UndoSteps, UninstallSteps
  <1>4. exec' \in Execs /\ exec'.at = "create" /\ exec'.dep = exec.dep /\ exec' # Idle
    BY <1>1, <1>2, <1>3, GoMoves
  <1>5. /\ UNCHANGED <<controller, journal, files, runtime, state, completion, minted, revived,
                       bounds>>
        /\ dbKey' \in [Ids -> 0..minted]
        /\ \A d \in Ids : dbKey'[d] = dbKey[d] \/ (d = Dep /\ dbKey'[d] = secret[d])
    BY <1>2 DEF Migrate, Set, Types, TypeOK
  <1>6. TypeOK'
    BY <1>2, <1>4, <1>5 DEF controller, journal, files, Types, TypeOK, Execs
  <1>7. Types'
    BY <1>2, <1>4, <1>5, <1>6 DEF Types, controller, bounds, Idle, Dep
  <1>8. Bound'
    BY <1>2, <1>5 DEF IInv, Bound, journal, files
  <1>9. Installing'
    BY <1>2, <1>3, <1>4, <1>5 DEF Installing, journal, Dep
  <1>10. Settled' /\ Answered' /\ Removing'
    BY <1>1, <1>3, <1>4, <1>5, InstallFrame DEF journal, files
  <1> QED BY <1>7, <1>8, <1>9, <1>10 DEF IInv

(* An install that ends, whatever it ends with.                               *)
LEMMA InstallEnds ==
  ASSUME IInv, exec.at \in InstallSteps \cup UndoSteps, exec' = Idle,
         UNCHANGED <<controller, uninstall, completion, minted, revived, bounds>>,
         \A d \in Ids : d # Dep =>
            /\ runtime'[d] = runtime[d] /\ dirs'[d] = dirs[d] /\ config'[d] = config[d]
            /\ secret'[d] = secret[d] /\ state'[d] = state[d] /\ install'[d] = install[d],
         TypeOK', Bound'
  PROVE  IInv'
  <1>1. exec'.at = "idle" /\ exec'.at \notin UninstallSteps \cup InstallSteps \cup UndoSteps
    BY IdleMoves, StepSets
  <1>2. Types'
    BY <1>1 DEF IInv, Types, controller, bounds
  <1>3. Installing'
    BY <1>1 DEF Installing
  <1>4. Settled' /\ Answered' /\ Removing'
    BY <1>1, InstallFrame
  <1> QED BY <1>2, <1>3, <1>4 DEF IInv

LEMMA FinishInstallKeeps ==
  ASSUME IInv, FinishInstall
  PROVE  IInv'
  <1>1. exec.at = "finish" /\ exec.at # "idle" /\ exec.at \in InstallSteps \cup UndoSteps
    BY DEF FinishInstall, At, InstallSteps, UndoSteps
  <1>2. Types /\ Dep \in Ids
    BY <1>1, AtWork
  <1>3. /\ UNCHANGED <<controller, uninstall, target, minted, revived, bounds>> /\ exec' = Idle
        /\ install' = [install EXCEPT ![Dep].status = "completed"]
    BY DEF FinishInstall
  <1>4. \A d \in Ids : d # Dep => install'[d] = install[d]
    BY <1>2, <1>3 DEF Types, TypeOK
  <1>5. TypeOK'
    <2>1. install' \in [Ids -> [status : {"none", "pending", "completed", "failed"},
                                hash : 0..MaxChanges]]
      BY <1>2, <1>3 DEF Types, TypeOK
    <2> QED BY <1>2, <1>3, <2>1, IdleMoves DEF controller, target, files, Types, TypeOK, Execs
  <1>6. Bound'
    BY <1>3 DEF IInv, Bound, target, files
  <1>7. /\ UNCHANGED <<controller, uninstall, completion, minted, revived, bounds>>
        /\ UNCHANGED <<runtime, dirs, config, secret, state>>
    BY <1>3 DEF target, files
  <1> QED BY <1>1, <1>3, <1>4, <1>5, <1>6, <1>7, InstallEnds

-----------------------------------------------------------------------------
(* Rollback of an install, and a failed step.                                *)

LEMMA UndoRuntimeKeeps ==
  ASSUME IInv, UndoRuntime
  PROVE  IInv'
  <1>1. exec.at = "undo" /\ exec.at # "idle" /\ exec.at \in InstallSteps \cup UndoSteps
    BY DEF UndoRuntime, At, InstallSteps, UndoSteps
  <1>2. Types /\ Dep \in Ids
    BY <1>1, AtWork
  <1>3. /\ UNCHANGED <<controller, journal, files, dbKey, state, completion, minted, revived,
                       bounds>>
        /\ runtime' \in [Ids -> {"absent", "stopped", "running"}]
        /\ \A d \in Ids : d # Dep => runtime'[d] = runtime[d]
    BY <1>2 DEF UndoRuntime, Set, Types, TypeOK
  <1>4. UNCHANGED <<secret, dirs, config, dbStarted, install, uninstall>>
    BY <1>3 DEF files, journal
  <1>5. CASE dbStarted[Dep]
    <2>1. exec' = Idle
      BY <1>5 DEF UndoRuntime
    <2>2. TypeOK'
      BY <1>2, <1>3, <1>4, <2>1, IdleMoves DEF controller, Types, TypeOK, Execs
    <2>3. Bound'
      BY <1>3, <1>4 DEF IInv, Bound
    <2> QED BY <1>1, <1>3, <1>4, <2>1, <2>2, <2>3, InstallEnds
  <1>6. CASE ~dbStarted[Dep]
    <2>1. Go("undoSecret") /\ "undoSecret" \in Steps \ {"idle"}
          /\ "undoSecret" \in InstallSteps \cup UndoSteps
      BY <1>6 DEF UndoRuntime, Steps, UndoSteps
    <2>2. exec' \in Execs /\ exec'.at = "undoSecret" /\ exec'.dep = exec.dep
      BY <1>1, <1>2, <2>1, GoMoves
    <2>3. TypeOK'
      BY <1>2, <1>3, <1>4, <2>2 DEF controller, Types, TypeOK, Execs
    <2> QED BY <1>1, <1>3, <1>4, <1>6, <2>1, <2>2, <2>3, InstallMoves
  <1> QED BY <1>5, <1>6

(* Without the mark no row is bound to the secret that goes.                  *)
LEMMA UndoSecretKeeps ==
  ASSUME IInv, UndoSecret
  PROVE  IInv'
  <1>1. exec.at = "undoSecret" /\ exec.at # "idle" /\ exec.at \in InstallSteps \cup UndoSteps
        /\ exec.at \in UndoSteps \ {"undo"}
    BY DEF UndoSecret, At, InstallSteps, UndoSteps
  <1>2. Types /\ Dep \in Ids /\ install[Dep].status = "pending" /\ ~dbStarted[Dep]
        /\ dbKey[Dep] = 0
    BY <1>1, AtWork DEF IInv, Installing, Bound
  <1>3. Go("undoConfig") /\ "undoConfig" \in Steps \ {"idle"}
        /\ "undoConfig" \in UndoSteps \ UninstallSteps
    BY DEF UndoSecret, Steps, UndoSteps, UninstallSteps
  <1>4. exec' \in Execs /\ exec'.at = "undoConfig" /\ exec'.dep = exec.dep /\ exec' # Idle
    BY <1>1, <1>2, <1>3, GoMoves
  <1>5. /\ UNCHANGED <<controller, journal, dirs, config, dbStarted, dbKey, runtime, state,
                       completion, minted, revived, bounds>>
        /\ secret' \in [Ids -> 0..minted]
        /\ \A d \in Ids : d # Dep => secret'[d] = secret[d]
    <2>1. [secret EXCEPT ![Dep] = 0] \in [Ids -> 0..minted]
      BY <1>2 DEF Types, TypeOK
    <2> QED BY <1>2, <2>1 DEF UndoSecret, Set, Types, TypeOK
  <1>6. TypeOK'
    BY <1>2, <1>4, <1>5 DEF controller, journal, Types, TypeOK, Execs
  <1>7. Types'
    BY <1>2, <1>4, <1>5, <1>6 DEF Types, controller, bounds, Idle, Dep
  <1>8. Bound'
    BY <1>2, <1>5 DEF IInv, Bound, journal
  <1>9. Installing'
    BY <1>2, <1>3, <1>4, <1>5 DEF Installing, journal, Dep
  <1>10. Settled' /\ Answered' /\ Removing'
    BY <1>1, <1>3, <1>4, <1>5, InstallFrame DEF journal
  <1> QED BY <1>7, <1>8, <1>9, <1>10 DEF IInv

LEMMA UndoConfigKeeps ==
  ASSUME IInv, UndoConfig
  PROVE  IInv'
  <1> DEFINE step == IF At("undoConfig") THEN "undoMarker" ELSE "undoDirs"
  <1>1. exec.at \in {"undoConfig", "undoMarker"} /\ exec.at # "idle"
        /\ exec.at \in InstallSteps \cup UndoSteps /\ exec.at \in UndoSteps \ {"undo"}
    BY DEF UndoConfig, At, UndoSteps
  <1>2. Types /\ Dep \in Ids /\ ~dbStarted[Dep]
    BY <1>1, AtWork DEF IInv, Installing
  <1>3. Go(step) /\ step \in Steps \ {"idle"} /\ step \in {"undoMarker", "undoDirs"}
        /\ {"undoMarker", "undoDirs"} \subseteq UndoSteps
    BY DEF UndoConfig, At, Steps, UndoSteps
  <1> HIDE DEF step
  <1>4. exec' \in Execs /\ exec'.at = step /\ exec'.dep = exec.dep
    BY <1>1, <1>2, <1>3, GoMoves
  <1>5. /\ UNCHANGED <<controller, journal, dirs, secret, dbStarted, dbKey, runtime, state,
                       completion, minted, revived, bounds>>
        /\ config' \in [Ids -> {"none", "bare", "marker", "owned"}]
        /\ \A d \in Ids : d # Dep => config'[d] = config[d]
    BY <1>2 DEF UndoConfig, Set, Types, TypeOK
  <1>6. TypeOK'
    BY <1>2, <1>4, <1>5 DEF controller, journal, Types, TypeOK, Execs
  <1>7. step \notin {"mark", "migrate"}
    BY <1>3
  <1> QED BY <1>1, <1>2, <1>3, <1>4, <1>5, <1>6, <1>7, InstallMoves

(* What goes with the directories is bound to no row either.                  *)
LEMMA UndoDirsKeeps ==
  ASSUME IInv, UndoDirs
  PROVE  IInv'
  <1>1. exec.at = "undoDirs" /\ exec.at # "idle" /\ exec.at \in InstallSteps \cup UndoSteps
        /\ exec.at \in UndoSteps \ {"undo"}
    BY DEF UndoDirs, At, InstallSteps, UndoSteps
  <1>2. Types /\ Dep \in Ids /\ ~dbStarted[Dep] /\ dbKey[Dep] = 0 /\ exec \in Execs
    BY <1>1, AtWork DEF IInv, Installing, Bound
  <1>3. UNCHANGED <<controller, uninstall, dbStarted, dbKey, runtime, state,
                    completion, minted, revived, bounds>>
    BY DEF UndoDirs
  <1>4. CASE "dirs" \in exec.did /\ dirs[Dep] = "owned"
    <2>1. /\ UNCHANGED <<config, secret, install, exec>>
          /\ dirs' \in [Ids -> {"none", "bare", "owned"}]
          /\ \A d \in Ids : d # Dep => dirs'[d] = dirs[d]
      BY <1>2, <1>4 DEF UndoDirs, Set, Types, TypeOK
    <2>2. TypeOK'
      BY <1>2, <1>3, <2>1 DEF controller, Types, TypeOK
    <2>3. exec' \in Execs /\ exec'.at = "undoDirs" /\ exec'.dep = exec.dep
      BY <1>1, <1>2, <2>1
    <2>4. UNCHANGED <<journal>>
      BY <1>3, <2>1 DEF journal
    <2> QED BY <1>1, <1>2, <1>3, <2>1, <2>2, <2>3, <2>4, InstallMoves
  <1>5. CASE ~("dirs" \in exec.did /\ dirs[Dep] = "owned")
    <2>1. exec' = Idle /\ install' = [install EXCEPT ![Dep].status = "failed"]
      BY <1>5 DEF UndoDirs
    <2>2. /\ dirs' \in [Ids -> {"none", "bare", "owned"}]
          /\ config' \in [Ids -> {"none", "bare", "marker", "owned"}]
          /\ secret' \in [Ids -> 0..minted]
          /\ \A d \in Ids : d # Dep =>
                dirs'[d] = dirs[d] /\ config'[d] = config[d] /\ secret'[d] = secret[d]
      <3>1. [secret EXCEPT ![Dep] = 0] \in [Ids -> 0..minted]
        BY <1>2 DEF Types, TypeOK
      <3>2. CASE "dirs" \in exec.did
        <4>1. /\ dirs' = [dirs EXCEPT ![Dep] = "none"] /\ config' = [config EXCEPT ![Dep] = "none"]
              /\ secret' = [secret EXCEPT ![Dep] = 0]
          BY <1>5, <3>2 DEF UndoDirs, Set
        <4> QED BY <1>2, <3>1, <4>1 DEF Types, TypeOK
      <3>3. CASE "dirs" \notin exec.did
        <4>1. UNCHANGED <<dirs, config, secret>>
          BY <1>5, <3>3 DEF UndoDirs
        <4> QED BY <1>2, <4>1 DEF Types, TypeOK
      <3> QED BY <3>2, <3>3
    <2>3. /\ install' \in [Ids -> [status : {"none", "pending", "completed", "failed"},
                                   hash : 0..MaxChanges]]
          /\ \A d \in Ids : d # Dep => install'[d] = install[d]
      BY <1>2, <2>1 DEF Types, TypeOK
    <2>4. TypeOK'
      BY <1>2, <1>3, <2>1, <2>2, <2>3, IdleMoves DEF controller, Types, TypeOK, Execs
    <2>5. Bound'
      BY <1>2, <1>3, <2>2 DEF IInv, Bound
    <2> QED BY <1>1, <1>3, <2>1, <2>2, <2>3, <2>4, <2>5, InstallEnds
  <1> QED BY <1>4, <1>5

LEMMA FailInstallKeeps ==
  ASSUME IInv, FailInstall
  PROVE  IInv'
  <1>1. exec.at # "idle" /\ exec.at \in InstallSteps \cup UndoSteps
    BY StepSets DEF FailInstall
  <1>2. Types /\ Dep \in Ids /\ install[Dep].status = "pending"
    BY <1>1, AtWork
  <1>3. Go("undo") /\ "undo" \in Steps \ {"idle"} /\ "undo" \in UndoSteps \ UninstallSteps
    BY DEF FailInstall, Steps, UndoSteps, UninstallSteps
  <1>4. exec' \in Execs /\ exec'.at = "undo" /\ exec'.dep = exec.dep /\ exec' # Idle
    BY <1>1, <1>2, <1>3, GoMoves
  <1>5. /\ UNCHANGED <<controller, journal, completion, minted, revived, next, changes>>
        /\ UNCHANGED <<dirs, config, secret, dbStarted, dbKey, runtime, state, install, uninstall>>
    BY DEF FailInstall, target, files, journal
  <1>6. Types'
    BY <1>2, <1>4, <1>5 DEF controller, Types, TypeOK, Execs, Idle, Dep
  <1>7. Bound'
    BY <1>5 DEF IInv, Bound
  <1>8. Installing'
    BY <1>2, <1>4, <1>5 DEF Installing, Dep
  <1>9. Settled' /\ Answered' /\ Removing'
    BY <1>1, <1>3, <1>4, <1>5, InstallFrame
  <1> QED BY <1>6, <1>7, <1>8, <1>9 DEF IInv

-----------------------------------------------------------------------------
(* The uninstall executor.                                                   *)

(* The order of an uninstall at work is stored and not answered.              *)
LEMMA AtRemoval ==
  ASSUME IInv, exec.at \in UninstallSteps
  PROVE  /\ Types /\ exec.at # "idle" /\ exec # Idle /\ Dep \in Ids /\ exec \in Execs
         /\ pending # None /\ pending.dep = Dep /\ ~pending.done
         /\ uninstall[Dep] = "pending" /\ Dep \in registry /\ install[Dep].status = "completed"
  <1>1. exec.at # "idle"
    BY StepSets
  <1> QED BY <1>1, AtWork DEF IInv, Removing, Settled

(* A step of an uninstall touches its own deployment only.                    *)
LEMMA RemoveFrame ==
  ASSUME IInv, exec.at \in UninstallSteps,
         UNCHANGED <<controller, install, dbStarted, dbKey, minted, revived, next, changes>>,
         \A d \in Ids : d # Dep =>
            /\ runtime'[d] = runtime[d] /\ dirs'[d] = dirs[d] /\ config'[d] = config[d]
            /\ secret'[d] = secret[d] /\ state'[d] = state[d]
            /\ completion'[d] = completion[d] /\ uninstall'[d] = uninstall[d],
         TypeOK', exec'.at = "idle" <=> exec' = Idle, exec' # Idle => exec'.dep = exec.dep,
         exec'.at \notin InstallSteps \cup UndoSteps,
         uninstall'[Dep] # "none",
         completion'[Dep] =>
            /\ runtime'[Dep] = "absent" /\ dirs'[Dep] = "none"
            /\ config'[Dep] = "none" /\ secret'[Dep] = 0,
         uninstall'[Dep] = "completed" => completion'[Dep] /\ ~state'[Dep],
         Removing'
  PROVE  IInv'
  <1>1. /\ Types /\ Dep \in Ids /\ pending # None /\ pending.dep = Dep /\ ~pending.done
        /\ Dep \in registry /\ install[Dep].status = "completed"
    BY AtRemoval
  <1>2. Types'
    BY <1>1 DEF Types, controller, Dep
  <1>3. Bound'
    BY DEF IInv, Bound
  <1>4. Installing'
    BY DEF Installing
  <1>5. Settled'
    <2>1. ASSUME NEW d \in Ids, d # Dep
          PROVE  /\ d \in registry' \/ uninstall'[d] # "none" => install'[d].status = "completed"
                 /\ completion'[d] => uninstall'[d] # "none" /\ Removed(d)'
                 /\ uninstall'[d] = "completed" =>
                      /\ completion'[d] /\ ~state'[d]
                      /\ pending' = None \/ pending'.dep # d =>
                            d \notin (registry' \cup keys') \ revived'
      BY <2>1 DEF IInv, Settled, Removed, controller
    <2>2. /\ install'[Dep].status = "completed"
          /\ completion'[Dep] => /\ uninstall'[Dep] # "none"
                                 /\ runtime'[Dep] = "absent" /\ dirs'[Dep] = "none"
                                 /\ config'[Dep] = "none" /\ secret'[Dep] = 0
          /\ uninstall'[Dep] = "completed" => completion'[Dep] /\ ~state'[Dep]
          /\ pending' # None /\ pending'.dep = Dep
      BY <1>1 DEF controller
    <2> QED BY <2>1, <2>2 DEF Settled, Removed
  <1>6. Answered'
    BY <1>1 DEF Answered, controller
  <1> QED BY <1>2, <1>3, <1>4, <1>5, <1>6 DEF IInv

LEMMA RemoveRuntimeKeeps ==
  ASSUME IInv, RemoveRuntime
  PROVE  IInv'
  <1>1. exec.at = "remove" /\ exec.at \in UninstallSteps
    BY DEF RemoveRuntime, At, UninstallSteps
  <1>2. /\ Types /\ exec.at # "idle" /\ Dep \in Ids /\ ~completion[Dep] /\ pending # None
        /\ pending.dep = Dep /\ ~pending.done /\ uninstall[Dep] = "pending" /\ Dep \in registry
    BY <1>1, AtRemoval DEF IInv, Removing
  <1>3. Go("removeDirs") /\ "removeDirs" \in Steps \ {"idle"}
        /\ "removeDirs" \notin InstallSteps \cup UndoSteps
    BY DEF RemoveRuntime, Steps, UninstallSteps, InstallSteps, UndoSteps
  <1>4. exec' \in Execs /\ exec'.at = "removeDirs" /\ exec'.dep = exec.dep /\ exec' # Idle
    BY <1>2, <1>3, GoMoves
  <1>5. /\ UNCHANGED <<controller, install, dbStarted, dbKey, minted, revived, next, changes>>
        /\ UNCHANGED <<uninstall, dirs, config, secret, state, completion>>
        /\ runtime' \in [Ids -> {"absent", "stopped", "running"}] /\ runtime'[Dep] = "absent"
        /\ \A d \in Ids : d # Dep => runtime'[d] = runtime[d]
    BY <1>2 DEF RemoveRuntime, Set, journal, files, bounds, Types, TypeOK
  <1>6. TypeOK'
    BY <1>2, <1>4, <1>5 DEF controller, Types, TypeOK, Execs
  <1>7. Removing'
    BY <1>2, <1>4, <1>5 DEF Removing, Dep, controller
  <1> QED BY <1>1, <1>2, <1>3, <1>4, <1>5, <1>6, <1>7, RemoveFrame

LEMMA RemoveDirsKeeps ==
  ASSUME IInv, RemoveDirs
  PROVE  IInv'
  <1>1. exec.at = "removeDirs" /\ exec.at \in UninstallSteps
    BY DEF RemoveDirs, At, UninstallSteps
  <1>2. /\ Types /\ exec.at # "idle" /\ Dep \in Ids /\ ~completion[Dep] /\ pending # None
        /\ pending.dep = Dep /\ ~pending.done /\ uninstall[Dep] = "pending" /\ Dep \in registry
        /\ runtime[Dep] = "absent" /\ exec # Idle /\ exec \in Execs
    BY <1>1, AtRemoval DEF IInv, Removing
  <1>3. /\ UNCHANGED <<controller, install, dbStarted, dbKey, minted, revived, next, changes>>
        /\ UNCHANGED <<uninstall, config, runtime, state, completion>>
    BY DEF RemoveDirs, journal, bounds
  <1>4. CASE dirs[Dep] = "owned"
    <2>1. /\ UNCHANGED <<secret, exec>> /\ dirs' \in [Ids -> {"none", "bare", "owned"}]
          /\ \A d \in Ids : d # Dep => dirs'[d] = dirs[d]
      BY <1>2, <1>4 DEF RemoveDirs, Set, Types, TypeOK
    <2>2. TypeOK'
      BY <1>2, <1>3, <2>1 DEF controller, Types, TypeOK, Execs
    <2>3. exec'.at \notin InstallSteps \cup UndoSteps /\ exec' # Idle /\ exec'.at # "idle"
      BY <1>1, <1>2, <2>1, StepSets
    <2>4. Removing'
      BY <1>1, <1>2, <1>3, <2>1 DEF Removing, Dep, controller
    <2> QED BY <1>1, <1>2, <1>3, <2>1, <2>2, <2>3, <2>4, RemoveFrame
  <1>5. CASE dirs[Dep] # "owned"
    <2>1. Go("removeConfig") /\ "removeConfig" \in Steps \ {"idle"}
          /\ "removeConfig" \notin InstallSteps \cup UndoSteps
      BY <1>5 DEF RemoveDirs, Steps, UninstallSteps, InstallSteps, UndoSteps
    <2>2. exec' \in Execs /\ exec'.at = "removeConfig" /\ exec'.dep = exec.dep /\ exec' # Idle
      BY <1>2, <2>1, GoMoves
    <2>3. /\ dirs' \in [Ids -> {"none", "bare", "owned"}] /\ secret' \in [Ids -> 0..minted]
          /\ dirs'[Dep] = "none" /\ secret'[Dep] = 0
          /\ \A d \in Ids : d # Dep => dirs'[d] = dirs[d] /\ secret'[d] = secret[d]
      <3>1. [secret EXCEPT ![Dep] = 0] \in [Ids -> 0..minted]
        BY <1>2 DEF Types, TypeOK
      <3>2. [dirs EXCEPT ![Dep] = "none"] \in [Ids -> {"none", "bare", "owned"}]
        BY <1>2 DEF Types, TypeOK
      <3>3. dirs' = [dirs EXCEPT ![Dep] = "none"] /\ secret' = [secret EXCEPT ![Dep] = 0]
        BY <1>5 DEF RemoveDirs, Set
      <3> QED BY <1>2, <3>1, <3>2, <3>3 DEF Types, TypeOK
    <2>4. TypeOK'
      BY <1>2, <1>3, <2>2, <2>3 DEF controller, Types, TypeOK, Execs
    <2>5. Removing'
      BY <1>2, <1>3, <2>2, <2>3 DEF Removing, Dep, controller
    <2> QED BY <1>1, <1>2, <1>3, <2>1, <2>2, <2>3, <2>4, <2>5, RemoveFrame
  <1> QED BY <1>4, <1>5

LEMMA RemoveConfigKeeps ==
  ASSUME IInv, RemoveConfig
  PROVE  IInv'
  <1> DEFINE step == IF At("removeConfig") THEN "removeMarker" ELSE "complete"
  <1>1. exec.at \in {"removeConfig", "removeMarker"} /\ exec.at \in UninstallSteps
    BY DEF RemoveConfig, At, UninstallSteps
  <1>2. /\ Types /\ exec.at # "idle" /\ Dep \in Ids /\ ~completion[Dep] /\ pending # None
        /\ pending.dep = Dep /\ ~pending.done /\ uninstall[Dep] = "pending" /\ Dep \in registry
        /\ runtime[Dep] = "absent" /\ dirs[Dep] = "none" /\ secret[Dep] = 0
    BY <1>1, AtRemoval DEF IInv, Removing
  <1>3. /\ Go(step) /\ step \in Steps \ {"idle"} /\ step \in {"removeMarker", "complete"}
        /\ step \notin InstallSteps \cup UndoSteps
    BY DEF RemoveConfig, At, Steps, UninstallSteps, InstallSteps, UndoSteps
  <1>4. step = "complete" => config' = [config EXCEPT ![Dep] = "none"]
    BY DEF RemoveConfig, At, Set
  <1>5. /\ UNCHANGED <<controller, install, dbStarted, dbKey, minted, revived, next, changes>>
        /\ UNCHANGED <<uninstall, dirs, secret, runtime, state, completion>>
        /\ config' \in [Ids -> {"none", "bare", "marker", "owned"}]
        /\ \A d \in Ids : d # Dep => config'[d] = config[d]
    BY <1>2 DEF RemoveConfig, Set, journal, bounds, Types, TypeOK
  <1> HIDE DEF step
  <1>6. exec' \in Execs /\ exec'.at = step /\ exec'.dep = exec.dep /\ exec' # Idle
    BY <1>2, <1>3, GoMoves
  <1>7. TypeOK'
    BY <1>2, <1>5, <1>6 DEF controller, Types, TypeOK, Execs
  <1>8. step = "complete" => config'[Dep] = "none"
    BY <1>2, <1>4 DEF Types, TypeOK
  <1>9. Removing'
    BY <1>2, <1>3, <1>5, <1>6, <1>8 DEF Removing, Dep, controller
  <1>10. exec'.at # "idle" /\ exec'.at \notin InstallSteps \cup UndoSteps
    BY <1>3, <1>6
  <1> QED BY <1>1, <1>2, <1>5, <1>6, <1>7, <1>9, <1>10, RemoveFrame

LEMMA RecordCompletionKeeps ==
  ASSUME IInv, RecordCompletion
  PROVE  IInv'
  <1>1. exec.at = "complete" /\ exec.at \in UninstallSteps
    BY DEF RecordCompletion, At, UninstallSteps
  <1>2. /\ Types /\ exec.at # "idle" /\ Dep \in Ids /\ pending # None
        /\ pending.dep = Dep /\ ~pending.done /\ uninstall[Dep] = "pending" /\ Dep \in registry
        /\ runtime[Dep] = "absent" /\ dirs[Dep] = "none" /\ secret[Dep] = 0 /\ config[Dep] = "none"
    BY <1>1, AtRemoval DEF IInv, Removing
  <1>3. Go("dropState") /\ "dropState" \in Steps \ {"idle"}
        /\ "dropState" \notin InstallSteps \cup UndoSteps
    BY DEF RecordCompletion, Steps, UninstallSteps, InstallSteps, UndoSteps
  <1>4. exec' \in Execs /\ exec'.at = "dropState" /\ exec'.dep = exec.dep /\ exec' # Idle
    BY <1>2, <1>3, GoMoves
  <1>5. /\ UNCHANGED <<controller, install, dbStarted, dbKey, minted, revived, next, changes>>
        /\ UNCHANGED <<uninstall, dirs, config, secret, runtime, state>>
        /\ completion' \in [Ids -> BOOLEAN] /\ completion'[Dep] = TRUE
        /\ \A d \in Ids : d # Dep => completion'[d] = completion[d]
    BY <1>2 DEF RecordCompletion, Set, journal, files, bounds, Types, TypeOK
  <1>6. TypeOK'
    BY <1>2, <1>4, <1>5 DEF controller, Types, TypeOK, Execs
  <1>7. Removing'
    BY <1>2, <1>4, <1>5 DEF Removing, Dep, controller
  <1> QED BY <1>1, <1>2, <1>3, <1>4, <1>5, <1>6, <1>7, RemoveFrame

LEMMA DropStateKeeps ==
  ASSUME IInv, DropState
  PROVE  IInv'
  <1>1. exec.at = "dropState" /\ exec.at \in UninstallSteps
    BY DEF DropState, At, UninstallSteps
  <1>2. /\ Types /\ exec.at # "idle" /\ Dep \in Ids /\ pending # None /\ completion[Dep]
        /\ pending.dep = Dep /\ ~pending.done /\ uninstall[Dep] = "pending" /\ Dep \in registry
        /\ Removed(Dep)
    BY <1>1, AtRemoval DEF IInv, Removing, Settled
  <1>3. Go("uninstalled") /\ "uninstalled" \in Steps \ {"idle"}
        /\ "uninstalled" \notin InstallSteps \cup UndoSteps
    BY DEF DropState, Steps, UninstallSteps, InstallSteps, UndoSteps
  <1>4. exec' \in Execs /\ exec'.at = "uninstalled" /\ exec'.dep = exec.dep /\ exec' # Idle
    BY <1>2, <1>3, GoMoves
  <1>5. /\ UNCHANGED <<controller, install, dbStarted, dbKey, minted, revived, next, changes>>
        /\ UNCHANGED <<uninstall, dirs, config, secret, runtime, completion>>
        /\ state' \in [Ids -> BOOLEAN] /\ state'[Dep] = FALSE
        /\ \A d \in Ids : d # Dep => state'[d] = state[d]
    BY <1>2 DEF DropState, Set, journal, files, bounds, Types, TypeOK
  <1>6. TypeOK'
    BY <1>2, <1>4, <1>5 DEF controller, Types, TypeOK, Execs
  <1>7. Removing'
    BY <1>2, <1>4, <1>5 DEF Removing, Dep, controller, Removed
  <1>8. uninstall'[Dep] # "completed"
    BY <1>2, <1>5
  <1> QED BY <1>1, <1>2, <1>3, <1>4, <1>5, <1>6, <1>7, <1>8, RemoveFrame DEF Removed

(* An uninstall that ends, completed or failed or with its helper killed.     *)
LEMMA RemovalEnds ==
  ASSUME IInv, exec.at \in UninstallSteps, exec' = Idle,
         UNCHANGED <<controller, install, target, minted, revived, next, changes>>,
         NEW status \in {"pending", "completed", "failed"},
         uninstall' = [uninstall EXCEPT ![Dep] = status],
         status = "completed" => exec.at = "uninstalled"
  PROVE  IInv'
  <1>1. Types /\ Dep \in Ids
    BY AtRemoval
  <1>2. exec'.at = "idle" /\ exec' \in Execs
        /\ exec'.at \notin UninstallSteps \cup InstallSteps \cup UndoSteps
    BY IdleMoves, StepSets
  <1>3. /\ uninstall' \in [Ids -> {"none", "pending", "completed", "failed"}]
        /\ uninstall'[Dep] = status
        /\ \A d \in Ids : d # Dep => uninstall'[d] = uninstall[d]
    BY <1>1 DEF Types, TypeOK
  <1>4. UNCHANGED <<dirs, config, secret, dbStarted, dbKey, runtime, state, completion>>
    BY DEF target, files
  <1>5. TypeOK'
    BY <1>1, <1>2, <1>3, <1>4 DEF controller, Types, TypeOK, Execs
  <1>6. Removing'
    BY <1>2 DEF Removing
  <1>7. status = "completed" => completion[Dep] /\ ~state[Dep]
    BY DEF IInv, Removing
  <1>8. completion[Dep] => Removed(Dep)
    BY <1>1 DEF IInv, Settled
  <1> QED BY <1>2, <1>3, <1>4, <1>5, <1>6, <1>7, <1>8, RemoveFrame DEF Removed

LEMMA FinishUninstallKeeps ==
  ASSUME IInv, FinishUninstall
  PROVE  IInv'
  <1>1. exec.at = "uninstalled" /\ exec.at \in UninstallSteps
    BY DEF FinishUninstall, At, UninstallSteps
  <1>2. UNCHANGED <<controller, install, target, minted, revived, next, changes>>
    BY DEF FinishUninstall, bounds
  <1>3. exec' = Idle /\ uninstall' = [uninstall EXCEPT ![Dep] = "completed"]
    BY DEF FinishUninstall
  <1> QED BY <1>1, <1>2, <1>3, RemovalEnds

LEMMA FailUninstallKeeps ==
  ASSUME IInv, FailUninstall
  PROVE  IInv'
  <1>1. exec.at \in UninstallSteps /\ exec' = Idle
        /\ uninstall' = [uninstall EXCEPT ![Dep] = "failed"]
    BY DEF FailUninstall
  <1>2. UNCHANGED <<controller, install, target, minted, revived, next, changes>>
    BY DEF FailUninstall
  <1> QED BY <1>1, <1>2, RemovalEnds

(* A killed helper leaves its order pending.                                  *)
LEMMA KillKeeps ==
  ASSUME IInv, Kill
  PROVE  IInv'
  <1>1. exec' = Idle /\ UNCHANGED <<controller, journal, target, minted, next, changes, revived>>
    BY DEF Kill
  <1>2. Types /\ exec.at \in InstallSteps \cup UndoSteps \cup UninstallSteps
    BY DEF Kill, IInv, Types, TypeOK
  <1>3. CASE exec.at \in UninstallSteps
    <2>1. uninstall[Dep] = "pending" /\ Dep \in Ids
      BY <1>3, AtRemoval
    <2>2. uninstall' = [uninstall EXCEPT ![Dep] = "pending"]
      BY <1>1, <1>2, <2>1 DEF journal, Types, TypeOK
    <2>3. UNCHANGED <<controller, install, target, minted, revived, next, changes>>
      BY <1>1 DEF journal
    <2> QED BY <1>1, <1>3, <2>2, <2>3, RemovalEnds
  <1>4. CASE exec.at \in InstallSteps \cup UndoSteps
    <2>1. UNCHANGED <<install, uninstall, dirs, config, secret, dbStarted, dbKey, runtime, state,
                      completion>>
      BY <1>1 DEF journal, target, files
    <2>2. exec'.at = "idle" /\ exec' \in Execs
          /\ exec'.at \notin UninstallSteps \cup InstallSteps \cup UndoSteps
      BY <1>1, IdleMoves, StepSets
    <2>3. Types'
      BY <1>1, <1>2, <2>1, <2>2 DEF controller, Types, TypeOK, Execs
    <2>4. Bound' /\ Installing'
      BY <2>1, <2>2 DEF IInv, Bound, Installing
    <2>5. Settled' /\ Answered' /\ Removing'
      BY <1>1, <1>4, <2>1, <2>2, InstallFrame
    <2> QED BY <2>3, <2>4, <2>5 DEF IInv
  <1> QED BY <1>2, <1>3, <1>4

-----------------------------------------------------------------------------
(* The controller.                                                           *)

(* The plan and the order say nothing about the target.                       *)
LEMMA PlanFrame ==
  ASSUME IInv, UNCHANGED <<registry, keys, pending, journal, target, exec, minted, revived>>,
         plan' \in Ids \cup {None}, request' \in 0..MaxChanges, request' <= changes',
         changes' \in 0..MaxChanges, next' \in 1..(MaxIds + 1)
  PROVE  IInv'
  <1>1. UNCHANGED <<install, uninstall, dirs, config, secret, dbStarted, dbKey, runtime, state,
                    completion>>
    BY DEF journal, target, files
  <1>2. Types'
    BY <1>1 DEF IInv, Types, TypeOK, Dep
  <1>3. Bound' /\ Installing' /\ Removing'
    BY <1>1 DEF IInv, Bound, Installing, Removing, Dep
  <1>4. Settled' /\ Answered'
    BY <1>1 DEF IInv, Settled, Removed, Answered
  <1> QED BY <1>2, <1>3, <1>4 DEF IInv

LEMMA PlanKeeps ==
  ASSUME IInv, ChangeRequest \/ Prepare \/ CloseRegistered \/ InstallRefused
  PROVE  IInv'
  <1>1. /\ UNCHANGED <<registry, keys, pending, journal, target, exec, minted, revived>>
        /\ plan' \in Ids \cup {None}
    <2>1. CASE ChangeRequest
      BY <2>1 DEF ChangeRequest, IInv, Types, TypeOK
    <2>2. CASE Prepare
      BY <2>2 DEF Prepare, IInv, Types, TypeOK, Ids
    <2>3. CASE CloseRegistered \/ InstallRefused
      BY <2>3 DEF CloseRegistered, InstallRefused
    <2> QED BY <2>1, <2>2, <2>3
  <1>2. /\ request' \in 0..MaxChanges /\ request' <= changes' /\ changes' \in 0..MaxChanges
        /\ next' \in 1..(MaxIds + 1)
    <2>1. CASE ChangeRequest
      BY <2>1 DEF ChangeRequest, IInv, Types, TypeOK
    <2>2. CASE Prepare
      BY <2>2 DEF Prepare, IInv, Types, TypeOK
    <2>3. CASE CloseRegistered \/ InstallRefused
      BY <2>3 DEF CloseRegistered, InstallRefused, bounds, IInv, Types, TypeOK
    <2> QED BY <2>1, <2>2, <2>3
  <1> QED BY <1>1, <1>2, PlanFrame

(* Only an order that is not completed is executed.                           *)
LEMMA SubmitInstallKeeps ==
  ASSUME IInv, SubmitInstall
  PROVE  IInv'
  <1> DEFINE new == [dep |-> plan, at |-> "check", did |-> {}]
  <1>1. /\ plan \in Ids /\ plan \notin registry /\ install[plan].status # "completed"
        /\ Types /\ Settled
    BY DEF SubmitInstall, IInv, Types, TypeOK
  <1>2. /\ uninstall[plan] = "none" /\ ~completion[plan]
    BY <1>1 DEF Settled
  <1>3. /\ exec' = new /\ new \in Execs /\ new.at = "check" /\ new.dep = plan /\ new # Idle
        /\ "check" \notin {"idle", "mark", "migrate"} \cup UndoSteps \cup UninstallSteps
    BY <1>1 DEF SubmitInstall, Execs, Idle, Ids, InstallSteps, UndoSteps, UninstallSteps
  <1>4. /\ UNCHANGED <<controller, uninstall, minted, revived, next, changes>>
        /\ UNCHANGED <<dirs, config, secret, dbStarted, dbKey, runtime, state, completion>>
    BY DEF SubmitInstall, bounds, target, files
  <1>5. /\ install' \in [Ids -> [status : {"none", "pending", "completed", "failed"},
                                 hash : 0..MaxChanges]]
        /\ install'[plan].status = "pending"
        /\ \A d \in Ids : d # plan => install'[d] = install[d]
    <2>1. [status |-> "pending", hash |-> request] \in
             [status : {"none", "pending", "completed", "failed"}, hash : 0..MaxChanges]
      BY <1>1 DEF Types, TypeOK
    <2> QED BY <1>1, <2>1 DEF SubmitInstall, Types, TypeOK
  <1> HIDE DEF new
  <1>6. TypeOK'
    BY <1>1, <1>3, <1>4, <1>5 DEF controller, Types, TypeOK, Execs
  <1>7. Types'
    BY <1>1, <1>3, <1>4, <1>6 DEF controller, Types, Dep
  <1>8. Bound'
    BY <1>4 DEF IInv, Bound
  <1>9. Installing' /\ Removing'
    BY <1>3, <1>5 DEF Installing, Removing, Dep
  <1>10. Settled'
    BY <1>1, <1>2, <1>4, <1>5 DEF Settled, Removed, controller
  <1>11. Answered'
    BY <1>4 DEF IInv, Answered, controller
  <1> QED BY <1>7, <1>8, <1>9, <1>10, <1>11 DEF IInv

(* A registration of an uninstalled deployment is a revived one.              *)
LEMMA RegisterKeeps ==
  ASSUME IInv, Register \/ RegisterKilled
  PROVE  IInv'
  <1>1. /\ plan \in Ids /\ install[plan].status = "completed" /\ Types
        /\ registry' = registry \cup {plan}
        /\ revived' = IF completion[plan] THEN revived \cup {plan} ELSE revived
    BY DEF Register, RegisterKilled, IInv, Types, TypeOK
  <1>2. /\ UNCHANGED <<request, keys, pending, exec, minted, next, changes>>
        /\ UNCHANGED <<install, uninstall, dirs, config, secret, dbStarted, dbKey, runtime,
                       state, completion>>
        /\ plan' \in {plan, None}
    BY DEF Register, RegisterKilled, journal, target, files, bounds
  <1>3. Types'
    BY <1>1, <1>2 DEF Types, TypeOK, Dep
  <1>4. Bound' /\ Installing'
    BY <1>2 DEF IInv, Bound, Installing, Dep
  <1>5. Removing'
    BY <1>1, <1>2 DEF IInv, Removing, Dep
  <1>6. Settled'
    BY <1>1, <1>2 DEF IInv, Settled, Removed
  <1>7. Answered'
    BY <1>2 DEF IInv, Answered
  <1> QED BY <1>3, <1>4, <1>5, <1>6, <1>7 DEF IInv

LEMMA BindKeeps ==
  ASSUME IInv, NEW d \in Ids, Bind(d)
  PROVE  IInv'
  <1>1. d \in registry /\ state[d] /\ keys' = keys \cup {d}
    BY DEF Bind
  <1>2. /\ UNCHANGED <<plan, request, registry, pending, exec, minted, revived, next, changes>>
        /\ UNCHANGED <<install, uninstall, dirs, config, secret, dbStarted, dbKey, runtime,
                       state, completion>>
    BY DEF Bind, journal, target, files, bounds
  <1>3. Types'
    BY <1>1, <1>2 DEF IInv, Types, TypeOK, Dep
  <1>4. Bound' /\ Installing' /\ Removing'
    BY <1>2 DEF IInv, Bound, Installing, Removing, Dep
  <1>5. Settled'
    BY <1>1, <1>2 DEF IInv, Settled, Removed
  <1>6. Answered'
    BY <1>2 DEF IInv, Answered
  <1> QED BY <1>3, <1>4, <1>5, <1>6 DEF IInv

LEMMA OrderUninstallKeeps ==
  ASSUME IInv, NEW d \in Ids, OrderUninstall(d)
  PROVE  IInv'
  <1> DEFINE new == [dep |-> d, done |-> FALSE]
  <1>1. d \in registry /\ state[d] /\ pending = None /\ pending' = new
    BY DEF OrderUninstall
  <1>2. /\ UNCHANGED <<plan, request, registry, keys, exec, minted, revived, next, changes>>
        /\ UNCHANGED <<install, uninstall, dirs, config, secret, dbStarted, dbKey, runtime,
                       state, completion>>
    BY DEF OrderUninstall, journal, target, files, bounds
  <1>3. new \in Orders /\ new # None /\ new.dep = d /\ new.done = FALSE
    <2>1. new \in Orders
      BY DEF Orders
    <2> QED BY <2>1
  <1> HIDE DEF new
  <1>4. Types'
    BY <1>1, <1>2, <1>3 DEF IInv, Types, TypeOK, Dep
  <1>5. Bound' /\ Installing'
    BY <1>2 DEF IInv, Bound, Installing, Dep
  <1>6. Removing'
    BY <1>1, <1>2 DEF IInv, Removing
  <1>7. Settled'
    BY <1>1, <1>2, <1>3 DEF IInv, Settled, Removed
  <1>8. Answered'
    BY <1>1, <1>3 DEF Answered
  <1> QED BY <1>4, <1>5, <1>6, <1>7, <1>8 DEF IInv

LEMMA SubmitUninstallKeeps ==
  ASSUME IInv, SubmitUninstall
  PROVE  IInv'
  <1> DEFINE at == IF completion[pending.dep] THEN "dropState" ELSE "remove"
             new == [dep |-> pending.dep, did |-> {}, at |-> at]
  <1>1. /\ pending # None /\ pending \in Orders /\ pending.dep \in Ids /\ ~pending.done
        /\ pending.dep \in registry /\ Types /\ uninstall[pending.dep] # "completed"
        /\ install[pending.dep].status = "completed"
    BY DEF SubmitUninstall, IInv, Types, TypeOK, Orders, Settled
  <1>2. /\ exec' = new /\ new \in Execs /\ new.at = at /\ new.dep = pending.dep /\ new # Idle
        /\ at # "idle" /\ at \notin InstallSteps \cup UndoSteps
        /\ at = IF completion[pending.dep] THEN "dropState" ELSE "remove"
    BY <1>1 DEF SubmitUninstall, Execs, Idle, Ids, InstallSteps, UndoSteps, UninstallSteps
  <1>3. /\ UNCHANGED <<controller, install, minted, revived, next, changes>>
        /\ UNCHANGED <<dirs, config, secret, dbStarted, dbKey, runtime, state, completion>>
    BY DEF SubmitUninstall, bounds, target, files
  <1>4. /\ uninstall' \in [Ids -> {"none", "pending", "completed", "failed"}]
        /\ uninstall'[pending.dep] = "pending"
        /\ \A d \in Ids : d # pending.dep => uninstall'[d] = uninstall[d]
    BY <1>1 DEF SubmitUninstall, Types, TypeOK
  <1> HIDE DEF new, at
  <1>5. TypeOK'
    BY <1>1, <1>2, <1>3, <1>4 DEF controller, Types, TypeOK, Execs
  <1>6. Types'
    BY <1>1, <1>2, <1>3, <1>5, IdleMoves DEF controller, Types, Dep, Idle
  <1>7. Bound'
    BY <1>3, <1>4 DEF IInv, Bound
  <1>8. Installing'
    BY <1>2 DEF Installing
  <1>9. Removing'
    BY <1>1, <1>2, <1>3, <1>4 DEF Removing, Dep, controller
  <1>10. Settled'
    BY <1>1, <1>3, <1>4 DEF IInv, Settled, Removed, controller
  <1>11. Answered'
    BY <1>1, <1>3 DEF Answered, controller
  <1> QED BY <1>6, <1>7, <1>8, <1>9, <1>10, <1>11 DEF IInv

(* The answer and the local cleanup follow a completed uninstall.             *)
LEMMA AnswerUninstallKeeps ==
  ASSUME IInv, AnswerUninstall
  PROVE  IInv'
  <1>1. /\ pending # None /\ pending \in Orders /\ ~pending.done
        /\ uninstall[pending.dep] = "completed" /\ pending' = [pending EXCEPT !.done = TRUE]
    BY DEF AnswerUninstall, IInv, Types, TypeOK
  <1>2. /\ UNCHANGED <<plan, request, registry, keys, exec, minted, revived, next, changes>>
        /\ UNCHANGED <<install, uninstall, dirs, config, secret, dbStarted, dbKey, runtime,
                       state, completion>>
    BY DEF AnswerUninstall, journal, target, files, bounds
  <1>3. pending' \in Orders /\ pending' # None /\ pending'.dep = pending.dep
    <2>1. pending' \in Orders /\ pending'.dep = pending.dep
      BY <1>1 DEF Orders
    <2> QED BY <2>1
  <1>4. Types'
    BY <1>2, <1>3 DEF IInv, Types, TypeOK, Dep
  <1>5. Bound' /\ Installing'
    BY <1>2 DEF IInv, Bound, Installing, Dep
  <1>6. exec.at \notin UninstallSteps
    BY <1>1 DEF IInv, Removing
  <1>7. Removing'
    BY <1>2, <1>6 DEF Removing
  <1>8. Settled'
    BY <1>1, <1>2, <1>3 DEF IInv, Settled, Removed
  <1>9. Answered'
    BY <1>1, <1>2, <1>3 DEF Answered
  <1> QED BY <1>4, <1>5, <1>7, <1>8, <1>9 DEF IInv

LEMMA CleanLocalKeeps ==
  ASSUME IInv, CleanLocal
  PROVE  IInv'
  <1>1. pending # None /\ pending \in Orders /\ pending.done
    BY DEF CleanLocal, IInv, Types, TypeOK
  <1>2. /\ UNCHANGED <<plan, request, exec, minted, revived, next, changes>>
        /\ UNCHANGED <<install, uninstall, dirs, config, secret, dbStarted, dbKey, runtime,
                       state, completion>>
    BY DEF CleanLocal, journal, target, files, bounds
  <1>3. /\ registry' \subseteq registry /\ keys' \subseteq keys /\ keys' \subseteq registry'
        /\ \/ pending' = pending
           \/ pending' = None /\ pending.dep \notin registry' \cup keys'
    BY DEF CleanLocal, IInv, Types, TypeOK
  <1>4. Types'
    BY <1>1, <1>2, <1>3 DEF IInv, Types, TypeOK, Dep
  <1>5. Bound' /\ Installing'
    BY <1>2 DEF IInv, Bound, Installing, Dep
  <1>6. Removing'
    BY <1>1, <1>2 DEF IInv, Removing
  <1>7. Settled'
    BY <1>1, <1>2, <1>3 DEF IInv, Settled, Removed
  <1>8. Answered'
    BY <1>2, <1>3 DEF IInv, Answered
  <1> QED BY <1>4, <1>5, <1>6, <1>7, <1>8 DEF IInv

-----------------------------------------------------------------------------
(* The theorems.                                                             *)

LEMMA InitHolds ==
  ASSUME Init
  PROVE  IInv
  <1>1. exec = Idle /\ exec.at = "idle" /\ exec \in Execs
        /\ exec.at \notin InstallSteps \cup UndoSteps \cup UninstallSteps
    BY StepSets DEF Init, Idle, Execs
  <1>2. Types
    BY <1>1 DEF Init, Types, TypeOK, Execs
  <1> QED BY <1>1, <1>2 DEF Init, IInv, Bound, Installing, Removing, Settled, Answered

LEMMA NextKeeps == IInv /\ [Next]_vars => IInv'
  <1> SUFFICES ASSUME IInv, [Next]_vars PROVE IInv'
    OBVIOUS
  <1>1. CASE ChangeRequest \/ Prepare \/ InstallStep
    BY <1>1, PlanKeeps, SubmitInstallKeeps, RegisterKeeps DEF InstallStep
  <1>2. CASE \E d \in Ids : Bind(d) \/ OrderUninstall(d)
    BY <1>2, BindKeeps, OrderUninstallKeeps
  <1>3. CASE UninstallStep
    BY <1>3, SubmitUninstallKeeps, AnswerUninstallKeeps, CleanLocalKeeps DEF UninstallStep
  <1>4. CASE HelperStep
    BY <1>4, CheckKeeps, MakeDirsKeeps, WriteConfigKeeps, WriteMarkerKeeps, WriteSecretKeeps,
       MarkDatabaseKeeps, MigrateKeeps, CreateRuntimeKeeps, StartRuntimeKeeps, CommitStateKeeps,
       FinishInstallKeeps, UndoRuntimeKeeps, UndoSecretKeeps, UndoConfigKeeps, UndoDirsKeeps,
       RemoveRuntimeKeeps, RemoveDirsKeeps, RemoveConfigKeeps, RecordCompletionKeeps,
       DropStateKeeps, FinishUninstallKeeps DEF HelperStep
  <1>5. CASE RegisterKilled \/ Kill \/ FailInstall \/ FailUninstall
    BY <1>5, RegisterKeeps, KillKeeps, FailInstallKeeps, FailUninstallKeeps
  <1>6. CASE UNCHANGED vars
    <2>1. /\ UNCHANGED <<registry, keys, pending, journal, target, exec, minted, revived>>
          /\ UNCHANGED <<plan, request, changes, next>>
      BY <1>6 DEF vars, controller, bounds
    <2> QED BY <2>1, PlanFrame DEF IInv, Types, TypeOK
  <1> QED BY <1>1, <1>2, <1>3, <1>4, <1>5, <1>6 DEF Next

(* Installation: the invariant holds always.                                  *)
THEOREM Inductive == Spec => []IInv
  <1>1. Init => IInv
    BY InitHolds
  <1> QED BY <1>1, NextKeeps, PTL DEF Spec

(* clean_install, install_exec.rs, uninstall_exec.rs: files, journals and     *)
(* helper keep their types.                                                   *)
THEOREM TypeCorrect == Spec => []TypeOK
  <1>1. IInv => TypeOK
    BY DEF IInv, Types
  <1> QED BY <1>1, Inductive, PTL

(* install_exec.rs: database rows bound to a deployment's key keep that key   *)
(* on the target through failed, killed and repeated installs.                *)
THEOREM KeyKept == Spec => []DatabaseKeyKept
  <1>1. IInv => DatabaseKeyKept
    BY DEF IInv, Bound, DatabaseKeyKept
  <1> QED BY <1>1, Inductive, PTL

(* uninstall_exec.rs, complete_uninstall, finish_local_cleanup: a completion  *)
(* record means that nothing managed is left on the target, and a settled     *)
(* order that nothing is left locally but a revived registration.             *)
THEOREM CleanUninstall == Spec => []UninstallClean
  <1>1. IInv => UninstallClean
    BY DEF IInv, Settled, Removed, UninstallClean
  <1> QED BY <1>1, Inductive, PTL

-----------------------------------------------------------------------------
(* The other half of an installation's life: the program replaces itself.     *)
(* SelfUpdate, for every number of processes, releases, commands and faults.  *)

UpdateConstants == SelfUpdateAssumption /\ NoneIsNoUpdate

LEMMA UpdateAssumed == UpdateConstants
  BY SelfUpdateAssumption, NoneIsNoUpdate DEF UpdateConstants

Updating == {"resume", "save", "saved", "stage", "staged", "verify", "verified",
             "discard", "drop", "replace", "replaced", "check", "checked", "commit",
             "committed", "reject", "turn"}
Returning == {"back", "backInstall", "backInstalled"}
Ending == {"trust", "trusted", "finish", "retire"}

Working == Updating \cup Returning \cup Ending
WorkerSteps == {"idle", "lock", "command"} \cup Working

WorkerCommands == {Update(v) : v \in Versions} \cup {Rollback, Other}

Workers == [at : WorkerSteps, cmd : WorkerCommands, gone : BOOLEAN, tx : Journals \cup {None}]

UpdateTypes == UpdateConstants /\ UpdateTypeOK /\ proc \in [Procs -> Workers]

(* update.lock: one process at most is past it.                               *)
OneHolder ==
    \A p, q \in Procs :
        proc[p].at \notin {"idle", "lock"} /\ proc[q].at \notin {"idle", "lock"} => p = q

(* What the journal on disk says of the other files, whoever is at work.      *)
Recorded ==
    /\ rollback # 0 => rollback \in saved
    /\ transaction = None => staged = {} /\ trust \in {0, installed}
    /\ transaction # None =>
         /\ staged \subseteq IF transaction.staged THEN {transaction.to} ELSE {}
         /\ transaction.staged <=> transaction.op = "Update"
         /\ transaction.op = "Update" =>
              trust \in {0, transaction.from} \/ (trust = transaction.to /\ installed = transaction.to)

(* What the holder of the lock knows at each of its steps.                    *)
WorkerKnows(p) ==
    /\ proc[p].at = "command" => transaction = None
    /\ proc[p].at \in Working => transaction # None /\ transaction = Tx(p)
    /\ proc[p].at \in Updating => transaction.op = "Update"
    /\ proc[p].at \in Returning => transaction.op = "Rollback"
    /\ proc[p].at \in {"replaced", "check", "checked", "commit", "committed", "reject",
                     "turn", "backInstalled", "trust", "trusted", "finish"} =>
          installed = transaction.to
    /\ proc[p].at \in {"turn", "drop", "retire"} => staged = {}
    /\ proc[p].at \in {"trusted", "finish"} => trust = transaction.to
    /\ proc[p].at \in {"drop", "retire"} => trust \in {0, installed}

Holder == \A p \in Procs : WorkerKnows(p)

UpdateInv == UpdateTypes /\ OneHolder /\ Recorded /\ Holder

-----------------------------------------------------------------------------
(* Positions, phases and moves.                                              *)

Names == {"RollbackPrepared", "CandidatePrepared", "CandidateVerified",
          "Installed", "RollbackStateCommitted", "TrustCommitted"}

(* The phases are distinct, so that a name has a position.                    *)
LEMMA PhasePositions ==
  ASSUME NEW name \in Names
  PROVE  IsAt(name) \in 1..Len(Phases)
  <1>1. /\ Len(Phases) = 7
        /\ Phases[2] = "RollbackPrepared" /\ Phases[3] = "CandidatePrepared"
        /\ Phases[4] = "CandidateVerified" /\ Phases[5] = "Installed"
        /\ Phases[6] = "RollbackStateCommitted" /\ Phases[7] = "TrustCommitted"
    BY DEF Phases
  <1>2. \E i \in 1..Len(Phases) : Phases[i] = name
    BY <1>1 DEF Names
  <1> QED BY <1>2 DEF IsAt

(* The constants, as the invariant carries them.                              *)
LEMMA UpdateBounds ==
  ASSUME UpdateInv
  PROVE  /\ None \notin Journals /\ commands \in Nat /\ mishaps \in Nat
         /\ MaxMishaps \in Nat /\ MaxCommands \in Nat /\ MaxVersion \in Nat
  BY DEF UpdateInv, UpdateTypes, UpdateConstants, SelfUpdateAssumption, NoneIsNoUpdate,
     UpdateTypeOK

LEMMA CommandSet ==
  /\ Other \in WorkerCommands /\ Rollback \in WorkerCommands
  /\ \A v \in Versions : Update(v) \in WorkerCommands
  /\ IdleProc \in Workers /\ IdleProc.at = "idle"
  /\ \A c \in WorkerCommands : c # Rollback /\ c.kind = "update" => c.to \in Versions
  /\ Rollback.kind # "update"
  BY DEF WorkerCommands, Workers, WorkerSteps, IdleProc, Other, Rollback, Update

LEMMA WorkerGoMoves ==
  ASSUME UpdateTypes, NEW p \in Procs, NEW step \in WorkerSteps, ProcGo(p, step)
  PROVE  /\ proc' \in [Procs -> Workers] /\ proc'[p].at = step
         /\ proc'[p].tx = proc[p].tx
         /\ \A q \in Procs : q # p => proc'[q] = proc[q]
  <1>1. [proc[p] EXCEPT !.at = step] \in Workers
    BY DEF UpdateTypes, Workers
  <1>2. proc' = [proc EXCEPT ![p] = [proc[p] EXCEPT !.at = step]]
    BY DEF ProcGo, UpdateTypes
  <1> QED BY <1>1, <1>2 DEF UpdateTypes, Workers

LEMMA EndsMoves ==
  ASSUME UpdateTypes, NEW p \in Procs, Ends(p)
  PROVE  /\ proc' \in [Procs -> Workers] /\ proc'[p].at = "idle"
         /\ \A q \in Procs : q # p => proc'[q] = proc[q]
  BY CommandSet DEF Ends, UpdateTypes

LEMMA PersistMoves ==
  ASSUME UpdateTypes, NEW p \in Procs, NEW t \in Journals, NEW step \in WorkerSteps, Persist(p, t, step)
  PROVE  /\ proc' \in [Procs -> Workers] /\ proc'[p].at = step
         /\ proc'[p].tx = t /\ transaction' = t
         /\ \A q \in Procs : q # p => proc'[q] = proc[q]
  <1>1. [proc[p] EXCEPT !.at = step, !.tx = t] \in Workers
    BY DEF UpdateTypes, Workers
  <1>2. proc' = [proc EXCEPT ![p] = [proc[p] EXCEPT !.at = step, !.tx = t]]
    BY DEF Persist, UpdateTypes
  <1> QED BY <1>1, <1>2 DEF UpdateTypes, Workers, Persist

LEMMA BeginMoves ==
  ASSUME UpdateTypes, NEW p \in Procs, NEW t \in Journals, NEW step \in WorkerSteps, Begin(p, t, step)
  PROVE  /\ proc' \in [Procs -> Workers] /\ proc'[p].at = step
         /\ proc'[p].tx = t /\ transaction' = t
         /\ \A q \in Procs : q # p => proc'[q] = proc[q]
  <1>1. [proc[p] EXCEPT !.at = step, !.tx = t, !.cmd = Other] \in Workers
    BY CommandSet DEF UpdateTypes, Workers
  <1>2. proc' = [proc EXCEPT ![p] = [proc[p] EXCEPT !.at = step, !.tx = t, !.cmd = Other]]
    BY DEF Begin, UpdateTypes
  <1> QED BY <1>1, <1>2 DEF UpdateTypes, Workers, Begin

LEMMA WorkerInstallMoves ==
  ASSUME UpdateTypes, NEW p \in Procs, NEW v, NEW step \in WorkerSteps, Install(p, v, step)
  PROVE  /\ proc' \in [Procs -> Workers] /\ proc'[p].at = step /\ installed' = v
         /\ proc'[p].tx = proc[p].tx
         /\ \A q \in Procs : q # p => proc'[q].at = proc[q].at
  <1> DEFINE moved(q) == IF q = p THEN [proc[p] EXCEPT !.at = step, !.gone = TRUE]
                         ELSE IF proc[q].at = "idle" THEN proc[q]
                         ELSE [proc[q] EXCEPT !.gone = TRUE]
  <1>1. \A q \in Procs : proc[q] \in Workers
    BY DEF UpdateTypes
  <1>2. \A q \in Procs : moved(q) \in Workers
    BY <1>1 DEF Workers
  <1>3. proc' = [q \in Procs |-> moved(q)]
    BY DEF Install
  <1>4. moved(p).at = step /\ moved(p).tx = proc[p].tx
    BY <1>1 DEF Workers
  <1>5. \A q \in Procs : q # p => moved(q).at = proc[q].at
    BY <1>1 DEF Workers
  <1> HIDE DEF moved
  <1>6. \A q \in Procs : proc'[q] = moved(q)
    BY <1>3
  <1>7. proc' \in [Procs -> Workers]
    BY <1>2, <1>3
  <1>8. installed' = v
    BY DEF Install
  <1> QED BY <1>4, <1>5, <1>6, <1>7, <1>8

(* A step of the lock's holder: the other processes are outside.              *)
LEMMA HolderStep ==
  ASSUME UpdateInv, NEW p \in Procs, proc[p].at \notin {"idle", "lock"},
         proc' \in [Procs -> Workers],
         \A q \in Procs : q # p => proc'[q].at = proc[q].at,
         UpdateTypeOK', Recorded', WorkerKnows(p)'
  PROVE  UpdateInv'
  <1>1. \A q \in Procs : q # p => proc'[q].at \in {"idle", "lock"}
    BY DEF UpdateInv, OneHolder
  <1>2. OneHolder'
    BY <1>1 DEF OneHolder
  <1>3. ASSUME NEW q \in Procs, q # p PROVE WorkerKnows(q)'
    BY <1>1, <1>3 DEF WorkerKnows, Working, Updating, Returning, Ending
  <1> QED BY <1>2, <1>3 DEF UpdateInv, UpdateTypes, Holder

(* The holder's transaction is the journal.                                   *)
LEMMA WorkerAtWork ==
  ASSUME UpdateInv, NEW p \in Procs, proc[p].at \in Working
  PROVE  /\ transaction = Tx(p) /\ transaction # None /\ transaction \in Journals /\ WorkerKnows(p)
         /\ transaction.from \in Versions /\ transaction.to \in Versions
         /\ proc[p].at \notin {"idle", "lock"} /\ proc[p] \in Workers
  <1>1. WorkerKnows(p) /\ transaction = Tx(p) /\ transaction # None
    BY DEF UpdateInv, Holder, WorkerKnows
  <1>2. transaction \in Journals
    BY <1>1 DEF UpdateInv, UpdateTypes, UpdateTypeOK
  <1> QED BY <1>1, <1>2 DEF UpdateInv, UpdateTypes, Journals, Working, Updating, Returning,
             Ending

(* A step of the holder that changes no file but moves on.                    *)
LEMMA FilesSame ==
  ASSUME UpdateInv, NEW p \in Procs, proc[p].at \notin {"idle", "lock"},
         UNCHANGED <<updateFiles, commands>>, mishaps' \in 0..MaxMishaps,
         proc' \in [Procs -> Workers],
         \A q \in Procs : q # p => proc'[q].at = proc[q].at, WorkerKnows(p)'
  PROVE  UpdateInv'
  <1>1. UpdateTypeOK'
    BY DEF UpdateInv, UpdateTypes, UpdateTypeOK, updateFiles, Workers
  <1>2. Recorded'
    BY DEF UpdateInv, Recorded, updateFiles
  <1> QED BY <1>1, <1>2, HolderStep

-----------------------------------------------------------------------------
(* Every action keeps the invariant.                                         *)

LEMMA StepNames ==
  /\ Working \subseteq WorkerSteps /\ "command" \in WorkerSteps
  /\ "idle" \notin Working /\ "lock" \notin Working /\ "command" \notin Working
  BY DEF WorkerSteps, Working, Updating, Returning, Ending

LEMMA UpdateInitHolds == UpdateConstants /\ UpdateInit => UpdateInv
  <1> SUFFICES ASSUME UpdateConstants, UpdateInit PROVE UpdateInv
    OBVIOUS
  <1>1. \A p \in Procs : proc[p] = IdleProc /\ proc[p].at = "idle" /\ proc[p] \in Workers
    BY CommandSet DEF UpdateInit
  <1>2. proc \in [Procs -> Workers]
    BY CommandSet DEF UpdateInit
  <1>3. UpdateTypeOK
    BY <1>1 DEF UpdateInit, UpdateTypeOK, Versions, Workers, UpdateConstants,
       SelfUpdateAssumption
  <1> QED BY <1>1, <1>2, <1>3 DEF UpdateInit, UpdateInv, UpdateTypes, OneHolder, Recorded,
             Holder, WorkerKnows,
     Working, Updating, Returning, Ending

(* A process that starts waits for the lock.                                  *)
LEMMA Arrives ==
  ASSUME UpdateInv, NEW p \in Procs, proc[p].at \in {"idle", "lock"},
         NEW new \in Workers, new.at \in {"idle", "lock"},
         proc' = [proc EXCEPT ![p] = new],
         UNCHANGED <<updateFiles, mishaps>>, commands' \in 0..MaxCommands
  PROVE  UpdateInv'
  <1>3. /\ proc' \in [Procs -> Workers]
        /\ \A q \in Procs : proc'[q] = IF q = p THEN new ELSE proc[q]
    BY DEF UpdateInv, UpdateTypes
  <1>4. UpdateTypes'
    BY <1>3 DEF UpdateInv, UpdateTypes, UpdateTypeOK, updateFiles, Workers
  <1>5. OneHolder'
    BY <1>3 DEF UpdateInv, OneHolder
  <1>6. Recorded'
    BY DEF UpdateInv, Recorded, updateFiles
  <1>7. ASSUME NEW q \in Procs PROVE WorkerKnows(q)'
    BY <1>3 DEF UpdateInv, Holder, WorkerKnows, Tx, updateFiles, Working, Updating, Returning,
       Ending
  <1> QED BY <1>3, <1>4, <1>5, <1>6, <1>7 DEF UpdateInv, Holder

LEMMA StartKeeps ==
  ASSUME UpdateInv, NEW p \in Procs, Start(p)
  PROVE  UpdateInv'
  <1>1. PICK c \in {Update(v) : v \in Versions} \cup {Rollback} :
            proc' = [proc EXCEPT ![p] = [IdleProc EXCEPT !.at = "lock", !.cmd = c]]
    BY DEF Start
  <1>2. c \in WorkerCommands
    BY DEF WorkerCommands
  <1> DEFINE new == [IdleProc EXCEPT !.at = "lock", !.cmd = c]
  <1>3. new \in Workers /\ new.at = "lock"
    BY <1>2 DEF IdleProc, Workers, WorkerSteps
  <1>4. commands' \in 0..MaxCommands
    BY UpdateBounds DEF Start, UpdateInv, UpdateTypes, UpdateTypeOK
  <1> HIDE DEF new
  <1>5. proc' = [proc EXCEPT ![p] = new]
    BY <1>1 DEF new
  <1> QED BY <1>3, <1>4, <1>5, Arrives DEF Start, ProcAt

LEMMA StartOtherKeeps ==
  ASSUME UpdateInv, NEW p \in Procs, StartOther(p)
  PROVE  UpdateInv'
  <1> DEFINE new == [IdleProc EXCEPT !.at = "lock"]
  <1>1. new \in Workers /\ new.at = "lock"
    BY CommandSet DEF IdleProc, Workers, WorkerSteps
  <1>2. commands' \in 0..MaxCommands
    BY DEF StartOther, UpdateInv, UpdateTypes, UpdateTypeOK
  <1>3. proc' = [proc EXCEPT ![p] = new]
    BY DEF StartOther
  <1> HIDE DEF new
  <1> QED BY <1>1, <1>2, <1>3, Arrives DEF StartOther, ProcAt

(* A process that ends has let go of the lock.                                *)
LEMMA EndKeeps ==
  ASSUME UpdateInv, NEW p \in Procs, Ends(p), UNCHANGED <<updateFiles, commands>>,
         mishaps' \in 0..MaxMishaps
  PROVE  UpdateInv'
  <1>1. UpdateTypes'
    BY EndsMoves DEF UpdateInv, UpdateTypes, UpdateTypeOK, updateFiles, Workers
  <1>2. OneHolder'
    BY EndsMoves DEF UpdateInv, UpdateTypes, OneHolder
  <1>3. Recorded'
    BY DEF UpdateInv, Recorded, updateFiles
  <1>4. ASSUME NEW q \in Procs PROVE WorkerKnows(q)'
    BY EndsMoves DEF UpdateInv, Holder, WorkerKnows, Tx, updateFiles, Working, Updating,
       Returning, Ending
  <1> QED BY <1>1, <1>2, <1>3, <1>4 DEF UpdateInv, Holder

(* The lock is free only when nobody is past it.                              *)
LEMMA LockKeeps ==
  ASSUME UpdateInv, NEW p \in Procs, Lock(p)
  PROVE  UpdateInv'
  <1>1. mishaps' \in 0..MaxMishaps /\ UNCHANGED <<updateFiles, commands>>
    BY DEF Lock, UpdateInv, UpdateTypes, UpdateTypeOK
  <1>2. CASE Ends(p)
    BY <1>1, <1>2, EndKeeps
  <1>3. CASE ~Ends(p)
    <2> DEFINE step == IF transaction = None THEN "command"
                       ELSE IF transaction.op = "Update" THEN "resume" ELSE "back"
    <2>1. LockFree /\ ProcAt(p, "lock")
      BY <1>3 DEF Lock
    <2>2. CASE transaction = None
      <3>1. ProcGo(p, "command")
        BY <1>3, <2>2 DEF Lock
      <3>2. /\ proc' \in [Procs -> Workers] /\ proc'[p].at = "command"
            /\ \A q \in Procs : q # p => proc'[q] = proc[q]
        BY <3>1, WorkerGoMoves, StepNames DEF UpdateInv
      <3> QED BY <1>1, <2>1, <2>2, <3>2 DEF UpdateInv, UpdateTypes, UpdateTypeOK, OneHolder,
                 Recorded, Holder,
             WorkerKnows, updateFiles, Workers, LockFree, Working, Updating, Returning, Ending
    <2>3. CASE transaction # None
      <3>1. transaction \in Journals
        BY <2>3 DEF UpdateInv, UpdateTypes, UpdateTypeOK
      <3>2. [proc[p] EXCEPT !.tx = transaction, !.at = IF transaction.op = "Update" THEN "resume" ELSE "back"]
               \in Workers
        BY <3>1 DEF UpdateInv, UpdateTypes, Workers, WorkerSteps, Working, Updating, Returning
      <3>3. proc' = [proc EXCEPT ![p] = [proc[p] EXCEPT !.tx = transaction,
                      !.at = IF transaction.op = "Update" THEN "resume" ELSE "back"]]
        BY <1>3, <2>3 DEF Lock, UpdateInv, UpdateTypes
      <3>4. /\ proc' \in [Procs -> Workers] /\ proc'[p].tx = transaction
            /\ proc'[p].at = IF transaction.op = "Update" THEN "resume" ELSE "back"
            /\ \A q \in Procs : q # p => proc'[q] = proc[q]
        BY <3>2, <3>3 DEF UpdateInv, UpdateTypes, Workers
      <3>5. UpdateTypeOK' /\ Recorded' /\ OneHolder'
        BY <1>1, <2>1, <3>4 DEF UpdateInv, UpdateTypes, UpdateTypeOK, Recorded, OneHolder,
           updateFiles, Workers, LockFree
      <3>6. WorkerKnows(p)'
        BY <1>1, <2>3, <3>1, <3>4 DEF WorkerKnows, Tx, updateFiles, Journals, Working,
           Updating, Returning, Ending
      <3>7. ASSUME NEW q \in Procs, q # p PROVE WorkerKnows(q)'
        BY <2>1, <3>4, <3>7 DEF WorkerKnows, LockFree, Working, Updating, Returning, Ending
      <3> QED BY <3>4, <3>5, <3>6, <3>7 DEF UpdateInv, UpdateTypes, Holder
    <2> QED BY <2>2, <2>3
  <1> QED BY <1>2, <1>3

(* A step of the holder that touches a file keeps Recorded and what it knows. *)
LEMMA CommandKeeps ==
  ASSUME UpdateInv, NEW p \in Procs, Command(p)
  PROVE  UpdateInv'
  <1>1. proc[p].at = "command" /\ transaction = None /\ proc[p] \in Workers
    BY DEF Command, ProcAt, UpdateInv, Holder, WorkerKnows, UpdateTypes
  <1>2. CASE ~Accepted(p)
    <2>1. Ends(p) /\ UNCHANGED <<updateFiles, commands>> /\ mishaps' \in 0..MaxMishaps
      BY <1>2 DEF Command, updateFiles, UpdateInv, UpdateTypes, UpdateTypeOK
    <2> QED BY <2>1, EndKeeps
  <1>3. CASE Accepted(p)
    <2> DEFINE back == proc[p].cmd = Rollback
               t == [op |-> IF back THEN "Rollback" ELSE "Update", phase |-> 1,
                     from |-> installed, staged |-> ~back,
                     to |-> IF back THEN rollback ELSE proc[p].cmd.to]
               step == IF back THEN "backInstall" ELSE "save"
    <2>1. Begin(p, t, step) /\ UNCHANGED <<installed, trust, rollback, saved, staged, commands, mishaps>>
      BY <1>3 DEF Command
    <2>2. back => rollback \in saved
      BY <1>3, CommandSet DEF Accepted
    <2>3. ~back => proc[p].cmd.to \in Versions
      BY <1>1, <1>3, CommandSet DEF Accepted, Workers, WorkerCommands, Rollback, Other, Update
    <2>4. t \in Journals
      <3>1. 1 \in 1..Len(Phases)
        BY DEF Phases
      <3> QED BY <2>2, <2>3, <3>1 DEF Journals, UpdateInv, UpdateTypes, UpdateTypeOK
    <2>5. step \in WorkerSteps
      BY DEF WorkerSteps, Working, Updating, Returning
    <2>6. /\ (t.op = "Update" /\ t.staged = TRUE /\ step = "save")
             \/ (t.op = "Rollback" /\ t.staged = FALSE /\ step = "backInstall")
          /\ t.from = installed
      OBVIOUS
    <2> HIDE DEF t, step, back
    <2>7. /\ proc' \in [Procs -> Workers] /\ proc'[p].at = step
          /\ proc'[p].tx = t /\ transaction' = t
          /\ \A q \in Procs : q # p => proc'[q] = proc[q]
      BY <2>1, <2>4, <2>5, BeginMoves DEF UpdateInv
    <2>8. UpdateTypeOK'
      BY <2>1, <2>4, <2>7 DEF UpdateInv, UpdateTypes, UpdateTypeOK, Workers
    <2>9. Recorded'
      BY <1>1, <2>1, <2>4, <2>6, <2>7 DEF UpdateInv, Recorded, Journals
    <2>10. WorkerKnows(p)'
      BY <2>4, <2>6, <2>7, UpdateBounds DEF WorkerKnows, Tx, Journals, Working, Updating,
         Returning, Ending
    <2> QED BY <1>1, <2>7, <2>8, <2>9, <2>10, HolderStep
  <1> QED BY <1>2, <1>3

LEMMA SaveKeeps ==
  ASSUME UpdateInv, NEW p \in Procs, Save(p)
  PROVE  UpdateInv'
  <1>1. proc[p].at \in Working /\ proc[p].at = "save"
    BY DEF Save, ProcAt, Working, Updating
  <1>2. ProcGo(p, "saved") /\ "saved" \in WorkerSteps
    BY DEF Save, WorkerSteps, Working, Updating
  <1>3. UpdateTypeOK'
    BY <1>1, <1>2, WorkerAtWork, WorkerGoMoves DEF Save, UpdateInv, UpdateTypes, UpdateTypeOK,
       Workers
  <1>4. Recorded'
    BY DEF Save, UpdateInv, Recorded
  <1>5. WorkerKnows(p)'
    BY <1>1, <1>2, WorkerAtWork, WorkerGoMoves DEF Save, UpdateInv, WorkerKnows, Tx, Working,
       Updating, Returning, Ending
  <1> QED BY <1>1, <1>2, <1>3, <1>4, <1>5, WorkerAtWork, WorkerGoMoves, HolderStep DEF UpdateInv

LEMMA StageKeeps ==
  ASSUME UpdateInv, NEW p \in Procs, Stage(p)
  PROVE  UpdateInv'
  <1>1. proc[p].at \in Working /\ proc[p].at = "stage"
    BY DEF Stage, ProcAt, Working, Updating
  <1>2. ProcGo(p, "staged") /\ "staged" \in WorkerSteps
    BY DEF Stage, WorkerSteps, Working, Updating
  <1>3. UpdateTypeOK'
    BY <1>1, <1>2, WorkerAtWork, WorkerGoMoves DEF Stage, UpdateInv, UpdateTypes, UpdateTypeOK,
       Workers
  <1>4. transaction.op = "Update" /\ transaction.staged
    BY <1>1, WorkerAtWork DEF WorkerKnows, Updating, UpdateInv, Recorded
  <1>5. Recorded'
    BY <1>1, <1>4, WorkerAtWork DEF Stage, UpdateInv, Recorded
  <1>6. WorkerKnows(p)'
    BY <1>1, <1>2, WorkerAtWork, WorkerGoMoves DEF Stage, UpdateInv, WorkerKnows, Tx, Working,
       Updating, Returning, Ending
  <1> QED BY <1>1, <1>2, <1>3, <1>5, <1>6, WorkerAtWork, WorkerGoMoves, HolderStep DEF UpdateInv

(* The verifications change nothing.                                          *)
LEMMA VerifyKeeps ==
  ASSUME UpdateInv, NEW p \in Procs, VerifyStaged(p) \/ VerifyInstalled(p)
  PROVE  UpdateInv'
  <1>1. proc[p].at \in Working
    BY DEF VerifyStaged, VerifyInstalled, ProcAt, Working, Updating
  <1>2. UNCHANGED <<updateFiles, commands>> /\ mishaps' \in 0..MaxMishaps
    BY UpdateBounds DEF VerifyStaged, VerifyInstalled, UpdateInv, UpdateTypes, UpdateTypeOK
  <1>3. ASSUME NEW step \in Updating, ProcGo(p, step), step # "turn", step # "drop",
               step \in {"checked", "reject"} => installed = transaction.to,
               step \in {"verified", "discard", "checked", "reject"},
               transaction.op = "Update"
        PROVE  UpdateInv'
    <2>1. step \in WorkerSteps
      BY DEF WorkerSteps, Working
    <2>2. WorkerKnows(p)'
      BY <1>1, <1>2, <1>3, <2>1, WorkerAtWork, WorkerGoMoves DEF updateFiles, UpdateInv,
         WorkerKnows, Tx, Working, Updating,
         Returning, Ending
    <2> QED BY <1>1, <1>2, <1>3, <2>1, <2>2, WorkerAtWork, WorkerGoMoves, FilesSame
               DEF UpdateInv
  <1>4. CASE VerifyStaged(p)
    <2>1. transaction.op = "Update"
      BY <1>1, <1>4, WorkerAtWork DEF VerifyStaged, ProcAt, WorkerKnows, Updating
    <2> QED BY <1>3, <1>4, <2>1 DEF VerifyStaged, Updating
  <1>5. CASE VerifyInstalled(p)
    <2>1. transaction.op = "Update" /\ installed = transaction.to
      BY <1>1, <1>5, WorkerAtWork DEF VerifyInstalled, ProcAt, WorkerKnows, Updating
    <2> QED BY <1>3, <1>5, <2>1 DEF VerifyInstalled, Updating
  <1> QED BY <1>4, <1>5

(* The candidate is installed while the journal is the update's.              *)
LEMMA ReplaceKeeps ==
  ASSUME UpdateInv, NEW p \in Procs, Replace(p)
  PROVE  UpdateInv'
  <1>1. proc[p].at \in Working /\ proc[p].at = "replace"
    BY DEF Replace, ProcAt, Working, Updating
  <1>2. Install(p, Tx(p).to, "replaced") /\ "replaced" \in WorkerSteps
    BY DEF Replace, WorkerSteps, Working, Updating
  <1>3. transaction = Tx(p) /\ transaction # None /\ transaction.op = "Update" /\ transaction.to \in Versions
        /\ proc[p].at \notin {"idle", "lock"} /\ transaction \in Journals
    BY <1>1, WorkerAtWork DEF WorkerKnows, Updating
  <1>4. /\ proc' \in [Procs -> Workers] /\ proc'[p].at = "replaced" /\ installed' = transaction.to
        /\ proc'[p].tx = proc[p].tx
        /\ \A q \in Procs : q # p => proc'[q].at = proc[q].at
    BY <1>2, <1>3, WorkerInstallMoves DEF UpdateInv
  <1>5. UpdateTypeOK'
    BY <1>3, <1>4 DEF Replace, UpdateInv, UpdateTypes, UpdateTypeOK, Workers
  <1>6. Recorded'
    BY <1>3, <1>4 DEF Replace, UpdateInv, Recorded
  <1>7. WorkerKnows(p)'
    BY <1>3, <1>4 DEF Replace, WorkerKnows, Tx, Working, Updating, Returning, Ending
  <1> QED BY <1>3, <1>4, <1>5, <1>6, <1>7, HolderStep

(* The rollback record names an artifact that is there.                       *)
LEMMA CommitRollbackKeeps ==
  ASSUME UpdateInv, NEW p \in Procs, CommitRollback(p)
  PROVE  UpdateInv'
  <1>1. proc[p].at \in Working /\ proc[p].at = "commit"
    BY DEF CommitRollback, ProcAt, Working, Updating
  <1>2. ProcGo(p, "committed") /\ "committed" \in WorkerSteps
    BY DEF CommitRollback, WorkerSteps, Working, Updating, Ending
  <1>3. UpdateTypeOK'
    BY <1>1, <1>2, WorkerAtWork, WorkerGoMoves DEF CommitRollback, UpdateInv, UpdateTypes,
       UpdateTypeOK, Workers, Versions
  <1>4. Recorded'
    BY <1>1, WorkerAtWork DEF CommitRollback, UpdateInv, Recorded, WorkerKnows, Updating, Ending
  <1>5. WorkerKnows(p)'
    BY <1>1, <1>2, WorkerAtWork, WorkerGoMoves DEF CommitRollback, UpdateInv, WorkerKnows, Tx,
       Working, Updating, Returning, Ending
  <1> QED BY <1>1, <1>2, <1>3, <1>4, <1>5, WorkerAtWork, WorkerGoMoves, HolderStep DEF UpdateInv

(* What is installed by now is the journal's target.                          *)
LEMMA WriteTrustKeeps ==
  ASSUME UpdateInv, NEW p \in Procs, WriteTrust(p)
  PROVE  UpdateInv'
  <1>1. proc[p].at \in Working /\ proc[p].at = "trust"
    BY DEF WriteTrust, ProcAt, Working, Ending
  <1>2. ProcGo(p, "trusted") /\ "trusted" \in WorkerSteps
    BY DEF WriteTrust, WorkerSteps, Working, Updating, Ending
  <1>3. UpdateTypeOK'
    BY <1>1, <1>2, WorkerAtWork, WorkerGoMoves DEF WriteTrust, UpdateInv, UpdateTypes,
       UpdateTypeOK, Workers, Versions
  <1>4. Recorded'
    BY <1>1, WorkerAtWork DEF WriteTrust, UpdateInv, Recorded, WorkerKnows, Updating, Ending
  <1>5. WorkerKnows(p)'
    BY <1>1, <1>2, WorkerAtWork, WorkerGoMoves DEF WriteTrust, UpdateInv, WorkerKnows, Tx,
       Working, Updating, Returning, Ending
  <1> QED BY <1>1, <1>2, <1>3, <1>4, <1>5, WorkerAtWork, WorkerGoMoves, HolderStep DEF UpdateInv

(* Only the candidate can be left, and it is removed.                         *)
LEMMA RejectKeeps ==
  ASSUME UpdateInv, NEW p \in Procs, Reject(p)
  PROVE  UpdateInv'
  <1>1. proc[p].at \in Working /\ proc[p].at = "reject"
    BY DEF Reject, ProcAt, Working, Updating
  <1>2. ProcGo(p, "turn") /\ "turn" \in WorkerSteps
    BY DEF Reject, WorkerSteps, Working, Updating, Ending
  <1>3. UpdateTypeOK'
    BY <1>1, <1>2, WorkerAtWork, WorkerGoMoves DEF Reject, UpdateInv, UpdateTypes,
       UpdateTypeOK, Workers
  <1>4. Recorded'
    BY <1>1, WorkerAtWork DEF Reject, UpdateInv, Recorded, WorkerKnows, Updating, Ending
  <1>5. WorkerKnows(p)'
    BY <1>1, <1>2, WorkerAtWork, WorkerGoMoves DEF Reject, UpdateInv, Recorded, WorkerKnows,
       Tx, Working, Updating, Returning, Ending
  <1> QED BY <1>1, <1>2, <1>3, <1>4, <1>5, WorkerAtWork, WorkerGoMoves, HolderStep DEF UpdateInv

(* A phase is recorded; a journal that is past it is left alone.             *)
LEMMA ReachKeeps ==
  ASSUME UpdateInv, NEW p \in Procs, NEW name \in Names, NEW step \in Working,
         Reach(p, name, step), proc[p].at \in Working,
         step \in Updating => transaction.op = "Update",
         step \in {"check", "commit", "trust", "finish"} => installed = transaction.to,
         step = "finish" => trust = transaction.to,
         step \in {"stage", "verify", "replace", "check", "commit", "trust", "finish"}
  PROVE  UpdateInv'
  <1>1. /\ transaction = Tx(p) /\ transaction # None /\ transaction \in Journals
        /\ proc[p].at \notin {"idle", "lock"}
    BY WorkerAtWork
  <1>2. step \in WorkerSteps
    BY StepNames
  <1> DEFINE t == [transaction EXCEPT !.phase = IsAt(name)]
  <1>3. /\ t \in Journals /\ t.op = transaction.op /\ t.from = transaction.from /\ t.to = transaction.to
        /\ t.staged = transaction.staged
    BY <1>1, PhasePositions DEF Journals
  <1>4. t # None
    BY <1>3, UpdateBounds
  <1>5. Persist(p, t, step) \/ (ProcGo(p, step) /\ UNCHANGED transaction)
    BY <1>1 DEF Reach
  <1>6. UNCHANGED <<installed, trust, rollback, saved, staged, commands, mishaps>>
    BY DEF Reach
  <1> HIDE DEF t
  <1>7. /\ proc' \in [Procs -> Workers] /\ proc'[p].at = step
        /\ proc'[p].tx = transaction' /\ transaction' \in {transaction, t}
        /\ \A q \in Procs : q # p => proc'[q] = proc[q]
    BY <1>1, <1>2, <1>3, <1>5, WorkerGoMoves, PersistMoves DEF UpdateInv, Tx
  <1>8. UpdateTypeOK'
    BY <1>1, <1>3, <1>6, <1>7 DEF UpdateInv, UpdateTypes, UpdateTypeOK, Workers
  <1>9. Recorded'
    BY <1>1, <1>3, <1>4, <1>6, <1>7 DEF UpdateInv, Recorded
  <1>10. WorkerKnows(p)'
    BY <1>1, <1>3, <1>4, <1>6, <1>7 DEF WorkerKnows, Tx, Working, Updating, Returning, Ending
  <1> QED BY <1>1, <1>7, <1>8, <1>9, <1>10, HolderStep

LEMMA CheckpointKeeps ==
  ASSUME UpdateInv, NEW p \in Procs, Checkpoint(p)
  PROVE  UpdateInv'
  <1>1. proc[p].at \in Working
    BY DEF Checkpoint, ProcAt, Working, Updating, Returning, Ending
  <1>2. WorkerKnows(p)
    BY <1>1, WorkerAtWork
  <1>3. CASE ProcAt(p, "saved") /\ Reach(p, "RollbackPrepared", "stage")
    BY <1>1, <1>2, <1>3, ReachKeeps DEF ProcAt, WorkerKnows, Names, Working, Updating
  <1>4. CASE ProcAt(p, "staged") /\ Reach(p, "CandidatePrepared", "verify")
    BY <1>1, <1>2, <1>4, ReachKeeps DEF ProcAt, WorkerKnows, Names, Working, Updating
  <1>5. CASE ProcAt(p, "verified") /\ Reach(p, "CandidateVerified", "replace")
    BY <1>1, <1>2, <1>5, ReachKeeps DEF ProcAt, WorkerKnows, Names, Working, Updating
  <1>6. CASE ProcAt(p, "replaced") /\ Reach(p, "Installed", "check")
    BY <1>1, <1>2, <1>6, ReachKeeps DEF ProcAt, WorkerKnows, Names, Working, Updating
  <1>7. CASE ProcAt(p, "checked") /\ Reach(p, "Installed", "commit")
    BY <1>1, <1>2, <1>7, ReachKeeps DEF ProcAt, WorkerKnows, Names, Working, Updating
  <1>8. CASE ProcAt(p, "committed") /\ Reach(p, "RollbackStateCommitted", "trust")
    BY <1>1, <1>2, <1>8, ReachKeeps DEF ProcAt, WorkerKnows, Names, Working, Updating, Ending
  <1>9. CASE ProcAt(p, "backInstalled") /\ Reach(p, "Installed", "trust")
    BY <1>1, <1>2, <1>9, ReachKeeps DEF ProcAt, WorkerKnows, Names, Working, Updating, Ending
  <1>10. CASE ProcAt(p, "trusted") /\ Reach(p, "TrustCommitted", "finish")
    BY <1>1, <1>2, <1>10, ReachKeeps DEF ProcAt, WorkerKnows, Names, Working, Updating, Ending
  <1> QED BY <1>3, <1>4, <1>5, <1>6, <1>7, <1>8, <1>9, <1>10 DEF Checkpoint

(* A discarded candidate was never installed.                                 *)
LEMMA RemoveStagedKeeps ==
  ASSUME UpdateInv, NEW p \in Procs, RemoveStaged(p)
  PROVE  UpdateInv'
  <1> DEFINE step == IF ProcAt(p, "finish") THEN "retire" ELSE "drop"
  <1>1. proc[p].at \in Working
    BY DEF RemoveStaged, ProcAt, Working, Updating, Ending
  <1>2. /\ transaction = Tx(p) /\ transaction # None /\ WorkerKnows(p) /\ transaction \in Journals
        /\ proc[p].at \notin {"idle", "lock"}
    BY <1>1, WorkerAtWork
  <1>3. ProcGo(p, step) /\ step \in WorkerSteps
    BY DEF RemoveStaged, WorkerSteps, Working, Updating, Ending
  <1>4. step = "drop" => installed = transaction.from /\ transaction.op = "Update"
    BY <1>2 DEF RemoveStaged, ProcAt, WorkerKnows, Updating
  <1>5. step = "retire" => installed = transaction.to /\ trust = transaction.to
    BY <1>2 DEF ProcAt, WorkerKnows
  <1>6. step \in {"drop", "retire"}
    OBVIOUS
  <1> HIDE DEF step
  <1>7. staged' = {} /\ UNCHANGED <<installed, trust, rollback, saved, transaction, commands, mishaps>>
    BY <1>2 DEF RemoveStaged, UpdateInv, Recorded
  <1>8. /\ proc' \in [Procs -> Workers] /\ proc'[p].at = step
        /\ proc'[p].tx = transaction
        /\ \A q \in Procs : q # p => proc'[q] = proc[q]
    BY <1>2, <1>3, WorkerGoMoves DEF UpdateInv, Tx
  <1>9. UpdateTypeOK'
    BY <1>7, <1>8 DEF UpdateInv, UpdateTypes, UpdateTypeOK, Workers
  <1>10. Recorded'
    BY <1>2, <1>7 DEF UpdateInv, Recorded
  <1>11. WorkerKnows(p)'
    BY <1>2, <1>4, <1>5, <1>6, <1>7, <1>8
    DEF UpdateInv, Recorded, WorkerKnows, Tx, Working, Updating, Returning, Ending
  <1> QED BY <1>2, <1>8, <1>9, <1>10, <1>11, HolderStep

(* The journal goes last: nothing is left to finish or to undo.               *)
LEMMA RemoveJournalKeeps ==
  ASSUME UpdateInv, NEW p \in Procs, RemoveJournal(p)
  PROVE  UpdateInv'
  <1>1. proc[p].at \in Working
    BY DEF RemoveJournal, ProcAt, Working, Updating, Ending
  <1>2. WorkerKnows(p) /\ proc[p].at \notin {"idle", "lock"} /\ proc[p] \in Workers
    BY <1>1, WorkerAtWork
  <1>3. transaction' = None /\ UNCHANGED <<installed, trust, rollback, saved, staged, commands, mishaps>>
    BY DEF RemoveJournal
  <1>4. staged = {} /\ trust \in {0, installed}
    BY <1>2 DEF RemoveJournal, ProcAt, WorkerKnows
  <1>5. /\ proc' \in [Procs -> Workers] /\ proc'[p].at \in {"idle", "command"}
        /\ \A q \in Procs : q # p => proc'[q] = proc[q]
    <2>1. CASE ProcAt(p, "retire")
      <3> DEFINE new == [proc[p] EXCEPT !.at = "command", !.tx = None]
      <3>1. proc' = [proc EXCEPT ![p] = new]
        BY <2>1 DEF RemoveJournal, UpdateInv, UpdateTypes
      <3>2. new \in Workers /\ new.at = "command"
        BY <1>2, StepNames DEF Workers
      <3> HIDE DEF new
      <3> QED BY <3>1, <3>2 DEF UpdateInv, UpdateTypes
    <2>2. CASE ~ProcAt(p, "retire")
      BY <2>2, EndsMoves DEF RemoveJournal, UpdateInv
    <2> QED BY <2>1, <2>2
  <1>6. UpdateTypeOK'
    BY <1>3, <1>5 DEF UpdateInv, UpdateTypes, UpdateTypeOK, Workers
  <1>7. Recorded'
    BY <1>3, <1>4 DEF UpdateInv, Recorded
  <1>8. WorkerKnows(p)'
    BY <1>3, <1>5 DEF WorkerKnows, Working, Updating, Returning, Ending
  <1> QED BY <1>2, <1>5, <1>6, <1>7, <1>8, HolderStep

(* A repair believes what is installed and staged, not the phase.             *)
LEMMA ResumeKeeps ==
  ASSUME UpdateInv, NEW p \in Procs, Resume(p)
  PROVE  UpdateInv'
  <1>1. proc[p].at \in Working
    BY DEF Resume, ProcAt, Working, Updating
  <1>2. /\ transaction = Tx(p) /\ transaction # None /\ transaction \in Journals /\ transaction.op = "Update"
        /\ proc[p].at \notin {"idle", "lock"}
    BY <1>1, WorkerAtWork DEF Resume, ProcAt, WorkerKnows, Updating
  <1>3. UNCHANGED <<updateFiles, commands>> /\ mishaps' \in 0..MaxMishaps
    BY DEF Resume, UpdateInv, UpdateTypes, UpdateTypeOK
  <1>4. ASSUME NEW step \in {"check", "verify", "retire"}, ProcGo(p, step),
               step = "check" => installed = transaction.to,
               step = "retire" => /\ installed # transaction.to /\ installed = transaction.from
                                  /\ transaction.to \notin staged
        PROVE  UpdateInv'
    <2>1. step \in WorkerSteps
      BY DEF WorkerSteps, Working, Updating, Ending
    <2>2. step = "retire" => staged = {} /\ trust \in {0, installed}
      BY <1>2, <1>4 DEF UpdateInv, Recorded
    <2>3. WorkerKnows(p)'
      BY <1>2, <1>3, <1>4, <2>1, <2>2, WorkerGoMoves DEF updateFiles, UpdateInv, WorkerKnows,
         Tx, Working, Updating,
         Returning, Ending
    <2> QED BY <1>2, <1>3, <1>4, <2>1, <2>3, WorkerGoMoves, FilesSame DEF UpdateInv
  <1> QED BY <1>2, <1>4 DEF Resume

(* The journal of a rejected update becomes that of the way back.             *)
LEMMA TurnKeeps ==
  ASSUME UpdateInv, NEW p \in Procs, Turn(p)
  PROVE  UpdateInv'
  <1> DEFINE t == [op |-> "Rollback", phase |-> 1, from |-> Tx(p).to, to |-> Tx(p).from,
                   staged |-> FALSE]
  <1>1. proc[p].at \in Working
    BY DEF Turn, ProcAt, Working, Updating
  <1>2. /\ transaction = Tx(p) /\ transaction # None /\ transaction \in Journals /\ staged = {}
        /\ proc[p].at \notin {"idle", "lock"}
    BY <1>1, WorkerAtWork DEF Turn, ProcAt, WorkerKnows
  <1>3. t \in Journals
    <2>1. 1 \in 1..Len(Phases)
      BY DEF Phases
    <2> QED BY <1>2, <2>1 DEF Journals
  <1>4. t # None /\ t.op = "Rollback" /\ t.staged = FALSE
    BY <1>3, UpdateBounds
  <1>5. Begin(p, t, "back") /\ "back" \in WorkerSteps
        /\ UNCHANGED <<installed, trust, rollback, saved, staged, commands, mishaps>>
    BY DEF Turn, WorkerSteps, Working, Returning
  <1> HIDE DEF t
  <1>6. /\ proc' \in [Procs -> Workers] /\ proc'[p].at = "back"
        /\ proc'[p].tx = t /\ transaction' = t
        /\ \A q \in Procs : q # p => proc'[q] = proc[q]
    BY <1>3, <1>5, BeginMoves DEF UpdateInv
  <1>7. UpdateTypeOK'
    BY <1>3, <1>5, <1>6 DEF UpdateInv, UpdateTypes, UpdateTypeOK, Workers
  <1>8. Recorded'
    BY <1>2, <1>4, <1>5, <1>6 DEF UpdateInv, Recorded
  <1>9. WorkerKnows(p)'
    BY <1>4, <1>6 DEF WorkerKnows, Tx, Working, Updating, Returning, Ending
  <1> QED BY <1>2, <1>6, <1>7, <1>8, <1>9, HolderStep

LEMMA BackKeeps ==
  ASSUME UpdateInv, NEW p \in Procs, Back(p)
  PROVE  UpdateInv'
  <1> DEFINE step == IF installed = Tx(p).to THEN "backInstalled" ELSE "backInstall"
  <1>1. proc[p].at \in Working
    BY DEF Back, ProcAt, Working, Returning
  <1>2. /\ transaction = Tx(p) /\ transaction # None /\ transaction.op = "Rollback"
        /\ proc[p].at \notin {"idle", "lock"}
    BY <1>1, WorkerAtWork DEF Back, ProcAt, WorkerKnows, Returning
  <1>3. UNCHANGED <<updateFiles, commands>> /\ mishaps' \in 0..MaxMishaps
    BY DEF Back, UpdateInv, UpdateTypes, UpdateTypeOK
  <1>4. ProcGo(p, step) /\ step \in WorkerSteps /\ step \in {"backInstalled", "backInstall"}
        /\ (step = "backInstalled" => installed = transaction.to)
    BY <1>2 DEF Back, WorkerSteps, Working, Returning
  <1> HIDE DEF step
  <1>5. WorkerKnows(p)'
    BY <1>2, <1>3, <1>4, WorkerGoMoves DEF updateFiles, UpdateInv, WorkerKnows, Tx, Working,
       Updating, Returning, Ending
  <1> QED BY <1>2, <1>3, <1>4, <1>5, WorkerGoMoves, FilesSame DEF UpdateInv

LEMMA BackInstallKeeps ==
  ASSUME UpdateInv, NEW p \in Procs, BackInstall(p)
  PROVE  UpdateInv'
  <1>1. proc[p].at \in Working /\ proc[p].at = "backInstall"
    BY DEF BackInstall, ProcAt, Working, Returning
  <1>2. Install(p, Tx(p).to, "backInstalled") /\ "backInstalled" \in WorkerSteps
    BY DEF BackInstall, WorkerSteps, Working, Returning
  <1>3. transaction = Tx(p) /\ transaction # None /\ transaction.op = "Rollback" /\ transaction.to \in Versions
        /\ proc[p].at \notin {"idle", "lock"} /\ transaction \in Journals
    BY <1>1, WorkerAtWork DEF WorkerKnows, Returning
  <1>4. /\ proc' \in [Procs -> Workers] /\ proc'[p].at = "backInstalled"
        /\ installed' = transaction.to /\ proc'[p].tx = proc[p].tx
        /\ \A q \in Procs : q # p => proc'[q].at = proc[q].at
    BY <1>2, <1>3, WorkerInstallMoves DEF UpdateInv
  <1>5. UpdateTypeOK'
    BY <1>3, <1>4 DEF BackInstall, UpdateInv, UpdateTypes, UpdateTypeOK, Workers
  <1>6. Recorded'
    BY <1>3, <1>4 DEF BackInstall, UpdateInv, Recorded
  <1>7. WorkerKnows(p)'
    BY <1>3, <1>4 DEF BackInstall, WorkerKnows, Tx, Working, Updating, Returning, Ending
  <1> QED BY <1>3, <1>4, <1>5, <1>6, <1>7, HolderStep

(* A refusal, a kill and a failed step leave the files as they are.           *)
LEMMA StopKeeps ==
  ASSUME UpdateInv, NEW p \in Procs, GiveUp(p) \/ Stop(p)
  PROVE  UpdateInv'
  <1>1. Ends(p) /\ UNCHANGED <<updateFiles, commands>> /\ mishaps' \in 0..MaxMishaps
    BY UpdateBounds DEF GiveUp, Stop, updateFiles, UpdateInv, UpdateTypes, UpdateTypeOK
  <1> QED BY <1>1, EndKeeps

LEMMA StepKeeps ==
  ASSUME UpdateInv, NEW p \in Procs, Step(p)
  PROVE  UpdateInv'
  BY LockKeeps, CommandKeeps, SaveKeeps, StageKeeps, VerifyKeeps, ReplaceKeeps,
     CommitRollbackKeeps, WriteTrustKeeps, CheckpointKeeps, RemoveStagedKeeps,
     RemoveJournalKeeps, ResumeKeeps, RejectKeeps, TurnKeeps, BackKeeps, BackInstallKeeps,
     StopKeeps DEF Step

LEMMA UpdateNextKeeps == UpdateInv /\ [UpdateNext]_updateVars => UpdateInv'
  <1> SUFFICES ASSUME UpdateInv, [UpdateNext]_updateVars PROVE UpdateInv'
    OBVIOUS
  <1>1. CASE UpdateNext
    BY <1>1, StartKeeps, StartOtherKeeps, StepKeeps, StopKeeps DEF UpdateNext
  <1>2. CASE UNCHANGED updateVars
    BY <1>2 DEF updateVars, updateFiles, UpdateInv, UpdateTypes, UpdateTypeOK, OneHolder,
       Recorded, Holder, WorkerKnows, Tx
  <1> QED BY <1>1, <1>2

(* SelfUpdate: the invariant holds always.                                    *)
THEOREM UpdateInvariant == UpdateSpec => []UpdateInv
  <1>1. UpdateConstants /\ UpdateInit => UpdateInv
    BY UpdateInitHolds
  <1> QED BY UpdateAssumed, UpdateInitHolds, UpdateNextKeeps, PTL DEF UpdateSpec

(* controller/self_update.rs: the files, the journal and the processes keep   *)
(* their types.                                                               *)
THEOREM UpdateTyped == UpdateSpec => []UpdateTypeOK
  <1>1. UpdateInv => UpdateTypeOK
    BY DEF UpdateInv, UpdateTypes
  <1> QED BY <1>1, UpdateInvariant, PTL

(* write_controller_trust, commit_controller_rollback_state: without a        *)
(* journal the anti-downgrade floor is the installed release, the rollback    *)
(* record has its artifact, and no candidate is left behind, whichever step   *)
(* of whichever replacement was killed or failed.                             *)
THEOREM RecordsAgree == UpdateSpec => []RestAgrees
  <1>1. UpdateInv => RestAgrees
    BY DEF UpdateInv, Recorded, RestAgrees
  <1> QED BY <1>1, UpdateInvariant, PTL

=============================================================================
